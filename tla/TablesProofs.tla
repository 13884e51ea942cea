---------------------------- MODULE TablesProofs ----------------------------
(***************************************************************************)
(* Tables implements WasmTables, for every number of tables and memories   *)
(* of any size, as long as the scan of a body finds what the body needs    *)
(* (Prepared).  Which bytes make up an entry is arithmetic: entry i is the *)
(* PtrSize bytes from i * PtrSize, entries do not overlap, and the bytes   *)
(* of no other table and of no memory are among them.                      *)
(***************************************************************************)
EXTENDS Tables, TLAPS

AllBodies == Bodies \cup {Code[r] : r \in DOMAIN Code}

(* A body that copies or fills table 0 also has one of the instructions    *)
(* that the scan looks for.                                                *)
Prepared ==
  \A body \in AllBodies : <<"copy", 0>> \in body \/ <<"fill", 0>> \in body => Marked(body)

FrameOf(body) ==
  [body |-> body, entries |-> IF Marked(body) THEN Layout.tabs[0].entries ELSE Unset]
Frame == {FrameOf(body) : body \in AllBodies}

(* The structures stay where they are, and a frame has what its body was   *)
(* given when it was entered.                                              *)
Placed == tabs = Layout.tabs /\ mems = Layout.mems
Inv ==
  /\ Placed
  /\ heap \in [Address -> Byte]
  /\ frames \in Seq(Frame)

Base(t) == Layout.tabs[t].entries
Size(t) == Layout.tabs[t].size
From(m) == Layout.mems[m].bytes
Length(m) == Layout.mems[m].size
Offset == 0 .. PtrSize - 1
At(t, i) == Base(t) + i * PtrSize

(* RefAt in any heap.                                                      *)
RefIn(h, a) ==
  IF \E v \in Refs : \A k \in Offset : a + k \in Address /\ h[a + k] = <<v, k>>
  THEN h[a][1] ELSE Junk

-----------------------------------------------------------------------------
(* Arithmetic.                                                             *)

LEMMA Multiples ==
  ASSUME NEW i \in Nat, NEW j \in Nat
  PROVE  /\ i * PtrSize \in Nat
         /\ (i + j) * PtrSize = i * PtrSize + j * PtrSize
         /\ i <= j => i * PtrSize <= j * PtrSize
         /\ i < j => i * PtrSize + PtrSize <= j * PtrSize
<1>1. PtrSize \in Nat /\ PtrSize > 0  BY TablesAssumption
<1>2. i * PtrSize \in Nat /\ (i + j) * PtrSize = i * PtrSize + j * PtrSize  BY <1>1
<1>3. i <= j => i * PtrSize <= j * PtrSize  BY <1>1
<1>4. i < j => i * PtrSize + PtrSize <= j * PtrSize
  <2>1. (i + 1) * PtrSize = i * PtrSize + PtrSize  BY <1>1
  <2>2. i < j => (i + 1) * PtrSize <= j * PtrSize  BY <1>1
  <2>3. QED  BY <2>1, <2>2
<1> QED  BY <1>2, <1>3, <1>4

LEMMA Remainder ==
  ASSUME NEW i \in Nat, NEW k \in Offset
  PROVE  (i * PtrSize + k) % PtrSize = k
<1>1. PtrSize \in Nat /\ PtrSize > 0 /\ k \in Nat /\ k < PtrSize
  BY TablesAssumption DEF Offset
<1> DEFINE a == i * PtrSize + k
           q == a \div PtrSize
           r == a % PtrSize
<1>2. a \in Nat  BY <1>1, Multiples
<1>3. q \in Nat /\ r \in Nat /\ r < PtrSize /\ a = q * PtrSize + r
  BY <1>1, <1>2
<1>4. i * PtrSize \in Nat /\ q * PtrSize \in Nat  BY <1>3, Multiples
<1>5. ~(q < i)
  <2>1. q < i => q * PtrSize + PtrSize <= i * PtrSize  BY <1>3, Multiples
  <2>2. QED  BY <1>1, <1>3, <1>4, <2>1
<1>6. ~(i < q)
  <2>1. i < q => i * PtrSize + PtrSize <= q * PtrSize  BY <1>3, Multiples
  <2>2. QED  BY <1>1, <1>3, <1>4, <2>1
<1>7. q = i  BY <1>3, <1>5, <1>6
<1> HIDE DEF q, r
<1>8. r = k  BY <1>1, <1>3, <1>4, <1>7
<1> QED  BY <1>8 DEF r

(* The bytes of entry i, among those of a run of entries.                  *)
LEMMA InRun ==
  ASSUME NEW base \in Int, NEW first \in Nat, NEW n \in Nat, NEW i \in Nat, NEW k \in Offset
  PROVE  /\ base + i * PtrSize + k \in Area(base + first * PtrSize, n, PtrSize)
              <=> i \in first .. first + n - 1
         /\ i \in first .. first + n - 1 =>
              /\ i - first \in Nat
              /\ (base + i * PtrSize + k) - (base + first * PtrSize)
                   = (i - first) * PtrSize + k
<1>1. PtrSize \in Nat /\ PtrSize > 0 /\ k \in Nat /\ k < PtrSize
  BY TablesAssumption DEF Offset
<1> DEFINE fP == first * PtrSize
           iP == i * PtrSize
           nP == n * PtrSize
<1>2. fP \in Nat /\ iP \in Nat /\ nP \in Nat  BY Multiples
<1>3. (first + n) * PtrSize = fP + nP  BY Multiples
<1>4. CASE i < first
  <2>1. iP + PtrSize <= fP  BY <1>4, Multiples
  <2> HIDE DEF fP, iP, nP
  <2>2. ~(base + iP + k \in base + fP .. base + fP + nP - 1)  BY <1>1, <1>2, <2>1
  <2>3. QED  BY <1>4, <2>2 DEF Area, fP, iP, nP
<1>5. CASE i >= first + n
  <2>1. fP + nP <= iP
    <3>1. first + n \in Nat /\ first + n <= i  BY <1>5
    <3>2. (first + n) * PtrSize <= i * PtrSize  BY <3>1, Multiples
    <3>3. QED  BY <1>3, <3>2
  <2> HIDE DEF fP, iP, nP
  <2>2. ~(base + iP + k \in base + fP .. base + fP + nP - 1)  BY <1>1, <1>2, <2>1
  <2>3. QED  BY <1>5, <2>2 DEF Area, fP, iP, nP
<1>6. CASE i \in first .. first + n - 1
  <2>1. i - first \in Nat /\ i = first + (i - first)  BY <1>6
  <2>2. iP = fP + (i - first) * PtrSize  BY <2>1, Multiples
  <2>3. fP <= iP  BY <1>6, Multiples
  <2>4. iP + PtrSize <= fP + nP  BY <1>3, <1>6, Multiples
  <2>5. (i - first) * PtrSize \in Nat  BY <2>1, Multiples
  <2> HIDE DEF fP, iP, nP
  <2>6. base + iP + k \in base + fP .. base + fP + nP - 1  BY <1>1, <1>2, <2>3, <2>4
  <2>7. (base + iP + k) - (base + fP) = (i - first) * PtrSize + k
    BY <1>1, <1>2, <2>2, <2>5
  <2>8. QED  BY <1>6, <2>1, <2>6, <2>7 DEF Area, fP, iP, nP
<1> QED  BY <1>4, <1>5, <1>6

-----------------------------------------------------------------------------
(* The layout.                                                             *)

LEMMA Largest ==
  /\ CellsOfLargest \in Nat
  /\ \A t \in TableIndex : Size(t) \in Nat /\ Size(t) <= CellsOfLargest /\ Base(t) \in Nat
  /\ \A m \in MemoryIndex : Length(m) \in Nat /\ Length(m) <= CellsOfLargest /\ From(m) \in Nat
<1>1. CellsOfLargest \in Sizes /\ \A n \in Sizes : n <= CellsOfLargest
  BY LayoutAssumption DEF CellsOfLargest
<1>2. Layout.end \in Nat /\ Address \subseteq Nat  BY LayoutAssumption DEF Address
<1>3. \A t \in TableIndex : Size(t) \in Nat /\ Size(t) \in Sizes /\ Base(t) \in Nat
  BY <1>2, LayoutAssumption DEF Size, Sizes, Base
<1>4. \A m \in MemoryIndex : Length(m) \in Nat /\ Length(m) \in Sizes /\ From(m) \in Nat
  BY <1>2, LayoutAssumption DEF Length, Sizes, From
<1>5. Sizes \subseteq Nat  BY <1>3, <1>4 DEF Sizes, Size, Length
<1> QED  BY <1>1, <1>3, <1>4, <1>5

LEMMA Addresses ==
  ASSUME NEW t \in TableIndex, NEW i \in Nat
  PROVE  At(t, i) \in Nat
<1>1. Base(t) \in Nat /\ i * PtrSize \in Nat  BY Largest, Multiples
<1> QED  BY <1>1 DEF At

LEMMA InEntries ==
  ASSUME NEW t \in TableIndex, NEW d \in Nat, NEW n \in Nat, NEW i \in Nat, NEW k \in Offset
  PROVE  /\ At(t, i) + k \in Area(At(t, d), n, PtrSize) <=> i \in d .. d + n - 1
         /\ i \in d .. d + n - 1 => ((At(t, i) + k) - At(t, d)) % PtrSize = k
<1>1. Base(t) \in Int  BY Largest
<1>2. /\ Base(t) + i * PtrSize + k \in Area(Base(t) + d * PtrSize, n, PtrSize)
           <=> i \in d .. d + n - 1
      /\ i \in d .. d + n - 1 =>
           /\ i - d \in Nat
           /\ (Base(t) + i * PtrSize + k) - (Base(t) + d * PtrSize) = (i - d) * PtrSize + k
  BY <1>1, InRun
<1>3. i - d \in Nat => ((i - d) * PtrSize + k) % PtrSize = k  BY Remainder
<1> QED  BY <1>2, <1>3, Zenon DEF At

(* The byte that is copied to byte k of entry i.                           *)
LEMMA CopiedFrom ==
  ASSUME NEW dt \in TableIndex, NEW st \in TableIndex, NEW d \in Nat, NEW s \in Nat,
         NEW i \in Nat, i >= d, NEW k \in Offset
  PROVE  At(st, s) + ((At(dt, i) + k) - At(dt, d)) = At(st, s + i - d) + k
<1>1. Base(dt) \in Nat /\ Base(st) \in Nat /\ k \in Nat  BY Largest, TablesAssumption DEF Offset
<1>2. i - d \in Nat /\ i = d + (i - d) /\ s + i - d = s + (i - d)  OBVIOUS
<1> DEFINE dP == d * PtrSize
           sP == s * PtrSize
           iP == i * PtrSize
           jP == (i - d) * PtrSize
           tP == (s + i - d) * PtrSize
<1>3. dP \in Nat /\ sP \in Nat /\ jP \in Nat  BY <1>2, Multiples
<1> DEFINE j == i - d
<1>4. (d + j) * PtrSize = d * PtrSize + j * PtrSize
      /\ (s + j) * PtrSize = s * PtrSize + j * PtrSize
  <2>1. j \in Nat  BY <1>2
  <2> HIDE DEF j
  <2>2. QED  BY <2>1, Multiples
<1>5. iP = dP + jP /\ tP = sP + jP  BY <1>2, <1>4, Zenon
<1> HIDE DEF dP, sP, iP, jP, tP
<1>6. (Base(st) + sP) + (((Base(dt) + iP) + k) - (Base(dt) + dP)) = (Base(st) + tP) + k
  BY <1>1, <1>3, <1>5
<1> QED  BY <1>6, Zenon DEF At, dP, sP, iP, jP, tP

LEMMA EntryInside ==
  ASSUME NEW t \in TableIndex, NEW i \in Nat, i < Size(t), NEW k \in Offset
  PROVE  At(t, i) + k \in TableArea(t) \cap Address
<1>1. Base(t) \in Nat /\ Size(t) \in Nat  BY Largest
<1>2. i \in 0 .. 0 + Size(t) - 1 /\ At(t, 0) = Base(t)  BY <1>1, TablesAssumption DEF At
<1>3. At(t, i) + k \in Area(At(t, 0), Size(t), PtrSize)  BY <1>1, <1>2, InEntries
<1>4. At(t, i) + k \in TableArea(t)  BY <1>2, <1>3 DEF TableArea, Base, Size
<1> QED  BY <1>4, LayoutAssumption

LEMMA CellInside ==
  ASSUME NEW m \in MemoryIndex, NEW i \in Nat, i < Length(m)
  PROVE  From(m) + i \in MemoryArea(m) \cap Address
<1>1. From(m) \in Nat /\ Length(m) \in Nat  BY Largest
<1>2. From(m) + i \in MemoryArea(m)  BY <1>1 DEF MemoryArea, Area, From, Length
<1> QED  BY <1>2, LayoutAssumption

(* An area of n entries of a table, or of n bytes of a memory, is a part   *)
(* of it.                                                                  *)
LEMMA PartOfTable ==
  ASSUME NEW t \in TableIndex, NEW d \in Nat, NEW n \in Nat, d + n <= Size(t)
  PROVE  Area(At(t, d), n, PtrSize) \subseteq TableArea(t)
<1>1. Base(t) \in Nat /\ Size(t) \in Nat /\ PtrSize \in Nat  BY Largest, TablesAssumption
<1>2. /\ d * PtrSize \in Nat /\ n * PtrSize \in Nat /\ Size(t) * PtrSize \in Nat
      /\ d * PtrSize + n * PtrSize <= Size(t) * PtrSize
  <2>1. d + n \in Nat  OBVIOUS
  <2>2. (d + n) * PtrSize <= Size(t) * PtrSize  BY <1>1, <2>1, Multiples
  <2>3. (d + n) * PtrSize = d * PtrSize + n * PtrSize  BY Multiples
  <2>4. QED  BY <1>1, <2>2, <2>3, Multiples
<1> DEFINE dP == d * PtrSize
           nP == n * PtrSize
           sP == Size(t) * PtrSize
<1> HIDE DEF dP, nP, sP
<1>3. Base(t) + dP .. Base(t) + dP + nP - 1 \subseteq Base(t) .. Base(t) + sP - 1
  BY <1>1, <1>2 DEF dP, nP, sP
<1> QED  BY <1>3 DEF At, Area, TableArea, Base, Size, dP, nP, sP

LEMMA PartOfMemory ==
  ASSUME NEW m \in MemoryIndex, NEW d \in Nat, NEW n \in Nat, d + n <= Length(m)
  PROVE  Area(From(m) + d, n, 1) \subseteq MemoryArea(m)
BY Largest DEF Area, MemoryArea, From, Length

-----------------------------------------------------------------------------
(* References in the heap.                                                 *)

LEMMA RefOfBytes ==
  ASSUME NEW h, NEW a, a \in Int, NEW v \in Refs,
         \A k \in Offset : a + k \in Address /\ h[a + k] = <<v, k>>
  PROVE  RefIn(h, a) = v
<1>1. 0 \in Offset /\ a + 0 = a  BY TablesAssumption DEF Offset
<1>2. h[a] = <<v, 0>>  BY <1>1
<1> QED  BY <1>2 DEF RefIn

LEMMA RefOfSameBytes ==
  ASSUME NEW h, NEW g, NEW a \in Int, NEW b \in Int,
         \A k \in Offset : a + k \in Address /\ b + k \in Address /\ g[b + k] = h[a + k]
  PROVE  RefIn(g, b) = RefIn(h, a)
<1>1. 0 \in Offset /\ a + 0 = a /\ b + 0 = b  BY TablesAssumption DEF Offset
<1>2. g[b] = h[a]  BY <1>1
<1> QED  BY <1>2 DEF RefIn

(* The refinement mapping, where the structures are those of the layout.   *)
EntriesIn(h) ==
  [t \in TableIndex |-> [i \in 0 .. Size(t) - 1 |-> RefIn(h, At(t, i))]]
ContentsIn(h) == [m \in MemoryIndex |-> [i \in 0 .. Length(m) - 1 |-> h[From(m) + i][1]]]

LEMMA Mapping ==
  /\ Placed => Entries = EntriesIn(heap) /\ Contents = ContentsIn(heap)
  /\ Placed' => Entries' = EntriesIn(heap') /\ Contents' = ContentsIn(heap')
<1>1. Placed => Entries = EntriesIn(heap) /\ Contents = ContentsIn(heap)
  BY DEF Placed, Entries, Contents, EntriesIn, ContentsIn, Size, Base, At, Length, From,
         RefIn, RefAt, Offset
<1>2. Placed' => Entries' = EntriesIn(heap') /\ Contents' = ContentsIn(heap')
  BY DEF Placed, Entries, Contents, EntriesIn, ContentsIn, Size, Base, At, Length, From,
         RefIn, RefAt, Offset
<1> QED  BY <1>1, <1>2

LEMMA SizeOfRun ==
  ASSUME NEW n \in Nat, n <= CellsOfLargest, NEW area, DOMAIN area = 0 .. n - 1
  PROVE  Wasm!Size(area) = n
<1>1. n \in 0 .. CellsOfLargest  BY Largest
<1>2. \A one \in 0 .. CellsOfLargest : 0 .. one - 1 = 0 .. n - 1 => one = n
  <2>1. SUFFICES ASSUME NEW one \in Nat, 0 .. one - 1 = 0 .. n - 1 PROVE one = n
    BY Largest
  <2>2. ~(one < n)
    <3>1. one < n => one \in 0 .. n - 1  OBVIOUS
    <3>2. ~(one \in 0 .. one - 1)  OBVIOUS
    <3>3. QED  BY <2>1, <3>1, <3>2
  <2>3. ~(n < one)
    <3>1. n < one => n \in 0 .. one - 1  OBVIOUS
    <3>2. ~(n \in 0 .. n - 1)  OBVIOUS
    <3>3. QED  BY <2>1, <3>1, <3>2
  <2>4. QED  BY <2>2, <2>3
<1> QED  BY <1>1, <1>2 DEF Wasm!Size

LEMMA MappedSizes ==
  ASSUME Placed
  PROVE  /\ \A t \in TableIndex : Wasm!Size(Entries[t]) = Size(t) /\ DOMAIN Entries[t] = 0 .. Size(t) - 1
         /\ \A m \in MemoryIndex : Wasm!Size(Contents[m]) = Length(m) /\ DOMAIN Contents[m] = 0 .. Length(m) - 1
<1>1. \A t \in TableIndex : DOMAIN Entries[t] = 0 .. Size(t) - 1  BY Mapping DEF EntriesIn
<1>2. \A m \in MemoryIndex : DOMAIN Contents[m] = 0 .. Length(m) - 1  BY Mapping DEF ContentsIn
<1> QED  BY <1>1, <1>2, SizeOfRun, Largest

-----------------------------------------------------------------------------
(* A step that writes to the addresses in S changes only the tables and    *)
(* memories that have some of them.                                        *)

Elsewhere(S) == \A a \in Address \ S : heap'[a] = heap[a]

LEMMA TableElsewhere ==
  ASSUME NEW S, Elsewhere(S), NEW t \in TableIndex, TableArea(t) \cap S = {}
  PROVE  \A i \in 0 .. Size(t) - 1 :
           RefIn(heap', At(t, i)) = RefIn(heap, At(t, i))
<1>1. SUFFICES ASSUME NEW i \in 0 .. Size(t) - 1
               PROVE  RefIn(heap', At(t, i)) = RefIn(heap, At(t, i))
  OBVIOUS
<1>2. i \in Nat /\ i < Size(t) /\ At(t, i) \in Int  BY Largest, Addresses
<1>3. \A k \in Offset : At(t, i) + k \in TableArea(t) \cap Address
  BY <1>2, EntryInside
<1>4. \A k \in Offset : heap'[At(t, i) + k] = heap[At(t, i) + k]
  BY <1>3 DEF Elsewhere
<1> QED  BY <1>2, <1>3, <1>4, RefOfSameBytes

LEMMA MemoryElsewhere ==
  ASSUME NEW S, Elsewhere(S), NEW m \in MemoryIndex, MemoryArea(m) \cap S = {}
  PROVE  \A i \in 0 .. Length(m) - 1 : heap'[From(m) + i] = heap[From(m) + i]
<1>1. SUFFICES ASSUME NEW i \in 0 .. Length(m) - 1 PROVE heap'[From(m) + i] = heap[From(m) + i]
  OBVIOUS
<1>2. i \in Nat /\ i < Length(m)  BY Largest
<1>3. From(m) + i \in MemoryArea(m) \cap Address  BY <1>2, CellInside
<1> QED  BY <1>3 DEF Elsewhere

LEMMA OneTable ==
  ASSUME Placed, Placed', NEW t \in TableIndex, NEW S, S \subseteq TableArea(t), Elsewhere(S),
         NEW new, new = [i \in 0 .. Size(t) - 1 |-> RefIn(heap', At(t, i))]
  PROVE  Entries' = [Entries EXCEPT ![t] = new] /\ Contents' = Contents
<1>1. \A u \in TableIndex \ {t} : TableArea(u) \cap S = {}  BY LayoutAssumption
<1>2. \A m \in MemoryIndex : MemoryArea(m) \cap S = {}  BY LayoutAssumption
<1>3. \A u \in TableIndex \ {t} : EntriesIn(heap')[u] = EntriesIn(heap)[u]
  BY <1>1, TableElsewhere DEF EntriesIn
<1>4. EntriesIn(heap')[t] = new  BY DEF EntriesIn
<1>5. \A m \in MemoryIndex : ContentsIn(heap')[m] = ContentsIn(heap)[m]
  BY <1>2, MemoryElsewhere DEF ContentsIn
<1>6. EntriesIn(heap') = [EntriesIn(heap) EXCEPT ![t] = new]  BY <1>3, <1>4 DEF EntriesIn
<1>7. ContentsIn(heap') = ContentsIn(heap)  BY <1>5 DEF ContentsIn
<1> QED  BY <1>6, <1>7, Mapping

LEMMA OneMemory ==
  ASSUME Placed, Placed', NEW m \in MemoryIndex, NEW S, S \subseteq MemoryArea(m), Elsewhere(S),
         NEW new, new = [i \in 0 .. Length(m) - 1 |-> heap'[From(m) + i][1]]
  PROVE  Contents' = [Contents EXCEPT ![m] = new] /\ Entries' = Entries
<1>1. \A u \in MemoryIndex \ {m} : MemoryArea(u) \cap S = {}  BY LayoutAssumption
<1>2. \A t \in TableIndex : TableArea(t) \cap S = {}  BY LayoutAssumption
<1>3. \A u \in MemoryIndex \ {m} : ContentsIn(heap')[u] = ContentsIn(heap)[u]
  BY <1>1, MemoryElsewhere DEF ContentsIn
<1>4. ContentsIn(heap')[m] = new  BY DEF ContentsIn
<1>5. \A t \in TableIndex : EntriesIn(heap')[t] = EntriesIn(heap)[t]
  BY <1>2, TableElsewhere DEF EntriesIn
<1>6. ContentsIn(heap') = [ContentsIn(heap) EXCEPT ![m] = new]  BY <1>3, <1>4 DEF ContentsIn
<1>7. EntriesIn(heap') = EntriesIn(heap)  BY <1>5 DEF EntriesIn
<1> QED  BY <1>6, <1>7, Mapping

-----------------------------------------------------------------------------
(* The two C functions.                                                    *)

LEMMA FillTable ==
  ASSUME Inv, Placed', NEW t \in TableIndex, NEW d \in Nat, NEW n \in Nat, d + n <= Size(t),
         NEW v \in Refs, heap' = memoryfill(At(t, d), 0, n, v, TRUE)
  PROVE  /\ heap' \in [Address -> Byte]
         /\ Entries' = [Entries EXCEPT ![t] = Wasm!Filled(@, d, v, n)] /\ Contents' = Contents
<1> DEFINE first == At(t, d)
           S == Area(first, n, PtrSize)
           new == Wasm!Filled(Entries[t], d, v, n)
<1>1. first \in Nat /\ Size(t) \in Nat  BY Largest, Addresses
<1>2. heap' = [a \in Address |-> IF a \in S THEN <<v, (a - first) % PtrSize>> ELSE heap[a]]
  BY DEF memoryfill
<1>3. S \subseteq TableArea(t)  BY PartOfTable
<1>4. heap' \in [Address -> Byte]
  <2>1. ASSUME NEW a \in Address PROVE <<v, (a - first) % PtrSize>> \in Byte
    <3>1. a - first \in Int /\ PtrSize \in Nat \ {0}
      BY <1>1, TablesAssumption, LayoutAssumption DEF Address
    <3>2. (a - first) % PtrSize \in 0 .. PtrSize - 1  BY <3>1
    <3>3. QED  BY <3>2 DEF Byte
  <2> HIDE DEF S, first
  <2>2. QED  BY <1>2, <2>1 DEF Inv
<1>5. Elsewhere(S)  BY <1>2 DEF Elsewhere
<1>6. ASSUME NEW i \in 0 .. Size(t) - 1
      PROVE  RefIn(heap', At(t, i))
               = IF i \in d .. d + n - 1 THEN v ELSE RefIn(heap, At(t, i))
  <2>1. i \in Nat /\ i < Size(t) /\ At(t, i) \in Int  BY <1>1, Addresses
  <2>2. \A k \in Offset : At(t, i) + k \in Address  BY <2>1, EntryInside
  <2>3. CASE i \in d .. d + n - 1
    <3>1. ASSUME NEW k \in Offset PROVE heap'[At(t, i) + k] = <<v, k>>
      <4>1. At(t, i) + k \in S /\ ((At(t, i) + k) - first) % PtrSize = k
        BY <2>1, <2>3, InEntries
      <4>2. QED  BY <1>2, <2>2, <4>1
    <3>2. QED  BY <2>1, <2>2, <2>3, <3>1, RefOfBytes
  <2>4. CASE i \notin d .. d + n - 1
    <3>1. \A k \in Offset : At(t, i) + k \notin S  BY <2>1, <2>4, InEntries
    <3>2. \A k \in Offset : heap'[At(t, i) + k] = heap[At(t, i) + k]
      BY <1>5, <2>2, <3>1 DEF Elsewhere
    <3>3. QED  BY <2>1, <2>2, <2>4, <3>2, RefOfSameBytes
  <2>5. QED  BY <2>3, <2>4
<1>7. new = [i \in 0 .. Size(t) - 1 |-> RefIn(heap', At(t, i))]
  <2>1. Entries[t] = [i \in 0 .. Size(t) - 1 |-> RefIn(heap, At(t, i))]
    BY Mapping DEF Inv, EntriesIn
  <2>2. new = [i \in 0 .. Size(t) - 1 |->
                 IF i \in d .. d + n - 1 THEN v ELSE RefIn(heap, At(t, i))]
    BY <2>1 DEF Wasm!Filled
  <2>3. QED  BY <1>6, <2>2
<1> HIDE DEF new, S, first
<1>8. Entries' = [Entries EXCEPT ![t] = new] /\ Contents' = Contents
  BY <1>3, <1>5, <1>7, OneTable DEF Inv
<1> QED  BY <1>4, <1>8 DEF new

LEMMA FillMemory ==
  ASSUME Inv, Placed', NEW m \in MemoryIndex, NEW d \in Nat, NEW n \in Nat, d + n <= Length(m),
         NEW val \in Numbers, heap' = memoryfill(From(m) + d, val, n, 0, FALSE)
  PROVE  /\ heap' \in [Address -> Byte]
         /\ Contents' = [Contents EXCEPT ![m] = Wasm!Filled(@, d, val % ByteRange, n)]
         /\ Entries' = Entries
<1> DEFINE v == val % ByteRange
           S == Area(From(m) + d, n, 1)
           new == Wasm!Filled(Contents[m], d, v, n)
<1>1. From(m) \in Nat /\ Length(m) \in Nat /\ v \in 0 .. ByteRange - 1
  BY Largest, TablesAssumption
<1> HIDE DEF v
<1>2. heap' = [a \in Address |-> IF a \in S THEN <<v, 0>> ELSE heap[a]]  BY DEF memoryfill, v
<1>3. S \subseteq MemoryArea(m)  BY PartOfMemory
<1>4. heap' \in [Address -> Byte]
  <2>1. <<v, 0>> \in Byte  BY <1>1 DEF Byte
  <2>2. QED  BY <1>2, <2>1 DEF Inv
<1>5. Elsewhere(S)  BY <1>2 DEF Elsewhere
<1>6. ASSUME NEW i \in 0 .. Length(m) - 1
      PROVE  heap'[From(m) + i][1] = IF i \in d .. d + n - 1 THEN v ELSE heap[From(m) + i][1]
  <2>1. i \in Nat /\ i < Length(m)  BY <1>1
  <2>2. From(m) + i \in Address  BY <2>1, CellInside
  <2>3. From(m) + i \in S <=> i \in d .. d + n - 1  BY <1>1, <2>1 DEF Area
  <2> HIDE DEF S
  <2>4. heap'[From(m) + i] = IF i \in d .. d + n - 1 THEN <<v, 0>> ELSE heap[From(m) + i]
    BY <1>2, <2>2, <2>3
  <2>5. <<v, 0>>[1] = v  OBVIOUS
  <2>6. CASE i \in d .. d + n - 1
    <3>1. heap'[From(m) + i] = <<v, 0>>  BY <2>4, <2>6
    <3>2. QED  BY <2>5, <2>6, <3>1, Zenon
  <2>7. CASE i \notin d .. d + n - 1
    <3>1. heap'[From(m) + i] = heap[From(m) + i]  BY <2>4, <2>7
    <3>2. QED  BY <2>7, <3>1, Zenon
  <2>8. QED  BY <2>6, <2>7
<1>7. new = [i \in 0 .. Length(m) - 1 |-> heap'[From(m) + i][1]]
  <2>1. Contents[m] = [i \in 0 .. Length(m) - 1 |-> heap[From(m) + i][1]]
    BY Mapping DEF Inv, ContentsIn
  <2>2. new = [i \in 0 .. Length(m) - 1 |->
                 IF i \in d .. d + n - 1 THEN v ELSE heap[From(m) + i][1]]
    BY <2>1 DEF Wasm!Filled
  <2>3. QED  BY <1>6, <2>2
<1> HIDE DEF new, S
<1>8. Contents' = [Contents EXCEPT ![m] = new] /\ Entries' = Entries
  BY <1>3, <1>5, <1>7, OneMemory DEF Inv
<1> QED  BY <1>4, <1>8 DEF new, v

LEMMA CopyTable ==
  ASSUME Inv, Placed', NEW dt \in TableIndex, NEW st \in TableIndex,
         NEW d \in Nat, NEW s \in Nat, NEW n \in Nat, d + n <= Size(dt), s + n <= Size(st),
         heap' = copy_bytes(At(dt, d), At(st, s), n * PtrSize)
  PROVE  /\ heap' \in [Address -> Byte]
         /\ Entries' = [Entries EXCEPT ![dt] = Wasm!Copied(@, Entries[st], d, s, n)]
         /\ Contents' = Contents
<1> DEFINE first == At(dt, d)
           from == At(st, s)
           S == Area(first, n, PtrSize)
           new == Wasm!Copied(Entries[dt], Entries[st], d, s, n)
<1>1. first \in Nat /\ Size(dt) \in Nat /\ from \in Nat /\ Size(st) \in Nat
  BY Largest, Addresses
<1>2. heap' = [a \in Address |->
                 IF a \in S /\ from + (a - first) \in Address THEN heap[from + (a - first)]
                 ELSE heap[a]]
  <2>1. Area(first, n * PtrSize, 1) = S
    <3>1. n * PtrSize \in Nat  BY Multiples
    <3>2. (n * PtrSize) * 1 = n * PtrSize  BY <3>1
    <3>3. QED  BY <3>2, Zenon DEF Area
  <2>2. QED  BY <2>1 DEF copy_bytes
<1>3. S \subseteq TableArea(dt)  BY PartOfTable
<1>4. heap' \in [Address -> Byte]  BY <1>2 DEF Inv
<1>5. Elsewhere(S)  BY <1>2 DEF Elsewhere
<1>6. ASSUME NEW i \in 0 .. Size(dt) - 1
      PROVE  RefIn(heap', At(dt, i))
               = IF i \in d .. d + n - 1 THEN RefIn(heap, At(st, s + i - d))
                 ELSE RefIn(heap, At(dt, i))
  <2>1. i \in Nat /\ i < Size(dt) /\ At(dt, i) \in Int  BY <1>1, Addresses
  <2>2. \A k \in Offset : At(dt, i) + k \in Address  BY <2>1, EntryInside
  <2>3. CASE i \in d .. d + n - 1
    <3>1. s + i - d \in Nat /\ s + i - d < Size(st) /\ i >= d  BY <1>1, <2>3
    <3>2. \A k \in Offset : At(st, s + i - d) + k \in Address  BY <3>1, EntryInside
    <3>3. ASSUME NEW k \in Offset
          PROVE  heap'[At(dt, i) + k] = heap[At(st, s + i - d) + k]
      <4>1. At(dt, i) + k \in S  BY <2>1, <2>3, InEntries
      <4>2. from + ((At(dt, i) + k) - first) = At(st, s + i - d) + k
        BY <2>1, <3>1, CopiedFrom
      <4>3. QED  BY <1>2, <2>2, <3>2, <4>1, <4>2
    <3>4. At(st, s + i - d) \in Int  BY <3>1, Addresses
    <3>5. QED  BY <2>1, <2>2, <2>3, <3>2, <3>3, <3>4, RefOfSameBytes
  <2>4. CASE i \notin d .. d + n - 1
    <3>1. \A k \in Offset : At(dt, i) + k \notin S  BY <2>1, <2>4, InEntries
    <3>2. \A k \in Offset : heap'[At(dt, i) + k] = heap[At(dt, i) + k]
      BY <1>5, <2>2, <3>1 DEF Elsewhere
    <3>3. QED  BY <2>1, <2>2, <2>4, <3>2, RefOfSameBytes
  <2>5. QED  BY <2>3, <2>4
<1>7. new = [i \in 0 .. Size(dt) - 1 |-> RefIn(heap', At(dt, i))]
  <2>1. /\ Entries[dt] = [i \in 0 .. Size(dt) - 1 |-> RefIn(heap, At(dt, i))]
        /\ Entries[st] = [i \in 0 .. Size(st) - 1 |-> RefIn(heap, At(st, i))]
    BY Mapping DEF Inv, EntriesIn
  <2>2. \A i \in d .. d + n - 1 : s + i - d \in 0 .. Size(st) - 1  BY <1>1
  <2>3. new = [i \in 0 .. Size(dt) - 1 |->
                 IF i \in d .. d + n - 1 THEN RefIn(heap, At(st, s + i - d))
                 ELSE RefIn(heap, At(dt, i))]
    BY <2>1, <2>2 DEF Wasm!Copied
  <2>4. QED  BY <1>6, <2>3
<1> HIDE DEF new, S, first, from
<1>8. Entries' = [Entries EXCEPT ![dt] = new] /\ Contents' = Contents
  BY <1>3, <1>5, <1>7, OneTable DEF Inv
<1> QED  BY <1>4, <1>8 DEF new

LEMMA CopyMemory ==
  ASSUME Inv, Placed', NEW dm \in MemoryIndex, NEW sm \in MemoryIndex,
         NEW d \in Nat, NEW s \in Nat, NEW n \in Nat, d + n <= Length(dm), s + n <= Length(sm),
         heap' = copy_bytes(From(dm) + d, From(sm) + s, n)
  PROVE  /\ heap' \in [Address -> Byte]
         /\ Contents' = [Contents EXCEPT ![dm] = Wasm!Copied(@, Contents[sm], d, s, n)]
         /\ Entries' = Entries
<1> DEFINE S == Area(From(dm) + d, n, 1)
           new == Wasm!Copied(Contents[dm], Contents[sm], d, s, n)
<1>1. From(dm) \in Nat /\ Length(dm) \in Nat /\ From(sm) \in Nat /\ Length(sm) \in Nat
  BY Largest
<1>2. heap' = [a \in Address |->
                 IF a \in S /\ From(sm) + s + (a - (From(dm) + d)) \in Address
                 THEN heap[From(sm) + s + (a - (From(dm) + d))] ELSE heap[a]]
  BY DEF copy_bytes
<1>3. S \subseteq MemoryArea(dm)  BY PartOfMemory
<1>4. heap' \in [Address -> Byte]  BY <1>2 DEF Inv
<1>5. Elsewhere(S)  BY <1>2 DEF Elsewhere
<1>6. ASSUME NEW i \in 0 .. Length(dm) - 1
      PROVE  heap'[From(dm) + i] = IF i \in d .. d + n - 1 THEN heap[From(sm) + (s + i - d)]
                                   ELSE heap[From(dm) + i]
  <2>1. i \in Nat /\ i < Length(dm)  BY <1>1
  <2>2. From(dm) + i \in Address  BY <2>1, CellInside
  <2>3. From(dm) + i \in S <=> i \in d .. d + n - 1  BY <1>1, <2>1 DEF Area
  <2>4. CASE i \in d .. d + n - 1
    <3>1. s + i - d \in Nat /\ s + i - d < Length(sm)  BY <1>1, <2>4
    <3>2. From(sm) + (s + i - d) \in Address  BY <3>1, CellInside
    <3>3. From(sm) + s + ((From(dm) + i) - (From(dm) + d)) = From(sm) + (s + i - d)
      BY <1>1, <2>1
    <3>4. QED  BY <1>2, <2>2, <2>3, <2>4, <3>2, <3>3
  <2>5. CASE i \notin d .. d + n - 1  BY <1>2, <2>2, <2>3, <2>5
  <2>6. QED  BY <2>4, <2>5
<1>7. new = [i \in 0 .. Length(dm) - 1 |-> heap'[From(dm) + i][1]]
  <2>1. /\ Contents[dm] = [i \in 0 .. Length(dm) - 1 |-> heap[From(dm) + i][1]]
        /\ Contents[sm] = [i \in 0 .. Length(sm) - 1 |-> heap[From(sm) + i][1]]
    BY Mapping DEF Inv, ContentsIn
  <2>2. \A i \in d .. d + n - 1 : s + i - d \in 0 .. Length(sm) - 1  BY <1>1
  <2>3. new = [i \in 0 .. Length(dm) - 1 |->
                 IF i \in d .. d + n - 1 THEN heap[From(sm) + (s + i - d)][1]
                 ELSE heap[From(dm) + i][1]]
    BY <2>1, <2>2 DEF Wasm!Copied
  <2>4. QED  BY <1>6, <2>3
<1> HIDE DEF new, S
<1>8. Contents' = [Contents EXCEPT ![dm] = new] /\ Entries' = Entries
  BY <1>3, <1>5, <1>7, OneMemory DEF Inv
<1> QED  BY <1>4, <1>8 DEF new

-----------------------------------------------------------------------------
(* Functions.                                                              *)

LEMMA Frames ==
  ASSUME Inv, frames # <<>>
  PROVE  /\ Top \in Frame
         /\ SubSeq(frames, 1, Len(frames) - 1) \in Seq(Frame)
<1>1. frames \in Seq(Frame) /\ Len(frames) \in Nat /\ Len(frames) > 0  BY DEF Inv
<1> QED  BY <1>1 DEF Top

(* The address that an instruction computes is that of the entry.          *)
LEMMA Addressed ==
  ASSUME Prepared, Inv, NEW t \in TableIndex, NEW i \in Nat,
         NEW op \in {"call_indirect", "get", "set", "copy", "fill"}, Uses(op, t)
  PROVE  EntryAddress(t, i) = At(t, i)
<1>1. PICK body \in AllBodies : Top = FrameOf(body)  BY Frames DEF Uses, Frame
<1>2. <<op, t>> \in body  BY <1>1 DEF Uses, FrameOf
<1>3. t = 0 => Marked(body)  BY <1>2 DEF Prepared, Marked
<1>4. t = 0 => Top.entries = Layout.tabs[0].entries  BY <1>1, <1>3 DEF FrameOf
<1>5. EntriesOf(t) = Base(t)  BY <1>4 DEF EntriesOf, Base, Inv, Placed
<1> QED  BY <1>5 DEF EntryAddress, At

LEMMA EnteredFrame ==
  ASSUME Inv, NEW body \in AllBodies
  PROVE  Entered(body) \in Frame
BY DEF Inv, Placed, Entered, FrameOf, Frame

LEMMA InCounts ==
  ASSUME NEW n \in Nat, n <= CellsOfLargest
  PROVE  n \in Wasm!Counts
BY Largest DEF Wasm!Counts

LEMMA InitInv == Init => Inv /\ Wasm!Init
<1> SUFFICES ASSUME Init PROVE Inv /\ Wasm!Init  OBVIOUS
<1>1. Placed  BY DEF Init, Placed
<1>2. heap \in [Address -> Byte]
  <2>1. ASSUME NEW a \in Address PROVE <<0, a % PtrSize>> \in Byte
    <3>1. a \in Int  BY DEF Address
    <3>2. a % PtrSize \in 0 .. PtrSize - 1  BY <3>1, TablesAssumption
    <3>3. QED  BY <3>2, TablesAssumption DEF Byte
  <2>2. <<0, 0>> \in Byte  BY TablesAssumption DEF Byte
  <2>3. QED  BY <2>1, <2>2 DEF Init
<1>3. frames \in Seq(Frame)  BY DEF Init
<1>4. Wasm!Init  BY DEF Init, Wasm!Init
<1> QED  BY <1>1, <1>2, <1>3, <1>4 DEF Inv

-----------------------------------------------------------------------------
(* One lemma for each operation.                                           *)

LEMMA SetStep ==
  ASSUME Prepared, Inv, NEW t \in TableIndex, NEW i \in Nat, NEW v \in Refs, TableSet(t, i, v)
  PROVE  Inv' /\ Wasm!Fill
<1>1. Placed' /\ frames' = frames /\ i < Size(t) /\ Uses("set", t)
      /\ heap' = memoryfill(EntryAddress(t, i), 0, 1, v, TRUE) /\ out' = <<"table.fill", v, 1>>
  BY DEF TableSet, Inv, Placed, Size
<1>2. EntryAddress(t, i) = At(t, i)  BY <1>1, Addressed
<1>3. Size(t) \in Nat /\ Size(t) <= CellsOfLargest /\ CellsOfLargest \in Nat /\ i + 1 <= Size(t)
  BY <1>1, Largest
<1>4. /\ heap' \in [Address -> Byte]
      /\ Entries' = [Entries EXCEPT ![t] = Wasm!Filled(@, i, v, 1)] /\ Contents' = Contents
  BY <1>1, <1>2, <1>3, FillTable
<1>5. i \in Wasm!Counts /\ 1 \in Wasm!Counts  BY <1>3 DEF Wasm!Counts
<1>6. Wasm!Inside(Entries[t], i, 1)  BY <1>3, MappedSizes DEF Inv, Wasm!Inside
<1>7. Wasm!Fill  BY <1>1, <1>4, <1>5, <1>6 DEF Wasm!Fill
<1> QED  BY <1>1, <1>4, <1>7 DEF Inv

LEMMA FillStep ==
  ASSUME Prepared, Inv, NEW t \in TableIndex, NEW d \in Nat, NEW n \in Nat, NEW v \in Refs,
         TableFill(t, d, v, n)
  PROVE  Inv' /\ Wasm!Fill
<1>1. Placed' /\ frames' = frames /\ d + n <= Size(t) /\ Uses("fill", t)
      /\ heap' = memoryfill(EntryAddress(t, d), 0, n, v, TRUE) /\ out' = <<"table.fill", v, n>>
  BY DEF TableFill, Inside, Inv, Placed, Size
<1>2. EntryAddress(t, d) = At(t, d)  BY <1>1, Addressed
<1>3. Size(t) \in Nat /\ Size(t) <= CellsOfLargest /\ CellsOfLargest \in Nat  BY Largest
<1>4. /\ heap' \in [Address -> Byte]
      /\ Entries' = [Entries EXCEPT ![t] = Wasm!Filled(@, d, v, n)] /\ Contents' = Contents
  BY <1>1, <1>2, FillTable
<1>5. d \in Wasm!Counts /\ n \in Wasm!Counts  BY <1>1, <1>3 DEF Wasm!Counts
<1>6. Wasm!Inside(Entries[t], d, n)  BY <1>1, MappedSizes DEF Inv, Wasm!Inside
<1>7. Wasm!Fill  BY <1>1, <1>4, <1>5, <1>6 DEF Wasm!Fill
<1> QED  BY <1>1, <1>4, <1>7 DEF Inv

LEMMA CopyStep ==
  ASSUME Prepared, Inv, NEW dt \in TableIndex, NEW st \in TableIndex,
         NEW d \in Nat, NEW s \in Nat, NEW n \in Nat, TableCopy(dt, st, d, s, n)
  PROVE  Inv' /\ Wasm!Copy
<1>1. /\ Placed' /\ frames' = frames /\ d + n <= Size(dt) /\ s + n <= Size(st)
      /\ Uses("copy", dt) /\ Uses("copy", st)
      /\ heap' = copy_bytes(EntryAddress(dt, d), EntryAddress(st, s), n * PtrSize)
      /\ out' = <<"table.copy", n>>
  BY DEF TableCopy, Inside, Inv, Placed, Size
<1>2. EntryAddress(dt, d) = At(dt, d) /\ EntryAddress(st, s) = At(st, s)  BY <1>1, Addressed
<1>3. /\ Size(dt) \in Nat /\ Size(dt) <= CellsOfLargest /\ CellsOfLargest \in Nat
      /\ Size(st) \in Nat /\ Size(st) <= CellsOfLargest
  BY Largest
<1>4. /\ heap' \in [Address -> Byte]
      /\ Entries' = [Entries EXCEPT ![dt] = Wasm!Copied(@, Entries[st], d, s, n)]
      /\ Contents' = Contents
  BY <1>1, <1>2, CopyTable
<1>5. d \in Wasm!Counts /\ s \in Wasm!Counts /\ n \in Wasm!Counts
  BY <1>1, <1>3 DEF Wasm!Counts
<1>6. Wasm!Inside(Entries[dt], d, n) /\ Wasm!Inside(Entries[st], s, n)
  BY <1>1, MappedSizes DEF Inv, Wasm!Inside
<1>7. Wasm!Copy  BY <1>1, <1>4, <1>5, <1>6 DEF Wasm!Copy
<1> QED  BY <1>1, <1>4, <1>7 DEF Inv

LEMMA MemoryFillStep ==
  ASSUME Inv, NEW m \in MemoryIndex, NEW d \in Nat, NEW n \in Nat, NEW val \in Numbers,
         MemoryFill(m, d, val, n)
  PROVE  Inv' /\ Wasm!MemoryFill
<1>1. Placed' /\ frames' = frames /\ d + n <= Length(m)
      /\ heap' = memoryfill(From(m) + d, val, n, 0, FALSE) /\ out' = <<"memory.fill", n>>
  BY DEF MemoryFill, Inside, Inv, Placed, Length, From
<1>2. Length(m) \in Nat /\ Length(m) <= CellsOfLargest /\ CellsOfLargest \in Nat  BY Largest
<1>3. /\ heap' \in [Address -> Byte]
      /\ Contents' = [Contents EXCEPT ![m] = Wasm!Filled(@, d, val % ByteRange, n)]
      /\ Entries' = Entries
  BY <1>1, FillMemory
<1>4. d \in Wasm!Counts /\ n \in Wasm!Counts  BY <1>1, <1>2 DEF Wasm!Counts
<1>5. val % ByteRange \in 0 .. ByteRange - 1  BY TablesAssumption
<1>6. Wasm!Inside(Contents[m], d, n)  BY <1>1, MappedSizes DEF Inv, Wasm!Inside
<1>7. Wasm!MemoryFill  BY <1>1, <1>3, <1>4, <1>5, <1>6 DEF Wasm!MemoryFill
<1> QED  BY <1>1, <1>3, <1>7 DEF Inv

LEMMA MemoryCopyStep ==
  ASSUME Inv, NEW dm \in MemoryIndex, NEW sm \in MemoryIndex,
         NEW d \in Nat, NEW s \in Nat, NEW n \in Nat, MemoryCopy(dm, sm, d, s, n)
  PROVE  Inv' /\ Wasm!MemoryCopy
<1>1. /\ Placed' /\ frames' = frames /\ d + n <= Length(dm) /\ s + n <= Length(sm)
      /\ heap' = copy_bytes(From(dm) + d, From(sm) + s, n) /\ out' = <<"memory.copy", n>>
  BY DEF MemoryCopy, Inside, Inv, Placed, Length, From
<1>2. /\ Length(dm) \in Nat /\ Length(dm) <= CellsOfLargest /\ CellsOfLargest \in Nat
      /\ Length(sm) \in Nat /\ Length(sm) <= CellsOfLargest
  BY Largest
<1>3. /\ heap' \in [Address -> Byte]
      /\ Contents' = [Contents EXCEPT ![dm] = Wasm!Copied(@, Contents[sm], d, s, n)]
      /\ Entries' = Entries
  BY <1>1, CopyMemory
<1>4. d \in Wasm!Counts /\ s \in Wasm!Counts /\ n \in Wasm!Counts
  BY <1>1, <1>2 DEF Wasm!Counts
<1>5. Wasm!Inside(Contents[dm], d, n) /\ Wasm!Inside(Contents[sm], s, n)
  BY <1>1, MappedSizes DEF Inv, Wasm!Inside
<1>6. Wasm!MemoryCopy  BY <1>1, <1>3, <1>4, <1>5 DEF Wasm!MemoryCopy
<1> QED  BY <1>1, <1>3, <1>6 DEF Inv

LEMMA Unwritten ==
  ASSUME Inv, UNCHANGED <<tabs, mems, heap>>
  PROVE  /\ Entries' = Entries /\ Contents' = Contents
         /\ Placed' /\ heap' \in [Address -> Byte]
<1>1. Placed /\ Placed'  BY DEF Inv, Placed
<1>2. EntriesIn(heap') = EntriesIn(heap) /\ ContentsIn(heap') = ContentsIn(heap)  OBVIOUS
<1> QED  BY <1>1, <1>2, Mapping DEF Inv

(* The reference that is read is the entry of the table.                   *)
LEMMA ReadsEntry ==
  ASSUME Prepared, Inv, NEW t \in TableIndex, NEW i \in Nat, i < tabs[t].size,
         NEW op \in {"call_indirect", "get"}, Uses(op, t)
  PROVE  i \in DOMAIN Entries[t] /\ RefAt(EntryAddress(t, i)) = Entries[t][i]
<1>1. i < Size(t) /\ Size(t) \in Nat /\ Placed  BY Largest DEF Inv, Placed, Size
<1>2. i \in DOMAIN Entries[t]  BY <1>1, MappedSizes
<1>3. EntryAddress(t, i) = At(t, i)  BY Addressed
<1>4. Entries[t][i] = RefIn(heap, At(t, i))  BY <1>1, Mapping DEF EntriesIn
<1>5. RefAt(At(t, i)) = RefIn(heap, At(t, i))  BY DEF RefAt, RefIn, Offset
<1> QED  BY <1>2, <1>3, <1>4, <1>5

LEMMA GetStep ==
  ASSUME Prepared, Inv, NEW t \in TableIndex, NEW i \in Nat, TableGet(t, i)
  PROVE  Inv' /\ Wasm!Get
<1>1. UNCHANGED <<tabs, mems, heap, frames>> /\ out' = <<"ref", RefAt(EntryAddress(t, i))>>
      /\ i < tabs[t].size /\ Uses("get", t)
  BY DEF TableGet
<1>2. i \in DOMAIN Entries[t] /\ out' = <<"ref", Entries[t][i]>>  BY <1>1, ReadsEntry
<1> QED  BY <1>1, <1>2, Unwritten DEF Inv, Wasm!Get

LEMMA CallStep ==
  ASSUME Prepared, Inv, NEW t \in TableIndex, NEW i \in Nat, NEW callReturn \in BOOLEAN,
         CallIndirect(t, i, callReturn)
  PROVE  Inv' /\ Wasm!Call
<1> DEFINE ref == RefAt(EntryAddress(t, i))
           callers == IF callReturn THEN SubSeq(frames, 1, Len(frames) - 1) ELSE frames
<1>1. /\ UNCHANGED <<tabs, mems, heap>> /\ out' = <<"called", ref>>
      /\ i < tabs[t].size /\ Uses("call_indirect", t) /\ frames # <<>>
      /\ ref \in DOMAIN Code \cup {Junk}
      /\ frames' = IF ref = Junk THEN frames ELSE Append(callers, Entered(Code[ref]))
  BY DEF CallIndirect, Uses
<1>2. i \in DOMAIN Entries[t] /\ out' = <<"called", Entries[t][i]>>  BY <1>1, ReadsEntry
<1>3. callers \in Seq(Frame) /\ frames \in Seq(Frame)  BY <1>1, Frames DEF Inv
<1>4. ref # Junk => Entered(Code[ref]) \in Frame  BY <1>1, EnteredFrame DEF AllBodies
<1>5. frames' \in Seq(Frame)
  <2> HIDE DEF callers, ref
  <2>1. CASE ref = Junk  BY <1>1, <1>3, <2>1
  <2>2. CASE ref # Junk
    <3>1. Append(callers, Entered(Code[ref])) \in Seq(Frame)  BY <1>3, <1>4, <2>2
    <3>2. QED  BY <1>1, <2>2, <3>1
  <2>3. QED  BY <2>1, <2>2
<1> QED  BY <1>1, <1>2, <1>5, Unwritten DEF Inv, Wasm!Call

LEMMA NextInv ==
  ASSUME Prepared, Inv, [Next]_vars
  PROVE  Inv' /\ [Wasm!Next]_Wasm!vars
<1>1. CASE UNCHANGED vars
  BY <1>1, Unwritten DEF vars, Inv, Wasm!vars
<1>2. CASE Leave
  <2>1. UNCHANGED <<tabs, mems, heap, out>> /\ frames' \in Seq(Frame)
    BY <1>2, Frames DEF Leave
  <2>2. QED  BY <2>1, Unwritten DEF Inv, Wasm!vars
<1>3. ASSUME NEW body \in Bodies, Enter(body) PROVE Inv' /\ [Wasm!Next]_Wasm!vars
  <2>1. Entered(body) \in Frame  BY EnteredFrame DEF AllBodies
  <2>2. UNCHANGED <<tabs, mems, heap, out>> /\ frames' = Append(frames, Entered(body))
    BY <1>3 DEF Enter
  <2>3. frames' \in Seq(Frame)  BY <2>1, <2>2 DEF Inv
  <2>4. QED  BY <2>2, <2>3, Unwritten DEF Inv, Wasm!vars
<1>4. ASSUME NEW t \in TableIndex, TableSize(t) PROVE Inv' /\ Wasm!Sizes
  <2>1. UNCHANGED <<tabs, mems, heap, frames>> /\ out' = <<"size", Size(t)>>
    BY <1>4 DEF TableSize, Inv, Placed, Size
  <2>2. QED  BY <2>1, Unwritten, MappedSizes DEF Inv, Wasm!Sizes
<1>5. ASSUME NEW t \in TableIndex, TableGrow(t) PROVE Inv' /\ Wasm!GrowFails
  BY <1>5, Unwritten DEF TableGrow, Inv, Wasm!GrowFails
<1>6. \A n \in Nat : Counts(n) \subseteq Nat  BY DEF Counts
<1>7. /\ \A t \in TableIndex : tabs[t].size \in Nat
      /\ \A m \in MemoryIndex : mems[m].size \in Nat
  BY Largest DEF Inv, Placed, Size, Length
<1>8. CASE \E t \in TableIndex : \E i \in Counts(tabs[t].size) :
             \/ TableSize(t) \/ TableGrow(t) \/ TableGet(t, i)
             \/ \E callReturn \in BOOLEAN : CallIndirect(t, i, callReturn)
             \/ \E v \in Refs : TableSet(t, i, v) \/ \E n \in Counts(tabs[t].size) : TableFill(t, i, v, n)
             \/ \E stab \in TableIndex : \E s, n \in Counts(tabs[stab].size) :
                  TableCopy(t, stab, i, s, n)
  <2>1. PICK t \in TableIndex, i \in Nat :
             \/ TableSize(t) \/ TableGrow(t) \/ TableGet(t, i)
             \/ \E callReturn \in BOOLEAN : CallIndirect(t, i, callReturn)
             \/ \E v \in Refs : TableSet(t, i, v) \/ \E n \in Nat : TableFill(t, i, v, n)
             \/ \E stab \in TableIndex : \E s, n \in Nat : TableCopy(t, stab, i, s, n)
    BY <1>6, <1>7, <1>8
  <2>2. QED
    BY <1>4, <1>5, <2>1, GetStep, CallStep, SetStep, FillStep, CopyStep DEF Wasm!Next
<1>9. CASE \E m \in MemoryIndex : \E d, n \in Counts(mems[m].size) :
             \/ \E val \in Numbers : MemoryFill(m, d, val, n)
             \/ \E sm \in MemoryIndex : \E s \in Counts(mems[sm].size) : MemoryCopy(m, sm, d, s, n)
  <2>1. PICK m \in MemoryIndex, d \in Nat, n \in Nat :
             \/ \E val \in Numbers : MemoryFill(m, d, val, n)
             \/ \E sm \in MemoryIndex : \E s \in Nat : MemoryCopy(m, sm, d, s, n)
    BY <1>6, <1>7, <1>9
  <2>2. QED  BY <2>1, MemoryFillStep, MemoryCopyStep DEF Wasm!Next
<1> QED  BY <1>1, <1>2, <1>3, <1>8, <1>9 DEF Next

-----------------------------------------------------------------------------

LEMMA AlwaysInv == ASSUME Prepared PROVE Spec => []Inv
<1>1. Init => Inv  BY InitInv
<1>2. Inv /\ [Next]_vars => Inv'  BY NextInv
<1> QED  BY <1>1, <1>2, PTL DEF Spec

(* No operation moves a table or a memory, so that none comes to lie over  *)
(* another, and every byte is a byte of a reference or of a memory.        *)
THEOREM TablesAlwaysTyped == ASSUME Prepared PROVE Spec => []TypeOK
<1>1. ASSUME Inv PROVE TypeOK
  <2>1. tabs \in [TableIndex -> [size : Nat, entries : Address]]
        /\ mems \in [MemoryIndex -> [size : Nat, bytes : Address]]
    BY <1>1, LayoutAssumption DEF Inv, Placed
  <2>2. \A i \in DOMAIN frames : frames[i].entries \in Address \cup {Unset}
    <3>1. SUFFICES ASSUME NEW i \in DOMAIN frames
                   PROVE  frames[i].entries \in Address \cup {Unset}
      OBVIOUS
    <3>2. PICK body \in AllBodies : frames[i] = FrameOf(body)  BY <1>1 DEF Inv, Frame
    <3>3. Marked(body) => 0 \in TableIndex
      <4>1. body \subseteq Instructions \X TableIndex  BY TablesAssumption DEF AllBodies
      <4>2. QED  BY <4>1 DEF Marked
    <3>4. QED  BY <3>2, <3>3, LayoutAssumption DEF FrameOf
  <2>3. Areas = {TableArea(t) : t \in TableIndex} \cup {MemoryArea(m) : m \in MemoryIndex}
    BY <1>1 DEF Areas, TableArea, MemoryArea, Inv, Placed
  <2>4. \A one, two \in Areas : one \subseteq Address /\ (one # two => one \cap two = {})
    BY <2>3, LayoutAssumption
  <2>5. QED  BY <1>1, <2>1, <2>2, <2>4 DEF TypeOK, Inv
<1>2. QED  BY <1>1, AlwaysInv, PTL

(* Whatever functions call each other, directly or through entries, every  *)
(* instruction on indices and counts is one on a table or a memory, when   *)
(* each function has the address of table 0 that its body uses.            *)
THEOREM TablesImplementWasm == ASSUME Prepared PROVE Spec => ImplementsWasmTables
<1>1. Init => Inv /\ Wasm!Init  BY InitInv
<1>2. Inv /\ [Next]_vars => Inv' /\ [Wasm!Next]_Wasm!vars  BY NextInv
<1>3. QED  BY <1>1, <1>2, PTL DEF Spec, ImplementsWasmTables, Wasm!Spec
=============================================================================
