------------------------- MODULE PagedMemory_proofs -------------------------
(* Proofs about PagedMemory: type correctness, storage ownership, snapshot *)
(* isolation and the refinement of AbstractMemory.                         *)
EXTENDS PagedMemory, TLAPS

Content == Bytes \cup Symbols

-----------------------------------------------------------------------------
\* Facts about the operators

(* A value of memory::write is a sequence of 1 to MaxBytes bytes. *)
LEMMA ValueFacts ==
    ASSUME NEW B, NEW v \in ValuesOver(B)
    PROVE  /\ Len(v) \in 1..MaxBytes
           /\ v \in [1..Len(v) -> B]
           /\ v \in Seq(B)
  <1>1. PICK n \in 1..MaxBytes : v \in [1..n -> B]
    BY DEF ValuesOver
  <1>2. n \in Nat /\ v \in Seq(B) /\ Len(v) = n
    BY <1>1, MemoryConstants
  <1> QED BY <1>1, <1>2

(* The cell of byte i of a value is well formed (mem_cell). *)
LEMMA CellType ==
    ASSUME NEW v \in Values, NEW i \in 0..Len(v)-1
    PROVE  Cell(v, i) \in Cells /\ ByteOf(Cell(v, i)) = v[i + 1]
  <1>1. Len(v) \in 1..MaxBytes
    BY ValueFacts DEF Values
  <1>2. i \in 0..MaxBytes-1 /\ i < Len(v)
    BY <1>1, MemoryConstants
  <1> QED BY <1>1, <1>2 DEF Cell, Cells, ByteOf

(* A byte of a cell is a byte of its value. *)
LEMMA ByteType ==
    ASSUME NEW c \in Cells
    PROVE  ByteOf(c) \in Content
  <1>1. c.val \in Values /\ c.which \in 0..MaxBytes-1 /\ c.which < Len(c.val)
    BY DEF Cells
  <1>2. Len(c.val) \in 1..MaxBytes /\ c.val \in [1..Len(c.val) -> Content]
    BY <1>1, ValueFacts DEF Values, Content
  <1>3. c.which + 1 \in 1..Len(c.val)
    BY <1>1, <1>2, MemoryConstants
  <1> QED BY <1>2, <1>3 DEF ByteOf

(* Offsets and wrapped addresses stay in the address space. *)
LEMMA OffsetFacts ==
    ASSUME NEW a \in Addr, NEW x \in Addr
    PROVE  Offset(a, x) \in 0..AddrCount-1
  BY MemoryConstants DEF Addr, Offset

(* The k-th byte of an access lies in the address space, and its offset is k. *)
LEMMA WrapFacts ==
    ASSUME NEW a \in Addr, NEW i \in 0..AddrCount-1
    PROVE  Wrap(a + i) \in Addr /\ Offset(a, Wrap(a + i)) = i
  BY MemoryConstants DEF Addr, Offset, Wrap

(* Storing a value yields a well-formed storage. *)
LEMMA WriteCellsType ==
    ASSUME NEW st \in Storages, NEW a \in Addr, NEW v \in Values
    PROVE  WriteCells(st, a, v) \in Storages
  <1>1. Len(v) \in 1..MaxBytes
    BY ValueFacts DEF Values
  <1>2. ASSUME NEW x \in Addr, Offset(a, x) < Len(v)
        PROVE  Cell(v, Offset(a, x)) \in Cells
    <2>1. Offset(a, x) \in 0..Len(v)-1
      BY <1>1, <1>2, OffsetFacts, MemoryConstants
    <2> QED BY <2>1, CellType
  <1> QED BY <1>2 DEF WriteCells, Storages

(* A client's value, and the one-byte value of a fresh symbol, are values. *)
LEMMA ClientValues ==
    /\ ValuesOver(Bytes) \subseteq Values
    /\ \A b \in Content : <<b>> \in Values /\ Len(<<b>>) = 1
    /\ \A b \in Bytes : <<b>> \in ValuesOver(Bytes)
  <1>1. 1 \in 1..MaxBytes
    BY MemoryConstants
  <1>2. \A b : <<b>> \in [1..1 -> {b}] /\ Len(<<b>>) = 1
    OBVIOUS
  <1>3. \A B : \A b \in B : <<b>> \in [1..1 -> B]
    OBVIOUS
  <1> QED BY <1>1, <1>2, <1>3 DEF ValuesOver, Values, Content

(* Looking an address up gives a cell or nothing (mem_page::find). *)
LEMMA FindType ==
    ASSUME TypeOK, NEW p \in Pages, NEW st \in Storages, NEW x \in Addr
    PROVE  Find(p, st, x) \in Cells \cup {NoCell}
  BY DEF Find, TypeOK, Storages

(* make_shared returns a block that nobody points to. *)
LEMMA FreshStoreIsFree ==
    ASSUME HeapAvailable
    PROVE  FreshStore \in Stores /\ FreshStore \notin Live
  BY DEF HeapAvailable, FreshStore

-----------------------------------------------------------------------------
\* What one page->write does, and what it leaves alone

(* The written page gets the new cells, every other page and every held    *)
(* snapshot keeps its storage and that storage its contents.               *)
LEMMA PutEffect ==
    ASSUME TypeOK, NEW p \in pages, NEW cells \in Storages, Put(p, cells)
    PROVE  /\ memory' \in [Pages -> Stores \cup {NoStore}]
           /\ heap' \in [Stores -> Storages]
           /\ memory'[p] \in Stores
           /\ heap'[memory'[p]] = cells
           /\ memory'[p] = memory[p] \/ memory'[p] \notin Live
           /\ \A q \in Pages \ {p} :
                 /\ memory'[q] = memory[q]
                 /\ memory[q] \in Stores => heap'[memory[q]] = heap[memory[q]]
           /\ \A s \in Snaps : \A q \in DOMAIN snaps[s] :
                 heap'[snaps[s][q]] = heap[snaps[s][q]]
  <1> DEFINE target == IF Unique(p) THEN memory[p] ELSE FreshStore
  <1>1. /\ memory' = [memory EXCEPT ![p] = target]
        /\ heap' = [heap EXCEPT ![target] = cells]
        /\ Unique(p) \/ HeapAvailable
    BY DEF Put
  <1>2. p \in Pages /\ memory[p] \in Stores
    BY DEF TypeOK
  <1>3. target \in Stores /\ (target = memory[p] \/ target \notin Live)
    BY <1>1, <1>2, FreshStoreIsFree
  <1>4. \A q \in Pages \ {p} : memory[q] # target
    BY <1>1, <1>2, FreshStoreIsFree DEF Unique, Live
  <1>5. \A s \in Snaps : \A q \in DOMAIN snaps[s] : snaps[s][q] # target
    BY <1>1, <1>2, FreshStoreIsFree DEF Unique, Live, SnapStores
  <1>6. \A s \in Snaps : \A q \in DOMAIN snaps[s] : snaps[s][q] \in Stores
    BY DEF TypeOK, PageMaps
  <1> HIDE DEF target
  <1>7. memory \in [Pages -> Stores \cup {NoStore}] /\ heap \in [Stores -> Storages]
    BY DEF TypeOK
  <1> QED BY <1>1, <1>2, <1>3, <1>4, <1>5, <1>6, <1>7

(* memory::read gives back exactly the bytes its cells stand for, whichever *)
(* of the three ways of reassembly it takes.                                *)
LEMMA ReassembleBytes ==
    ASSUME NEW n \in 1..MaxBytes, NEW cells \in [0..n-1 -> Cells]
    PROVE  Reassemble(cells, n) = [j \in 1..n |-> ByteOf(cells[j - 1])]
  <1> DEFINE last == cells[n - 1]
             mergeable == \A i \in 0..n-1 : cells[i].val = last.val
                                           /\ cells[i].total = last.total
             aligned == \A i \in 0..n-1 : cells[i].which = last.which - (n - 1 - i)
             bytewise == [j \in 1..n |-> ByteOf(cells[j - 1])]
  <1>0. n \in Nat /\ n >= 1 /\ 0 \in 0..n-1 /\ n - 1 \in 0..n-1
    BY MemoryConstants
  <1>1. \A i \in 0..n-1 : /\ cells[i].val \in Values
                          /\ cells[i].total = Len(cells[i].val)
                          /\ cells[i].which \in 0..MaxBytes-1
                          /\ cells[i].which < cells[i].total
    BY DEF Cells
  <1>2. last.val \in Values /\ last.which \in Int /\ last.total = Len(last.val)
        /\ last.which < last.total /\ cells[0].which \in Int /\ cells[0].which >= 0
    BY <1>0, <1>1, MemoryConstants
  <1>3. CASE mergeable /\ aligned
    <2>1. cells[0].which = last.which - (n - 1)
      BY <1>0, <1>2, <1>3
    <2>2. ASSUME NEW j \in 1..n
          PROVE  ByteOf(cells[j - 1]) = last.val[cells[0].which + j]
      <3>1. j - 1 \in 0..n-1
        BY <1>0
      <3>2. cells[j - 1].which = last.which - (n - 1 - (j - 1))
        BY <1>3, <3>1
      <3>3. cells[j - 1].which + 1 = cells[0].which + j
        BY <2>1, <3>1, <3>2, <1>0, <1>2
      <3>4. cells[j - 1].val = last.val
        BY <1>3, <3>1
      <3> QED BY <3>3, <3>4 DEF ByteOf
    <2>3. CASE n = last.total
      <3>1. cells[0].which = 0
        BY <2>1, <2>3, <1>0, <1>2
      <3>2. last.val \in [1..n -> Bytes \cup Symbols]
        BY <1>2, <2>3, ValueFacts DEF Values
      <3>3. last.val = bytewise
        BY <3>1, <3>2, <2>2
      <3> QED BY <1>3, <2>3, <3>3 DEF Reassemble
    <2>4. CASE n # last.total
      <3>1. [j \in 1..n |-> last.val[cells[0].which + j]] = bytewise
        BY <2>2
      <3> QED BY <1>3, <2>4, <3>1 DEF Reassemble
    <2> QED BY <2>3, <2>4
  <1>4. CASE ~(mergeable /\ aligned)
    BY <1>4 DEF Reassemble
  <1> QED BY <1>3, <1>4

(* The cells a concrete read sees and, if some were absent, writes back. *)
ReadCell(p, a, n, fresh, x) ==
    IF x \in Missing(p, a, n) THEN Cell(<<fresh[x]>>, 0)
    ELSE Find(p, heap[memory[p]], x)

ReadBack(p, a, n, fresh) ==
    [x \in Addr |-> IF x \in Missing(p, a, n) THEN Cell(<<fresh[x]>>, 0)
                    ELSE heap[memory[p]][x]]

(* Every byte of the read range has a cell once the absent ones are        *)
(* materialised, and the result is the bytes of these cells.               *)
LEMMA ReadEffect ==
    ASSUME TypeOK, NEW p \in pages, NEW a \in Addr, NEW n \in 1..MaxBytes,
           NEW fresh \in [Missing(p, a, n) -> Symbols \ used]
    PROVE  /\ heap[memory[p]] \in Storages
           /\ ReadBack(p, a, n, fresh) \in Storages
           /\ \A i \in 0..n-1 : /\ Wrap(a + i) \in Addr
                                 /\ ReadCell(p, a, n, fresh, Wrap(a + i)) \in Cells
           /\ \A x \in Missing(p, a, n) :
                 /\ fresh[x] \in Symbols
                 /\ Cell(<<fresh[x]>>, 0) \in Cells
                 /\ ByteOf(Cell(<<fresh[x]>>, 0)) = fresh[x]
  <1>1. heap[memory[p]] \in Storages /\ p \in Pages
    BY DEF TypeOK
  <1>2. ASSUME NEW x \in Missing(p, a, n)
        PROVE  /\ fresh[x] \in Symbols
               /\ Cell(<<fresh[x]>>, 0) \in Cells
               /\ ByteOf(Cell(<<fresh[x]>>, 0)) = fresh[x]
    <2>1. fresh[x] \in Symbols
      OBVIOUS
    <2>2. <<fresh[x]>> \in Values /\ Len(<<fresh[x]>>) = 1
      BY <2>1, ClientValues DEF Content
    <2>3. 0 \in 0..Len(<<fresh[x]>>)-1
      BY <2>2
    <2>4. Cell(<<fresh[x]>>, 0) \in Cells /\ ByteOf(Cell(<<fresh[x]>>, 0)) = <<fresh[x]>>[0 + 1]
      BY <2>2, <2>3, CellType
    <2> QED BY <2>1, <2>4
  <1>3. ReadBack(p, a, n, fresh) \in Storages
    BY <1>1, <1>2 DEF ReadBack, Storages
  <1>4. ASSUME NEW i \in 0..n-1
        PROVE  /\ Wrap(a + i) \in Addr
               /\ ReadCell(p, a, n, fresh, Wrap(a + i)) \in Cells
    <2>1. i \in 0..AddrCount-1 /\ i < n
      BY MemoryConstants
    <2>2. Wrap(a + i) \in Addr /\ Offset(a, Wrap(a + i)) = i
      BY <2>1, WrapFacts
    <2>3. Find(p, heap[memory[p]], Wrap(a + i)) \in Cells \cup {NoCell}
      BY <1>1, <2>2, FindType
    <2> QED BY <1>2, <2>1, <2>2, <2>3 DEF ReadCell, Missing
  <1> QED BY <1>1, <1>2, <1>3, <1>4

(* The reassembled result of a concrete read, as a value. *)
LEMMA ReadResult ==
    ASSUME TypeOK, NEW p \in pages, NEW a \in Addr, NEW n \in 1..MaxBytes,
           NEW fresh \in [Missing(p, a, n) -> Symbols \ used],
           NEW r, r = Reassemble([i \in 0..n-1 |-> ReadCell(p, a, n, fresh, Wrap(a + i))], n)
    PROVE  /\ r = [j \in 1..n |-> ByteOf(ReadCell(p, a, n, fresh, Wrap(a + j - 1)))]
           /\ r \in Values
  <1> DEFINE cells == [i \in 0..n-1 |-> ReadCell(p, a, n, fresh, Wrap(a + i))]
  <1>0. n \in Nat /\ n >= 1 /\ a \in Int
    BY MemoryConstants DEF Addr
  <1>1. cells \in [0..n-1 -> Cells]
    BY ReadEffect
  <1>2. r = [j \in 1..n |-> ByteOf(cells[j - 1])]
    BY <1>1, ReassembleBytes
  <1>3. \A j \in 1..n : cells[j - 1] = ReadCell(p, a, n, fresh, Wrap(a + j - 1))
    <2> SUFFICES ASSUME NEW j \in 1..n
                 PROVE  cells[j - 1] = ReadCell(p, a, n, fresh, Wrap(a + j - 1))
      OBVIOUS
    <2>1. j - 1 \in 0..n-1 /\ a + (j - 1) = a + j - 1
      BY <1>0
    <2> QED BY <2>1
  <1>4. \A j \in 1..n : j - 1 \in 0..n-1
    BY <1>0
  <1>5. \A j \in 1..n : ByteOf(cells[j - 1]) \in Content
    BY <1>1, <1>4, ByteType
  <1> HIDE DEF cells
  <1>6. r = [j \in 1..n |-> ByteOf(ReadCell(p, a, n, fresh, Wrap(a + j - 1)))]
    BY <1>2, <1>3
  <1>7. r \in [1..n -> Content]
    BY <1>2, <1>5
  <1> QED BY <1>6, <1>7 DEF Values, ValuesOver, Content

(* A concrete read, with the fresh symbols it picked as a parameter. *)
ReadWith(p, a, n, fresh) ==
    /\ IsInjective(fresh)
    /\ IF Missing(p, a, n) = {} THEN UNCHANGED <<memory, heap>>
       ELSE Put(p, ReadBack(p, a, n, fresh))
    /\ used' = used \cup Range(fresh)
    /\ result' = Reassemble([i \in 0..n-1 |-> ReadCell(p, a, n, fresh, Wrap(a + i))], n)
    /\ UNCHANGED <<pages, initial, sealed, snaps>>

(* A concrete read is a ReadWith for some choice of fresh symbols. *)
LEMMA ReadSplit ==
    ASSUME NEW p, NEW a, NEW n, Read(p, a, n)
    PROVE  /\ Accessible(p)
           /\ \E fresh \in [Missing(p, a, n) -> Symbols \ used] : ReadWith(p, a, n, fresh)
  <1>1. PICK fresh \in [Missing(p, a, n) -> Symbols \ used] :
          LET cell(x) == IF x \in Missing(p, a, n) THEN Cell(<<fresh[x]>>, 0)
                         ELSE Find(p, heap[memory[p]], x)
          IN /\ IsInjective(fresh)
             /\ IF Missing(p, a, n) = {}
                THEN UNCHANGED <<memory, heap>>
                ELSE Put(p, [x \in Addr |-> IF x \in Missing(p, a, n) THEN cell(x)
                                            ELSE heap[memory[p]][x]])
             /\ used' = used \cup Range(fresh)
             /\ result' = Reassemble([i \in 0..n-1 |-> cell(Wrap(a + i))], n)
    BY DEF Read
  <1>2. [x \in Addr |-> IF x \in Missing(p, a, n) THEN Cell(<<fresh[x]>>, 0)
                        ELSE heap[memory[p]][x]] = ReadBack(p, a, n, fresh)
    BY DEF ReadBack
  <1>3. \A x : (IF x \in Missing(p, a, n) THEN Cell(<<fresh[x]>>, 0)
               ELSE Find(p, heap[memory[p]], x)) = ReadCell(p, a, n, fresh, x)
    BY DEF ReadCell
  <1>4. UNCHANGED <<pages, initial, sealed, snaps>> /\ Accessible(p)
    BY DEF Read
  <1>5. ReadWith(p, a, n, fresh)
    BY <1>1, <1>2, <1>4 DEF ReadWith, ReadCell, ReadBack
  <1> QED BY <1>4, <1>5

-----------------------------------------------------------------------------
\* Type correctness

(* An empty memory, as initialize_arch leaves it, is well typed. *)
LEMMA TypeInit == Init => TypeOK
  <1> SUFFICES ASSUME Init PROVE TypeOK
    OBVIOUS
  <1>1. (CHOOSE st \in Stores : TRUE) \in Stores
    BY MemoryConstants
  <1>2. Empty \in Storages
    BY DEF Empty, Storages
  <1>3. NoSnap \in PageMaps
    BY DEF NoSnap, PageMaps
  <1> QED BY <1>1, <1>2, <1>3, MemoryConstants DEF Init, TypeOK

(* Every operation of the memory keeps it well typed. *)
LEMMA TypeStep == TypeOK /\ BinaryMappedFirst /\ [Next]_vars => TypeOK'
  <1> SUFFICES ASSUME TypeOK, BinaryMappedFirst, [Next]_vars PROVE TypeOK'
    OBVIOUS
  <1>0. Empty \in Storages /\ NoSnap \in PageMaps
    BY DEF Empty, Storages, NoSnap, PageMaps
  <1>1. ASSUME NEW p \in Pages, Allocate(p) PROVE TypeOK'
    <2>1. FreshStore \in Stores
      BY <1>1, FreshStoreIsFree DEF Allocate
    <2> QED BY <1>0, <1>1, <2>1, MemoryConstants DEF Allocate, TypeOK
  <1>2. ASSUME NEW a \in Addr, NEW b \in Bytes, Initialize(a, b) PROVE TypeOK'
    <2>1. <<b>> \in Values
      BY ClientValues DEF Content
    <2>2. CASE sealed
      <3>1. GlobalPage \in pages
        BY DEF BinaryMappedFirst
      <3>2. WriteCells(heap[memory[GlobalPage]], a, <<b>>) \in Storages
        BY <2>1, <3>1, WriteCellsType DEF TypeOK
      <3>3. /\ memory' \in [Pages -> Stores \cup {NoStore}]
            /\ heap' \in [Stores -> Storages]
            /\ memory'[GlobalPage] \in Stores
            /\ \A q \in Pages \ {GlobalPage} : memory'[q] = memory[q]
        BY <1>2, <2>2, <3>1, <3>2, PutEffect DEF Initialize
      <3> QED BY <1>2, <2>2, <3>3, MemoryConstants DEF Initialize, TypeOK
    <2>3. CASE ~sealed
      <3>1. WriteCells(initial, a, <<b>>) \in Storages
        BY <2>1, WriteCellsType DEF TypeOK
      <3> QED BY <1>2, <2>3, <3>1 DEF Initialize, TypeOK
    <2> QED BY <2>2, <2>3
  <1>3. CASE Seal
    BY <1>3 DEF Seal, TypeOK
  <1>4. ASSUME NEW p \in Pages, NEW a \in Addr, NEW v \in ValuesOver(Bytes), Write(p, a, v)
        PROVE  TypeOK'
    <2>1. p \in pages /\ Put(p, WriteCells(heap[memory[p]], a, v))
      BY <1>4 DEF Write, Accessible
    <2>2. WriteCells(heap[memory[p]], a, v) \in Storages
      BY <2>1, ClientValues, WriteCellsType DEF TypeOK
    <2>3. /\ memory' \in [Pages -> Stores \cup {NoStore}]
          /\ heap' \in [Stores -> Storages]
          /\ memory'[p] \in Stores
          /\ \A q \in Pages \ {p} : memory'[q] = memory[q]
      BY <2>1, <2>2, PutEffect
    <2> QED BY <1>4, <2>3, MemoryConstants DEF Write, TypeOK
  <1>5. ASSUME NEW p \in Pages, NEW a \in Addr, NEW n \in 1..MaxBytes, Read(p, a, n)
        PROVE  TypeOK'
    <2>1. p \in pages
      BY <1>5 DEF Read, Accessible
    <2>2. PICK fresh \in [Missing(p, a, n) -> Symbols \ used] : ReadWith(p, a, n, fresh)
      BY <1>5, ReadSplit
    <2>3. result' \in Values
      BY <2>1, <2>2, ReadResult DEF ReadWith
    <2>4. used' \subseteq Symbols
      BY <2>2 DEF ReadWith, TypeOK, Range
    <2>5. /\ memory' \in [Pages -> Stores \cup {NoStore}]
          /\ heap' \in [Stores -> Storages]
          /\ memory'[p] \in Stores
          /\ \A q \in Pages \ {p} : memory'[q] = memory[q]
      <3>1. CASE Missing(p, a, n) = {}
        BY <2>1, <2>2, <3>1 DEF ReadWith, TypeOK
      <3>2. CASE Missing(p, a, n) # {}
        BY <2>1, <2>2, <3>2, ReadEffect, PutEffect DEF ReadWith
      <3> QED BY <3>1, <3>2
    <2> QED BY <2>2, <2>3, <2>4, <2>5, MemoryConstants DEF ReadWith, TypeOK
  <1>6. ASSUME NEW n \in 1..MaxBytes, ReadSymbolic(n) PROVE TypeOK'
    <2>1. PICK fresh \in [1..n -> Symbols \ used] :
             used' = used \cup Range(fresh) /\ result' = fresh
      BY <1>6 DEF ReadSymbolic
    <2>2. result' \in Values
      BY <2>1 DEF Values, ValuesOver
    <2>3. used' \subseteq Symbols
      BY <2>1 DEF TypeOK, Range
    <2> QED BY <1>6, <2>2, <2>3 DEF ReadSymbolic, TypeOK
  <1>7. ASSUME NEW s \in Snaps, TakeSnapshot(s) PROVE TypeOK'
    <2>1. [p \in pages |-> memory[p]] \in PageMaps
      BY MemoryConstants DEF TypeOK, PageMaps
    <2> QED BY <1>7, <2>1 DEF TakeSnapshot, TypeOK
  <1>8. ASSUME NEW s \in Snaps, RestoreSnapshot(s) PROVE TypeOK'
    <2>1. DOMAIN snaps[s] \subseteq Pages /\ \A q \in DOMAIN snaps[s] : snaps[s][q] \in Stores
      BY DEF TypeOK, PageMaps
    <2>2. heap' \in [Stores -> Storages]
      BY <1>0, <1>8 DEF RestoreSnapshot, Collect, TypeOK
    <2> QED BY <1>8, <2>1, <2>2, MemoryConstants DEF RestoreSnapshot, TypeOK
  <1>9. ASSUME NEW s \in Snaps, DropSnapshot(s) PROVE TypeOK'
    <2>1. heap' \in [Stores -> Storages]
      BY <1>0, <1>9 DEF DropSnapshot, Collect, TypeOK
    <2> QED BY <1>0, <1>9, <2>1 DEF DropSnapshot, TypeOK
  <1>10. CASE UNCHANGED vars
    BY <1>10 DEF vars, TypeOK
  <1> QED
    BY <1>1, <1>2, <1>3, <1>4, <1>5, <1>6, <1>7, <1>8, <1>9, <1>10 DEF Next

-----------------------------------------------------------------------------
\* The inductive invariant: ownership of storages and the mapping protocol

(* No operation gives one storage to two pages. *)
LEMMA OwnershipStep ==
    ASSUME TypeOK, BinaryMappedFirst, StorageHasOnePage, [Next]_vars
    PROVE  StorageHasOnePage'
  <1>0. \A p \in Pages, st \in Stores \ Live : memory[p] # st
    BY DEF Live
  <1>00. \A s \in Snaps : \A q \in DOMAIN snaps[s] :
            snaps[s][q] \in Live /\ snaps[s][q] \in Stores /\ q \in Pages
    BY DEF Live, SnapStores, TypeOK, PageMaps
  \* redirecting one page to its own or to a free storage keeps ownership
  <1>1. ASSUME NEW p \in Pages, UNCHANGED snaps, memory'[p] \in Stores,
               memory'[p] = memory[p] \/ memory'[p] \notin Live,
               \A q \in Pages \ {p} : memory'[q] = memory[q]
        PROVE  StorageHasOnePage'
    <2>1. CASE memory'[p] = memory[p]
      BY <1>1, <2>1 DEF StorageHasOnePage
    <2>2. CASE memory'[p] \notin Live
      <3>1. \A q \in Pages \ {p} : memory'[q] # memory'[p]
        BY <1>1, <2>2 DEF Live
      <3>2. \A s \in Snaps : \A q \in DOMAIN snaps[s] : snaps[s][q] # memory'[p]
        BY <1>00, <2>2
      <3> QED BY <1>1, <3>1, <3>2 DEF StorageHasOnePage
    <2> QED BY <1>1, <2>1, <2>2
  <1>2. ASSUME UNCHANGED <<memory, snaps>> PROVE StorageHasOnePage'
    BY <1>2 DEF StorageHasOnePage
  <1>3. ASSUME NEW p \in pages, NEW cells \in Storages, Put(p, cells), UNCHANGED snaps
        PROVE  StorageHasOnePage'
    <2>1. p \in Pages
      BY DEF TypeOK
    <2> QED BY <1>1, <1>3, <2>1, PutEffect
  <1>4. ASSUME NEW p \in Pages, Allocate(p) PROVE StorageHasOnePage'
    <2>1. FreshStore \in Stores /\ FreshStore \notin Live
      BY <1>4, FreshStoreIsFree DEF Allocate
    <2>2. memory' = [memory EXCEPT ![p] = FreshStore] /\ UNCHANGED snaps
      BY <1>4 DEF Allocate
    <2>3. memory'[p] = FreshStore /\ \A q \in Pages \ {p} : memory'[q] = memory[q]
      BY <2>2 DEF TypeOK
    <2> QED BY <1>1, <2>1, <2>2, <2>3
  <1>5. ASSUME NEW a \in Addr, NEW b \in Bytes, Initialize(a, b) PROVE StorageHasOnePage'
    <2>1. GlobalPage \in pages /\ <<b>> \in Values
      BY ClientValues DEF Content, BinaryMappedFirst
    <2>2. WriteCells(heap[memory[GlobalPage]], a, <<b>>) \in Storages
      BY <2>1, WriteCellsType DEF TypeOK
    <2> QED BY <1>2, <1>3, <1>5, <2>1, <2>2 DEF Initialize
  <1>6. CASE Seal
    BY <1>2, <1>6 DEF Seal
  <1>7. ASSUME NEW p \in Pages, NEW a \in Addr, NEW v \in ValuesOver(Bytes), Write(p, a, v)
        PROVE  StorageHasOnePage'
    <2>1. p \in pages
      BY <1>7 DEF Write, Accessible
    <2>2. WriteCells(heap[memory[p]], a, v) \in Storages
      BY <2>1, ClientValues, WriteCellsType DEF TypeOK
    <2> QED BY <1>3, <1>7, <2>1, <2>2 DEF Write
  <1>8. ASSUME NEW p \in Pages, NEW a \in Addr, NEW n \in 1..MaxBytes, Read(p, a, n)
        PROVE  StorageHasOnePage'
    <2>1. PICK fresh \in [Missing(p, a, n) -> Symbols \ used] : ReadWith(p, a, n, fresh)
      BY <1>8, ReadSplit
    <2>2. p \in pages
      BY <1>8 DEF Read, Accessible
    <2>3. ReadBack(p, a, n, fresh) \in Storages
      BY <2>2, ReadEffect
    <2> QED BY <1>2, <1>3, <2>1, <2>2, <2>3 DEF ReadWith
  <1>9. ASSUME NEW n \in 1..MaxBytes, ReadSymbolic(n) PROVE StorageHasOnePage'
    BY <1>2, <1>9 DEF ReadSymbolic
  <1>10. ASSUME NEW s \in Snaps, TakeSnapshot(s) PROVE StorageHasOnePage'
    <2>1. \A p \in pages : p \in Pages /\ memory[p] # NoStore
      BY DEF TypeOK
    <2>2. /\ memory' = memory
          /\ DOMAIN snaps'[s] = pages
          /\ \A p \in pages : snaps'[s][p] = memory[p]
          /\ \A t \in Snaps \ {s} : snaps'[t] = snaps[t]
      BY <1>10 DEF TakeSnapshot, TypeOK
    <2> QED BY <2>1, <2>2 DEF StorageHasOnePage
  <1>11. ASSUME NEW s \in Snaps, RestoreSnapshot(s) PROVE StorageHasOnePage'
    <2>1. /\ snaps' = snaps
          /\ \A p \in DOMAIN snaps[s] : p \in Pages /\ memory'[p] = snaps[s][p]
          /\ \A p \in Pages \ DOMAIN snaps[s] : memory'[p] = memory[p]
      BY <1>00, <1>11 DEF RestoreSnapshot
    <2> QED BY <2>1, <1>00 DEF StorageHasOnePage
  <1>12. ASSUME NEW s \in Snaps, DropSnapshot(s) PROVE StorageHasOnePage'
    <2>1. /\ memory' = memory
          /\ DOMAIN snaps'[s] = {}
          /\ \A t \in Snaps \ {s} : snaps'[t] = snaps[t]
      BY <1>12 DEF DropSnapshot, NoSnap, TypeOK
    <2> QED BY <2>1 DEF StorageHasOnePage
  <1>13. CASE UNCHANGED vars
    BY <1>2, <1>13 DEF vars
  <1> QED
    BY <1>4, <1>5, <1>6, <1>7, <1>8, <1>9, <1>10, <1>11, <1>12, <1>13 DEF Next

(* Nothing is laid over the global page or saved before it is sealed. *)
LEMMA MappingStep ==
    ASSUME TypeOK, BinaryMappedFirst, StorageHasOnePage, [Next]_vars
    PROVE  BinaryMappedFirst'
  <1>0. GlobalPage \in pages /\ GlobalPage \in Pages /\ memory[GlobalPage] \in Stores
    BY DEF BinaryMappedFirst, TypeOK
  <1>1. ASSUME NEW p \in Pages, Allocate(p) PROVE BinaryMappedFirst'
    <2>1. p # GlobalPage
      BY <1>1, <1>0, MemoryConstants DEF Allocate
    <2>2. FreshStore # memory[GlobalPage]
      BY <1>1, <1>0, FreshStoreIsFree DEF Allocate, Live
    <2>3. heap'[memory'[GlobalPage]] = heap[memory[GlobalPage]]
      BY <1>0, <1>1, <2>1, <2>2 DEF Allocate, TypeOK
    <2> QED BY <1>1, <2>3 DEF Allocate, BinaryMappedFirst, Held
  <1>2. ASSUME NEW a \in Addr, NEW b \in Bytes, Initialize(a, b) PROVE BinaryMappedFirst'
    BY <1>2 DEF Initialize, BinaryMappedFirst, Held
  <1>3. CASE Seal
    BY <1>3 DEF Seal, BinaryMappedFirst, Held
  \* a write to a page other than an unsealed global page
  <1>4. ASSUME NEW p \in pages, NEW cells \in Storages, Put(p, cells),
               p = GlobalPage => sealed, UNCHANGED <<pages, sealed, snaps>>
        PROVE  BinaryMappedFirst'
    <2>1. CASE sealed
      BY <1>4, <2>1 DEF BinaryMappedFirst, Held
    <2>2. CASE ~sealed
      <3>1. heap'[memory'[GlobalPage]] = heap[memory[GlobalPage]]
        BY <1>0, <1>4, <2>2, PutEffect
      <3> QED BY <1>4, <3>1 DEF BinaryMappedFirst, Held
    <2> QED BY <2>1, <2>2
  <1>5. ASSUME NEW p \in Pages, NEW a \in Addr, NEW v \in ValuesOver(Bytes), Write(p, a, v)
        PROVE  BinaryMappedFirst'
    <2>1. p \in pages /\ (p = GlobalPage => sealed)
      BY <1>5 DEF Write, Accessible
    <2>2. WriteCells(heap[memory[p]], a, v) \in Storages
      BY <2>1, ClientValues, WriteCellsType DEF TypeOK
    <2> QED BY <1>4, <1>5, <2>1, <2>2 DEF Write
  <1>6. ASSUME NEW p \in Pages, NEW a \in Addr, NEW n \in 1..MaxBytes, Read(p, a, n)
        PROVE  BinaryMappedFirst'
    <2>1. PICK fresh \in [Missing(p, a, n) -> Symbols \ used] : ReadWith(p, a, n, fresh)
      BY <1>6, ReadSplit
    <2>2. p \in pages /\ (p = GlobalPage => sealed)
      BY <1>6 DEF Read, Accessible
    <2>3. ReadBack(p, a, n, fresh) \in Storages
      BY <2>2, ReadEffect
    <2>4. CASE Missing(p, a, n) = {}
      BY <2>1, <2>4 DEF ReadWith, BinaryMappedFirst, Held
    <2>5. CASE Missing(p, a, n) # {}
      BY <1>4, <2>1, <2>2, <2>3, <2>5 DEF ReadWith
    <2> QED BY <2>4, <2>5
  <1>7. ASSUME NEW n \in 1..MaxBytes, ReadSymbolic(n) PROVE BinaryMappedFirst'
    BY <1>7 DEF ReadSymbolic, BinaryMappedFirst, Held
  <1>8. ASSUME NEW s \in Snaps, TakeSnapshot(s) PROVE BinaryMappedFirst'
    <2>1. /\ sealed' /\ pages' = pages
          /\ DOMAIN snaps'[s] = pages
          /\ \A t \in Snaps \ {s} : snaps'[t] = snaps[t]
      BY <1>8 DEF TakeSnapshot, TypeOK
    <2> QED BY <2>1 DEF BinaryMappedFirst, Held
  <1>9. ASSUME NEW s \in Snaps, RestoreSnapshot(s) PROVE BinaryMappedFirst'
    <2>1. sealed
      BY <1>9 DEF RestoreSnapshot, BinaryMappedFirst
    <2> QED BY <1>9, <2>1 DEF RestoreSnapshot, BinaryMappedFirst, Held
  <1>10. ASSUME NEW s \in Snaps, DropSnapshot(s) PROVE BinaryMappedFirst'
    <2>1. sealed
      BY <1>10 DEF DropSnapshot, BinaryMappedFirst
    <2>2. /\ sealed' /\ pages' = pages
          /\ DOMAIN snaps'[s] = {}
          /\ \A t \in Snaps \ {s} : snaps'[t] = snaps[t]
      BY <1>10, <2>1 DEF DropSnapshot, NoSnap, TypeOK
    <2> QED BY <2>2 DEF BinaryMappedFirst, Held
  <1>11. CASE UNCHANGED vars
    BY <1>11 DEF vars, BinaryMappedFirst, Held
  <1> QED
    BY <1>1, <1>2, <1>3, <1>5, <1>6, <1>7, <1>8, <1>9, <1>10, <1>11 DEF Next

\* a page object outlives every snapshot that names it
SavedPagesExist == \A s \in Snaps : \A q \in DOMAIN snaps[s] : memory[q] # NoStore

(* Through every operation, a page a snapshot names keeps its page object. *)
LEMMA SavedPagesStep ==
    ASSUME TypeOK, TypeOK', BinaryMappedFirst, SavedPagesExist, [Next]_vars
    PROVE  SavedPagesExist'
  <1>0. \A s \in Snaps : \A q \in DOMAIN snaps[s] :
            q \in Pages /\ snaps[s][q] \in Stores /\ snaps[s][q] # NoStore
    BY MemoryConstants DEF TypeOK, PageMaps
  \* no page loses its storage, and no snapshot appears
  <1>1. ASSUME UNCHANGED snaps, \A q \in Pages : memory[q] # NoStore => memory'[q] # NoStore
        PROVE  SavedPagesExist'
    BY <1>0, <1>1 DEF SavedPagesExist
  <1>2. ASSUME NEW p \in pages, NEW cells \in Storages, Put(p, cells), UNCHANGED snaps
        PROVE  SavedPagesExist'
    <2>1. memory'[p] # NoStore /\ \A q \in Pages \ {p} : memory'[q] = memory[q]
      BY <1>2, PutEffect, MemoryConstants
    <2> QED BY <1>1, <1>2, <2>1
  <1>3. ASSUME NEW p \in Pages, Allocate(p) PROVE SavedPagesExist'
    <2>1. FreshStore \in Stores
      BY <1>3, FreshStoreIsFree DEF Allocate
    <2> QED BY <1>1, <1>3, <2>1, MemoryConstants DEF Allocate, TypeOK
  <1>4. ASSUME NEW a \in Addr, NEW b \in Bytes, Initialize(a, b) PROVE SavedPagesExist'
    <2>1. GlobalPage \in pages /\ <<b>> \in Values
      BY ClientValues DEF Content, BinaryMappedFirst
    <2>2. WriteCells(heap[memory[GlobalPage]], a, <<b>>) \in Storages
      BY <2>1, WriteCellsType DEF TypeOK
    <2> QED BY <1>1, <1>2, <1>4, <2>1, <2>2 DEF Initialize
  <1>5. CASE Seal
    BY <1>1, <1>5 DEF Seal
  <1>6. ASSUME NEW p \in Pages, NEW a \in Addr, NEW v \in ValuesOver(Bytes), Write(p, a, v)
        PROVE  SavedPagesExist'
    <2>1. p \in pages
      BY <1>6 DEF Write, Accessible
    <2>2. WriteCells(heap[memory[p]], a, v) \in Storages
      BY <2>1, ClientValues, WriteCellsType DEF TypeOK
    <2> QED BY <1>2, <1>6, <2>1, <2>2 DEF Write
  <1>7. ASSUME NEW p \in Pages, NEW a \in Addr, NEW n \in 1..MaxBytes, Read(p, a, n)
        PROVE  SavedPagesExist'
    <2>1. PICK fresh \in [Missing(p, a, n) -> Symbols \ used] : ReadWith(p, a, n, fresh)
      BY <1>7, ReadSplit
    <2>2. p \in pages
      BY <1>7 DEF Read, Accessible
    <2>3. ReadBack(p, a, n, fresh) \in Storages
      BY <2>2, ReadEffect
    <2> QED BY <1>1, <1>2, <2>1, <2>2, <2>3 DEF ReadWith
  <1>8. ASSUME NEW n \in 1..MaxBytes, ReadSymbolic(n) PROVE SavedPagesExist'
    BY <1>1, <1>8 DEF ReadSymbolic
  <1>9. ASSUME NEW s \in Snaps, TakeSnapshot(s) PROVE SavedPagesExist'
    <2>1. /\ memory' = memory
          /\ DOMAIN snaps'[s] = pages
          /\ \A t \in Snaps \ {s} : snaps'[t] = snaps[t]
      BY <1>9 DEF TakeSnapshot, TypeOK
    <2> QED BY <2>1 DEF SavedPagesExist, TypeOK
  <1>10. ASSUME NEW s \in Snaps, RestoreSnapshot(s) PROVE SavedPagesExist'
    <2>1. UNCHANGED snaps /\ \A q \in Pages : memory[q] # NoStore => memory'[q] # NoStore
      BY <1>0, <1>10 DEF RestoreSnapshot
    <2> QED BY <1>1, <2>1
  <1>11. ASSUME NEW s \in Snaps, DropSnapshot(s) PROVE SavedPagesExist'
    <2>1. /\ memory' = memory
          /\ DOMAIN snaps'[s] = {}
          /\ \A t \in Snaps \ {s} : snaps'[t] = snaps[t]
      BY <1>11 DEF DropSnapshot, NoSnap, TypeOK
    <2> QED BY <2>1 DEF SavedPagesExist
  <1>12. CASE UNCHANGED vars
    BY <1>1, <1>12 DEF vars
  <1> QED
    BY <1>3, <1>4, <1>5, <1>6, <1>7, <1>8, <1>9, <1>10, <1>11, <1>12 DEF Next

IInv == TypeOK /\ StorageHasOnePage /\ BinaryMappedFirst /\ SavedPagesExist

(* The inductive invariant holds of an empty memory. *)
LEMMA InvInit == Init => IInv
  <1> SUFFICES ASSUME Init PROVE IInv
    OBVIOUS
  <1>1. TypeOK
    BY TypeInit
  <1>2. \A s \in Snaps : DOMAIN snaps[s] = {}
    BY DEF Init, NoSnap
  <1>3. StorageHasOnePage
    BY <1>1, <1>2 DEF Init, StorageHasOnePage
  <1>4. heap[memory[GlobalPage]] = Empty
    BY MemoryConstants DEF Init
  <1>5. BinaryMappedFirst
    BY <1>2, <1>4 DEF Init, BinaryMappedFirst, Held
  <1> QED BY <1>1, <1>2, <1>3, <1>5 DEF IInv, SavedPagesExist

(* The inductive invariant is preserved by every operation. *)
LEMMA InvStep == IInv /\ [Next]_vars => IInv'
  BY TypeStep, OwnershipStep, MappingStep, SavedPagesStep DEF IInv

(* The inductive invariant holds in every reachable state. *)
LEMMA Invariance == Spec => []IInv
  BY InvInit, InvStep, PTL DEF Spec

(* Every state variable of the paged memory keeps its type: a page of the  *)
(* vector always has a storage, a cell always names an existing byte.      *)
THEOREM TypeCorrect == Spec => []TypeOK
  BY Invariance, PTL DEF IInv

(* No two pages ever share a storage, not even through snapshots: the      *)
(* copy-on-write of mem_page::write and restore_snapshot never alias.      *)
THEOREM NoAliasing == Spec => []StorageHasOnePage
  BY Invariance, PTL DEF IInv

(* The binary is mapped before anything is laid over it or saved. *)
THEOREM MappedFirst == Spec => []BinaryMappedFirst
  BY Invariance, PTL DEF IInv

-----------------------------------------------------------------------------
\* What the clients see: contents byte by byte

Born == {p \in Pages : memory[p] # NoStore}

(* A page->write shows in its own page and nowhere else. *)
LEMMA PutContent ==
    ASSUME IInv, NEW p \in pages, NEW cells \in Storages, Put(p, cells),
           UNCHANGED <<pages, snaps, initial>>
    PROVE  /\ CurrentContent' = [CurrentContent EXCEPT ![p] = Bytewise(p, cells)]
           /\ \A s \in Snaps : SavedContent(s)' = SavedContent(s)
           /\ Born' = Born
  <1> USE DEF IInv
  <1>1. p \in Pages /\ memory[p] \in Stores /\ pages \subseteq Pages
        /\ \A q \in pages : memory[q] \in Stores
    BY DEF TypeOK
  <1>2. /\ memory'[p] \in Stores
        /\ heap'[memory'[p]] = cells
        /\ \A q \in Pages \ {p} :
              /\ memory'[q] = memory[q]
              /\ memory[q] \in Stores => heap'[memory[q]] = heap[memory[q]]
        /\ \A s \in Snaps : \A q \in DOMAIN snaps[s] :
              heap'[snaps[s][q]] = heap[snaps[s][q]]
    BY PutEffect
  <1>3. CurrentContent' = [q \in pages |-> Bytewise(q, heap'[memory'[q]])]
    BY DEF CurrentContent, Bytewise, Find
  <1>4. \A q \in pages \ {p} : heap'[memory'[q]] = heap[memory[q]]
    BY <1>1, <1>2
  <1>5. [q \in pages |-> Bytewise(q, heap'[memory'[q]])]
          = [CurrentContent EXCEPT ![p] = Bytewise(p, cells)]
    BY <1>2, <1>4 DEF CurrentContent
  <1>6. ASSUME NEW s \in Snaps PROVE SavedContent(s)' = SavedContent(s)
    <2>1. SavedContent(s)' = [q \in DOMAIN snaps[s] |-> Bytewise(q, heap'[snaps[s][q]])]
      BY DEF SavedContent, Bytewise, Find
    <2> QED BY <1>2, <2>1 DEF SavedContent
  <1>7. Born' = Born
    BY <1>1, <1>2, MemoryConstants DEF Born
  <1> QED BY <1>3, <1>5, <1>6, <1>7

(* Storing a value overwrites exactly its bytes, in the client's view. *)
LEMMA WriteBytes ==
    ASSUME IInv, NEW p \in Pages, NEW st \in Storages, NEW a \in Addr, NEW v \in Values
    PROVE  Bytewise(p, WriteCells(st, a, v))
             = [x \in Addr |-> IF Offset(a, x) < Len(v) THEN v[Offset(a, x) + 1]
                               ELSE Bytewise(p, st)[x]]
  <1>1. ASSUME NEW x \in Addr, Offset(a, x) < Len(v)
        PROVE  Bytewise(p, WriteCells(st, a, v))[x] = v[Offset(a, x) + 1]
    <2>1. Offset(a, x) \in 0..Len(v)-1
      BY <1>1, OffsetFacts, ValueFacts, MemoryConstants DEF Values
    <2>2. Cell(v, Offset(a, x)) \in Cells /\ ByteOf(Cell(v, Offset(a, x))) = v[Offset(a, x) + 1]
      BY <2>1, CellType
    <2>3. WriteCells(st, a, v)[x] = Cell(v, Offset(a, x))
      BY <1>1 DEF WriteCells
    <2>4. Find(p, WriteCells(st, a, v), x) = Cell(v, Offset(a, x))
      BY <2>2, <2>3, CellAssumption DEF Find
    <2> QED BY <2>2, <2>4, CellAssumption DEF Bytewise
  <1>2. ASSUME NEW x \in Addr, ~(Offset(a, x) < Len(v))
        PROVE  Bytewise(p, WriteCells(st, a, v))[x] = Bytewise(p, st)[x]
    <2>1. WriteCells(st, a, v)[x] = st[x]
      BY <1>2 DEF WriteCells
    <2> QED BY <2>1 DEF Bytewise, Find
  <1>3. /\ DOMAIN Bytewise(p, WriteCells(st, a, v)) = Addr
        /\ Bytewise(p, WriteCells(st, a, v))
             = [x \in Addr |-> Bytewise(p, WriteCells(st, a, v))[x]]
    BY DEF Bytewise
  <1> QED BY <1>1, <1>2, <1>3

(* The same for a byte put into the initial memory below an empty overlay. *)
LEMMA InitializeBytes ==
    ASSUME IInv, NEW a \in Addr, NEW b \in Bytes,
           initial' = WriteCells(initial, a, <<b>>)
    PROVE  Bytewise(GlobalPage, Empty)'
             = [x \in Addr |-> IF Offset(a, x) < Len(<<b>>) THEN <<b>>[Offset(a, x) + 1]
                               ELSE Bytewise(GlobalPage, Empty)[x]]
  <1> DEFINE new == WriteCells(initial, a, <<b>>)
  <1>0. <<b>> \in Values /\ initial \in Storages
    BY ClientValues DEF Content, IInv, TypeOK
  <1>1. ASSUME NEW st \in Storages, NEW x \in Addr
        PROVE  /\ (IF Empty[x] # NoCell THEN Empty[x] ELSE st[x]) = st[x]
    BY DEF Empty
  <1>2. new \in Storages
    BY <1>0, WriteCellsType
  <1>3. Bytewise(GlobalPage, Empty)'
          = [x \in Addr |-> IF new[x] = NoCell THEN Unknown ELSE ByteOf(new[x])]
    BY DEF Bytewise, Find, Empty
  <1>4. Bytewise(GlobalPage, Empty)
          = [x \in Addr |-> IF initial[x] = NoCell THEN Unknown ELSE ByteOf(initial[x])]
    BY DEF Bytewise, Find, Empty
  <1>5. ASSUME NEW x \in Addr, Offset(a, x) < Len(<<b>>)
        PROVE  new[x] # NoCell /\ ByteOf(new[x]) = <<b>>[Offset(a, x) + 1]
    <2>1. Offset(a, x) \in 0..Len(<<b>>)-1
      BY <1>0, <1>5, OffsetFacts, ValueFacts, MemoryConstants DEF Values
    <2>2. /\ Cell(<<b>>, Offset(a, x)) \in Cells
          /\ ByteOf(Cell(<<b>>, Offset(a, x))) = <<b>>[Offset(a, x) + 1]
      BY <1>0, <2>1, CellType
    <2>3. new[x] = Cell(<<b>>, Offset(a, x))
      BY <1>5 DEF WriteCells
    <2> QED BY <2>2, <2>3, CellAssumption
  <1>6. ASSUME NEW x \in Addr, ~(Offset(a, x) < Len(<<b>>))
        PROVE  new[x] = initial[x]
    BY <1>6 DEF WriteCells
  <1> HIDE DEF new
  <1> QED BY <1>3, <1>4, <1>5, <1>6

-----------------------------------------------------------------------------
\* Snapshot isolation

(* No operation changes what a snapshot that stays held will restore. *)
LEMMA IsolationStep ==
    ASSUME IInv, [Next]_vars, NEW s \in Snaps, Held(s), Held(s)'
    PROVE  SavedContent(s)' = SavedContent(s)
  <1> USE DEF IInv
  <1>0. sealed
    BY DEF BinaryMappedFirst
  <1>1. \A q \in DOMAIN snaps[s] : snaps[s][q] \in Stores /\ snaps[s][q] \in Live
    BY DEF TypeOK, PageMaps, Live, SnapStores
  \* a step that keeps the snapshot, its storages and the initial memory
  <1>2. ASSUME snaps'[s] = snaps[s], initial' = initial,
               \A q \in DOMAIN snaps[s] : heap'[snaps[s][q]] = heap[snaps[s][q]]
        PROVE  SavedContent(s)' = SavedContent(s)
    <2>1. SavedContent(s)' = [q \in DOMAIN snaps[s] |-> Bytewise(q, heap'[snaps[s][q]])]
      BY <1>2 DEF SavedContent, Bytewise, Find
    <2> QED BY <1>2, <2>1 DEF SavedContent
  <1>3. ASSUME NEW p \in Pages, Allocate(p) PROVE SavedContent(s)' = SavedContent(s)
    <2>1. FreshStore \notin Live
      BY <1>3, FreshStoreIsFree DEF Allocate
    <2>2. \A q \in DOMAIN snaps[s] : heap'[snaps[s][q]] = heap[snaps[s][q]]
      BY <1>1, <1>3, <2>1 DEF Allocate, TypeOK
    <2> QED BY <1>2, <1>3, <2>2 DEF Allocate
  <1>4. ASSUME NEW a \in Addr, NEW b \in Bytes, Initialize(a, b)
        PROVE  SavedContent(s)' = SavedContent(s)
    <2>1. GlobalPage \in pages /\ <<b>> \in Values
      BY ClientValues DEF Content, BinaryMappedFirst
    <2>2. WriteCells(heap[memory[GlobalPage]], a, <<b>>) \in Storages
      BY <2>1, WriteCellsType DEF TypeOK
    <2> QED BY <1>0, <1>4, <2>1, <2>2, PutContent DEF Initialize
  <1>5. CASE Seal
    BY <1>2, <1>5 DEF Seal
  <1>6. ASSUME NEW p \in Pages, NEW a \in Addr, NEW v \in ValuesOver(Bytes), Write(p, a, v)
        PROVE  SavedContent(s)' = SavedContent(s)
    <2>1. p \in pages
      BY <1>6 DEF Write, Accessible
    <2>2. WriteCells(heap[memory[p]], a, v) \in Storages
      BY <2>1, ClientValues, WriteCellsType DEF TypeOK
    <2> QED BY <1>6, <2>1, <2>2, PutContent DEF Write
  <1>7. ASSUME NEW p \in Pages, NEW a \in Addr, NEW n \in 1..MaxBytes, Read(p, a, n)
        PROVE  SavedContent(s)' = SavedContent(s)
    <2>1. PICK fresh \in [Missing(p, a, n) -> Symbols \ used] : ReadWith(p, a, n, fresh)
      BY <1>7, ReadSplit
    <2>2. p \in pages
      BY <1>7 DEF Read, Accessible
    <2>3. ReadBack(p, a, n, fresh) \in Storages
      BY <2>2, ReadEffect
    <2>4. CASE Missing(p, a, n) = {}
      BY <1>2, <2>1, <2>4 DEF ReadWith
    <2>5. CASE Missing(p, a, n) # {}
      BY <2>1, <2>2, <2>3, <2>5, PutContent DEF ReadWith
    <2> QED BY <2>4, <2>5
  <1>8. ASSUME NEW n \in 1..MaxBytes, ReadSymbolic(n) PROVE SavedContent(s)' = SavedContent(s)
    BY <1>2, <1>8 DEF ReadSymbolic
  <1>9. ASSUME NEW t \in Snaps, TakeSnapshot(t) PROVE SavedContent(s)' = SavedContent(s)
    <2>1. t # s
      BY <1>9 DEF TakeSnapshot
    <2> QED BY <1>2, <1>9, <2>1 DEF TakeSnapshot, TypeOK
  <1>10. ASSUME NEW t \in Snaps, RestoreSnapshot(t) PROVE SavedContent(s)' = SavedContent(s)
    <2>1. \A q \in DOMAIN snaps[s] : snaps[s][q] \in Live'
      BY <1>10 DEF RestoreSnapshot, Live, SnapStores
    <2>2. \A q \in DOMAIN snaps[s] : heap'[snaps[s][q]] = heap[snaps[s][q]]
      BY <1>1, <1>10, <2>1 DEF RestoreSnapshot, Collect
    <2> QED BY <1>2, <1>10, <2>2 DEF RestoreSnapshot
  <1>11. ASSUME NEW t \in Snaps, DropSnapshot(t) PROVE SavedContent(s)' = SavedContent(s)
    <2>1. t # s
      <3> SUFFICES ASSUME t = s PROVE FALSE
        OBVIOUS
      <3>1. snaps'[s] = NoSnap
        BY <1>11 DEF DropSnapshot, TypeOK
      <3> QED BY <3>1 DEF Held, NoSnap
    <2>2. snaps'[s] = snaps[s]
      BY <1>11, <2>1 DEF DropSnapshot, TypeOK
    <2>3. \A q \in DOMAIN snaps[s] : snaps[s][q] \in Live'
      BY <2>2 DEF Live, SnapStores
    <2>4. \A q \in DOMAIN snaps[s] : heap'[snaps[s][q]] = heap[snaps[s][q]]
      BY <1>1, <1>11, <2>3 DEF DropSnapshot, Collect
    <2> QED BY <1>2, <1>11, <2>2, <2>4 DEF DropSnapshot
  <1>12. CASE UNCHANGED vars
    BY <1>2, <1>12 DEF vars
  <1> QED
    BY <1>3, <1>4, <1>5, <1>6, <1>7, <1>8, <1>9, <1>10, <1>11, <1>12 DEF Next

(* Whatever the current path writes, reads, initialises, allocates or      *)
(* restores, what a held snapshot brings back stays what it was when it    *)
(* was taken: the copy-on-write test of mem_page::write is sufficient.     *)
THEOREM SnapshotIsolation == Spec => SnapshotsNeverChange
  <1>1. IInv /\ [Next]_vars
          => [\A s \in Snaps : Held(s) /\ Held(s)' => SavedContent(s)' = SavedContent(s)]_vars
    BY IsolationStep
  <1> QED BY <1>1, Invariance, PTL DEF Spec, SnapshotsNeverChange

-----------------------------------------------------------------------------
\* Refinement of AbstractMemory

(* An empty paged memory is an empty abstract memory. *)
LEMMA AbsInit == Init => Abs!AInit
  <1> SUFFICES ASSUME Init PROVE Abs!AInit
    OBVIOUS
  <1>1. CurrentContent = [p \in {GlobalPage} |-> Abs!Blank]
    BY MemoryConstants DEF Init, CurrentContent, Bytewise, Find, Empty, Abs!Blank, Abs!Addr, Addr
  <1>2. [s \in Snaps |-> SavedContent(s)] = [s \in Snaps |-> [p \in {} |-> Abs!Blank]]
    BY DEF Init, SavedContent, NoSnap
  <1>3. {p \in Pages : memory[p] # NoStore} = {GlobalPage}
    <2>1. (CHOOSE st \in Stores : TRUE) \in Stores
      BY MemoryConstants
    <2> QED BY <2>1, MemoryConstants DEF Init
  <1> QED BY <1>1, <1>2, <1>3 DEF Init, Abs!AInit

(* Every step of the paged memory is a step of the abstract one, or        *)
(* invisible to it (sealing).                                              *)
LEMMA AbsStep ==
    ASSUME IInv, IInv', [Next]_vars
    PROVE  [Abs!ANext]_(Abs!avars)
  <1> USE DEF IInv
  <1> DEFINE saved == [s \in Snaps |-> SavedContent(s)]
  <1>0. /\ pages \subseteq Pages /\ GlobalPage \in pages
        /\ \A p \in pages : memory[p] \in Stores /\ heap[memory[p]] \in Storages
        /\ DOMAIN CurrentContent = pages
    BY DEF TypeOK, BinaryMappedFirst, CurrentContent
  <1>00. /\ Abs!Addr = Addr /\ Abs!DataValues = ValuesOver(Bytes)
         /\ \A a, x : Abs!Offset(a, x) = Offset(a, x)
         /\ \A y : Abs!Wrap(y) = Wrap(y)
    BY DEF Abs!Addr, Addr, Abs!DataValues, ValuesOver, Abs!Offset, Offset, Abs!Wrap, Wrap
  \* a put of the cells of v at a is the abstract write of v
  <1>1. ASSUME NEW p \in pages, NEW a \in Addr, NEW v \in ValuesOver(Bytes),
               CurrentContent' = [CurrentContent EXCEPT ![p] =
                   [x \in Addr |-> IF Offset(a, x) < Len(v) THEN v[Offset(a, x) + 1]
                                   ELSE CurrentContent[p][x]]],
               saved' = saved, Born' = Born, UNCHANGED <<used, result>>
        PROVE  Abs!ANext
    <2>1. Abs!AWrite(p, a, v)
      BY <1>0, <1>00, <1>1 DEF Abs!AWrite, Abs!Overwrite, Born
    <2> QED BY <1>0, <1>00, <2>1 DEF Abs!ANext
  <1>2. ASSUME NEW p \in Pages, Allocate(p) PROVE Abs!ANext
    <2>1. FreshStore \in Stores /\ FreshStore \notin Live
      BY <1>2, FreshStoreIsFree DEF Allocate
    <2>2. p \notin pages /\ p \notin Born
      BY <1>0, <1>2, MemoryConstants DEF Allocate, Born
    <2>3. /\ memory'[p] = FreshStore /\ heap'[FreshStore] = Empty
          /\ \A q \in Pages \ {p} : memory'[q] = memory[q]
          /\ \A st \in Stores \ {FreshStore} : heap'[st] = heap[st]
          /\ pages' = pages \cup {p} /\ UNCHANGED <<initial, snaps, used, result>>
      BY <1>2, <2>1 DEF Allocate, TypeOK
    <2>4. Born' = Born \cup {p}
      BY <2>1, <2>3, MemoryConstants DEF Born
    <2>5. Bytewise(p, Empty) = Abs!Blank
      <3>1. p # GlobalPage
        BY <1>0, <2>2
      <3> QED BY <1>00, <3>1 DEF Bytewise, Find, Empty, Abs!Blank
    <2>6. CurrentContent' = [q \in pages \cup {p} |-> Bytewise(q, heap'[memory'[q]])]
      BY <2>3 DEF CurrentContent, Bytewise, Find
    <2>7. \A q \in pages : q # p /\ heap'[memory'[q]] = heap[memory[q]]
      BY <1>0, <2>1, <2>2, <2>3 DEF Live
    <2>8. CurrentContent' = [q \in DOMAIN CurrentContent \cup {p} |->
                               IF q = p THEN Abs!Blank ELSE CurrentContent[q]]
      BY <1>0, <2>3, <2>5, <2>6, <2>7 DEF CurrentContent
    <2>9. saved' = saved
      <3>1. \A s \in Snaps : \A q \in DOMAIN snaps[s] :
               snaps[s][q] \in Stores /\ snaps[s][q] \in Live
        BY DEF TypeOK, PageMaps, Live, SnapStores
      <3>2. \A s \in Snaps : \A q \in DOMAIN snaps[s] : heap'[snaps[s][q]] = heap[snaps[s][q]]
        BY <2>1, <2>3, <3>1
      <3>3. \A s \in Snaps :
               SavedContent(s)' = [q \in DOMAIN snaps[s] |-> Bytewise(q, heap'[snaps[s][q]])]
        BY <2>3 DEF SavedContent, Bytewise, Find
      <3>4. \A s \in Snaps : SavedContent(s)' = SavedContent(s)
        BY <3>2, <3>3 DEF SavedContent
      <3> QED BY <3>4
    <2> HIDE DEF saved
    <2>10. Abs!AAllocate(p)
      BY <2>2, <2>3, <2>4, <2>8, <2>9 DEF Abs!AAllocate, Born, saved
    <2> QED BY <2>10 DEF Abs!ANext
  <1>3. ASSUME NEW a \in Addr, NEW b \in Bytes, Initialize(a, b) PROVE Abs!ANext
    <2>0. PICK v \in ValuesOver(Bytes) : v = <<b>>
      BY ClientValues
    <2> DEFINE g == GlobalPage
               old == heap[memory[g]]
               new == [x \in Addr |-> IF Offset(a, x) < Len(v) THEN v[Offset(a, x) + 1]
                                     ELSE CurrentContent[g][x]]
    <2>1. /\ v \in Values /\ v \in ValuesOver(Bytes)
          /\ g \in pages /\ g \in Pages /\ old \in Storages
      BY <1>0, ClientValues
    <2>2. UNCHANGED <<used, result, pages, snaps>>
      BY <1>3 DEF Initialize
    <2>3. CurrentContent[g] = Bytewise(g, old)
      BY <2>1 DEF CurrentContent
    <2>4. CASE sealed
      <3>1. WriteCells(old, a, v) \in Storages
        BY <2>1, WriteCellsType
      <3>2. Put(g, WriteCells(old, a, v)) /\ UNCHANGED initial
        BY <1>3, <2>0, <2>4 DEF Initialize
      <3>3. /\ CurrentContent' = [CurrentContent EXCEPT ![g] = Bytewise(g, WriteCells(old, a, v))]
            /\ \A s \in Snaps : SavedContent(s)' = SavedContent(s)
            /\ Born' = Born
        BY <2>1, <2>2, <3>1, <3>2, PutContent
      <3>4. Bytewise(g, WriteCells(old, a, v))
              = [x \in Addr |-> IF Offset(a, x) < Len(v) THEN v[Offset(a, x) + 1]
                                ELSE Bytewise(g, old)[x]]
        BY <2>1, WriteBytes
      <3>5. CurrentContent' = [CurrentContent EXCEPT ![g] = new]
        BY <2>3, <3>3, <3>4
      <3>6. saved' = saved
        BY <3>3
      <3> HIDE DEF saved
      <3> QED BY <1>1, <2>1, <2>2, <3>3, <3>5, <3>6
    <2>5. CASE ~sealed
      <3>1. /\ initial' = WriteCells(initial, a, v) /\ UNCHANGED <<memory, heap>>
            /\ old = Empty /\ \A s \in Snaps : DOMAIN snaps[s] = {}
        BY <1>3, <2>0, <2>5 DEF Initialize, BinaryMappedFirst, Held
      <3>2. \A q \in pages \ {g} : Bytewise(q, heap[memory[q]])' = Bytewise(q, heap[memory[q]])
        BY <3>1 DEF Bytewise, Find
      <3>3. Bytewise(g, heap[memory[g]])' = new
        <4>1. Bytewise(g, Empty)' = [x \in Addr |-> IF Offset(a, x) < Len(v)
                                                    THEN v[Offset(a, x) + 1]
                                                    ELSE Bytewise(g, Empty)[x]]
          BY <2>0, <3>1, InitializeBytes
        <4>2. heap'[memory'[g]] = Empty
          BY <3>1
        <4>3. Bytewise(g, heap[memory[g]])' = Bytewise(g, Empty)'
          BY <4>2 DEF Bytewise, Find, Empty
        <4> QED BY <2>3, <3>1, <4>1, <4>3
      <3>4. CurrentContent' = [q \in pages |-> Bytewise(q, heap[memory[q]])']
        BY <2>2 DEF CurrentContent
      <3>5. CurrentContent' = [CurrentContent EXCEPT ![g] = new]
        <4> HIDE DEF new
        <4> QED BY <3>2, <3>3, <3>4 DEF CurrentContent
      <3>6. saved' = saved
        BY <2>2, <3>1 DEF SavedContent
      <3>7. Born' = Born
        BY <3>1 DEF Born
      <3> HIDE DEF saved
      <3> QED BY <1>1, <2>1, <2>2, <3>5, <3>6, <3>7
    <2> QED BY <2>4, <2>5
  <1>4. CASE Seal
    <2>1. CurrentContent' = CurrentContent /\ Born' = Born
      BY <1>4 DEF Seal, CurrentContent, Bytewise, Find, Born
    <2>2. saved' = saved
      BY <1>4 DEF Seal, SavedContent, Bytewise, Find
    <2> QED BY <1>4, <2>1, <2>2 DEF Seal, Abs!avars, Born
  <1>5. ASSUME NEW p \in Pages, NEW a \in Addr, NEW v \in ValuesOver(Bytes), Write(p, a, v)
        PROVE  Abs!ANext
    <2>1. p \in pages /\ v \in Values
      BY <1>5, ClientValues DEF Write, Accessible
    <2>2. WriteCells(heap[memory[p]], a, v) \in Storages
      BY <1>0, <2>1, WriteCellsType
    <2>3. /\ CurrentContent' = [CurrentContent EXCEPT ![p] =
                                   Bytewise(p, WriteCells(heap[memory[p]], a, v))]
          /\ \A s \in Snaps : SavedContent(s)' = SavedContent(s)
          /\ Born' = Born
      BY <1>5, <2>1, <2>2, PutContent DEF Write
    <2>4. CurrentContent[p] = Bytewise(p, heap[memory[p]])
      BY <2>1 DEF CurrentContent
    <2>5. Bytewise(p, WriteCells(heap[memory[p]], a, v))
            = [x \in Addr |-> IF Offset(a, x) < Len(v) THEN v[Offset(a, x) + 1]
                              ELSE CurrentContent[p][x]]
      <3>1. heap[memory[p]] \in Storages
        BY <1>0, <2>1
      <3>2. Bytewise(p, WriteCells(heap[memory[p]], a, v))
              = [x \in Addr |-> IF Offset(a, x) < Len(v) THEN v[Offset(a, x) + 1]
                                ELSE Bytewise(p, heap[memory[p]])[x]]
        BY <2>1, <3>1, WriteBytes
      <3> QED BY <2>4, <3>2
    <2>6. saved' = saved
      BY <2>3
    <2>7. UNCHANGED <<used, result>>
      BY <1>5 DEF Write
    <2> HIDE DEF saved
    <2> QED BY <1>1, <2>1, <2>3, <2>5, <2>6, <2>7
  <1>6. ASSUME NEW p \in Pages, NEW a \in Addr, NEW n \in 1..MaxBytes, Read(p, a, n)
        PROVE  Abs!ANext
    <2> DEFINE old == heap[memory[p]]
               M == Missing(p, a, n)
    <2>1. PICK fresh \in [M -> Symbols \ used] : ReadWith(p, a, n, fresh)
      BY <1>6, ReadSplit
    <2> DEFINE new == [x \in Addr |-> IF x \in M THEN fresh[x] ELSE CurrentContent[p][x]]
    <2>2. p \in pages /\ p \in Pages /\ old \in Storages
      BY <1>0, <1>6 DEF Read, Accessible
    <2>3. CurrentContent[p] = Bytewise(p, old)
      BY <2>2 DEF CurrentContent
    <2>4. \A x \in Addr : Find(p, old, x) \in Cells \cup {NoCell}
      BY <2>2, FindType
    <2>5. M = {x \in Addr : Offset(a, x) < n /\ CurrentContent[p][x] = Unknown}
      <3>1. \A x \in Addr : Bytewise(p, old)[x] = Unknown <=> Find(p, old, x) = NoCell
        BY <2>4, ByteType, MemoryConstants DEF Bytewise, Content
      <3> QED BY <2>3, <3>1 DEF Missing
    <2>6. \A x \in M : x \in Addr /\ Cell(<<fresh[x]>>, 0) \in Cells
                       /\ ByteOf(Cell(<<fresh[x]>>, 0)) = fresh[x]
      BY <2>2, ReadEffect DEF Missing
    <2>7. CurrentContent' = [CurrentContent EXCEPT ![p] = new] /\ saved' = saved /\ Born' = Born
      <3>1. CASE M = {}
        <4>1. UNCHANGED <<memory, heap, pages, initial, snaps>>
          BY <2>1, <3>1 DEF ReadWith
        <4>2. CurrentContent' = CurrentContent /\ Born' = Born
          BY <4>1 DEF CurrentContent, Bytewise, Find, Born
        <4>3. saved' = saved
          BY <4>1 DEF SavedContent, Bytewise, Find
        <4>4. new = CurrentContent[p]
          <5>1. Bytewise(p, old) = [x \in Addr |-> Bytewise(p, old)[x]]
            BY DEF Bytewise
          <5> QED BY <2>3, <3>1, <5>1
        <4>5. CurrentContent = [CurrentContent EXCEPT ![p] = new]
          BY <1>0, <2>2, <4>4 DEF CurrentContent
        <4> QED BY <4>2, <4>3, <4>5
      <3>2. CASE M # {}
        <4>1. ReadBack(p, a, n, fresh) \in Storages
          BY <2>2, ReadEffect
        <4>2. /\ CurrentContent' = [CurrentContent EXCEPT ![p] = Bytewise(p, ReadBack(p, a, n, fresh))]
              /\ \A s \in Snaps : SavedContent(s)' = SavedContent(s)
              /\ Born' = Born
          BY <2>1, <2>2, <3>2, <4>1, PutContent DEF ReadWith
        <4>3. \A x \in M : ReadBack(p, a, n, fresh)[x] = Cell(<<fresh[x]>>, 0)
          BY <2>6 DEF ReadBack
        <4>4. \A x \in Addr \ M : ReadBack(p, a, n, fresh)[x] = old[x]
          BY DEF ReadBack
        <4>5. \A x \in M : Bytewise(p, ReadBack(p, a, n, fresh))[x] = fresh[x]
          BY <2>6, <4>3, CellAssumption DEF Bytewise, Find
        <4>6. \A x \in Addr \ M : Bytewise(p, ReadBack(p, a, n, fresh))[x] = Bytewise(p, old)[x]
          BY <4>4 DEF Bytewise, Find
        <4>7. Bytewise(p, ReadBack(p, a, n, fresh))
                = [x \in Addr |-> Bytewise(p, ReadBack(p, a, n, fresh))[x]]
          BY DEF Bytewise
        <4>8. Bytewise(p, ReadBack(p, a, n, fresh)) = new
          BY <2>3, <4>5, <4>6, <4>7
        <4> QED BY <4>2, <4>8
      <3> QED BY <3>1, <3>2
    <2>8. result' = [j \in 1..n |-> new[Wrap(a + j - 1)]]
      <3>1. result' = [j \in 1..n |-> ByteOf(ReadCell(p, a, n, fresh, Wrap(a + j - 1)))]
        BY <2>1, <2>2, ReadResult DEF ReadWith
      <3>2. ASSUME NEW x \in Addr, ReadCell(p, a, n, fresh, x) \in Cells
            PROVE  ByteOf(ReadCell(p, a, n, fresh, x)) = new[x]
        <4>1. CASE x \in M
          BY <2>6, <4>1 DEF ReadCell
        <4>2. CASE x \notin M
          <5>1. ReadCell(p, a, n, fresh, x) = Find(p, old, x)
            BY <4>2 DEF ReadCell
          <5>2. new[x] = Bytewise(p, old)[x]
            BY <2>3, <4>2
          <5>3. Find(p, old, x) # NoCell
            BY <3>2, <5>1, CellAssumption
          <5>4. Bytewise(p, old)[x] = ByteOf(Find(p, old, x))
            BY <5>3 DEF Bytewise
          <5> QED BY <5>1, <5>2, <5>4
        <4> QED BY <4>1, <4>2
      <3>3. ASSUME NEW j \in 1..n
            PROVE  /\ Wrap(a + j - 1) \in Addr
                   /\ ReadCell(p, a, n, fresh, Wrap(a + j - 1)) \in Cells
        <4>1. j - 1 \in 0..n-1 /\ a + (j - 1) = a + j - 1
          BY MemoryConstants DEF Addr
        <4> QED BY <2>2, <4>1, ReadEffect
      <3> HIDE DEF new
      <3> QED BY <3>1, <3>2, <3>3
    <2>9. IsInjective(fresh) /\ used' = used \cup Range(fresh)
      BY <2>1 DEF ReadWith
    <2>10. CurrentContent'[p] = new
      BY <1>0, <2>2, <2>7
    <2>11. Abs!ARead(p, a, n)
      <3> HIDE DEF saved, M
      <3>1. M = {x \in Abs!Addr : Abs!Offset(a, x) < n /\ CurrentContent[p][x] = Unknown}
        BY <1>00, <2>5
      <3>2. result' = [j \in 1..n |-> CurrentContent'[p][Abs!Wrap(a + j - 1)]]
        BY <1>00, <2>8, <2>10
      <3>3. CurrentContent' = [CurrentContent EXCEPT ![p] =
                [x \in Abs!Addr |-> IF x \in M THEN fresh[x] ELSE CurrentContent[p][x]]]
        BY <1>00, <2>7
      <3>4. Abs!IsInjective(fresh) /\ used' = used \cup Abs!Range(fresh)
        BY <2>9 DEF IsInjective, Abs!IsInjective, Range, Abs!Range
      <3> HIDE DEF new
      <3> QED BY <1>0, <2>2, <2>7, <3>1, <3>2, <3>3, <3>4 DEF Abs!ARead, Born, saved
    <2> QED BY <1>00, <2>2, <2>11 DEF Abs!ANext
  <1>7. ASSUME NEW n \in 1..MaxBytes, ReadSymbolic(n) PROVE Abs!ANext
    <2>1. CurrentContent' = CurrentContent /\ Born' = Born
      BY <1>7 DEF ReadSymbolic, CurrentContent, Bytewise, Find, Born
    <2>2. saved' = saved
      BY <1>7 DEF ReadSymbolic, SavedContent, Bytewise, Find
    <2>3. Abs!AReadAnywhere(n)
      BY <1>7, <2>1, <2>2 DEF ReadSymbolic, Abs!AReadAnywhere, Born, IsInjective,
         Abs!IsInjective, Range, Abs!Range
    <2> QED BY <2>3 DEF Abs!ANext
  <1>8. ASSUME NEW s \in Snaps, TakeSnapshot(s) PROVE Abs!ANext
    <2>1. /\ snaps'[s] = [p \in pages |-> memory[p]] /\ DOMAIN snaps[s] = {}
          /\ \A t \in Snaps \ {s} : snaps'[t] = snaps[t]
          /\ UNCHANGED <<pages, memory, heap, initial, used, result>>
      BY <1>8 DEF TakeSnapshot, TypeOK, Held
    <2>2. CurrentContent' = CurrentContent /\ Born' = Born
      BY <2>1 DEF CurrentContent, Bytewise, Find, Born
    <2>3. SavedContent(s)' = CurrentContent
      BY <2>1 DEF SavedContent, CurrentContent, Bytewise, Find
    <2>4. \A t \in Snaps \ {s} : SavedContent(t)' = SavedContent(t)
      BY <2>1 DEF SavedContent, Bytewise, Find
    <2>5. saved' = [saved EXCEPT ![s] = CurrentContent]
      BY <2>3, <2>4
    <2>6. DOMAIN saved[s] = {}
      BY <2>1 DEF SavedContent
    <2> HIDE DEF saved
    <2>7. Abs!ATake(s)
      BY <2>1, <2>2, <2>5, <2>6 DEF Abs!ATake, Born, saved
    <2> QED BY <2>7 DEF Abs!ANext
  <1>9. ASSUME NEW s \in Snaps, RestoreSnapshot(s) PROVE Abs!ANext
    <2>0. /\ \A t \in Snaps : \A q \in DOMAIN snaps[t] :
                snaps[t][q] \in Stores /\ snaps[t][q] \in Live' /\ q \in Pages
          /\ DOMAIN snaps[s] # {}
      BY <1>9 DEF TypeOK, PageMaps, RestoreSnapshot, Live, SnapStores, Held
    <2>1. /\ pages' = DOMAIN snaps[s]
          /\ \A q \in DOMAIN snaps[s] : memory'[q] = snaps[s][q]
          /\ \A q \in Pages \ DOMAIN snaps[s] : memory'[q] = memory[q]
          /\ \A st \in Stores : st \in Live' => heap'[st] = heap[st]
          /\ UNCHANGED <<initial, snaps, used, result>>
      BY <1>9, <2>0 DEF RestoreSnapshot, Collect
    <2>2. \A t \in Snaps : SavedContent(t)' = SavedContent(t)
      <3>1. \A t \in Snaps :
              SavedContent(t)' = [q \in DOMAIN snaps[t] |-> Bytewise(q, heap'[snaps[t][q]])]
        BY <2>1 DEF SavedContent, Bytewise, Find
      <3>2. \A t \in Snaps : \A q \in DOMAIN snaps[t] : heap'[snaps[t][q]] = heap[snaps[t][q]]
        BY <2>0, <2>1
      <3> QED BY <3>1, <3>2 DEF SavedContent
    <2>3. CurrentContent' = SavedContent(s)
      <3>1. CurrentContent' = [q \in DOMAIN snaps[s] |-> Bytewise(q, heap'[memory'[q]])]
        BY <2>1 DEF CurrentContent, Bytewise, Find
      <3>2. \A q \in DOMAIN snaps[s] : heap'[memory'[q]] = heap[snaps[s][q]]
        BY <2>0, <2>1
      <3> QED BY <3>1, <3>2 DEF SavedContent
    <2>4. Born' = Born
      <3>1. \A q \in DOMAIN snaps[s] : q \in Born
        BY <2>0 DEF SavedPagesExist, Born
      <3> QED BY <2>0, <2>1, <3>1, MemoryConstants DEF Born
    <2>5. saved' = saved /\ saved[s] = SavedContent(s) /\ DOMAIN saved[s] # {}
      BY <2>0, <2>2 DEF SavedContent
    <2> HIDE DEF saved
    <2>6. Abs!ARestore(s)
      BY <2>1, <2>3, <2>4, <2>5 DEF Abs!ARestore, Born, saved
    <2> QED BY <2>6 DEF Abs!ANext
  <1>10. ASSUME NEW s \in Snaps, DropSnapshot(s) PROVE Abs!ANext
    <2>1. /\ DOMAIN snaps[s] # {} /\ DOMAIN snaps'[s] = {}
          /\ \A t \in Snaps \ {s} : snaps'[t] = snaps[t]
          /\ \A st \in Stores : st \in Live' => heap'[st] = heap[st]
          /\ UNCHANGED <<pages, memory, initial, used, result>>
      BY <1>10 DEF DropSnapshot, Collect, NoSnap, TypeOK, Held
    <2>2. CurrentContent' = CurrentContent
      <3>1. \A q \in pages : memory[q] \in Live'
        BY <1>0, <2>1 DEF Live
      <3>2. \A q \in pages : heap'[memory[q]] = heap[memory[q]]
        BY <1>0, <2>1, <3>1
      <3>3. CurrentContent' = [q \in pages |-> Bytewise(q, heap'[memory[q]])]
        BY <2>1 DEF CurrentContent, Bytewise, Find
      <3> QED BY <3>2, <3>3 DEF CurrentContent
    <2>3. \A t \in Snaps \ {s} : SavedContent(t)' = SavedContent(t)
      <3>1. \A t \in Snaps \ {s} : \A q \in DOMAIN snaps[t] :
               snaps[t][q] \in Live' /\ snaps[t][q] \in Stores
        BY <2>1 DEF Live, SnapStores, TypeOK, PageMaps
      <3>2. \A t \in Snaps \ {s} :
              SavedContent(t)' = [q \in DOMAIN snaps[t] |-> Bytewise(q, heap'[snaps[t][q]])]
        BY <2>1 DEF SavedContent, Bytewise, Find
      <3>3. \A t \in Snaps \ {s} : \A q \in DOMAIN snaps[t] :
               heap'[snaps[t][q]] = heap[snaps[t][q]]
        BY <2>1, <3>1
      <3> QED BY <3>2, <3>3 DEF SavedContent
    <2>4. SavedContent(s)' = [p \in {} |-> Abs!Blank]
      BY <2>1 DEF SavedContent
    <2>5. saved' = [saved EXCEPT ![s] = [p \in {} |-> Abs!Blank]] /\ DOMAIN saved[s] # {}
      BY <2>1, <2>3, <2>4 DEF SavedContent
    <2>6. Born' = Born
      BY <2>1 DEF Born
    <2> HIDE DEF saved
    <2>7. Abs!ADrop(s)
      BY <2>1, <2>2, <2>5, <2>6 DEF Abs!ADrop, Born, saved
    <2> QED BY <2>7 DEF Abs!ANext
  <1>11. CASE UNCHANGED vars
    <2>1. CurrentContent' = CurrentContent /\ Born' = Born
      BY <1>11 DEF vars, CurrentContent, Bytewise, Find, Born
    <2>2. saved' = saved
      BY <1>11 DEF vars, SavedContent, Bytewise, Find
    <2> QED BY <1>11, <2>1, <2>2 DEF vars, Abs!avars, Born
  <1> QED
    BY <1>2, <1>3, <1>4, <1>5, <1>6, <1>7, <1>8, <1>9, <1>10, <1>11 DEF Next

(* The paged, copy-on-write memory implements the memory whose snapshots   *)
(* are copies and whose reads return the bytes last written.               *)
THEOREM Refinement == Spec => ImplementsAbstractMemory
  BY AbsInit, AbsStep, Invariance, PTL DEF Spec, ImplementsAbstractMemory, Abs!ASpec
=============================================================================
