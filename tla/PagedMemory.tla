---------------------------- MODULE PagedMemory ----------------------------
(***************************************************************************)
(* vexa::memory and vexa::mem_page: the copy-on-write memory under the     *)
(* symbolic emulator (memory.cpp, memory.hpp).                             *)
(*                                                                         *)
(* A page is an overlay storage held by a shared_ptr, plus, for the page   *)
(* that holds the mapped binary, an initial_memory that is filled before   *)
(* the run and never saved.  A mem_state (snapshot) keeps the shared_ptr   *)
(* of every page, so page and snapshots share storages until somebody      *)
(* writes.  The only guard against a write showing through in a snapshot   *)
(* is memory.unique().                                                     *)
(*                                                                         *)
(* Abstractions.  A value is the little-endian sequence of its bytes, a    *)
(* byte is a model value.  The vector of pages is the set of its elements: *)
(* positions are only used to put back what the snapshot holds.  A page    *)
(* object lives for ever, because symex keeps every vexa::pointer, and so  *)
(* its page, until the end.  A storage that nobody holds is emptied.       *)
(***************************************************************************)
EXTENDS Integers, Sequences, Functions

CONSTANTS Pages,       \* identities of mem_page objects
          GlobalPage,  \* cpu::global_memory
          Stores,      \* identities of storage_t objects on the heap
          Snaps,       \* slots that may hold a live mem_state
          AddrCount,   \* addresses are 0 .. AddrCount-1 and wrap (uint64_t)
          MaxBytes,    \* widest access, in bytes
          Bytes,       \* byte contents a client writes
          Symbols,     \* fresh symbolic bytes (symex::symbolic)
          NoStore,     \* the pointer of a page that is not allocated
          NoCell,      \* an address absent from a storage
          Unknown      \* abstract content of an absent address

ASSUME MemoryConstants ==
    /\ GlobalPage \in Pages
    /\ AddrCount \in Nat \ {0}
    /\ MaxBytes \in 1..AddrCount
    /\ Stores # {}
    /\ NoStore \notin Stores
    /\ Bytes \cap Symbols = {}
    /\ Unknown \notin Bytes \cup Symbols

VARIABLES pages,    \* memory::pages, as a set
          memory,   \* mem_page::memory of every page
          heap,     \* contents of every storage
          initial,  \* initial_memory of the global page
          sealed,   \* mem_page::sealed of the global page
          snaps,    \* live snapshots: functions from pages to storages
          used,     \* symbols created so far
          result    \* the value the last read returned

vars == <<pages, memory, heap, initial, sealed, snaps, used, result>>

-----------------------------------------------------------------------------
Addr == 0 .. AddrCount - 1

\* how many bytes x lies above a, going up and around
Offset(a, x) == IF x >= a THEN x - a ELSE x - a + AddrCount

\* base + i in uint64_t arithmetic
Wrap(y) == IF y < AddrCount THEN y ELSE y - AddrCount

ValuesOver(B) == UNION {[1..n -> B] : n \in 1..MaxBytes}

Values == ValuesOver(Bytes \cup Symbols)

\* mem_cell: byte number which of a value of total bytes
Cells == {c \in [val : Values, total : 1..MaxBytes, which : 0..MaxBytes-1] :
             c.total = Len(c.val) /\ c.which < c.total}

ASSUME CellAssumption == NoCell \notin Cells

Cell(v, i) == [val |-> v, total |-> Len(v), which |-> i]

ByteOf(c) == c.val[c.which + 1]

Storages == [Addr -> Cells \cup {NoCell}]

Empty == [x \in Addr |-> NoCell]

PageMaps == UNION {[P -> Stores] : P \in SUBSET Pages}

NoSnap == [p \in {} |-> NoStore]

Held(s) == DOMAIN snaps[s] # {}

\* mem_page::find: the overlay first, then the initial memory
Find(p, storage, x) ==
    IF storage[x] # NoCell THEN storage[x]
    ELSE IF p = GlobalPage THEN initial[x] ELSE NoCell

SnapStores(s) == {snaps[s][q] : q \in DOMAIN snaps[s]}

\* storages some shared_ptr points to
Live == {memory[p] : p \in Pages} \cup UNION {SnapStores(s) : s \in Snaps}

\* mutant: storages kept alive by a snapshot only count as unshared
MutUnique(p) == \A q \in Pages \ {p} : memory[q] # memory[p]

\* memory.unique() of page p
Unique(p) ==
    /\ \A q \in Pages \ {p} : memory[q] # memory[p]
    /\ \A s \in Snaps : memory[p] \notin SnapStores(s)

HeapAvailable == \E st \in Stores : st \notin Live

\* mutant: a storage that is still in use is handed out
MutFreshStore == CHOOSE st \in Stores : TRUE

\* make_shared: which free block it gives is not observable
FreshStore == CHOOSE st \in Stores : st \notin Live

\* mem_page::write for a run of bytes: a shared storage is cloned first
Put(p, cells) ==
    LET target == IF Unique(p) THEN memory[p] ELSE FreshStore
    IN /\ Unique(p) \/ HeapAvailable
       /\ memory' = [memory EXCEPT ![p] = target]
       /\ heap' = [heap EXCEPT ![target] = cells]

\* mutant: which_byte counts from one
MutWriteCells(storage, a, v) ==
    [x \in Addr |-> IF Offset(a, x) < Len(v)
                    THEN Cell(v, Offset(a, x) + 1) ELSE storage[x]]

\* the cells of a storage after value v is stored at a
WriteCells(storage, a, v) ==
    [x \in Addr |-> IF Offset(a, x) < Len(v)
                    THEN Cell(v, Offset(a, x)) ELSE storage[x]]

\* memory::read: put the value of n cells (lowest address first) together
\* again, as one whole value or one extract when they come from one value
\* and are in order, byte by byte otherwise
Reassemble(cells, n) ==
    LET last == cells[n - 1]
        mergeable == \A i \in 0..n-1 : /\ cells[i].val = last.val
                                       /\ cells[i].total = last.total
        aligned == \A i \in 0..n-1 : cells[i].which = last.which - (n - 1 - i)
    IN IF mergeable /\ aligned /\ n = last.total THEN last.val
       ELSE IF mergeable /\ aligned
            THEN [j \in 1..n |-> last.val[cells[0].which + j]]
            ELSE [j \in 1..n |-> ByteOf(cells[j - 1])]

\* storages without an owner are gone
Collect(h, live) == [st \in Stores |-> IF st \in live THEN h[st] ELSE Empty]

-----------------------------------------------------------------------------
\* initialize_arch has allocated the global page; nothing is mapped yet
Init ==
    /\ memory = [p \in Pages |-> IF p = GlobalPage THEN CHOOSE st \in Stores : TRUE
                                  ELSE NoStore]
    /\ pages = {GlobalPage}
    /\ heap = [st \in Stores |-> Empty]
    /\ initial = Empty
    /\ sealed = FALSE
    /\ snaps = [s \in Snaps |-> NoSnap]
    /\ used = {}
    /\ result = <<>>

\* memory::allocate: state page, stack page, one page per alloca
Allocate(p) ==
    /\ memory[p] = NoStore
    /\ HeapAvailable
    /\ pages' = pages \cup {p}
    /\ memory' = [memory EXCEPT ![p] = FreshStore]
    /\ heap' = [heap EXCEPT ![FreshStore] = Empty]
    /\ UNCHANGED <<initial, sealed, snaps, used, result>>

\* mutant: initialize ignores sealed and writes the overlay
MutInitialize(a, b) ==
    /\ Put(GlobalPage, WriteCells(heap[memory[GlobalPage]], a, <<b>>))
    /\ UNCHANGED <<pages, initial, sealed, snaps, used, result>>

\* mem_page::initialize on the global page (engine::write_memory, map_binary)
Initialize(a, b) ==
    /\ IF sealed
       THEN /\ Put(GlobalPage, WriteCells(heap[memory[GlobalPage]], a, <<b>>))
            /\ UNCHANGED initial
       ELSE /\ initial' = WriteCells(initial, a, <<b>>)
            /\ UNCHANGED <<memory, heap>>
    /\ UNCHANGED <<pages, sealed, snaps, used, result>>

\* mem_page::seal, called by engine::run before the cpu starts
Seal ==
    /\ sealed' = TRUE
    /\ UNCHANGED <<pages, memory, heap, initial, snaps, used, result>>

\* the emulator reaches the global page only during a run, so when sealed
Accessible(p) == p \in pages /\ (p = GlobalPage => sealed)

\* memory::write with a concrete address (with a symbolic one it returns at once)
Write(p, a, v) ==
    /\ Accessible(p)
    /\ Put(p, WriteCells(heap[memory[p]], a, v))
    /\ UNCHANGED <<pages, initial, sealed, snaps, used, result>>

Missing(p, a, n) ==
    {x \in Addr : Offset(a, x) < n /\ Find(p, heap[memory[p]], x) = NoCell}

\* memory::read with a concrete address: absent bytes become fresh symbols
\* that are written back through the page
Read(p, a, n) ==
    /\ Accessible(p)
    /\ \E fresh \in [Missing(p, a, n) -> Symbols \ used] :
         LET cell(x) == IF x \in Missing(p, a, n) THEN Cell(<<fresh[x]>>, 0)
                        ELSE Find(p, heap[memory[p]], x)
         IN /\ IsInjective(fresh)
            /\ IF Missing(p, a, n) = {}
               THEN UNCHANGED <<memory, heap>>
               ELSE Put(p, [x \in Addr |-> IF x \in Missing(p, a, n) THEN cell(x)
                                           ELSE heap[memory[p]][x]])
            /\ used' = used \cup Range(fresh)
            /\ result' = Reassemble([i \in 0..n-1 |-> cell(Wrap(a + i))], n)
    /\ UNCHANGED <<pages, initial, sealed, snaps>>

\* memory::read with a symbolic address: a fresh symbol, nothing is stored
ReadSymbolic(n) ==
    /\ sealed
    /\ \E fresh \in [1..n -> Symbols \ used] :
         /\ IsInjective(fresh)
         /\ used' = used \cup Range(fresh)
         /\ result' = fresh
    /\ UNCHANGED <<pages, memory, heap, initial, sealed, snaps>>

\* memory::take_snapshot; cpu::run, its only caller, runs on a sealed page
TakeSnapshot(s) ==
    /\ sealed
    /\ ~Held(s)
    /\ snaps' = [snaps EXCEPT ![s] = [p \in pages |-> memory[p]]]
    /\ UNCHANGED <<pages, memory, heap, initial, sealed, used, result>>

\* mutant: pages.resize is forgotten
MutRestoreSnapshot(s) ==
    /\ Held(s)
    /\ memory' = [p \in Pages |-> IF p \in DOMAIN snaps[s] THEN snaps[s][p] ELSE memory[p]]
    /\ UNCHANGED <<pages, initial, sealed, snaps, used, result>>
    /\ heap' = Collect(heap, Live')

\* memory::restore_snapshot; the snapshot itself stays with its holder
RestoreSnapshot(s) ==
    /\ Held(s)
    /\ pages' = DOMAIN snaps[s]
    /\ memory' = [p \in Pages |-> IF p \in DOMAIN snaps[s] THEN snaps[s][p] ELSE memory[p]]
    /\ UNCHANGED <<initial, sealed, snaps, used, result>>
    /\ heap' = Collect(heap, Live')

\* the holder of a snapshot lets go of it
DropSnapshot(s) ==
    /\ Held(s)
    /\ snaps' = [snaps EXCEPT ![s] = NoSnap]
    /\ UNCHANGED <<pages, memory, initial, sealed, used, result>>
    /\ heap' = Collect(heap, Live')

Next ==
    \/ \E p \in Pages : Allocate(p)
    \/ \E a \in Addr, b \in Bytes : Initialize(a, b)
    \/ Seal
    \/ \E p \in Pages, a \in Addr, v \in ValuesOver(Bytes) : Write(p, a, v)
    \/ \E p \in Pages, a \in Addr, n \in 1..MaxBytes : Read(p, a, n)
    \/ \E n \in 1..MaxBytes : ReadSymbolic(n)
    \/ \E s \in Snaps : TakeSnapshot(s) \/ RestoreSnapshot(s) \/ DropSnapshot(s)

Spec == Init /\ [][Next]_vars

-----------------------------------------------------------------------------
(* Every variable keeps its C++ type; a page in the vector has a storage,  *)
(* and a cell names a byte that its value has (memory.hpp).                *)
TypeOK ==
    /\ pages \subseteq Pages
    /\ memory \in [Pages -> Stores \cup {NoStore}]
    /\ \A p \in pages : memory[p] # NoStore
    /\ heap \in [Stores -> Storages]
    /\ initial \in Storages
    /\ sealed \in BOOLEAN
    /\ snaps \in [Snaps -> PageMaps]
    /\ used \subseteq Symbols
    /\ result \in Values \cup {<<>>}

Bytewise(p, storage) ==
    [x \in Addr |-> IF Find(p, storage, x) = NoCell THEN Unknown
                    ELSE ByteOf(Find(p, storage, x))]

CurrentContent == [p \in pages |-> Bytewise(p, heap[memory[p]])]

SavedContent(s) == [p \in DOMAIN snaps[s] |-> Bytewise(p, heap[snaps[s][p]])]

(* A storage never changes hands: whoever points to it, page or snapshot,  *)
(* points to it for one and the same page.  Without it a restore would     *)
(* make two pages write into one map (mem_page::write, restore_snapshot).  *)
StorageHasOnePage ==
    /\ \A p, q \in Pages : memory[p] = memory[q] /\ memory[p] # NoStore => p = q
    /\ \A s \in Snaps, p \in Pages : \A q \in DOMAIN snaps[s] :
          snaps[s][q] = memory[p] => p = q
    /\ \A s, t \in Snaps : \A p \in DOMAIN snaps[s], q \in DOMAIN snaps[t] :
          snaps[s][p] = snaps[t][q] => p = q

(* The binary is mapped first: until the global page is sealed nothing is  *)
(* laid over it and no snapshot exists, so initialize() is never hidden by *)
(* an overlay cell nor changes what a snapshot brings back; and the global *)
(* page is part of every path (engine::map_binary, engine::run).           *)
BinaryMappedFirst ==
    /\ GlobalPage \in pages
    /\ \A s \in Snaps : Held(s) => GlobalPage \in DOMAIN snaps[s]
    /\ ~sealed => /\ heap[memory[GlobalPage]] = Empty
                  /\ \A s \in Snaps : ~Held(s)

(* No write, read, initialisation or restore ever changes what a held      *)
(* snapshot will bring back (the copy-on-write test of mem_page::write,    *)
(* the sealing of initial_memory, which no snapshot saves).                *)
SnapshotsNeverChange ==
    [][\A s \in Snaps : Held(s) /\ Held(s)' => SavedContent(s)' = SavedContent(s)]_vars

\* the abstract memory that this one implements
Abs == INSTANCE AbstractMemory WITH
          content <- CurrentContent,
          saved <- [s \in Snaps |-> SavedContent(s)],
          born <- {p \in Pages : memory[p] # NoStore}

(* The copy-on-write memory, its two-layer lookup and its reassembly of    *)
(* values from byte cells together behave like a memory whose snapshots    *)
(* are copies and whose reads return the bytes last written.               *)
ImplementsAbstractMemory == Abs!ASpec
=============================================================================
