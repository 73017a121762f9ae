---------------------------- MODULE RegisterCode ----------------------------
(***************************************************************************)
(* The lifted function as the optimizer's passes see it: loads and stores  *)
(* through the State pointer, to allocas and to other memory, in basic     *)
(* blocks.  What they do is LLVM's business (external).                    *)
(*                                                                         *)
(* A function f is [entry, code, succ]: the instructions that are executed *)
(* first, the blocks, and the blocks each of them may branch to; a block   *)
(* without successors returns.  A pointer is base + off + more, off the    *)
(* offset of a getelementptr of the base and more what further ones add.   *)
(* A value is named by a sequence of integers and is a sequence of bytes;  *)
(* <<0, c>> is the constant c, all of whose bytes differ.                  *)
(***************************************************************************)
EXTENDS Integers, Sequences, FiniteSets, SequencesExt, FiniteSetsExt

CONSTANTS StateBytes,   \* offsets into the State structure
          MemoryBytes,  \* addresses in other memory
          MaxPath       \* bound on the blocks of an execution, cycles included

State == <<>>
Memory == <<0>>
Alloca(round, offset) == <<round, offset>>
IsAlloca(base) == Len(base) = 2

Pointer(base, off, more) == [base |-> base, off |-> off, more |-> more]

LoadIns(name, ptr, size) == [op |-> "load", val |-> name, ptr |-> ptr, size |-> size, parts |-> <<>>]

\* stores size bytes of the named value, beginning with its byte lo + 1
StoreIns(name, lo, ptr, size) ==
    [op |-> "store", val |-> name, ptr |-> ptr, size |-> size, lo |-> lo, parts |-> <<>>]

\* zero-extend, shift and or the one-byte values parts
JoinIns(name, parts) == [op |-> "join", val |-> name, parts |-> parts]

Access(I) == I.op \in {"load", "store"}

-----------------------------------------------------------------------------
(* Execution *)

Undef == <<9>>
Outside == ({State} \X StateBytes) \cup ({Memory} \X MemoryBytes)

\* the byte a cell holds before anything was stored
Initial(cell) ==
    CASE cell[1] = State -> <<1, cell[2]>>
      [] cell[1] = Memory -> <<2, cell[2]>>
      [] OTHER -> Undef

Cell(ptr, k) == <<ptr.base, ptr.off + ptr.more + k - 1>>

Holds(mem, cell) == IF cell \in DOMAIN mem THEN mem[cell] ELSE Initial(cell)

\* bytes of the value name
Bytes(vals, name, n) ==
    IF name[1] = 0 THEN [k \in 1..n |-> <<3, name[2], k>>]
    ELSE IF name \in DOMAIN vals THEN vals[name] ELSE [k \in 1..n |-> Undef]

\* what instruction I does to s = [mem, vals]
Step(s, I) ==
    CASE I.op = "load" ->
            [s EXCEPT !.vals = (I.val :> [k \in 1..I.size |-> Holds(s.mem, Cell(I.ptr, k))]) @@ @]
      [] I.op = "store" ->
            LET v == Bytes(s.vals, I.val, I.lo + I.size)
            IN [s EXCEPT !.mem =
                   [c \in {Cell(I.ptr, k) : k \in 1..I.size} |->
                        v[I.lo + 1 + c[2] - Cell(I.ptr, 1)[2]]] @@ @]
      [] I.op = "join" ->
            [s EXCEPT !.vals = (I.val :> [k \in DOMAIN I.parts |-> Bytes(s.vals, I.parts[k], 1)[1]]) @@ @]

\* the ways through at most MaxPath blocks to a return
Paths(f) ==
    LET ways[n \in 1..MaxPath] ==
            IF n = 1 THEN {<<1>>}
            ELSE UNION {{Append(p, f.succ[Last(p)][k]) : k \in DOMAIN f.succ[Last(p)]} : p \in ways[n-1]}
    IN {p \in UNION Range(ways) : f.succ[Last(p)] = <<>>}

\* State and memory when the function returns
Outcome(f, path) ==
    LET code == f.entry \o FlattenSeq([k \in DOMAIN path |-> f.code[path[k]]])
        after[k \in 0..Len(code)] ==
            IF k = 0 THEN [mem |-> <<>>, vals |-> <<>>] ELSE Step(after[k-1], code[k])
        end == after[Len(code)]
    IN [c \in Outside |-> Holds(end.mem, c)]

Outcomes(f) == [p \in Paths(f) |-> Outcome(f, p)]

-----------------------------------------------------------------------------
(* LLVM's own passes *)

\* getelementptrs of getelementptrs are merged
Merged(I) == IF Access(I) THEN [I EXCEPT !.ptr = Pointer(@.base, @.off + @.more, 0)] ELSE I

MergedCode(f) ==
    [f EXCEPT !.entry = [k \in DOMAIN @ |-> Merged(@[k])],
              !.code = [b \in DOMAIN @ |-> [k \in DOMAIN @[b] |-> Merged(@[b][k])]]]

\* the values somebody uses: a store, or a join that is used
Used(f) ==
    LET all == f.entry \o FlattenSeq(f.code)
        stored == {all[k].val : k \in {j \in DOMAIN all : all[j].op = "store"}}
    IN stored \cup UNION {Range(all[k].parts) : k \in {j \in DOMAIN all :
                                all[j].op = "join" /\ all[j].val \in stored}}

Live(code, used) == SelectSeq(code, LAMBDA I : I.op = "store" \/ I.val \in used)

\* SimplifyCFG and ADCE: what computes a value nobody uses is gone
WithoutDeadCode(f) ==
    LET used == Used(f)
    IN [f EXCEPT !.entry = Live(@, used), !.code = [b \in DOMAIN @ |-> Live(@[b], used)]]

\* f without the instruction at position k of block b (0 is the entry)
Without(f, b, k) ==
    IF b = 0 THEN [f EXCEPT !.entry = RemoveAt(@, k)]
    ELSE [f EXCEPT !.code[b] = RemoveAt(@, k)]

\* every position, the last first
Positions(f) ==
    Reverse([k \in DOMAIN f.entry |-> <<0, k>>]
            \o FlattenSeq([b \in DOMAIN f.code |-> [k \in DOMAIN f.code[b] |-> <<b, k>>]]))

\* as many instructions removed as can be, the last ones first
Pruned(f) ==
    LET meaning == Outcomes(f)
        at == Positions(f)
        pruned[n \in 0..Len(at)] ==
            IF n = 0 THEN f
            ELSE LET g == pruned[n-1]
                     h == Without(g, at[n][1], at[n][2])
                 IN IF Outcomes(h) = meaning THEN h ELSE g
    IN pruned[Len(at)]
=============================================================================
