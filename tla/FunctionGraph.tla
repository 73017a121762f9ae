--------------------------- MODULE FunctionGraph ---------------------------
(***************************************************************************)
(* An LLVM function as constant propagation sees it, and the analyses of   *)
(* LLVM it asks for: predecessors, dominators, natural loops and MemorySSA *)
(* (all external).                                                         *)
(*                                                                         *)
(* A function f is [code, succ]: block b is the sequence f.code[b] of      *)
(* instructions and branches to one of f.succ[b]; block 1 is the entry.    *)
(* Instruction <<b, i>> is the record                                      *)
(*   kind    "load", "store", "call" (writes memory), "phi", "op" (pure)   *)
(*           or "div" (pure, but undefined for some operands)              *)
(*   bytes   the bytes of a concrete access; {} if the address is not      *)
(*           concrete                                                      *)
(*   args    the value operands: n is the n-th last value computed before, *)
(*           0 a constant                                                  *)
(*   synced  symex knows a value of it                                     *)
(***************************************************************************)
EXTENDS Integers, Sequences, FiniteSets, SequencesExt, FiniteSetsExt

BlocksOf(f) == DOMAIN f.code

InstructionsOf(f) == UNION {{b} \X DOMAIN f.code[b] : b \in BlocksOf(f)}

\* the instructions in layout order
Layout(f) == FlattenSeq([b \in BlocksOf(f) |-> [i \in DOMAIN f.code[b] |-> <<b, i>>]])

At(f, p) == f.code[p[1]][p[2]]

IsWrite(f, p) == At(f, p).kind \in {"store", "call"}

ComputesValue(f, p) == At(f, p).kind \in {"load", "phi", "op", "div"}

-----------------------------------------------------------------------------
(* The control-flow graph *)

Predecessors(f, b) == {a \in BlocksOf(f) : \E k \in DOMAIN f.succ[a] : f.succ[a][k] = b}

\* llvm::pred_size: edges, not blocks
PredSize(f, b) ==
    Cardinality({e \in UNION {{a} \X DOMAIN f.succ[a] : a \in BlocksOf(f)} :
                    f.succ[e[1]][e[2]] = b})

\* the blocks on paths from the blocks of S that do not enter block x
ReachAvoiding(f, S, x) ==
    LET step(T) == T \cup {c \in BlocksOf(f) \ {x} : \E a \in T : a \in Predecessors(f, c)}
        reach[n \in Nat] == IF n = 0 THEN S \ {x} ELSE step(reach[n-1])
    IN reach[Cardinality(BlocksOf(f))]

Dominates(f, a, b) == a = b \/ b \notin ReachAvoiding(f, {1}, a)

StrictDominators(f, b) == {a \in BlocksOf(f) \ {b} : Dominates(f, a, b)}

ImmediateDominator(f, b) ==
    CHOOSE a \in StrictDominators(f, b) :
        \A c \in StrictDominators(f, b) : Dominates(f, c, a)

\* LoopInfo: natural loops only, a cycle with two entries is none
InLoop(f, b) ==
    \E l \in BlocksOf(f) : \E k \in DOMAIN f.succ[l] :
        LET h == f.succ[l][k]
        IN /\ Dominates(f, h, l)
           /\ Dominates(f, h, b)
           /\ b = h \/ l \in ReachAvoiding(f, {b}, h)

-----------------------------------------------------------------------------
(* MemorySSA.  A memory access is a write <<b, i>>, the MemoryPhi <<b, 0>>  *)
(* at the head of block b, or the state of memory on entry.                 *)

LiveOnEntry == <<0, 0>>

Phi(b) == <<b, 0>>

IsPhi(m) == m[2] = 0 /\ m # LiveOnEntry

DominanceFrontier(f, a) ==
    {b \in BlocksOf(f) : /\ \E p \in Predecessors(f, b) : Dominates(f, a, p)
                         /\ a = b \/ ~Dominates(f, a, b)}

\* the blocks with a MemoryPhi: the iterated frontier of the writing blocks
PhiBlocks(f) ==
    LET writing == {b \in BlocksOf(f) : \E i \in DOMAIN f.code[b] : IsWrite(f, <<b, i>>)}
        grow[n \in Nat] ==
            IF n = 0 THEN {}
            ELSE UNION {DominanceFrontier(f, b) : b \in writing \cup grow[n-1]}
    IN grow[Cardinality(BlocksOf(f)) + 1]

\* the access in force ahead of every instruction and at the end of every block
AccessBefore(f) ==
    LET phis == PhiBlocks(f)
        writesBefore(b, i) == {j \in 1..i-1 : IsWrite(f, <<b, j>>)}
        before[p \in BlocksOf(f) \X Nat] ==
            LET b == p[1]
                d == ImmediateDominator(f, b)
            IN IF writesBefore(b, p[2]) # {} THEN <<b, Max(writesBefore(b, p[2]))>>
               ELSE IF b \in phis THEN Phi(b)
               ELSE IF b = 1 THEN LiveOnEntry
               ELSE before[<<d, Len(f.code[d]) + 1>>]
    IN [p \in UNION {{b} \X (1 .. Len(f.code[b]) + 1) : b \in BlocksOf(f)} |-> before[p]]

\* the access whose memory the instruction p sees or replaces
DefiningAccess(f) == LET before == AccessBefore(f) IN [p \in InstructionsOf(f) |-> before[p]]

(* What MemorySSA promises: what defines an access is the entry, a MemoryPhi *)
(* or a write; a write is the access in force behind it, other instructions  *)
(* leave it, and an edge does so too unless a MemoryPhi is at its end.       *)
MemorySSAHolds(f) ==
    LET before == AccessBefore(f)
    IN /\ \A p \in InstructionsOf(f) :
             \/ before[p] = LiveOnEntry
             \/ \E b \in BlocksOf(f) : before[p] = Phi(b)
             \/ before[p] \in InstructionsOf(f) /\ IsWrite(f, before[p])
       /\ before[<<1, 1>>] \in {LiveOnEntry, Phi(1)}
       /\ \A p \in InstructionsOf(f) :
             before[<<p[1], p[2] + 1>>] = IF IsWrite(f, p) THEN p ELSE before[p]
       /\ \A a \in BlocksOf(f) : \A k \in DOMAIN f.succ[a] :
             LET b == f.succ[a][k]
             IN before[<<b, 1>>] \in {Phi(b), before[<<a, Len(f.code[a]) + 1>>]}

-----------------------------------------------------------------------------
(* Values *)

\* the values computed before p on every path to p, the last one first
ValuesBefore(f, p) ==
    Reverse(SelectSeq(Layout(f), LAMBDA q :
        /\ ComputesValue(f, q)
        /\ IF q[1] = p[1] THEN q[2] < p[2] ELSE Dominates(f, q[1], p[1])))

Constant == <<0, 1>>

\* the operands of p: instructions, or Constant
Operands(f, p) ==
    LET values == ValuesBefore(f, p)
    IN [n \in DOMAIN At(f, p).args |->
           LET k == At(f, p).args[n] IN IF k \in DOMAIN values THEN values[k] ELSE Constant]

(* What SSA form promises: an operand is computed before, in the same block  *)
(* or in one that dominates it and was therefore lifted earlier; what        *)
(* dominates a block dominates the blocks that lead to it; and nothing       *)
(* dominates the entry.                                                      *)
SSAHolds(f) ==
    /\ \A p \in InstructionsOf(f) : \A n \in DOMAIN Operands(f, p) :
          LET o == Operands(f, p)[n]
          IN \/ o = Constant
             \/ /\ o \in InstructionsOf(f) /\ ComputesValue(f, o)
                /\ \/ o[1] = p[1] /\ o[2] < p[2]
                   \/ o[1] < p[1] /\ Dominates(f, o[1], p[1])
    /\ \A a, d \in BlocksOf(f) : \A k \in DOMAIN f.succ[a] :
          d # f.succ[a][k] /\ Dominates(f, d, f.succ[a][k]) => Dominates(f, d, a)
    /\ \A d \in BlocksOf(f) \ {1} : ~Dominates(f, d, 1)

\* the block from which block b was reached first; blocks are numbered as they
\* are lifted
LiftedFrom(f, b) == Min(Predecessors(f, b))

InLiftingOrder(f) ==
    \A b \in BlocksOf(f) \ {1} : LiftedFrom(f, b) \in Predecessors(f, b) /\ LiftedFrom(f, b) < b
=============================================================================
