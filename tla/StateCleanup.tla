---------------------------- MODULE StateCleanup ----------------------------
(***************************************************************************)
(* passes::state_cleanup (state_cleanup.cpp): removes the stores to the    *)
(* State structure, the machine's registers, that no load can see.  For    *)
(* every store it walks the blocks that control can reach and looks for a  *)
(* load of the same register.                                              *)
(*                                                                         *)
(* Abstractions.  A block is the sequence of its loads and stores.  One    *)
(* accesses width bytes, off bytes behind the pointer base: the State or   *)
(* something else (stack, memory).  gep is what isSameOperationAs compares *)
(* of the getelementptr the access goes through (number and types of the   *)
(* operands, source element type), "none" if there is none or its offset   *)
(* is not constant: then the pass does not see off, nor the access.        *)
(***************************************************************************)
EXTENDS Integers, Sequences, FiniteSets

CONSTANTS Functions,  \* functions to clean: [code, succ], the entry first
          ReturnReg   \* offset of the return register

Operations ==
    [kind : {"load", "store"}, base : STRING, gep : STRING, off : Nat, width : Nat \ {0}]

ASSUME FunctionsGiven ==
    \A f \in Functions :
        /\ f \in [code : Seq(Seq(Operations)), succ : Seq(Seq(Nat))]
        /\ f.code # <<>> /\ Len(f.succ) = Len(f.code)
        /\ \A b \in DOMAIN f.succ : \A n \in DOMAIN f.succ[b] : f.succ[b][n] \in DOMAIN f.code

VARIABLES func,     \* the function, edited in place
          block,    \* BB, the block whose stores are examined
          it,       \* position in BB, going backwards
          dead,     \* dead_stores: positions in BB
          queue,    \* where to look for loads: <<block, position>>
          visited,  \* blocks already looked at
          alive,    \* is_alive
          phase,    \* "scan" or "search"
          original, \* the function as it was given
          erased    \* stores of the original that are gone: <<block, position>>

vars == <<func, block, it, dead, queue, visited, alive, phase, original, erased>>

-----------------------------------------------------------------------------
LoadOf(b, g, o, w) == [kind |-> "load", base |-> b, gep |-> g, off |-> o, width |-> w]
StoreTo(b, g, o, w) == [kind |-> "store", base |-> b, gep |-> g, off |-> o, width |-> w]

\* isSameOperationAs and the offsets; neither base nor width is compared
SamePlace(op, store) == op.gep = store.gep /\ op.off = store.off

\* the stores the pass considers
Candidate(op) ==
    op.kind = "store" /\ op.base = "state" /\ op.gep # "none" /\ op.off # ReturnReg

\* the blocks of func keep their positions; an erased instruction is a gap
Gap == [kind |-> "gap", base |-> "none", gep |-> "none", off |-> -1, width |-> 0]

Init ==
    /\ func \in Functions
    /\ original = func
    /\ block = 1
    /\ it = Len(func.code[1])
    /\ dead = {}
    /\ queue = <<>>
    /\ visited = {}
    /\ alive = FALSE
    /\ phase = "scan"
    /\ erased = {}

Code(b) == func.code[b]

\* the next instruction, from the end, is no store to a register
Skip ==
    /\ phase = "scan"
    /\ block <= Len(func.code)
    /\ it > 0
    /\ ~Candidate(Code(block)[it])
    /\ it' = it - 1
    /\ UNCHANGED <<func, block, dead, queue, visited, alive, phase, original, erased>>

\* mutant: is_alive keeps its value from the last store
MutStartSearch ==
    /\ phase = "scan"
    /\ block <= Len(func.code)
    /\ it > 0
    /\ Candidate(Code(block)[it])
    /\ queue' = << <<block, it + 1>> >>
    /\ visited' = {}
    /\ phase' = "search"
    /\ UNCHANGED <<func, block, it, dead, alive, original, erased>>

\* it is one: start looking behind it
StartSearch ==
    /\ phase = "scan"
    /\ block <= Len(func.code)
    /\ it > 0
    /\ Candidate(Code(block)[it])
    /\ queue' = << <<block, it + 1>> >>
    /\ visited' = {}
    /\ alive' = FALSE
    /\ phase' = "search"
    /\ UNCHANGED <<func, block, it, dead, original, erased>>

\* the first instruction from position i on that touches the store's place
FirstTouch(b, i, store) ==
    {k \in i..Len(Code(b)) :
        /\ SamePlace(Code(b)[k], store)
        /\ \A j \in i..k-1 : ~SamePlace(Code(b)[j], store)}

\* mutant: only the rest of the store's own block is searched
MutVisitOneBlock ==
    /\ phase = "search"
    /\ queue # <<>>
    /\ LET b == Head(queue)[1]
           touched == FirstTouch(b, Head(queue)[2], Code(block)[it])
       IN /\ visited' = visited \cup {b}
          /\ alive' = (alive \/ \E k \in touched : Code(b)[k].kind = "load")
          /\ queue' = Tail(queue)
    /\ UNCHANGED <<func, block, it, dead, phase, original, erased>>

\* mutant: a block that was visited before is not taken off the queue
MutVisitAgain ==
    /\ phase = "search"
    /\ queue # <<>>
    /\ LET b == Head(queue)[1]
           touched == FirstTouch(b, Head(queue)[2], Code(block)[it])
       IN /\ b \notin visited
          /\ visited' = visited \cup {b}
          /\ alive' = (alive \/ \E k \in touched : Code(b)[k].kind = "load")
          /\ queue' = Tail(queue) \o [n \in DOMAIN func.succ[b] |-> <<func.succ[b][n], 1>>]
    /\ UNCHANGED <<func, block, it, dead, phase, original, erased>>

\* one round of the breadth-first walk; a block is looked at once, and its
\* successors follow even when the store is overwritten in it
VisitBlock ==
    /\ phase = "search"
    /\ queue # <<>>
    /\ LET b == Head(queue)[1]
           touched == FirstTouch(b, Head(queue)[2], Code(block)[it])
       IN IF b \in visited
          THEN queue' = Tail(queue) /\ UNCHANGED <<visited, alive>>
          ELSE /\ visited' = visited \cup {b}
               /\ alive' = (alive \/ \E k \in touched : Code(b)[k].kind = "load")
               /\ queue' = Tail(queue) \o [n \in DOMAIN func.succ[b] |-> <<func.succ[b][n], 1>>]
    /\ UNCHANGED <<func, block, it, dead, phase, original, erased>>

\* the walk is over
Judge ==
    /\ phase = "search"
    /\ queue = <<>>
    /\ dead' = IF alive THEN dead ELSE dead \cup {it}
    /\ it' = it - 1
    /\ phase' = "scan"
    /\ UNCHANGED <<func, block, queue, visited, alive, original, erased>>

\* erase the block's dead stores and go on with the next block
EraseDead ==
    /\ phase = "scan"
    /\ block <= Len(func.code)
    /\ it = 0
    /\ func' = [func EXCEPT !.code[block] =
                   [k \in DOMAIN @ |-> IF k \in dead THEN Gap ELSE @[k]]]
    /\ erased' = erased \cup {<<block, k>> : k \in dead}
    /\ dead' = {}
    /\ block' = block + 1
    /\ it' = IF block < Len(func.code) THEN Len(func.code[block + 1]) ELSE 0
    /\ UNCHANGED <<queue, visited, alive, phase, original>>

Next == Skip \/ StartSearch \/ VisitBlock \/ Judge \/ EraseDead

\* the pass is one sequential function
Spec == Init /\ [][Next]_vars /\ WF_vars(Next)

-----------------------------------------------------------------------------
(* What a dead store is: no execution of the function reaches a load of one *)
(* of its bytes from it without storing that byte first.                    *)

\* program points <<block, position>>; position Len + 1 is the terminator
After(p) ==
    IF p[2] <= Len(original.code[p[1]]) THEN {<<p[1], p[2] + 1>>}
    ELSE {<<original.succ[p[1]][n], 1>> : n \in DOMAIN original.succ[p[1]]}

At(p) == IF p[2] <= Len(original.code[p[1]]) THEN original.code[p[1]][p[2]] ELSE Gap

Points == UNION {{b} \X (1 .. Len(original.code[b]) + 1) : b \in DOMAIN original.code}

Span(op) == op.off .. op.off + op.width - 1

\* the operation accesses byte c of what base points to
Touches(op, base, c) == op.base = base /\ c \in Span(op)

\* the points that store byte c of the State
Overwrites(c) == {r \in Points : At(r).kind = "store" /\ Touches(At(r), "state", c)}

\* the points that paths from p lead to, the smallest set that has what is
\* behind p and behind its members; paths end at the points of Ends
Reached(p, Ends) ==
    LET closed == {S \in SUBSET Points :
                      After(p) \subseteq S /\ \A r \in S \ Ends : After(r) \subseteq S}
    IN {q \in Points : \A S \in closed : q \in S}

\* the loads that see byte c as the store at p leaves it
ReadersOf(p, c) ==
    {q \in Reached(p, Overwrites(c)) : At(q).kind = "load" /\ Touches(At(q), "state", c)}

Finished == block > Len(func.code)

\* the load at q is ahead of the store in its own block: a loop leads to it
LoopCarried(p, q) == q[1] = p[1] /\ q[2] < p[2]

\* before q comes a store that matches the one at p, where the walk leaves the
\* block, but it leaves byte c as it is: another base, or fewer bytes
Hidden(p, q, c) ==
    \E k \in 1..q[2]-1 : LET op == At(<<q[1], k>>)
                          IN /\ op.kind = "store" /\ SamePlace(op, At(p))
                             /\ ~Touches(op, "state", c)

(* A byte of an erased store was dead in the function the pass was given,   *)
(* unless state_cleanup::run misses its load, in one of three ways: the     *)
(* load is ahead of the store in the store's own block, and a loop leads to *)
(* it; it does not match the store (no getelementptr with a constant        *)
(* offset, one of another shape, or another offset that overlaps); or the   *)
(* walk left its block at a store that matches and does not overwrite the   *)
(* byte.  Elsewhere the walk overlooks nothing, although it never visits a  *)
(* block twice.                                                             *)
LostBytesExplained ==
    Finished => \A p \in erased : \A c \in Span(At(p)) : \A q \in ReadersOf(p, c) :
        LoopCarried(p, q) \/ ~SamePlace(At(q), At(p)) \/ Hidden(p, q, c)

(* What the pass does clean: a register store that is left over has a load  *)
(* that matches it ahead, from State or from any other base, which the walk *)
(* does not tell apart.                                                     *)
UnreadStoresErased ==
    Finished => \A p \in Points \ erased : Candidate(At(p)) =>
        \E q \in Reached(p, {}) : At(q).kind = "load" /\ SamePlace(At(q), At(p))

(* The walk through loops ends, and so does the pass.                       *)
CleanupEnds == <>Finished
=============================================================================
