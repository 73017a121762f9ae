------------------------- MODULE ConstantPropagation -------------------------
(***************************************************************************)
(* passes::constant_propagation.  While a function is lifted, symex notes  *)
(* one value for every instruction, the one it had on the path that lifted *)
(* it.  The pass replaces a load by that value if the bytes it reads are   *)
(* "safe", the same on whatever path the load is reached, and then folds   *)
(* the instructions whose operands have become constants.                  *)
(*                                                                         *)
(* concretize_memory_loads walks the tree of MemorySSA definitions depth   *)
(* first with ONE map of byte safety, which it edits on the way down and   *)
(* repairs from an undo log on the way up; propagate_ssa_values is a       *)
(* worklist.  After the pass the model executes the function.              *)
(*                                                                         *)
(* Abstractions.  A byte has two values, an access of n bytes 2^n; pure    *)
(* instructions add.  The address of a concrete access is a literal of the *)
(* IR (value_to_pointer makes it one), so the pointer operand is always    *)
(* safe; page and offset together are one number.  What solve_cpu_context  *)
(* can make of a branch's condition is given with the function, as solved. *)
(***************************************************************************)
EXTENDS FunctionGraph

CONSTANTS Functions,  \* functions to work on, see FunctionGraph
          Bytes,      \* byte addresses, naturals
          KnownBytes, \* bytes the binary gives a value (0); others are inputs
          MaxLoad,    \* the 64 of "access->size <= 64"
          WordBytes   \* the 8 bytes of as_uint64

Instructions ==
    [kind : {"load", "store", "call", "phi", "op", "div"}, bytes : SUBSET Bytes, args : Seq(Nat),
     synced : BOOLEAN]

ASSUME ByteAssumption ==
    Bytes \subseteq Nat /\ KnownBytes \subseteq Bytes /\ {MaxLoad, WordBytes} \subseteq Nat

VARIABLES
    func,                \* the function
    mssa,                \* what LLVM's analyses say of it
    symex,               \* the value noted for every synced instruction
    phase,               \* "memory", "fold", "erase" or "run"
    root,                \* position in roots
    stack,               \* of traversal frames, the top last
    byte_safety,         \* byte -> [generation, safe] or Absent
    undo_log,            \* one record per store: changed byte -> its old state
    active_generation,
    default_byte_safety,
    value_safety,        \* instruction -> safe?
    constants,           \* replaced instruction -> its constant
    dead_loads,
    worklist, queued, dead_values,
    erased,
    exec                 \* an execution of the function, for the properties

walkVars == <<root, stack, byte_safety, undo_log, active_generation,
              default_byte_safety, value_safety>>
foldVars == <<worklist, queued, dead_values>>
vars == <<func, mssa, symex, phase, walkVars, constants, dead_loads, foldVars, erased, exec>>

-----------------------------------------------------------------------------
(* What lifting left behind in symex *)

Symbolic == -1

\* the constant operand of a store and of an addition
One == 1

\* byte b of value v stored to the bytes S, and the value of bytes m[S]
ByteOf(v, S, b) == IF v = Symbolic THEN Symbolic ELSE (v \div 2 ^ (b - Min(S))) % 2

ValueOf(m, S) ==
    IF \E b \in S : m[b] = Symbolic THEN Symbolic
    ELSE SumSet({m[b] * 2 ^ (b - Min(S)) : b \in {c \in S : m[c] = 1}})

Stored(m, v, S) == [b \in Bytes |-> IF b \in S THEN ByteOf(v, S, b) ELSE m[b]]

\* the values of the operands ops, when val holds those of the instructions
ArgsOf(ops, val) == [n \in DOMAIN ops |-> IF ops[n] = Constant THEN One ELSE val[ops[n]]]

\* a pure instruction: the sum of its operands
Summed(args) ==
    IF Symbolic \in Range(args) THEN Symbolic ELSE FoldSeq(LAMBDA x, y : x + y, 1, args) % 4

\* what instruction p makes of memory m; on the path that lifts it a store
\* through an address without a value is dropped
MemoryAfter(f, p, m, args) ==
    IF At(f, p).kind = "store" /\ At(f, p).bytes # {} THEN Stored(m, args[1], At(f, p).bytes) ELSE m

\* what it computes; a load through an address without a value is unknown
ValueAt(f, p, m, args, from) ==
    IF At(f, p).kind = "load" /\ At(f, p).bytes # {} THEN ValueOf(m, At(f, p).bytes)
    ELSE IF At(f, p).kind = "phi" THEN from % 2
    ELSE IF At(f, p).kind \in {"op", "div"} THEN Summed(args)
    ELSE Symbolic

FirstMemory(known) == [b \in Bytes |-> IF b \in known THEN 0 ELSE Symbolic]

\* solve_cpu_context: a register for which the condition of the branch leaves
\* one value gets it, without a store in the function
Solved(m, values) == [b \in Bytes |-> IF m[b] = Symbolic /\ b \in DOMAIN values THEN values[b] ELSE m[b]]

Positions(f) == UNION {{b} \X (0 .. Len(f.code[b])) : b \in BlocksOf(f)}

\* memory after every instruction, and its value, on the path that lifted it,
\* when the bytes known have the binary's values and the registers solved[b]
\* are solved at the branch to block b; position 0 is the start of a block
Lifted(f, known, solved) ==
    LET operands == [p \in InstructionsOf(f) |-> Operands(f, p)]
        end(b) == <<b, Len(f.code[b])>>
        through[p \in Positions(f)] ==
            IF p[2] = 0
            THEN LET before == IF p[1] = 1 THEN FirstMemory(known)
                               ELSE through[end(LiftedFrom(f, p[1]))].mem
                 IN [mem |-> Solved(before, solved[p[1]]), val |-> Symbolic]
            ELSE LET before == through[<<p[1], p[2] - 1>>].mem
                     args == [n \in DOMAIN operands[p] |->
                                 IF operands[p][n] = Constant THEN One ELSE through[operands[p][n]].val]
                 IN [mem |-> MemoryAfter(f, p, before, args),
                     val |-> ValueAt(f, p, before, args, IF p[1] = 1 THEN 0 ELSE LiftedFrom(f, p[1]))]
    IN through

SymexOf(f) ==
    LET lifted == Lifted(f, KnownBytes, f.solved)
    IN [p \in {q \in InstructionsOf(f) : ComputesValue(f, q) /\ At(f, q).synced} |-> lifted[p].val]

-----------------------------------------------------------------------------
(* concretize_memory_loads: what is asked of LLVM and built first *)

\* the instructions of f that are in T, in the order of their layout
Among(f, T) ==
    LET code == Layout(f)
    IN FlattenSeq([k \in DOMAIN code |-> IF code[k] \in T THEN <<code[k]>> ELSE <<>>])

\* the elements of news that are not known, each once
Fresh(news, known) ==
    FlattenSeq([k \in DOMAIN news |->
        IF news[k] \in known \/ \E j \in 1 .. k - 1 : news[j] = news[k] THEN <<>> ELSE <<news[k]>>])

\* the accesses in whose trees there is something to look at
RootsOf(f, access) ==
    LET touching == {p \in InstructionsOf(f) : IsWrite(f, p) \/ At(f, p).kind = "load"}
        behindPhi == Among(f, {p \in touching : IsPhi(access[p])})
    IN <<LiveOnEntry>> \o Fresh([k \in DOMAIN behindPhi |-> access[behindPhi[k]]], {})

\* the writes defined by an access
ChildrenOf(f, access) ==
    [m \in {LiveOnEntry} \cup Range(access) \cup {p \in InstructionsOf(f) : IsWrite(f, p)} |->
        Among(f, {p \in InstructionsOf(f) : IsWrite(f, p) /\ access[p] = m})]

\* collect_instruction_users: LLVM's use lists have the last user first
UsersOf(f) ==
    [p \in InstructionsOf(f) |->
        Reverse(Among(f, {q \in InstructionsOf(f) : Contains(Operands(f, q), p)}))]

Analyses(f) ==
    LET access == DefiningAccess(f)
    IN [access   |-> access,
        roots    |-> RootsOf(f, access),
        children |-> ChildrenOf(f, access),
        operands |-> [p \in InstructionsOf(f) |-> Operands(f, p)],
        users    |-> UsersOf(f),
        inLoop   |-> {b \in BlocksOf(f) : InLoop(f, b)},
        joined   |-> {b \in BlocksOf(f) : PredSize(f, b) > 1}]

(* What the function is, and what LLVM promises of it.                       *)
ASSUME WellFormed ==
    \A f \in Functions :
        /\ f.code # <<>> /\ f.code \in Seq(Seq(Instructions)) /\ f.succ \in Seq(Seq(Nat))
        /\ DOMAIN f.succ = DOMAIN f.code
        /\ \A a \in DOMAIN f.succ : \A k \in DOMAIN f.succ[a] : f.succ[a][k] \in DOMAIN f.code
        /\ \A p \in InstructionsOf(f) : At(f, p).kind = "store" => Len(At(f, p).args) = 1
        /\ DOMAIN f.solved = DOMAIN f.code
        /\ \A b \in DOMAIN f.code : \E S \in SUBSET Bytes : f.solved[b] \in [S -> {0, 1}]
        /\ MemorySSAHolds(f) /\ SSAHolds(f) /\ InLiftingOrder(f)

Ins(p) == At(func, p)

Code == InstructionsOf(func)

\* a store with a concrete access
KnownStore(m) == m[2] # 0 /\ Ins(m).kind = "store" /\ Ins(m).bytes # {}

Absent == [generation |-> LiveOnEntry, safe |-> FALSE, absent |-> TRUE]

ByteState(g, s) == [generation |-> g, safe |-> s, absent |-> FALSE]

Frame(m, checkpoint, g, d) ==
    [access |-> m, next_child |-> 1, checkpoint |-> checkpoint,
     previous_generation |-> g, previous_default |-> d, entered |-> FALSE]

\* an execution: where it stands, the block it came from, memory and values,
\* and the bytes of the binary that were not the file's when it began
Running(at, from, mem, val, changed) ==
    [at |-> at, from |-> from, mem |-> mem, val |-> val, changed |-> changed]

Idle == Running(<<0, 0>>, 0, [b \in Bytes |-> 0], <<>>, {})

Init ==
    /\ func \in Functions
    /\ mssa = Analyses(func)
    /\ symex = SymexOf(func)
    /\ phase = "memory"
    /\ root = 0
    /\ stack = <<>>
    /\ byte_safety = [b \in Bytes |-> Absent]
    /\ undo_log = <<>>
    /\ active_generation = LiveOnEntry
    /\ default_byte_safety = FALSE
    /\ value_safety = <<>>
    /\ constants = <<>>
    /\ dead_loads = <<>>
    /\ worklist = <<>> /\ queued = {} /\ dead_values = <<>>
    /\ erased = {}
    /\ exec = Idle

-----------------------------------------------------------------------------
(* Byte safety *)

Top == stack[Len(stack)]

\* mutant: entries of other generations count
MutCurrentSafety(b) == IF byte_safety[b].absent THEN default_byte_safety ELSE byte_safety[b].safe

\* the safety range_is_safe and set_byte_safety see
CurrentSafety(b) ==
    IF ~byte_safety[b].absent /\ byte_safety[b].generation = active_generation
    THEN byte_safety[b].safe
    ELSE default_byte_safety

range_is_safe(S) == \A b \in S : CurrentSafety(b)

\* set_byte_safety for the bytes S: only changes are made and logged
Changed(S, safe) == {b \in S : CurrentSafety(b) # safe}

Logged(S, safe) == Append(undo_log, [b \in Changed(S, safe) |-> byte_safety[b]])

WithSafety(S, safe) ==
    [b \in Bytes |->
        IF b \notin Changed(S, safe) THEN byte_safety[b]
        ELSE IF safe = default_byte_safety THEN Absent
        ELSE ByteState(active_generation, safe)]

\* rollback: the oldest record beyond the checkpoint is applied last
RolledBack(checkpoint) ==
    LET records(b) == {k \in checkpoint + 1 .. Len(undo_log) : b \in DOMAIN undo_log[k]}
    IN [b \in Bytes |-> IF records(b) = {} THEN byte_safety[b] ELSE undo_log[Min(records(b))][b]]

-----------------------------------------------------------------------------
(* is_safe_value *)

\* the answer for every value while access m is active: a verdict is given
\* once and then kept in value_safety
is_safe_value(m) ==
    LET safe[p \in Code \cup {Constant}] ==
            IF p = Constant THEN TRUE
            ELSE IF p \in DOMAIN value_safety THEN value_safety[p]
            ELSE /\ p[1] \notin mssa.inLoop
                 /\ \/ /\ Ins(p).kind = "load"
                       /\ p[1] \notin mssa.joined
                       /\ mssa.access[p] = m
                       /\ Ins(p).bytes # {}
                       /\ Cardinality(Ins(p).bytes) <= MaxLoad
                       /\ range_is_safe(Ins(p).bytes)
                    \/ /\ Ins(p).kind \in {"op", "div"}
                       /\ \A n \in DOMAIN mssa.operands[p] : safe[mssa.operands[p][n]]
    IN safe

\* the verdicts once the values P are asked for; the operands of a pure
\* instruction are asked for up to the first unsafe one
Asked(P, m) ==
    LET safe == is_safe_value(m)
        asked[p \in Code \cup {Constant}] ==
            IF p = Constant \/ p \in DOMAIN value_safety THEN {}
            ELSE {p} \cup
                 (IF Ins(p).kind \in {"op", "div"} /\ p[1] \notin mssa.inLoop
                  THEN LET o == mssa.operands[p]
                       IN UNION {asked[o[n]] : n \in {k \in DOMAIN o : \A j \in 1..k-1 : safe[o[j]]}}
                  ELSE {})
        known == DOMAIN value_safety
    IN [p \in known \cup (P \ {Constant}) \cup UNION {asked[q] : q \in P} |->
           IF p \in known THEN value_safety[p] ELSE safe[p]]

-----------------------------------------------------------------------------
(* The walk *)

\* mutant: every root starts out safe
MutStartRoot ==
    /\ phase = "memory" /\ stack = <<>> /\ root < Len(mssa.roots)
    /\ active_generation' = mssa.roots[root + 1]
    /\ default_byte_safety' = TRUE
    /\ stack' = <<Frame(mssa.roots[root + 1], 0, mssa.roots[root + 1], TRUE)>>
    /\ root' = root + 1
    /\ byte_safety' = [b \in Bytes |-> Absent]
    /\ undo_log' = <<>>
    /\ UNCHANGED <<func, mssa, symex, phase, value_safety, constants, dead_loads, foldVars, erased, exec>>

\* for (root : roots)
StartRoot ==
    /\ phase = "memory" /\ stack = <<>> /\ root < Len(mssa.roots)
    /\ LET r == mssa.roots[root + 1]
       IN /\ active_generation' = r
          /\ default_byte_safety' = (r = LiveOnEntry)
          /\ stack' = <<Frame(r, 0, r, r = LiveOnEntry)>>
    /\ root' = root + 1
    /\ byte_safety' = [b \in Bytes |-> Absent]
    /\ undo_log' = <<>>
    /\ UNCHANGED <<func, mssa, symex, phase, value_safety, constants, dead_loads, foldVars, erased, exec>>

\* a frame is on top for the first time: its loads are judged
Enter ==
    /\ phase = "memory" /\ stack # <<>> /\ ~Top.entered
    /\ value_safety' =
          Asked({p \in Code : Ins(p).kind = "load" /\ mssa.access[p] = Top.access}, Top.access)
    /\ stack' = [stack EXCEPT ![Len(stack)].entered = TRUE]
    /\ UNCHANGED <<func, mssa, symex, phase, root, byte_safety, undo_log, active_generation,
                   default_byte_safety, constants, dead_loads, foldVars, erased, exec>>

\* down to the next definition
Descend ==
    /\ phase = "memory" /\ stack # <<>> /\ Top.entered
    /\ Top.next_child <= Len(mssa.children[Top.access])
    /\ LET d == mssa.children[Top.access][Top.next_child]
           plain == d[1] \notin mssa.inLoop /\ d[1] \notin mssa.joined
           value == mssa.operands[d][1]
           safe == plain /\ (value = Constant \/ value_safety'[value])
       IN /\ stack' = Append([stack EXCEPT ![Len(stack)].next_child = @ + 1],
                             Frame(d, Len(undo_log), active_generation, default_byte_safety))
          /\ IF KnownStore(d)
             THEN /\ value_safety' = IF plain THEN Asked({value}, Top.access) ELSE value_safety
                  /\ undo_log' = Logged(Ins(d).bytes, safe)
                  /\ byte_safety' = WithSafety(Ins(d).bytes, safe)
                  /\ UNCHANGED <<active_generation, default_byte_safety>>
             ELSE /\ active_generation' = d
                  /\ default_byte_safety' = FALSE
                  /\ UNCHANGED <<value_safety, undo_log, byte_safety>>
    /\ UNCHANGED <<func, mssa, symex, phase, root, constants, dead_loads, foldVars, erased, exec>>

\* mutant: an unknown write is not forgotten when its branch is left
MutBacktrack ==
    /\ phase = "memory" /\ stack # <<>> /\ Top.entered
    /\ Top.next_child > Len(mssa.children[Top.access])
    /\ stack' = Front(stack)
    /\ byte_safety' = RolledBack(Top.checkpoint)
    /\ undo_log' = SubSeq(undo_log, 1, Top.checkpoint)
    /\ active_generation' = Top.previous_generation
    /\ UNCHANGED <<func, mssa, symex, phase, root, default_byte_safety, value_safety, constants,
                   dead_loads, foldVars, erased, exec>>

\* up again
Backtrack ==
    /\ phase = "memory" /\ stack # <<>> /\ Top.entered
    /\ Top.next_child > Len(mssa.children[Top.access])
    /\ stack' = Front(stack)
    /\ byte_safety' = RolledBack(Top.checkpoint)
    /\ undo_log' = SubSeq(undo_log, 1, Top.checkpoint)
    /\ active_generation' = Top.previous_generation
    /\ default_byte_safety' = Top.previous_default
    /\ UNCHANGED <<func, mssa, symex, phase, root, value_safety, constants, dead_loads, foldVars,
                   erased, exec>>

-----------------------------------------------------------------------------
(* Replacing and folding *)

\* the loads the walk found safe, with a value
Replaceable ==
    {p \in Code : /\ Ins(p).kind = "load"
                  /\ p \in DOMAIN symex /\ p \in DOMAIN value_safety
                  /\ value_safety[p]
                  /\ symex[p] # Symbolic}

\* getIntN(size, as_uint64()): what is above 64 bits is lost
Cut(v) == v % 2 ^ WordBytes

\* the last loop of concretize_memory_loads, and the seeds of the worklist
ReplaceLoads ==
    /\ phase = "memory" /\ stack = <<>> /\ root = Len(mssa.roots)
    /\ dead_loads' = Among(func, Replaceable)
    /\ constants' = [p \in Replaceable |-> Cut(symex[p])]
    /\ LET seeds == FlattenSeq([k \in DOMAIN dead_loads' |-> mssa.users[dead_loads'[k]]])
       IN worklist' = Fresh(seeds, {})
    /\ queued' = Range(worklist')
    /\ phase' = "fold"
    /\ UNCHANGED <<func, mssa, symex, walkVars, dead_values, erased, exec>>

has_only_defined_constant_operands(p) ==
    \A n \in DOMAIN mssa.operands[p] :
        mssa.operands[p][n] = Constant \/ mssa.operands[p][n] \in DOMAIN constants

is_ssa_fold_candidate(p) ==
    /\ Ins(p).kind = "op"
    /\ p[1] \notin mssa.inLoop
    /\ p[1] \notin mssa.joined
    /\ has_only_defined_constant_operands(p)
    /\ p \in DOMAIN symex

Foldable(p) == ~Contains(dead_values, p) /\ is_ssa_fold_candidate(p) /\ symex[p] # Symbolic

\* replaceAllUsesWith, for a folded instruction
WithConstant(p) ==
    [q \in DOMAIN constants \cup {p} |-> IF q \in DOMAIN constants THEN constants[q] ELSE Cut(symex[q])]

\* mutant: queued is not cleared
MutPropagateOnce ==
    /\ phase = "fold" /\ worklist # <<>>
    /\ LET p == Head(worklist)
           fold == Foldable(p)
           waiting == queued
           new == Fresh(IF fold THEN mssa.users[p] ELSE <<>>, waiting \cup Range(dead_values'))
       IN /\ dead_values' = IF fold THEN Append(dead_values, p) ELSE dead_values
          /\ constants' = IF fold THEN WithConstant(p) ELSE constants
          /\ worklist' = Tail(worklist) \o new
          /\ queued' = waiting \cup Range(new)
    /\ UNCHANGED <<func, mssa, symex, phase, walkVars, dead_loads, erased, exec>>

\* mutant: what cannot be folded yet goes back to the end of the worklist
MutPropagateAgain ==
    /\ phase = "fold" /\ worklist # <<>>
    /\ LET p == Head(worklist)
           fold == Foldable(p)
           waiting == queued \ {p}
           new == Fresh(IF fold THEN mssa.users[p] ELSE <<p>>, waiting \cup Range(dead_values'))
       IN /\ dead_values' = IF fold THEN Append(dead_values, p) ELSE dead_values
          /\ constants' = IF fold THEN WithConstant(p) ELSE constants
          /\ worklist' = Tail(worklist) \o new
          /\ queued' = waiting \cup Range(new)
    /\ UNCHANGED <<func, mssa, symex, phase, walkVars, dead_loads, erased, exec>>

\* one round of propagate_ssa_values
Propagate ==
    /\ phase = "fold" /\ worklist # <<>>
    /\ LET p == Head(worklist)
           fold == Foldable(p)
           waiting == queued \ {p}
           new == Fresh(IF fold THEN mssa.users[p] ELSE <<>>, waiting \cup Range(dead_values'))
       IN /\ dead_values' = IF fold THEN Append(dead_values, p) ELSE dead_values
          /\ constants' = IF fold THEN WithConstant(p) ELSE constants
          /\ worklist' = Tail(worklist) \o new
          /\ queued' = waiting \cup Range(new)
    /\ UNCHANGED <<func, mssa, symex, phase, walkVars, dead_loads, erased, exec>>

\* use_empty: whoever used p uses its constant now
UseEmpty(p) ==
    \A q \in Code \ erased : Contains(mssa.operands[q], p) => p \in DOMAIN constants

\* erase_dead_instructions, for the values and then for the loads
EraseDead ==
    /\ phase = "fold" /\ worklist = <<>>
    /\ erased' = {p \in Range(dead_values) \cup Range(dead_loads) : UseEmpty(p)}
    /\ phase' = "erase"
    /\ UNCHANGED <<func, mssa, symex, walkVars, constants, dead_loads, foldVars, exec>>

-----------------------------------------------------------------------------
(* An execution of the original function, from any input; the program may   *)
(* have changed its global variables, and which way a branch goes is open.  *)

Call ==
    /\ phase = "erase"
    /\ phase' = "run"
    /\ \E mem \in [Bytes -> {0, 1}] :
          exec' = Running(<<1, 1>>, 0, mem, <<>>, {b \in KnownBytes : mem[b] # 0})
    /\ UNCHANGED <<func, mssa, symex, walkVars, constants, dead_loads, foldVars, erased>>

Computed(v) ==
    [p \in DOMAIN exec.val \cup {exec.at} |-> IF p = exec.at THEN v ELSE exec.val[p]]

Resumes(at, mem, val) == exec' = Running(at, exec.from, mem, val, exec.changed)

\* the instruction at exec.at; what an unknown store or a call writes, and
\* what an unknown load reads, is open
RunInstruction ==
    /\ phase = "run" /\ exec.at \in Code
    /\ LET p == exec.at
           next == <<p[1], p[2] + 1>>
           args == ArgsOf(mssa.operands[p], exec.val)
       IN \/ /\ Ins(p).kind \in {"store", "call"} /\ Ins(p).bytes = {}
             /\ \E b \in Bytes, v \in {0, 1} :
                   Resumes(next, [exec.mem EXCEPT ![b] = v], exec.val)
          \/ /\ Ins(p).kind = "store" /\ Ins(p).bytes # {}
             /\ Resumes(next, MemoryAfter(func, p, exec.mem, args), exec.val)
          \/ /\ Ins(p).kind = "load" /\ Ins(p).bytes = {}
             /\ \E v \in {0, 1} : Resumes(next, exec.mem, Computed(v))
          \/ /\ Ins(p).kind = "load" => Ins(p).bytes # {}
             /\ ComputesValue(func, p)
             /\ Resumes(next, exec.mem, Computed(ValueAt(func, p, exec.mem, args, exec.from)))
    /\ UNCHANGED <<func, mssa, symex, phase, walkVars, constants, dead_loads, foldVars, erased>>

RunBranch ==
    /\ phase = "run" /\ exec.at \notin Code
    /\ \E k \in DOMAIN func.succ[exec.at[1]] :
          exec' = Running(<<func.succ[exec.at[1]][k], 1>>, exec.at[1], exec.mem, exec.val, exec.changed)
    /\ UNCHANGED <<func, mssa, symex, phase, walkVars, constants, dead_loads, foldVars, erased>>

-----------------------------------------------------------------------------
Pass == StartRoot \/ Enter \/ Descend \/ Backtrack \/ ReplaceLoads \/ Propagate \/ EraseDead

Next == Pass \/ Call \/ RunInstruction \/ RunBranch

\* the pass is one sequential function
Spec == Init /\ [][Next]_vars /\ WF_vars(Pass)

-----------------------------------------------------------------------------
(* What the walk should compute *)

StoreIsSafe(d) ==
    LET value == mssa.operands[d][1]
    IN /\ d[1] \notin mssa.inLoop \cup mssa.joined
       /\ value = Constant \/ (value \in DOMAIN value_safety /\ value_safety[value])

\* what is known of byte b does not outlast access m, which writes to it or
\* to an unknown place, or is where memory starts out
Settles(m, b) == KnownStore(m) => b \in Ins(m).bytes

MakesSafe(m) == IF KnownStore(m) THEN StoreIsSafe(m) ELSE m = LiveOnEntry

(* One map, edited in place and repaired from the undo log, serves every    *)
(* branch of the definition tree: whatever siblings were visited before,    *)
(* with whatever unknown writes, a byte is safe if and only if the last     *)
(* access to settle it on the chain of definitions above the active access  *)
(* makes it so (set_byte_safety, rollback and the generations of            *)
(* concretize_memory_loads).                                                *)
SiblingsLeaveNoTrace ==
    phase = "memory" /\ stack # <<>> =>
        /\ \A k \in 2 .. Len(stack) : mssa.access[stack[k].access] = stack[k - 1].access
        /\ \A b \in Bytes :
              CurrentSafety(b) <=>
                  \E k \in 1 .. Len(stack) :
                      /\ Settles(stack[k].access, b) /\ MakesSafe(stack[k].access)
                      /\ \A j \in k + 1 .. Len(stack) : ~Settles(stack[j].access, b)

Accesses == {LiveOnEntry} \cup {Phi(b) : b \in BlocksOf(func)} \cup {p \in Code : IsWrite(func, p)}

\* the verdict on load p by definition: no walk, no cache
SafeByDefinition ==
    LET safe[x \in {<<"value", p>> : p \in Code \cup {Constant}}
                   \cup {<<"byte", m, b>> : m \in Accesses, b \in Bytes}] ==
            IF x[1] = "value"
            THEN LET p == x[2]
                 IN \/ p = Constant
                    \/ /\ p # Constant /\ p[1] \notin mssa.inLoop
                       /\ \/ /\ Ins(p).kind = "load" /\ Ins(p).bytes # {} /\ Cardinality(Ins(p).bytes) <= MaxLoad
                             /\ p[1] \notin mssa.joined
                             /\ \A b \in Ins(p).bytes : safe[<<"byte", mssa.access[p], b>>]
                          \/ /\ Ins(p).kind \in {"op", "div"}
                             /\ \A n \in DOMAIN mssa.operands[p] : safe[<<"value", mssa.operands[p][n]>>]
            ELSE LET m == x[2]
                 IN \/ m = LiveOnEntry
                    \/ /\ ~IsPhi(m) /\ m # LiveOnEntry
                       /\ Ins(m).kind = "store" /\ Ins(m).bytes # {}
                       /\ IF x[3] \in Ins(m).bytes
                          THEN /\ m[1] \notin mssa.inLoop \cup mssa.joined
                               /\ safe[<<"value", mssa.operands[m][1]>>]
                          ELSE safe[<<"byte", mssa.access[m], x[3]>>]
    IN safe

(* A verdict is cached the first time anybody asks, as a load of the active *)
(* access or as an operand of a store somewhere in the tree.  That is never *)
(* too early or too late: every load gets the verdict its definition gives. *)
VerdictsIndependentOfOrder ==
    phase # "memory" =>
        \A p \in Code : Ins(p).kind = "load" =>
            p \in DOMAIN value_safety /\ (value_safety[p] <=> SafeByDefinition[<<"value", p>>])

Unsolved == [b \in BlocksOf(func) |-> <<>>]

\* what lifting would have noted, if it had relied on those bytes of the binary
\* only that hold when the function is called, and had solved no register
Noted == Lifted(func, KnownBytes \ exec.changed, Unsolved)

(* On every path, through joins and loops, from every input and whatever    *)
(* unknown stores do, a replaced load or folded instruction would have had  *)
(* the value that replaces it, although symex noted it on one path only.    *)
(* Of a value wider than as_uint64 only the low 64 bits are kept.  Nothing  *)
(* is said of a value that lifting took from a global variable that has     *)
(* changed since (src/README.md:509) or from a register that                *)
(* solve_cpu_context wrote under the condition of one branch: the walk of   *)
(* concretize_memory_loads does not see either, and may replace it wrongly. *)
ReplacedValuesHold ==
    phase = "run" =>
        \A p \in DOMAIN exec.val \cap DOMAIN constants :
            Noted[p].val # Symbolic => constants[p] = Cut(exec.val[p])

(* The worklist misses nothing: when it is empty every instruction that has *)
(* become a candidate because an operand was replaced is folded, also when  *)
(* it was looked at too early, with its other operand still open.           *)
FoldingComplete ==
    phase \in {"erase", "run"} =>
        \A p \in Code :
            (is_ssa_fold_candidate(p) /\ symex[p] # Symbolic
             /\ Range(mssa.operands[p]) \cap DOMAIN constants # {})
            => p \in erased

(* The walk over the definition forest and the worklist end.                *)
PropagationEnds == <>(phase = "erase")
=============================================================================
