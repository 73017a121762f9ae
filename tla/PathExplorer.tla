---------------------------- MODULE PathExplorer ----------------------------
(***************************************************************************)
(* vexa::cpu: the lifter's main loop (arch.cpp), which executes a function *)
(* symbolically, one instruction per iteration, and builds the LLVM        *)
(* function while it goes.  Where a branch cannot be decided the context   *)
(* is saved on unexplored_paths and one side is lifted first; where an     *)
(* edge leads to an address that is already lifted, CFG_recovery closes    *)
(* the loop or the join.                                                   *)
(*                                                                         *)
(* Abstractions.  A Bitwuzla term is its denotation, a word for every      *)
(* assignment of the symbols (Models), and whether the term is a literal   *)
(* value: is_concrete() looks at the syntax, and how far simplify() gets   *)
(* with a term that happens to be constant is the solver's business, so it *)
(* is a free choice here.  Path constraints are the set of assignments     *)
(* that satisfy them.  Memory is a word per address with the promises of   *)
(* AbstractMemory: a snapshot restores exactly what it saved.  An LLVM     *)
(* basic block is the instruction it executes, the constant addresses      *)
(* lifting baked into it, and its terminator.                              *)
(***************************************************************************)
EXTENDS Machine, FiniteSets

CONSTANTS Jobs,          \* what the lifter may be asked to do: [code, mode, join, opaque, cmovs]
          SolverLimit,   \* solutions possible_values asks for (20 in the code)
          Timeouts,      \* may a query exceed TIME_LIMIT_PER (Result::UNKNOWN)?
          MaxBlocks      \* bound on the basic blocks of a behaviour

ASSUME ExplorerConstants ==
    /\ \A j \in Jobs : /\ j.code \in Seq(Instructions)
                       /\ j.mode \in {"symbolic", "cfg", "vcfg"}
                       /\ j.join \in {"merge", "specialize"}
                       /\ {j.opaque, j.cmovs} \subseteq BOOLEAN
    /\ Timeouts \in BOOLEAN
    /\ SolverLimit \in Nat /\ SolverLimit > 1
    /\ MaxBlocks \in Nat

VARIABLES job,     \* the bytes in global_memory, decoded, and the options set
          ctx,     \* what cpu::snapshot saves of the running path
          ip,      \* the builder's insert point: a block
          stack,   \* unexplored_paths, the top last
          blocks,  \* the basic blocks of vexa_lifted, the entry block first
          CFG,     \* blocks by PC
          VCFG,    \* blocks by virtual PC
          phase    \* "lift", "done" (run returned) or "aborted" (it threw)

vars == <<job, ctx, ip, stack, blocks, CFG, VCFG, phase>>

prog == job.code

\* context->get_option: the option as set_option left it before run
Mode == job.mode             \* option::MODE
JoinPolicy == job.join       \* option::CFG_JOIN_POLICY
OpaqueSolving == job.opaque  \* option::OPAQUE_SOLVING
ForkAtCmovs == job.cmovs     \* option::FORK_AT_CMOVS

-----------------------------------------------------------------------------
(* Terms *)

\* assignments of the symbols: the argument, and one that stands for all
\* fresh symbols of reads the solver knew nothing about
Models == Inputs \X {0, 1}

Terms == [den : [Models -> Words], lit : BOOLEAN]

Literal(w) == [den |-> [m \in Models |-> w], lit |-> TRUE]

Argument == [den |-> [m \in Models |-> m[1]], lit |-> FALSE]

Fresh == [den |-> [m \in Models |-> m[2]], lit |-> FALSE]

Unvarying(den) == \A m, n \in Models : den[m] = den[n]

\* the terms simplify() may leave for a denotation; folded says that all its
\* operands are literals, and then nothing symbolic can remain
Simplified(den, folded) ==
    {[den |-> den, lit |-> b] : b \in {c \in BOOLEAN : (folded => c) /\ (c => Unvarying(den))}}

Solutions(term, cons) == {term.den[m] : m \in cons}

\* value::simplify(constraints)
SimplifyUnder(term, cons) ==
    LET sols == Solutions(term, cons)
    IN IF ~term.lit /\ Cardinality(sols) = 1
       THEN {Literal(w) : w \in sols} \cup (IF Timeouts THEN {term} ELSE {})
       ELSE {term}

\* value::possible_values: what it returns, and whether the last check_sat
\* said UNSAT, that is, whether these are all values
PossibleValues(term, cons) ==
    LET sols == Solutions(term, cons)
        known == {s \in SUBSET sols : Cardinality(s) <= SolverLimit}
    IN {[vals |-> s, complete |-> s = sols] : s \in
            IF Timeouts THEN known
            ELSE {s \in known : s = sols \/ Cardinality(s) = SolverLimit}}

-----------------------------------------------------------------------------
(* Memory operands: write_memory_intrinsic, read_memory_intrinsic and      *)
(* value_to_pointer.  An access is a GEP of a constant, a chain of selects *)
(* over all candidates, or an inttoptr of the computed address.            *)

NoAccess == [kind |-> "none", addrs |-> {}, first |-> 0]

Constant(w) == [kind |-> "constant", addrs |-> {w}, first |-> w]

Throw == [kind |-> "throw", addrs |-> {}, first |-> 0]

\* value_to_pointer of an address still symbolic: its fallback asks for the
\* uint64 of the symbolic value and throws when any solution is known
Pointers(term, cons) ==
    LET sols == Solutions(term, cons)
    IN IF Cardinality(sols) = 1
       THEN {Constant(w) : w \in sols}
                \cup (IF Timeouts THEN {Throw, [NoAccess EXCEPT !.kind = "inttoptr"]} ELSE {})
       ELSE {IF q.vals = {} THEN [NoAccess EXCEPT !.kind = "inttoptr"] ELSE Throw :
                q \in PossibleValues(term, cons)}

\* mutant: one candidate address stands for all of them
MutAccesses(term, cons) ==
    IF term.lit THEN {Constant(w) : w \in Solutions(term, Models)}
    ELSE UNION {IF q.vals # {} THEN {Constant(w) : w \in q.vals} ELSE Pointers(term, cons) :
                   q \in PossibleValues(term, cons)}

Accesses(term, cons) ==
    IF term.lit THEN {Constant(w) : w \in Solutions(term, Models)}
    ELSE UNION {CASE Cardinality(q.vals) = 1 -> {Constant(w) : w \in q.vals}
                  [] Cardinality(q.vals) > 1 /\ q.complete ->
                        {[kind |-> "select", addrs |-> q.vals, first |-> w] : w \in q.vals}
                  [] OTHER -> Pointers(term, cons) : q \in PossibleValues(term, cons)}

\* the terms a load through acc may leave in the destination register
Loaded(c, a, acc) ==
    CASE acc.kind = "constant" -> {c.mem[acc.first]}
      [] acc.kind = "inttoptr" -> {Fresh}
      [] acc.kind = "select" ->
            Simplified([m \in Models |->
                LET w == c.reg[a].den[m]
                IN c.mem[IF w \in acc.addrs THEN w ELSE acc.first].den[m]], FALSE)

\* the memories a store through acc may leave: memory::write drops a store
\* to a symbolic address
Stored(c, a, acc, term) ==
    CASE acc.kind = "constant" -> {[c.mem EXCEPT ![acc.first] = term]}
      [] acc.kind = "inttoptr" -> {c.mem}
      [] acc.kind = "select" ->
            LET Written(w) == [m \in Models |-> IF c.reg[a].den[m] = w THEN term.den[m]
                                                ELSE c.mem[w].den[m]]
                Folding == {w \in acc.addrs : Unvarying(Written(w))}
            IN {[w \in Words |-> IF w \in acc.addrs
                                 THEN [den |-> Written(w), lit |-> w \in lits]
                                 ELSE c.mem[w]] : lits \in SUBSET Folding}

-----------------------------------------------------------------------------
(* Basic blocks *)

Open == [kind |-> "open"]
Br(b) == [kind |-> "br", to |-> b]
\* to yes when register r holds w, to no otherwise
CondBr(r, w, yes, no) == [kind |-> "cond", reg |-> r, val |-> w, yes |-> yes, no |-> no]
ReturnState == [kind |-> "ret"]
Unreachable == [kind |-> "unreachable"]

\* at is the PC the block starts at; belief, not part of the code, keeps the
\* context the block was lifted in
Block(pc, ins, acc, belief) ==
    [at |-> pc, ins |-> ins, acc |-> acc, end |-> Open, belief |-> belief]

Belief(c) == [reg |-> c.reg, mem |-> c.mem, cons |-> c.cons]

Here == Fetch(prog, ctx.PC)

New == Len(blocks) + 1

\* mutant: the branch goes to a block that is never created
MutLifted(ins, acc) ==
    Append([blocks EXCEPT ![ip].end = Br(New + 1)], Block(ctx.PC, ins, acc, Belief(ctx)))

\* lift_instruction up to LiftIntoBlock: a block of its own for the
\* instruction, entered from the insert point
Lifted(ins, acc) ==
    Append([blocks EXCEPT ![ip].end = Br(New)], Block(ctx.PC, ins, acc, Belief(ctx)))

-----------------------------------------------------------------------------
(* CFG recovery *)

Bind(f, k, b) == [x \in DOMAIN f \cup {k} |-> IF x = k THEN b ELSE f[x]]

TryBind(f, k, b) == IF k \in DOMAIN f THEN f ELSE Bind(f, k, b)

\* the lookup of CFG_recovery: a map and the key that is looked up in it
Index ==
    CASE Mode = "cfg" /\ JoinPolicy = "specialize" -> <<ctx.PATH, ctx.VPC>>
      [] Mode = "cfg" /\ JoinPolicy = "merge" -> <<CFG, ctx.PC>>
      [] Mode = "vcfg" /\ ctx.VJMP /\ JoinPolicy = "specialize" -> <<ctx.PATH, ctx.VPC>>
      [] Mode = "vcfg" /\ ctx.VJMP /\ JoinPolicy = "merge" -> <<VCFG, ctx.VPC>>
      [] OTHER -> << <<>>, 0>>

Known == Index[2] \in DOMAIN Index[1]

\* mutant: VJMP is not cleared
MutLooked == ctx

\* the path's own context once CFG_recovery has found nothing
Looked == IF Mode = "vcfg" THEN [ctx EXCEPT !.VJMP = FALSE] ELSE ctx

\* "save the lifted block"
SaveBlock ==
    /\ CFG' = IF Mode = "cfg" /\ JoinPolicy = "merge" THEN Bind(CFG, ctx.PC, New) ELSE CFG
    /\ VCFG' = IF Mode = "vcfg" /\ JoinPolicy = "merge"
               THEN TryBind(VCFG, ctx.VPC, New) ELSE VCFG

Path ==
    CASE JoinPolicy = "merge" \/ Mode = "symbolic" -> ctx.PATH
      [] JoinPolicy = "specialize" /\ Mode = "cfg" -> Bind(ctx.PATH, ctx.PC, New)
      [] JoinPolicy = "specialize" /\ Mode = "vcfg" -> TryBind(ctx.PATH, ctx.VPC, New)

\* the context after the instruction's block was emulated and saved
Saved == [Looked EXCEPT !.PATH = Path]

-----------------------------------------------------------------------------
(* The loop of cpu::run *)

InitialContext ==
    [PC |-> 1, VPC |-> 0, VJMP |-> FALSE, PATH |-> <<>>, cons |-> Models,
     reg |-> [r \in Regs |-> IF r = "x" THEN Argument ELSE Literal(0)],
     mem |-> [a \in Words |-> Literal(0)]]

Init ==
    /\ job \in Jobs
    /\ ctx = InitialContext
    /\ ip = 1
    /\ stack = <<>>
    /\ blocks = <<Block(1, Nop, NoAccess, Belief(InitialContext))>>
    /\ CFG = <<>>
    /\ VCFG = <<>>
    /\ phase = "lift"

\* the path on top of unexplored_paths
Top == stack[Len(stack)]

\* mutant: top() without pop()
MutNoPop ==
    /\ IF stack = <<>>
       THEN phase' = "done" /\ UNCHANGED <<ctx, ip>>
       ELSE ctx' = Top.ctx /\ ip' = Top.bb /\ UNCHANGED phase
    /\ UNCHANGED <<job, stack>>

\* mutant: the last saved path is forgotten
MutLastPathLost ==
    /\ IF Len(stack) <= 1
       THEN phase' = "done" /\ UNCHANGED <<ctx, ip, stack>>
       ELSE /\ ctx' = Top.ctx
            /\ ip' = Top.bb
            /\ stack' = SubSeq(stack, 1, Len(stack) - 1)
            /\ UNCHANGED phase
    /\ UNCHANGED job

\* mutant: restore_snapshot without SetInsertPoint
MutSameInsertPoint ==
    /\ IF stack = <<>>
       THEN phase' = "done" /\ UNCHANGED <<ctx, stack>>
       ELSE /\ ctx' = Top.ctx
            /\ stack' = SubSeq(stack, 1, Len(stack) - 1)
            /\ UNCHANGED phase
    /\ UNCHANGED <<job, ip>>

\* mutant: restore_snapshot without path_constraints
MutConstraintsKept ==
    /\ IF stack = <<>>
       THEN phase' = "done" /\ UNCHANGED <<ctx, ip, stack>>
       ELSE /\ ctx' = [Top.ctx EXCEPT !.cons = ctx.cons]
            /\ ip' = Top.bb
            /\ stack' = SubSeq(stack, 1, Len(stack) - 1)
            /\ UNCHANGED phase
    /\ UNCHANGED job

\* status explore_other_paths: the last saved path, or the end of the run
ExploreOtherPaths ==
    /\ IF stack = <<>>
       THEN phase' = "done" /\ UNCHANGED <<ctx, ip, stack>>
       ELSE /\ ctx' = Top.ctx
            /\ ip' = Top.bb
            /\ stack' = SubSeq(stack, 1, Len(stack) - 1)
            /\ UNCHANGED phase
    /\ UNCHANGED job

\* status successful: the loop goes on with context c at the end of block b
Continue(c, b) == ctx' = c /\ ip' = b /\ UNCHANGED <<job, phase>>

FunctionEnded ==
    /\ phase = "lift"
    /\ ctx.PC = 0
    /\ blocks' = [blocks EXCEPT ![ip].end = ReturnState]
    /\ ExploreOtherPaths
    /\ UNCHANGED <<CFG, VCFG>>

EdgeRebuilt ==
    /\ phase = "lift"
    /\ ctx.PC # 0
    /\ Known
    /\ blocks' = [blocks EXCEPT ![ip].end = Br(Index[1][Index[2]])]
    /\ ExploreOtherPaths
    /\ UNCHANGED <<CFG, VCFG>>

\* an instruction is about to be read; room is left for three new blocks
Reading(ops) ==
    /\ phase = "lift"
    /\ ctx.PC # 0
    /\ ~Known
    /\ Here.op \in ops
    /\ Len(blocks) + 3 <= MaxBlocks

\* DecodeInstruction fails: the path is given up as it is
DecodeFails ==
    /\ Reading({"bad"})
    /\ ExploreOtherPaths
    /\ UNCHANGED <<blocks, CFG, VCFG>>

\* LiftIntoBlock fails
LiftFails ==
    /\ Reading({"unsupported"})
    /\ blocks' = [Lifted(Here, NoAccess) EXCEPT ![New].end = Unreachable]
    /\ ExploreOtherPaths
    /\ UNCHANGED <<CFG, VCFG>>

\* an exception leaves cpu::run
Abort ==
    /\ phase' = "aborted"
    /\ UNCHANGED <<job, ctx, ip, stack>>

LiftComputation ==
    /\ Reading(ComputeOps)
    /\ LET old == ctx.reg[Here.dst]
           den == [m \in Models |-> Computed(Here, old.den[m])]
       IN \E new \in Simplified(den, Here.op = "set" \/ old.lit) :
             Continue([Saved EXCEPT !.PC = @ + 1, !.reg[Here.dst] = new], New)
    /\ blocks' = Lifted(Here, NoAccess)
    /\ SaveBlock
    /\ UNCHANGED stack

LiftMemoryAccess ==
    /\ Reading({"load", "store"})
    /\ \E acc \in Accesses(ctx.reg[Here.addr], ctx.cons) :
          /\ blocks' = Lifted(Here, acc)
          /\ \/ /\ acc = Throw
                /\ Abort
                /\ UNCHANGED <<CFG, VCFG>>
             \/ /\ acc # Throw
                /\ \/ /\ Here.op = "load"
                      /\ \E new \in Loaded(ctx, Here.addr, acc) :
                            Continue([Saved EXCEPT !.PC = @ + 1, !.reg[Here.dst] = new], New)
                   \/ /\ Here.op = "store"
                      /\ \E new \in Stored(ctx, Here.addr, acc, ctx.reg[Here.src]) :
                            Continue([Saved EXCEPT !.PC = @ + 1, !.mem = new], New)
                /\ SaveBlock
                /\ UNCHANGED stack

\* the condition "register r holds w" as a term: the assignments where it is
\* true and whether it is a literal
Conditions(r, w) ==
    LET den == [m \in Models |-> IF ctx.reg[r].den[m] = w THEN 1 ELSE 0]
    IN Simplified(den, ctx.reg[r].lit)

True(cond) == {m \in Models : cond.den[m] = 1}

\* emulating "dst := cond ? imm : dst" without forking
LiftSelect ==
    /\ ~ForkAtCmovs
    /\ Reading({"cmov"})
    /\ \E cond \in Conditions(Here.cond, 0) :
          LET old == ctx.reg[Here.dst]
              den == [m \in Models |-> IF m \in True(cond) THEN Here.imm ELSE old.den[m]]
              folded == cond.lit /\ (old.lit \/ True(cond) = Models)
          IN \E new \in Simplified(den, folded) :
                Continue([Saved EXCEPT !.PC = @ + 1, !.reg[Here.dst] = new], New)
    /\ blocks' = Lifted(Here, NoAccess)
    /\ SaveBlock
    /\ UNCHANGED stack

Moved(c) == [c EXCEPT !.PC = @ + 1, !.reg[Here.dst] = Literal(Here.imm)]

Kept(c) == [c EXCEPT !.PC = @ + 1]

\* handle_conditional_moves: decide the move, or fork; no constraint is added
LiftConditionalMove ==
    /\ ForkAtCmovs
    /\ Reading({"cmov"})
    /\ \E cond \in Conditions(Here.cond, 0) :
          LET move == Set(Here.dst, Here.imm)
          IN IF OpaqueSolving /\ Mode # "vcfg" /\ cond.lit
             THEN /\ blocks' = Lifted(IF True(cond) # {} THEN move ELSE Keep, NoAccess)
                  /\ Continue(IF True(cond) # {} THEN Moved(Saved) ELSE Kept(Saved), New)
                  /\ UNCHANGED stack
             ELSE /\ blocks' = [Lifted(Nop, NoAccess) EXCEPT
                                    ![New].end = CondBr(Here.cond, 0, New + 1, New + 2)]
                                \o << Block(ctx.PC, move, NoAccess, Belief(ctx)),
                                      Block(ctx.PC, Keep, NoAccess, Belief(ctx)) >>
                  /\ stack' = Append(stack, [ctx |-> Kept(Saved), bb |-> New + 2])
                  /\ Continue(Moved(Saved), New + 1)
    /\ SaveBlock

LiftDirectJump ==
    /\ Reading({"jmp"})
    /\ Continue([Saved EXCEPT !.PC = Here.to], New)
    /\ blocks' = Lifted(Here, NoAccess)
    /\ SaveBlock
    /\ UNCHANGED stack

\* solve_cpu_context with one more constraint, which the assignments in m satisfy
Solved(c, m, pc) ==
    LET cons == c.cons \cap m
        Values(r) == SimplifyUnder(c.reg[r], cons)
    IN {[c EXCEPT !.cons = cons, !.PC = pc, !.reg = f] :
          f \in {g \in [Regs -> UNION {Values(r) : r \in Regs}] : \A r \in Regs : g[r] \in Values(r)}}

\* branching: jump to yes when register r holds w, else to no
Branching(r, w, yes, no) ==
    \E cond \in Conditions(r, w) :
       IF OpaqueSolving /\ cond.lit
       THEN /\ Continue([Saved EXCEPT !.cons = @ \cap IF True(cond) # {} THEN True(cond)
                                                     ELSE Models \ True(cond),
                                     !.PC = IF True(cond) # {} THEN yes ELSE no], New)
            /\ blocks' = Lifted(Here, NoAccess)
            /\ UNCHANGED stack
       ELSE \E fall \in Solved(Saved, Models \ True(cond), no),
               jump \in Solved(Saved, True(cond), yes) :
               /\ blocks' = [Lifted(Here, NoAccess) EXCEPT
                                ![New].end = CondBr(r, w, New + 1, New + 2)]
                            \o << Block(yes, Nop, NoAccess, Belief(jump)),
                                  Block(no, Nop, NoAccess, Belief(fall)) >>
               /\ stack' = Append(stack, [ctx |-> fall, bb |-> New + 2])
               /\ Continue(jump, New + 1)

LiftConditionalJump ==
    /\ Reading({"jz"})
    /\ Branching(Here.cond, 0, Here.to, ctx.PC + 1)
    /\ SaveBlock

\* the value stored to NEXT_PC
Target == IF Here.op = "ret" THEN Literal(0) ELSE ctx.reg[Here.cond]

\* next->is_concrete(); the client's callback for INDIRECT_JUMP recognises
\* the dispatcher and reads the virtual PC, which throws when it is symbolic
LiftConcreteJump ==
    /\ Reading(IndirectOps)
    /\ Target.lit
    /\ blocks' = Lifted(Here, NoAccess)
    /\ LET pc == CHOOSE w \in Solutions(Target, Models) : TRUE
           vpc == CHOOSE w \in Solutions(ctx.reg["v"], Models) : TRUE
       IN \/ /\ Here.op # "dispatch"
             /\ Continue([Saved EXCEPT !.PC = pc], New)
             /\ UNCHANGED stack
          \/ /\ Here.op = "dispatch"
             /\ ctx.reg["v"].lit
             /\ Continue([Saved EXCEPT !.PC = pc, !.VPC = vpc, !.VJMP = TRUE], New)
             /\ UNCHANGED stack
          \/ /\ Here.op = "dispatch"
             /\ ~ctx.reg["v"].lit
             /\ Abort
    /\ SaveBlock

\* the target is symbolic: one solution, two, or the jump stays unresolved;
\* whether these are all solutions is not asked
LiftSymbolicJump ==
    /\ Reading(IndirectOps)
    /\ ~Target.lit
    /\ \E q \in PossibleValues(Target, ctx.cons) :
          \/ /\ Cardinality(q.vals) = 1
             /\ \E w \in q.vals : Continue([Saved EXCEPT !.PC = w], New)
             /\ blocks' = Lifted(Here, NoAccess)
             /\ UNCHANGED stack
          \/ /\ Cardinality(q.vals) = 2
             /\ \E front, back \in q.vals :
                   front # back /\ Branching(Here.cond, front, front, back)
          \/ /\ Cardinality(q.vals) \notin {1, 2}
             /\ blocks' = Lifted(Here, NoAccess)
             /\ ExploreOtherPaths
    /\ SaveBlock

Lift ==
    \/ FunctionEnded \/ EdgeRebuilt \/ DecodeFails \/ LiftFails
    \/ LiftComputation \/ LiftMemoryAccess \/ LiftSelect \/ LiftConditionalMove
    \/ LiftDirectJump \/ LiftConditionalJump \/ LiftConcreteJump \/ LiftSymbolicJump

\* run is a loop of one thread: it takes its next step unless it has returned
Spec == Init /\ [][Lift]_vars /\ WF_vars(Lift)

-----------------------------------------------------------------------------
(* Properties of the exploration *)

Blocks == DOMAIN blocks

\* unordered_map<uint64_t, BasicBlock *> into the function being built
IsBlockMap(f) == DOMAIN f \subseteq Nat /\ \A k \in DOMAIN f : f[k] \in Blocks

IsContext(c) ==
    /\ c.PC \in Nat /\ c.VPC \in Words /\ c.VJMP \in BOOLEAN
    /\ IsBlockMap(c.PATH)
    /\ c.cons \subseteq Models
    /\ c.reg \in [Regs -> Terms]
    /\ c.mem \in [Words -> Terms]

Successors(end) ==
    CASE end.kind = "br" -> {end.to}
      [] end.kind = "cond" -> {end.yes, end.no}
      [] OTHER -> {}

(* The types of the lifter's state, with no dangling basic block: every     *)
(* terminator, every map entry and every saved path, of whatever age, names *)
(* a block of the function.                                                 *)
TypeOK ==
    /\ job \in Jobs
    /\ phase \in {"lift", "done", "aborted", "run", "returned"}
    /\ ip \in Blocks
    /\ IsContext(ctx)
    /\ \A i \in DOMAIN stack : IsContext(stack[i].ctx) /\ stack[i].bb \in Blocks
    /\ \A b \in Blocks : Successors(blocks[b].end) \subseteq Blocks
    /\ IsBlockMap(CFG) /\ IsBlockMap(VCFG)

(* The running path and every saved one has a block of its own that is      *)
(* still open: two paths never append to one block, whatever forks, joins   *)
(* and dead ends there were in between (branching, handle_conditional_moves *)
(* and the pops of cpu::run).                                               *)
PathsHaveOwnBlocks ==
    phase = "lift" =>
        /\ blocks[ip].end = Open
        /\ \A i \in DOMAIN stack :
              /\ blocks[stack[i].bb].end = Open
              /\ stack[i].bb # ip
              /\ \A j \in DOMAIN stack : i # j => stack[i].bb # stack[j].bb

(* No basic block is ever given a second terminator: what was closed stays  *)
(* closed the same way, although blocks are left open and taken up again    *)
(* when their path is popped from unexplored_paths, and CFG_recovery jumps  *)
(* into blocks other paths made.                                            *)
TerminatedOnce ==
    [][\A b \in DOMAIN blocks :
          blocks[b].end # Open => blocks'[b].end = blocks[b].end]_vars

(* "Merge every visit to the same VPC": the block recorded for an address   *)
(* or a virtual address is never replaced or dropped, so every later visit  *)
(* is merged into the same one (CFG_recovery against the entries that       *)
(* lift_instruction makes in CFG and, with try_emplace, in VCFG).           *)
LiftedOnce ==
    [][/\ \A pc \in DOMAIN CFG : pc \in DOMAIN CFG' /\ CFG'[pc] = CFG[pc]
       /\ \A pc \in DOMAIN VCFG : pc \in DOMAIN VCFG' /\ VCFG'[pc] = VCFG[pc]]_vars

(* "Specialize sibling paths while still rebuilding loops": a path never    *)
(* lifts an address it has already lifted (PATH).                           *)
PathLoopsRebuilt ==
    [][\A b \in DOMAIN blocks' \ DOMAIN blocks :
          blocks'[b].ins # Nop => blocks'[b].at \notin DOMAIN ctx.PATH]_vars

(* Every basic block of the finished function has a terminator, which the   *)
(* verifier at the head of pass_manager::run insists on.                    *)
WellFormed == phase = "done" => \A b \in DOMAIN blocks : blocks[b].end # Open

(* cpu::run returns (or throws) on every function.                          *)
LiftingEnds == <>(phase # "lift")
=============================================================================
