-------------------------- MODULE LiftedExecution --------------------------
(***************************************************************************)
(* The function vexa hands out: once cpu::run has returned, vexa_lifted is *)
(* called with some argument and its basic blocks are executed.  The       *)
(* blocks are what PathExplorer built; executing LLVM IR is external.      *)
(***************************************************************************)
EXTENDS PathExplorer

VARIABLES bp,     \* the block about to be executed, 0 when there is none
          input,  \* the argument of the call
          es      \* registers and memory of the execution

evars == <<vars, bp, input, es>>

Idle == [reg |-> <<>>, mem |-> <<>>]

EInit == Init /\ bp = 0 /\ input = 0 /\ es = Idle

LiftStep == Lift /\ UNCHANGED <<bp, input, es>>

CallLifted(i) ==
    /\ phase = "done"
    /\ phase' = "run"
    /\ bp' = 1
    /\ input' = i
    /\ es' = InitialState(i)
    /\ UNCHANGED <<job, ctx, ip, stack, blocks, CFG, VCFG>>

\* the memory word a block's load reads when its address register holds w
ReadAddr(acc, w) ==
    IF acc.kind = "inttoptr" \/ w \in acc.addrs THEN w ELSE acc.first

\* the words its store changes: a select chain stores back what was there
\* at every candidate that is not the address
WrittenAddrs(acc, w) ==
    CASE acc.kind = "inttoptr" -> {w}
      [] acc.kind = "constant" -> acc.addrs
      [] acc.kind = "select" -> acc.addrs \cap {w}

\* what the code of block b does to a machine state
Run(b, s) ==
    CASE b.ins.op = "load" ->
            [s EXCEPT !.reg[b.ins.dst] = s.mem[ReadAddr(b.acc, s.reg[b.ins.addr])]]
      [] b.ins.op = "store" ->
            [s EXCEPT !.mem = [a \in Words |->
                IF a \in WrittenAddrs(b.acc, s.reg[b.ins.addr]) THEN s.reg[b.ins.src]
                ELSE s.mem[a]]]
      [] OTHER -> Effect(b.ins, s)

RunBlock ==
    /\ phase = "run"
    /\ LET b == blocks[bp]
       IN /\ es' = Run(b, es)
          /\ \/ b.end.kind = "br" /\ bp' = b.end.to /\ UNCHANGED phase
             \/ /\ b.end.kind = "cond"
                /\ bp' = IF es.reg[b.end.reg] = b.end.val THEN b.end.yes ELSE b.end.no
                /\ UNCHANGED phase
             \/ b.end.kind = "ret" /\ bp' = 0 /\ phase' = "returned"
    /\ UNCHANGED <<job, ctx, ip, stack, blocks, CFG, VCFG, input>>

ENext == LiftStep \/ RunBlock \/ \E i \in Inputs : CallLifted(i)

\* run is a loop of one thread: it takes its next step unless it has ended
ESpec == EInit /\ [][ENext]_evars /\ WF_evars(LiftStep)

-----------------------------------------------------------------------------
\* the address in the original that the execution has come to
Place == CASE phase = "run" -> blocks[bp].at [] phase = "returned" -> 0 [] OTHER -> 1

(* The lifted function computes what the original computes: an execution of *)
(* its blocks is an execution of the source instructions on the same        *)
(* argument, block by block (cpu::run, and everything it calls).            *)
Source == INSTANCE SourceProgram WITH code <- prog, at <- Place, state <- es

FollowsProgram == Source!SSpec

\* the execution is in a state that block b was lifted for
Believed(b) ==
    \E m \in b.belief.cons :
        /\ m[1] = input
        /\ \A r \in Regs : b.belief.reg[r].den[m] = es.reg[r]
        /\ \A a \in Words : b.belief.mem[a].den[m] = es.mem[a]

(* What the symbolic state said when a block was lifted is true whenever the *)
(* block is executed: the argument satisfies the path constraints, and every *)
(* register and memory term has the value the machine really holds           *)
(* (emulator, solve_cpu_context, opaque_solver, snapshots).  That is so in   *)
(* symbolic exploration, where a block belongs to one path.  The call starts *)
(* with the memory the binary's file has: for global variables the program   *)
(* has changed by then, lifting has wrong values (src/README.md:509).        *)
BeliefsHold == phase = "run" /\ Mode = "symbolic" => Believed(blocks[bp])

\* the code of block b depends on what was believed: a baked address, a
\* resolved jump, a decided branch or move
Specialised(b) ==
    \/ b.acc.kind \in {"constant", "select"}
    \/ b.ins.op \in {"jmpr", "dispatch"}
    \/ b.ins.op = "jz" /\ b.end.kind # "cond"
    \/ b.ins.op \in {"set", "keep"} /\ Fetch(prog, b.at).op = "cmov"

(* CFG recovery makes paths share blocks, and what an access, a jump or an   *)
(* opaque branch was specialised to for the first path is then wrong for     *)
(* others.  Nothing else goes wrong: a step of the lifted function is a step *)
(* of the original unless its block was specialised for a state that is not  *)
(* the present one.  With BeliefsHold this makes symbolic exploration exact  *)
(* (CFG_recovery, value_to_pointer, branching, handle_conditional_moves).    *)
OnlyStaleCodeDeviates ==
    [][phase = "run" =>
          \/ [Source!SNext]_(Source!svars)
          \/ Specialised(blocks[bp]) /\ ~Believed(blocks[bp])]_evars

\* the execution is in a block that was left without a way on
Stuck == phase = "run" /\ blocks[bp].end.kind \in {"open", "unreachable"}

\* the original goes no further either: it reaches bytes that cannot be
\* decoded or lifted
OriginalStuck ==
    LET b == blocks[bp]
        ins == Fetch(prog, b.at)
        next == IF b.ins = Nop THEN b.at ELSE NextPC(ins, b.at, es)
    IN ~Executable(ins) \/ ~Executable(Fetch(prog, next))

\* the block ends in a jump that had more than two targets on its path
ManyTargets ==
    LET b == blocks[bp]
    IN /\ b.ins.op \in {"jmpr", "dispatch"}
       /\ Cardinality(Solutions(b.belief.reg[b.ins.cond], b.belief.cons)) > 2

(* "Discovers the all execution paths in the function" (context.hpp): an     *)
(* execution of the lifted function only runs into a block that lifting left *)
(* without a way on where the original is stuck too.                         *)
AllPathsDiscovered == Stuck => OriginalStuck

(* The one exception there is without solver timeouts: an indirect jump with *)
(* three or more targets, which lift_instruction leaves unresolved.          *)
OnlySwitchesCutPaths == Stuck => OriginalStuck \/ ManyTargets
=============================================================================
