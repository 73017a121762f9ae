------------------------------ MODULE Machine ------------------------------
(***************************************************************************)
(* The machine whose code is lifted, reduced to what path exploration can  *)
(* tell apart: a register x that holds the function's unknown argument, a  *)
(* scratch register t and a virtual program counter v that start out       *)
(* concrete, one word of memory per address, and one instruction for each  *)
(* way process_instruction and lift_instruction treat an instruction.  Its *)
(* semantics is what remill and the processor define; vexa only uses it,   *)
(* so this module is external to src/.                                     *)
(***************************************************************************)
EXTENDS Integers, Sequences

CONSTANTS WordCount,  \* machine words are 0 .. WordCount-1; addresses too
          Inputs      \* the arguments the function may be called with

Words == 0 .. WordCount - 1

ASSUME MachineConstants ==
    /\ WordCount \in Nat /\ WordCount > 1
    /\ Inputs \subseteq Words /\ Inputs # {}

Regs == {"x", "t", "v"}

\* Instructions.  A conditional jump is taken when its register is zero, a
\* conditional move assigns imm when its condition register is zero.
Set(r, c) == [op |-> "set", dst |-> r, imm |-> c]
Inc(r) == [op |-> "inc", dst |-> r]
Bit(r) == [op |-> "bit", dst |-> r]                \* keep the lowest bit
Obf(r) == [op |-> "obf", dst |-> r]                \* r - r: 0, hard to see
Load(r, a) == [op |-> "load", dst |-> r, addr |-> a]
Store(a, r) == [op |-> "store", addr |-> a, src |-> r]
Cmov(c, r, w) == [op |-> "cmov", cond |-> c, dst |-> r, imm |-> w]
Jz(r, pc) == [op |-> "jz", cond |-> r, to |-> pc]
Jmp(pc) == [op |-> "jmp", to |-> pc]
Jmpr(r) == [op |-> "jmpr", cond |-> r]             \* jump to the word in r
Dispatch(r) == [op |-> "dispatch", cond |-> r]     \* jump of a VM dispatcher
Ret == [op |-> "ret"]                              \* to the address 0 on the stack
Bad == [op |-> "bad"]                              \* no or undecodable bytes
Unsupported == [op |-> "unsupported"]              \* decoded, cannot be lifted
Nop == [op |-> "nop"]
Keep == [op |-> "keep"]                            \* a move that was not taken

IndirectOps == {"jmpr", "dispatch", "ret"}

\* what a function consists of; Nop and Keep only stand in lifted blocks
Instructions ==
    [op : {"set"}, dst : Regs, imm : Words]
    \cup [op : {"inc", "bit", "obf"}, dst : Regs]
    \cup [op : {"load"}, dst : Regs, addr : Regs]
    \cup [op : {"store"}, addr : Regs, src : Regs]
    \cup [op : {"cmov"}, cond : Regs, dst : Regs, imm : Words]
    \cup [op : {"jz"}, cond : Regs, to : Nat]
    \cup [op : {"jmp"}, to : Nat]
    \cup [op : {"jmpr", "dispatch"}, cond : Regs]
    \cup [op : {"ret", "bad", "unsupported"}]

\* the instruction at pc; outside the function there are no bytes
Fetch(p, pc) == IF pc \in DOMAIN p THEN p[pc] ELSE Bad

Executable(ins) == ins.op \notin {"bad", "unsupported"}

-----------------------------------------------------------------------------
\* Concrete execution: a state is a register file and a memory

InitialState(i) ==
    [reg |-> [r \in Regs |-> IF r = "x" THEN i ELSE 0], mem |-> [a \in Words |-> 0]]

\* what an instruction that only computes puts into register dst
Computed(ins, old) ==
    CASE ins.op = "set" -> ins.imm
      [] ins.op = "inc" -> (old + 1) % WordCount
      [] ins.op = "bit" -> old % 2
      [] ins.op = "obf" -> 0

ComputeOps == {"set", "inc", "bit", "obf"}

\* what an instruction does to registers and memory
Effect(ins, s) ==
    CASE ins.op \in ComputeOps -> [s EXCEPT !.reg[ins.dst] = Computed(ins, @)]
      [] ins.op = "load"  -> [s EXCEPT !.reg[ins.dst] = s.mem[s.reg[ins.addr]]]
      [] ins.op = "store" -> [s EXCEPT !.mem[s.reg[ins.addr]] = s.reg[ins.src]]
      [] ins.op = "cmov" /\ s.reg[ins.cond] = 0 -> [s EXCEPT !.reg[ins.dst] = ins.imm]
      [] OTHER -> s

\* where it continues; 0 is the caller
NextPC(ins, pc, s) ==
    CASE ins.op = "jz" /\ s.reg[ins.cond] = 0 -> ins.to
      [] ins.op = "jmp" -> ins.to
      [] ins.op = "ret" -> 0
      [] ins.op \in {"jmpr", "dispatch"} -> s.reg[ins.cond]
      [] OTHER -> pc + 1
=============================================================================
