----------------------------- MODULE PatchedCall -----------------------------
(***************************************************************************)
(* A call of a function in the patched binary: the jump that patch wrote,  *)
(* then vexa_entry, the wrapper recompile writes around the lifted         *)
(* function.  It makes a State of the processor's registers on the stack,  *)
(* calls the lifted function with pointers to it and to the image, and     *)
(* makes registers of the State again.                                     *)
(*                                                                         *)
(* Abstractions.  An address counts words of the stack.  The recompiled    *)
(* lifted function (external) follows the calling convention: it keeps rsp *)
(* and the callee-saved registers, leaves anything in the others, writes   *)
(* to the State, and accesses the image through its memory pointer.        *)
(***************************************************************************)
EXTENDS BinaryPatcher

CONSTANTS
    Registers,   \* of remill, in the order of the map: [name, offset, size, parent, base,
                 \* mm], the last two saying whether the name ends in BASE or starts with MM
    StateSize,   \* of the State structure
    CalleeSaved, \* registers that a callee keeps
    StackTop,    \* rsp when the function is called
    StackHalf    \* half of stack_size

Register == [name : STRING, offset : Nat, size : Nat, parent : STRING, base : BOOLEAN, mm : BOOLEAN]

\* the registers vexa_entry moves
Moves(r) == r.parent = "" /\ r.name # "RIP" /\ ~r.base /\ r.size = 8 /\ ~r.mm

Names == {Registers[k].name : k \in DOMAIN Registers}

Offset(name) == Registers[CHOOSE k \in DOMAIN Registers : Registers[k].name = name].offset

\* the State structure: what the wrapper moves has a place of its own in it,
\* as has the base of fs, and SP is the low part of RSP
ASSUME CallConstants ==
    /\ {StateSize, StackTop, StackHalf} \subseteq Nat \ {0}
    /\ Registers \in Seq(Register)
    /\ {"RAX", "RDI", "RSI", "RDX", "RSP", "SP", "FSBASE"} \subseteq Names
    /\ \A k \in DOMAIN Registers : Registers[k].offset < StateSize
    /\ \A j, k \in DOMAIN Registers :
          j # k =>
            /\ Registers[j].name # Registers[k].name
            /\ Moves(Registers[j]) /\ (Moves(Registers[k]) \/ Registers[k].name = "FSBASE") =>
                  Registers[j].offset # Registers[k].offset
    /\ \A k \in DOMAIN Registers :
          /\ Registers[k].name \in {"RAX", "RSP"} => Moves(Registers[k])
          /\ Registers[k].name = "FSBASE" => ~Moves(Registers[k])
    /\ Offset("SP") = Offset("RSP")

VARIABLES
    at,        \* position in the wrapper, 0 outside
    processor, \* register -> value
    stack,     \* word of the stack -> value
    accessed   \* [va, where]: the last access of the lifted function

callVars == <<at, processor, stack, accessed>>

NoAccess == [va |-> 0, where |-> 0]

Garbage == -1

\* what the caller left in a register
CallerValue(name) == IF name = "RSP" THEN StackTop ELSE 900 + Offset(name)

ReturnAddress == 800

CInit ==
    /\ Init
    /\ at = 0
    /\ processor = <<>>
    /\ stack = <<>>
    /\ accessed = NoAccess

\* somebody calls the original function, and the jump is taken
CallPatched ==
    /\ phase = "loaded"
    /\ phase' = "wrapper"
    /\ at' = 1
    /\ processor' = [name \in Names |-> CallerValue(name)]
    /\ stack' = [a \in StackTop - StateSize - 1 .. StackTop |->
                    IF a = StackTop THEN ReturnAddress ELSE Garbage]
    /\ UNCHANGED <<binary, object, memory, next, section_offsets, code_size, fields, segment,
                   jump, load_base, accessed>>

-----------------------------------------------------------------------------
(* recompile: the inline assembly of vexa_entry *)

\* an instruction, perhaps for a register
Instr(op) == [op |-> op, reg |-> 0]

\* one for each chosen register; the loop passes over the others
ForEach(op, chosen) ==
    [k \in DOMAIN Registers |-> IF k \in chosen THEN [op |-> op, reg |-> k] ELSE Instr("pass")]

\* the registers it saves
Saved == {k \in DOMAIN Registers : Moves(Registers[k])}

\* mutant: RSP is saved as it is
MutPrologue ==
    <<Instr("sub")>>
    \o ForEach("save", Saved)
    \o <<Instr("rdi_state"), Instr("rsi_zero"), Instr("rdx_image_base"),
         Instr("rdfsbase"), Instr("save_fsbase")>>

Prologue ==
    <<Instr("sub")>>
    \o ForEach("save", Saved)
    \o <<Instr("fix_rsp"), Instr("rdi_state"), Instr("rsi_zero"), Instr("rdx_image_base"),
         Instr("rdfsbase"), Instr("save_fsbase")>>

\* mutant: the registers a callee keeps are not loaded
MutRestores(r) == Moves(r) /\ r.name \notin CalleeSaved

\* the registers it gives back
Restores(r) == Moves(r) /\ r.name # "RSP"

Restored == {k \in DOMAIN Registers : Restores(Registers[k])}

Epilogue == ForEach("load", Restored) \o <<Instr("add"), Instr("ret")>>

vexa_entry == Prologue \o <<Instr("call")>> \o Epilogue

\* the relocation of lea rdx, [rip + IMAGE_BASE], in .text
IsImageBase(o, r) ==
    r.symbol = "IMAGE_BASE" /\ r.section = o.text /\ r.type = "PC32" /\ r.addend = -FieldSize

\* the wrapper is in the object file, at vexa_entry
ASSUME WrapperCompiled ==
    \A o \in Objects :
        o.text # 0 /\ "vexa_entry" \in DOMAIN o.symbols =>
            \E i \in DOMAIN o.relocs : IsImageBase(o, o.relocs[i])

\* its operand; rip is behind the field
ImageBaseOperand ==
    LET k == CHOOSE i \in DOMAIN object.relocs : IsImageBase(object, object.relocs[i])
    IN Operand(PatchOffset(object.relocs[k])) + FieldSize

\* one instruction
WrapperStep ==
    /\ phase = "wrapper" /\ vexa_entry[at].op \notin {"call", "ret"}
    /\ at' = at + 1
    /\ LET i == vexa_entry[at]
           r == Registers[i.reg]
           rsp == processor["RSP"]
       IN \/ i.op = "pass" /\ UNCHANGED <<processor, stack>>
          \/ i.op = "sub" /\ processor' = [processor EXCEPT !["RSP"] = rsp - StateSize] /\ UNCHANGED stack
          \/ i.op = "save" /\ stack' = [stack EXCEPT ![rsp + r.offset] = processor[r.name]] /\ UNCHANGED processor
          \/ i.op = "fix_rsp" /\ stack' = [stack EXCEPT ![rsp + Offset("SP")] = @ + StateSize] /\ UNCHANGED processor
          \/ i.op = "rdi_state" /\ processor' = [processor EXCEPT !["RDI"] = rsp] /\ UNCHANGED stack
          \/ i.op = "rsi_zero" /\ processor' = [processor EXCEPT !["RSI"] = 0] /\ UNCHANGED stack
          \/ i.op = "rdx_image_base" /\ processor' = [processor EXCEPT !["RDX"] = ImageBaseOperand] /\ UNCHANGED stack
          \/ i.op = "rdfsbase" /\ processor' = [processor EXCEPT !["RAX"] = processor["FSBASE"]] /\ UNCHANGED stack
          \/ i.op = "save_fsbase" /\ stack' = [stack EXCEPT ![rsp + Offset("FSBASE")] = processor["RAX"]] /\ UNCHANGED processor
          \/ i.op = "load" /\ processor' = [processor EXCEPT ![r.name] = stack[rsp + r.offset]] /\ UNCHANGED stack
          \/ i.op = "add" /\ processor' = [processor EXCEPT !["RSP"] = rsp + StateSize] /\ UNCHANGED stack
    /\ UNCHANGED <<vars, accessed>>

Enter ==
    /\ phase = "wrapper" /\ vexa_entry[at].op = "call"
    /\ phase' = "lifted"
    /\ processor' = [processor EXCEPT !["RSP"] = @ - 1]
    /\ stack' = [stack EXCEPT ![processor["RSP"] - 1] = at + 1]
    /\ UNCHANGED <<binary, object, memory, next, section_offsets, code_size, fields, segment,
                   jump, load_base, at, accessed>>

-----------------------------------------------------------------------------
(* The lifted function *)

\* get_page: the window of addresses that are the function's own stack
OnStack(address) == address >= -StackHalf /\ address < StackHalf

\* the addresses of the binary, as map_binary places them and the original
\* code uses them
ImageAddresses ==
    UNION {mapped_base + binary.parts[k].va .. mapped_base + binary.parts[k].va + binary.parts[k].vsize - 1 :
              k \in DOMAIN binary.parts}

\* value_to_pointer: a constant address becomes an offset from the memory
\* pointer, or from %stack_ptr in the frame of the lifted function
AccessImage(address) ==
    /\ phase = "lifted"
    /\ accessed' = [va |-> address,
                    where |-> IF OnStack(address) THEN processor["RSP"] - StackHalf + address
                              ELSE processor["RDX"] + address]
    /\ UNCHANGED <<vars, at, processor, stack>>

\* it returns: with state_cleanup it has stored RAX alone, otherwise all it
\* computed, with the RSP it started with, -8, among it
LeaveLifted(cleaned) ==
    /\ phase = "lifted"
    /\ phase' = "wrapper"
    /\ at' = stack[processor["RSP"]]
    /\ LET written == {k \in DOMAIN Registers :
                          Registers[k].name = "RAX" \/ (~cleaned /\ Moves(Registers[k]))}
           base == processor["RSP"] + 1
       IN stack' = [a \in DOMAIN stack |->
                      IF \E k \in written : a = base + Registers[k].offset
                      THEN IF a = base + Offset("RSP") THEN -8 ELSE 700 + a - base
                      ELSE stack[a]]
    /\ processor' = [name \in DOMAIN processor |->
                        IF name = "RSP" THEN processor["RSP"] + 1
                        ELSE IF name \in CalleeSaved THEN processor[name] ELSE Garbage]
    /\ UNCHANGED <<binary, object, memory, next, section_offsets, code_size, fields, segment,
                   jump, load_base, accessed>>

ReturnToCaller ==
    /\ phase = "wrapper" /\ vexa_entry[at].op = "ret"
    /\ phase' = "returned"
    /\ at' = stack[processor["RSP"]]
    /\ processor' = [processor EXCEPT !["RSP"] = @ + 1]
    /\ UNCHANGED <<binary, object, memory, next, section_offsets, code_size, fields, segment,
                   jump, load_base, stack, accessed>>

CNext ==
    \/ PatchStep /\ UNCHANGED callVars
    \/ CallPatched \/ WrapperStep \/ Enter \/ ReturnToCaller
    \/ \E address \in ImageAddresses : AccessImage(address)
    \/ \E cleaned \in BOOLEAN : LeaveLifted(cleaned)

allVars == <<vars, callVars>>

CSpec == CInit /\ [][CNext]_allVars

-----------------------------------------------------------------------------
\* where the State is while the wrapper's frame exists
StateAt == StackTop - StateSize

(* When the lifted function starts, its first argument points to a State    *)
(* that holds the caller's value of every register the wrapper saves, rsp   *)
(* as it was before the wrapper made room, and the base of fs, although the *)
(* wrapper itself needs rax, rdi and rdx by then (prologue of recompile).   *)
(* It saves topmost registers of 8 bytes: the State's vector registers and  *)
(* flags are not among them, and nothing is claimed of those.               *)
RegistersReachLifted ==
    phase = "lifted" =>
        /\ processor["RDI"] = StateAt
        /\ processor["RSI"] = 0
        /\ stack[StateAt + Offset("FSBASE")] = CallerValue("FSBASE")
        /\ \A k \in DOMAIN Registers :
              LET r == Registers[k] IN Moves(r) => stack[StateAt + r.offset] = CallerValue(r.name)

(* Every 8-byte register that the wrapper moves comes back to the caller as *)
(* the lifted function left it in the State, whatever the compiled function *)
(* did to the processor's, with the stack as any callee leaves it: rsp is   *)
(* never taken from the State, where it is only meaningful inside the       *)
(* lifted function (epilogue of recompile).  Vector registers and flags are *)
(* not moved; they are whatever the compiled function leaves.               *)
RegistersComeBack ==
    phase = "returned" =>
        /\ at = ReturnAddress
        /\ processor["RSP"] = StackTop + 1
        /\ \A k \in DOMAIN Registers :
              LET r == Registers[k]
              IN Moves(r) /\ r.name # "RSP" => processor[r.name] = stack[StateAt + r.offset]

\* the last access found the byte the original code would have accessed
AccessReached == accessed # NoAccess => accessed.where = RuntimeOfOriginal(accessed.va)

(* In a position-independent ELF file an access to an address of the image  *)
(* reaches that address wherever the system loads it, outside the window    *)
(* that get_page takes for stack: the shift of the file, the relocated      *)
(* IMAGE_BASE, the wrapper's third argument and the offset in the code add  *)
(* up (map_binary, value_to_pointer, recompile, fix_relocations).           *)
PieAccessesReach ==
    binary.format = "pie" /\ ~OnStack(accessed.va) => AccessReached

(* "recompiling them back into the binary" (README.md): the same for a      *)
(* binary with an image base.                                               *)
ImageAccessesReach ==
    binary.format \in {"pe", "exec"} => AccessReached
=============================================================================
