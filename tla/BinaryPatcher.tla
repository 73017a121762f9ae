---------------------------- MODULE BinaryPatcher ----------------------------
(***************************************************************************)
(* The two ends of engine: map_binary, which puts the binary's bytes into  *)
(* global_memory before lifting, and patch, which lays the sections of the *)
(* recompiled object file out behind each other, has LIEF add them to the  *)
(* binary as one segment, applies the object's relocations and overwrites  *)
(* the original function with a jump.  Then the system loads the patched   *)
(* binary, somewhere.                                                      *)
(*                                                                         *)
(* Abstractions.  A section's bytes only count, but for the fields that    *)
(* relocations and the jump fill in: those are numbers of their width.     *)
(* LIEF (external) moves a position-independent ELF file up by Shift and   *)
(* puts the new segment at a page that is free.                            *)
(***************************************************************************)
EXTENDS Integers, Sequences, FiniteSetsExt

CONSTANTS
    Binaries,   \* [format, base, parts, va, holes]: "pie", "exec", "pe" or "raw"; the
                \* image base; segments or sections [load, va, content, vsize]; the
                \* function; where LIEF may put the new segment (an RVA in a PE file)
    Objects,    \* [sections, text, symbols, relocs]: sections [alloc, align, size],
                \* the index of .text or 0, symbols [section, value] by name,
                \* relocs [section, at, type, symbol, addend]
    Shift,      \* 0x1000, also the size of a page
    Half,       \* 2^31
    LoadBases   \* where the system may load a movable binary

ASSUME PatcherConstants ==
    /\ {Shift, Half} \subseteq Nat \ {0}
    /\ \A base \in LoadBases : base \in Nat /\ base % Shift = 0

Part == [load : BOOLEAN, va : Nat, content : Seq(Nat), vsize : Nat]

\* the addresses of a part that the file has bytes for
Filled(part) == part.va .. part.va + Len(part.content) - 1

\* the addresses of a part that the file says nothing about
Unfilled(part) == {a \in part.va .. part.va + part.vsize - 1 : a - part.va >= Len(part.content)}

\* the byte that the file has for an address
ByteAt(part, a) == part.content[a - part.va + 1]

\* What an executable is: the image and the room LIEF finds behind it start
\* at pages; parts that overlap a part to be loaded (a TLS segment lies in
\* the data) come from the same bytes of the file, and two parts that are
\* loaded do not overlap
ASSUME BinaryFiles ==
    \A b \in Binaries :
        /\ b.format \in {"pie", "exec", "pe", "raw"}
        /\ b.base \in Nat /\ b.base % Shift = 0
        /\ b.va \in Nat
        /\ \A hole \in b.holes : hole \in Nat /\ hole % Shift = 0
        /\ b.parts \in Seq(Part)
        /\ b.format \in {"pe", "raw"} => \A k \in DOMAIN b.parts : b.parts[k].load
        /\ \A j, k \in DOMAIN b.parts :
              LET p == b.parts[j]
                  q == b.parts[k]
              IN j # k /\ q.load =>
                    /\ \A a \in Filled(p) \cap Filled(q) : ByteAt(p, a) = ByteAt(q, a)
                    /\ Filled(p) \cap Unfilled(q) = {}
                    /\ p.load => Unfilled(p) \cap Filled(q) = {}

Section == [alloc : BOOLEAN, align : Nat, size : Nat]
Symbol == [section : Nat, value : Nat]
Relocation == [section : Nat, at : Nat, type : STRING, symbol : STRING, addend : Int]

\* What an object file is: no section asks for more than the alignment of a
\* page, and relocations fill fields of their own
ASSUME ObjectFiles ==
    \A o \in Objects :
        /\ o.sections \in Seq(Section)
        /\ \A k \in DOMAIN o.sections :
              o.sections[k].align > 0 => Shift % o.sections[k].align = 0
        /\ o.text \in 0 .. Len(o.sections)
        /\ DOMAIN o.symbols \subseteq STRING
        /\ \A name \in DOMAIN o.symbols : o.symbols[name] \in Symbol
        /\ o.relocs \in Seq(Relocation)
        /\ \A i \in DOMAIN o.relocs :
              LET r == o.relocs[i]
              IN /\ r.section \in DOMAIN o.sections => r.at < o.sections[r.section].size
                 /\ \A j \in DOMAIN o.relocs :
                       i # j => r.section # o.relocs[j].section \/ r.at # o.relocs[j].at

VARIABLES
    binary, object,
    phase,           \* "map", "layout", "add", "relocate", "jump", "patched", "loaded", "thrown"
    memory,          \* global_memory: address -> byte
    next,            \* position in the loop at hand
    section_offsets, \* section index -> offset in code_content
    code_size,       \* of code_content
    fields,          \* what relocations wrote: offset in code_content -> [type, value]
    segment,         \* address of the new segment
    jump,            \* [at, rel]
    load_base        \* where the patched binary runs

vars == <<binary, object, phase, memory, next, section_offsets, code_size, fields, segment,
          jump, load_base>>

Init ==
    /\ binary \in Binaries
    /\ object \in Objects
    /\ phase = "map"
    /\ memory = <<>>
    /\ next = 1
    /\ section_offsets = <<>>
    /\ code_size = 0
    /\ fields = <<>>
    /\ segment = 0
    /\ jump = [at |-> 0, rel |-> 0]
    /\ load_base = 0

-----------------------------------------------------------------------------
(* map_binary *)

\* write_memory
Written(mem, address, buffer) ==
    LET span == address .. address + Len(buffer) - 1
    IN [a \in DOMAIN mem \cup span |-> IF a \in span THEN buffer[a - address + 1] ELSE mem[a]]

\* the same for zeros
Cleared(mem, span) == [a \in DOMAIN mem \cup span |-> IF a \in span THEN 0 ELSE mem[a]]

\* mutant: the last byte of the file is zeroed
MutZeroed(part) == part.va + Len(part.content) - 1 .. part.va + part.vsize - 1

\* the addresses behind the content of an ELF segment, of whatever type
Zeroed(part) == part.va + Len(part.content) .. part.va + part.vsize - 1

\* sections of a PE file are placed by RVA
mapped_base == IF binary.format = "pe" THEN binary.base ELSE 0

IsElf == binary.format \in {"pie", "exec"}

MapPart ==
    /\ phase = "map" /\ next <= Len(binary.parts)
    /\ LET part == binary.parts[next]
           written == Written(memory, part.va + mapped_base, part.content)
       IN memory' = IF IsElf THEN Cleared(written, Zeroed(part)) ELSE written
    /\ next' = next + 1
    /\ UNCHANGED <<binary, object, phase, section_offsets, code_size, fields, segment, jump, load_base>>

\* the function is lifted, optimized and recompiled, and patch is called; a
\* raw binary it only refuses after the layout
MappingDone ==
    /\ phase = "map" /\ next > Len(binary.parts)
    /\ phase' = IF object.text = 0 THEN "thrown" ELSE "layout"
    /\ next' = 0
    /\ UNCHANGED <<binary, object, memory, section_offsets, code_size, fields, segment, jump, load_base>>

-----------------------------------------------------------------------------
(* patch: code_content *)

\* mutant: no padding
MutAligned(size, alignment) == size

Aligned(size, alignment) ==
    LET a == Max({alignment, 1}) IN size + ((a - (size % a)) % a)

\* unordered_map::emplace
Emplace(f, k, v) == [x \in DOMAIN f \cup {k} |-> IF x \in DOMAIN f THEN f[x] ELSE v]

\* append_section
Append_section(k) ==
    LET start == Aligned(code_size, object.sections[k].align)
    IN /\ section_offsets' = Emplace(section_offsets, k, start)
       /\ code_size' = start + object.sections[k].size

\* .text first
AppendText ==
    /\ phase = "layout" /\ next = 0
    /\ Append_section(object.text)
    /\ next' = 1
    /\ UNCHANGED <<binary, object, phase, memory, fields, segment, jump, load_base>>

\* the loop over the sections
AppendSection ==
    /\ phase = "layout" /\ next \in DOMAIN object.sections
    /\ IF next # object.text /\ object.sections[next].alloc
       THEN Append_section(next)
       ELSE UNCHANGED <<section_offsets, code_size>>
    /\ next' = next + 1
    /\ UNCHANGED <<binary, object, phase, memory, fields, segment, jump, load_base>>

LayoutDone ==
    /\ phase = "layout" /\ next > Len(object.sections)
    /\ phase' = IF "vexa_entry" \in DOMAIN object.symbols /\ binary.format # "raw"
                THEN "add" ELSE "thrown"
    /\ next' = 1
    /\ UNCHANGED <<binary, object, memory, section_offsets, code_size, fields, segment, jump, load_base>>

\* the new segment; va is the function's address from here on
AddSegment ==
    /\ phase = "add"
    /\ \E hole \in binary.holes :
          segment' = IF binary.format = "pe" THEN binary.base + hole ELSE hole
    /\ phase' = "relocate"
    /\ UNCHANGED <<binary, object, memory, next, section_offsets, code_size, fields, jump, load_base>>

shift_offset == IF binary.format = "pie" THEN Shift ELSE 0

image_base == IF binary.format = "pie" THEN 0 ELSE binary.base

va == binary.va + shift_offset

-----------------------------------------------------------------------------
(* fix_relocations *)

\* the jump is an opcode and a field of four bytes
FieldSize == 4
JumpSize == 1 + FieldSize

Int32(x) == ((x + Half) % (2 * Half)) - Half

Uint32(x) == x % (2 * Half)

\* mutant: the shift of the file is forgotten
MutSymbolVa(name) ==
    IF name = "IMAGE_BASE" THEN image_base
    ELSE segment + section_offsets[object.symbols[name].section] + object.symbols[name].value

symbol_va(name) ==
    IF name = "IMAGE_BASE" THEN image_base + shift_offset
    ELSE segment + section_offsets[object.symbols[name].section] + object.symbols[name].value

\* has_symbol, has_section and both sections are in code_content
Applies(r) ==
    /\ r.section \in DOMAIN section_offsets
    /\ \/ r.symbol = "IMAGE_BASE"
       \/ /\ r.symbol \in DOMAIN object.symbols
          /\ object.symbols[r.symbol].section \in DOMAIN section_offsets

PatchOffset(r) == section_offsets[r.section] + r.at

RelativeTypes == {"PC32", "PLT32"}
AbsoluteTypes == {"64", "32", "32S"}

\* mutant: relative to the section instead of the field
MutRelocated(r) ==
    LET target == symbol_va(r.symbol) + r.addend
    IN CASE r.type \in RelativeTypes -> Int32(target - (segment + section_offsets[r.section]))
         [] r.type = "64" -> target
         [] r.type \in {"32", "32S"} -> Uint32(target)

\* the number a relocation stores
Relocated(r) ==
    LET target == symbol_va(r.symbol) + r.addend
    IN CASE r.type \in RelativeTypes -> Int32(target - (segment + PatchOffset(r)))
         [] r.type = "64" -> target
         [] r.type \in {"32", "32S"} -> Uint32(target)

FixRelocation ==
    /\ phase = "relocate" /\ next <= Len(object.relocs)
    /\ LET r == object.relocs[next]
       IN \/ /\ ~Applies(r)
             /\ UNCHANGED <<phase, fields>>
          \/ /\ Applies(r) /\ r.type \in RelativeTypes \cup AbsoluteTypes
             /\ fields' = [off \in DOMAIN fields \cup {PatchOffset(r)} |->
                              IF off = PatchOffset(r) THEN [type |-> r.type, value |-> Relocated(r)]
                              ELSE fields[off]]
             /\ UNCHANGED phase
          \/ /\ Applies(r) /\ r.type \notin RelativeTypes \cup AbsoluteTypes
             /\ phase' = "thrown"
             /\ UNCHANGED fields
    /\ next' = next + 1
    /\ UNCHANGED <<binary, object, memory, section_offsets, code_size, segment, jump, load_base>>

\* new_func_va
new_func_va ==
    segment + section_offsets[object.symbols["vexa_entry"].section]
        + object.symbols["vexa_entry"].value

\* mutant: the jump is measured from its own address
MutWriteJump ==
    /\ phase = "relocate" /\ next > Len(object.relocs)
    /\ object.symbols["vexa_entry"].section \in DOMAIN section_offsets
    /\ jump' = [at |-> va, rel |-> Int32(new_func_va - va)]
    /\ phase' = "patched"
    /\ UNCHANGED <<binary, object, memory, next, section_offsets, code_size, fields, segment, load_base>>

WriteJump ==
    /\ phase = "relocate" /\ next > Len(object.relocs)
    /\ object.symbols["vexa_entry"].section \in DOMAIN section_offsets
    /\ jump' = [at |-> va, rel |-> Int32(new_func_va - (va + JumpSize))]
    /\ phase' = "patched"
    /\ UNCHANGED <<binary, object, memory, next, section_offsets, code_size, fields, segment, load_base>>

\* section_offsets.at throws, and the binary has got its segment already
EntryUndefined ==
    /\ phase = "relocate" /\ next > Len(object.relocs)
    /\ object.symbols["vexa_entry"].section \notin DOMAIN section_offsets
    /\ phase' = "thrown"
    /\ UNCHANGED <<binary, object, memory, next, section_offsets, code_size, fields, segment, jump, load_base>>

\* the system loads the result; "exec" cannot be moved
Load(base) ==
    /\ phase = "patched"
    /\ binary.format = "exec" => base = binary.base
    /\ load_base' = base
    /\ phase' = "loaded"
    /\ UNCHANGED <<binary, object, memory, next, section_offsets, code_size, fields, segment, jump>>

PatchStep ==
    \/ MapPart \/ MappingDone \/ AppendText \/ AppendSection \/ LayoutDone \/ AddSegment
    \/ FixRelocation \/ WriteJump \/ EntryUndefined
    \/ \E base \in LoadBases \cup {binary.base} : Load(base)

-----------------------------------------------------------------------------
(* Where things are when the patched binary runs *)

\* an address of the patched file
Runtime(a) == a + load_base - image_base

\* an address of the original file
RuntimeOfOriginal(a) == Runtime(a + shift_offset)

\* what the processor makes of a field: an operand relative to it, or an
\* address, of 32 bits and extended with zeros or with its sign, or of 64
Operand(off) ==
    LET f == fields[off]
    IN CASE f.type \in RelativeTypes -> Runtime(segment + off) + f.value
         [] f.type = "32S" -> Int32(f.value)
         [] f.type \in {"64", "32"} -> f.value

Moved == load_base # image_base

\* the byte that the loader puts at an address of a part
LoadedByte(part, a) == IF a \in Filled(part) THEN ByteAt(part, a) ELSE 0

\* an address that a part that is not loaded zero-fills
Overlaid(x) == \E j \in DOMAIN binary.parts : ~binary.parts[j].load /\ x \in Unfilled(binary.parts[j])

(* The loader's view of a byte, and vexa's: at every address of a part that *)
(* is loaded, whatever the order in which map_binary writes parts over each *)
(* other, global_memory holds the byte that the loader puts there, content  *)
(* or zero.  There are two exceptions.  A byte of content lies where a      *)
(* segment that is not loaded has its zeros (the .tbss of a TLS segment     *)
(* occupies no memory there, but map_binary clears behind the content of    *)
(* every segment).  And the tail of a PE section behind its raw data, which *)
(* the loader clears, is never written by map_binary (engine.cpp:188-196):  *)
(* it holds no byte at all, neither a zero nor one of another section.      *)
MappedAsLoaded ==
    phase = "layout" =>
        \A k \in DOMAIN binary.parts :
            LET part == binary.parts[k]
            IN part.load =>
                 \A a \in Filled(part) \cup Unfilled(part) :
                    LET x == mapped_base + a
                    IN \/ x \in DOMAIN memory /\ memory[x] = LoadedByte(part, a)
                       \/ a \in Filled(part) /\ Overlaid(x)
                       \/ ~IsElf /\ a \in Unfilled(part) /\ x \notin DOMAIN memory

(* The sections of the object are laid out one behind the other in the new  *)
(* segment: no two share a byte, a section without contents has its room,   *)
(* and each is aligned where it really runs (append_section, the segment's  *)
(* alignment).                                                              *)
SectionsKeptApart ==
    phase = "loaded" =>
        \A s \in DOMAIN section_offsets :
            LET span(k) == section_offsets[k] .. section_offsets[k] + object.sections[k].size - 1
            IN /\ object.sections[s].align > 0 =>
                     Runtime(segment + section_offsets[s]) % object.sections[s].align = 0
               /\ span(s) \subseteq 0 .. code_size - 1
               /\ \A t \in DOMAIN section_offsets : s # t => span(s) \cap span(t) = {}

\* the number has room in the field
Fits(r) ==
    LET target == symbol_va(r.symbol) + r.addend
    IN CASE r.type \in RelativeTypes -> target - (segment + PatchOffset(r)) \in -Half .. Half - 1
         [] r.type = "32" -> target \in 0 .. 2 * Half - 1
         [] r.type = "32S" -> target \in -Half .. Half - 1
         [] OTHER -> TRUE

(* Every reference in the recompiled code reaches its symbol wherever the   *)
(* binary is loaded, however its fields and those of other sections were    *)
(* filled in.  The exceptions are absolute references in a binary that was  *)
(* moved, and what has no room in a field of 32 bits (fix_relocations and   *)
(* the arithmetic of patch, for all formats).                               *)
RelocationsResolve ==
    phase = "loaded" =>
        \A k \in DOMAIN object.relocs :
            LET r == object.relocs[k]
            IN /\ Applies(r)
               /\ r.type \in RelativeTypes \/ ~Moved
               /\ Fits(r)
               => Operand(PatchOffset(r)) = Runtime(symbol_va(r.symbol)) + r.addend

(* Whoever calls the original function arrives at vexa_entry: the jump is   *)
(* written where the function is in the patched, perhaps shifted file, and  *)
(* leads to the entry wherever the binary is loaded.                        *)
JumpReachesEntry ==
    phase = "loaded" =>
        /\ Runtime(jump.at) = RuntimeOfOriginal(binary.va)
        /\ Runtime(jump.at) + JumpSize + jump.rel = Runtime(new_func_va)
=============================================================================
