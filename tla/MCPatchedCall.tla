---------------------------- MODULE MCPatchedCall ----------------------------
(* Small binaries and object files.  A page has 8 bytes, 2^31 is 256.        *)
EXTENDS PatchedCall

Piece(load, v, content, n) == [load |-> load, va |-> v, content |-> content, vsize |-> n]

\* headers, code, and data with .bss; a TLS segment inside the data, its
\* .tbss on top of the .bss or of the data behind it
ElfParts(b) ==
    {<<Piece(TRUE, b, <<1, 2>>, 2), Piece(TRUE, b + 8, <<3, 4, 5>>, 3), Piece(TRUE, b + 16, <<6, 7>>, 5), tls>> :
        tls \in {Piece(FALSE, b + 17, <<7>>, 3), Piece(FALSE, b + 16, <<6>>, 2), Piece(FALSE, b + 8, <<>>, 0)}}

Pies == [format : {"pie"}, base : {0}, parts : ElfParts(0), va : {8}, holes : {{32, 40}}]

Execs == [format : {"exec"}, base : {64}, parts : ElfParts(64), va : {72}, holes : {{96, 40}}]

\* code, .bss, and data with a tail; one image base is beyond 32 bits
Pes ==
    [format : {"pe"}, base : {128, 576},
     parts : {<<Piece(TRUE, 8, <<3, 4, 5>>, 3), Piece(TRUE, 16, <<>>, 4), Piece(TRUE, 24, <<6, 7>>, 4)>>},
     va : {0}, holes : {{32, 40}}]

\* the function of a PE file is given by its address
SmallBinaries ==
    Pies \cup Execs
    \cup {[b EXCEPT !.va = b.base + 8] : b \in Pes}
    \cup [format : {"raw"}, base : {0}, parts : {<<Piece(TRUE, 0, <<1, 2, 3>>, 3)>>}, va : {0}, holes : {{}}]

Sec(alloc, n, align) == [alloc |-> alloc, size |-> n, align |-> align]
Sym(s, v) == [section |-> s, value |-> v]
Rel(s, a, t, name, add) == [section |-> s, at |-> a, type |-> t, symbol |-> name, addend |-> add]

\* .comment, .rodata, .text, .bss
Sections == <<Sec(FALSE, 3, 1), Sec(TRUE, 9, 8), Sec(TRUE, 17, 4), Sec(TRUE, 5, 0)>>

Symbols == [vexa_entry |-> Sym(3, 2), vexa_lifted |-> Sym(3, 16), table |-> Sym(2, 1),
            counter |-> Sym(4, 3), memcpy |-> Sym(0, 0)]

ImageBase == Rel(3, 4, "PC32", "IMAGE_BASE", -4)
CallLifted == Rel(3, 9, "PLT32", "vexa_lifted", -4)

Recompiled ==
    [sections : {Sections}, text : {3}, symbols : {Symbols},
     relocs : {<<ImageBase, CallLifted, r>> :
                  r \in {Rel(3, 13, "PC32", "table", 1), Rel(3, 13, "PC32", "counter", -4),
                         Rel(2, 0, "64", "table", 4), Rel(2, 1, "32", "counter", 0),
                         Rel(3, 13, "32S", "IMAGE_BASE", 0), Rel(3, 13, "PLT32", "memcpy", -4),
                         Rel(1, 0, "64", "table", 0), Rel(3, 13, "GOTPCREL", "table", -4)}}]

\* no .text; no vexa_entry; vexa_entry in a section that is not loaded
Broken ==
    LET one == [sections |-> Sections, text |-> 3, symbols |-> Symbols, relocs |-> <<ImageBase>>]
    IN {[one EXCEPT !.text = 0],
        [one EXCEPT !.symbols = [vexa_lifted |-> Sym(3, 16)]],
        [one EXCEPT !.symbols = [vexa_entry |-> Sym(1, 0)]]}

SmallObjects == Recompiled \cup Broken

Reg(n, o, s, p, b, m) == [name |-> n, offset |-> o, size |-> s, parent |-> p, base |-> b, mm |-> m]
Gpr(n, o) == Reg(n, o, 8, "", FALSE, FALSE)

SmallRegisters ==
    <<Gpr("RAX", 1), Gpr("RBX", 2), Gpr("RDI", 3), Gpr("RSI", 4), Gpr("RDX", 5), Gpr("RSP", 6), Gpr("RIP", 7),
      Reg("SP", 6, 2, "RSP", FALSE, FALSE), Reg("FSBASE", 8, 8, "", TRUE, FALSE),
      Reg("MM0", 9, 8, "", FALSE, TRUE), Reg("XMM0", 10, 16, "", FALSE, FALSE)>>
=============================================================================
