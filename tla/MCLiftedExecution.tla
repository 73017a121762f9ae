------------------------- MODULE MCLiftedExecution -------------------------
(* Functions for the explorer to lift. *)
EXTENDS LiftedExecution

Job(codes, mode, join, opaque, cmovs) ==
    [code : codes, mode : {mode}, join : {join}, opaque : {opaque}, cmovs : {cmovs}]

\* every function of three instructions of a menu, followed by a return
Triples(menu) == {<<a, b, c, Ret>> : a, b, c \in menu}

SymbolicPrograms ==
    Triples({Set("t", 3), Inc("x"), Inc("t"), Bit("x"), Obf("x"),
             Load("t", "x"), Load("x", "t"), Store("t", "x"), Store("x", "t"),
             Cmov("x", "t", 2), Cmov("t", "x", 1),
             Jz("t", 4), Jz("x", 3), Jz("x", 1), Jmpr("t"), Jmpr("x"),
             Unsupported, Bad})

\* a computed jump with two targets, to the caller and to 3
TwoWayPrograms == {<<Jmpr("x"), Bad, Ret>>}

\* one branch leads to bytes that are no code
DeadEndPrograms == {<<Jz("x", 3), Bad, Ret>>}

\* do x := x + 1 while x = 0
LoopPrograms == {<<Inc("x"), Jz("x", 1), Ret>>}

\* branches, joins and loops without memory operands and jump tables
CfgPrograms ==
    {<<a, b, c, d, Ret>> : a, b, c, d \in
        {Set("t", 1), Inc("x"), Cmov("x", "t", 0),
         Jz("x", 5), Jz("t", 4), Jz("x", 1), Jz("t", 2), Jmp(1), Unsupported}}

\* a virtual machine: v is the virtual PC, the handler at 4 interprets every
\* virtual instruction and goes back to the dispatcher at 2
VirtualMenu == {Inc("x"), Bit("x"), Set("v", 2), Cmov("x", "v", 3), Jz("x", 2), Jz("v", 8), Jz("x", 8)}

VirtualPrograms ==
    {<<Set("v", 1), Set("t", 4), Dispatch("t"), a, b, c, Jmp(2), Ret>> : a, b, c \in VirtualMenu}

\* without joins the number of paths explodes, so the handler is shorter
ShortVirtualPrograms ==
    {<<Set("v", 1), Set("t", 4), Dispatch("t"), a, b, Jmp(2), Bad, Ret>> : a, b \in VirtualMenu}
-----------------------------------------------------------------------------
\* on one path, and merged although the code is specialised
SharedMenu == {Set("t", 1), Inc("x"), Inc("t"), Load("t", "x"), Store("t", "x"),
               Cmov("t", "x", 1), Jz("t", 4), Jz("x", 1), Jmpr("t")}
SymbolicJobs ==
    Job(SymbolicPrograms, "symbolic", "merge", TRUE, TRUE)
    \cup Job(Triples(SharedMenu), "cfg", "merge", TRUE, TRUE)
TwoWayJobs == Job(TwoWayPrograms, "symbolic", "merge", TRUE, TRUE)
DeadEndJobs == Job(DeadEndPrograms, "symbolic", "merge", TRUE, TRUE)
LoopJobs == Job(LoopPrograms, "cfg", "specialize", FALSE, TRUE)

\* with CFG recovery
RecoveryJobs ==
    Job(CfgPrograms, "cfg", "merge", FALSE, FALSE)
    \cup Job(VirtualPrograms, "vcfg", "merge", FALSE, TRUE)
    \cup Job(ShortVirtualPrograms, "vcfg", "specialize", FALSE, FALSE)
=============================================================================
