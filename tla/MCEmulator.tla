---------------------------- MODULE MCEmulator ----------------------------
(* Every instruction on every operand of a few bits; a byte has 2 bits. *)
EXTENDS Emulator

Ins(ops, args, to) == {[op |-> o, args |-> a, to |-> to] : o \in ops, a \in args}

Single(w) == {<<a>> : a \in BVs(w)}

Pair(w) == BVs(w) \X BVs(w)

Triple(w) == BVs(w) \X BVs(w) \X BVs(w)

OfWidth(w) ==
    Ins(BinaryOps \cup {"umax", "usub_sat"}, Pair(w), w)
        \cup Ins(ICmpOps, Pair(w), 1)
        \cup Ins({"freeze", "ctpop", "cttz", "ctlz", "abs", "unsupported"}, Single(w), w)
        \cup Ins({"fshl", "fshr"}, Triple(w), w)
        \cup Ins({"select"}, BVs(1) \X BVs(w) \X BVs(w), w)
        \cup UNION {Ins({"zext", "sext"}, Single(w), to) : to \in w+1 .. 6}
        \cup UNION {Ins({"trunc"}, Single(w), to) : to \in 1 .. w-1}

MCInstructions ==
    UNION {OfWidth(w) : w \in 1..4}
        \cup Ins({"bswap"}, Single(4), 4)
        \cup Ins({"bswap"}, Single(8), 8)
        \cup Ins({"bswap"}, Single(5), 5)
        \cup Ins({"extractelement"}, BVs(6) \X BVs(1), 2)
        \cup Ins({"extractelement"}, BVs(6) \X BVs(2), 2)
=============================================================================
