------------------------------ MODULE Emulator ------------------------------
(***************************************************************************)
(* vexa::cpu::emulator, the part that computes: which Bitwuzla term an     *)
(* LLVM instruction becomes (emulator.cpp) through the operators of        *)
(* vexa::value (value.cpp).  A path is decided by these terms, so they     *)
(* must agree with the LLVM instruction that is kept in the lifted code.   *)
(*                                                                         *)
(* One behaviour is one instruction with operand values.  Memory and calls *)
(* of remill intrinsics are in PagedMemory and PathExplorer.               *)
(***************************************************************************)
EXTENDS BitVectors, FiniteSets

CONSTANTS Instructions,  \* [op, args, to]: operands, width of the result type
          ByteBits       \* bits of a byte, 8 in the code

ASSUME ByteAssumption == ByteBits \in Nat \ {0}

VARIABLES ins,  \* the instruction
          res   \* NotRun, the value of the term, or Threw

vars == <<ins, res>>

NotRun == [w |-> 0, n |-> 0]

Threw == [w |-> 0, n |-> 1]

Init == ins \in Instructions /\ res = NotRun

\* uint8_t bit_width = src->size()
Narrow(w) == w % 256

-----------------------------------------------------------------------------
BinaryOps == {"add", "sub", "mul", "udiv", "urem", "sdiv", "srem",
              "and", "or", "xor", "shl", "lshr", "ashr"}

Binary(op, l, r) ==
    CASE op = "add" -> BvAdd(l, r)
      [] op = "sub" -> BvSub(l, r)
      [] op = "mul" -> BvMul(l, r)
      [] op = "udiv" -> BvUdiv(l, r)
      [] op = "urem" -> BvUrem(l, r)
      [] op = "sdiv" -> BvSdiv(l, r)
      [] op = "srem" -> BvSrem(l, r)
      [] op = "and" -> BvAnd(l, r)
      [] op = "or" -> BvOr(l, r)
      [] op = "xor" -> BvXor(l, r)
      [] op = "shl" -> BvShl(l, r)
      [] op = "lshr" -> BvShr(l, r)
      [] op = "ashr" -> BvAshr(l, r)

ICmpOps == {"eq", "ne", "ugt", "uge", "ult", "ule", "sgt", "sge", "slt", "sle"}

Compare(op, l, r) ==
    CASE op = "eq" -> l = r
      [] op = "ne" -> l # r
      [] op = "ugt" -> BvUlt(r, l)
      [] op = "uge" -> ~BvUlt(l, r)
      [] op = "ult" -> BvUlt(l, r)
      [] op = "ule" -> ~BvUlt(r, l)
      [] op = "sgt" -> BvSlt(r, l)
      [] op = "sge" -> ~BvSlt(l, r)
      [] op = "slt" -> BvSlt(l, r)
      [] op = "sle" -> ~BvSlt(r, l)

\* value::as_expr_bool
AsBool(c) == c = Bv(c.w, 1)

CastOps == {"zext", "sext", "trunc"}

\* mutant: one bit too many is extracted
MutCast(op, src, to) ==
    CASE op = "zext" -> BvZeroExtend(src, to - src.w)
      [] op = "sext" -> BvSignExtend(src, to - src.w)
      [] op = "trunc" -> BvExtract(src, to, 0)

Cast(op, src, to) ==
    CASE op = "zext" -> BvZeroExtend(src, to - src.w)
      [] op = "sext" -> BvSignExtend(src, to - src.w)
      [] op = "trunc" -> BvExtract(src, to - 1, 0)

-----------------------------------------------------------------------------
(* handle_llvm_intrinsics.  A loop that builds a term is a function from   *)
(* the number of rounds to the term.                                       *)

Ctpop(src, to) ==
    LET bit(i) == BvZeroExtend(BvExtract(src, i, i), Narrow(to) - 1)
        total[i \in 0..Narrow(src.w)-1] == IF i = 0 THEN bit(0) ELSE BvAdd(total[i-1], bit(i))
    IN total[Narrow(src.w) - 1]

\* the shift amount modulo the width, as wide as both operands together
ShiftWide(x, s) == BvZeroExtend(BvUrem(s, Bv(s.w, Narrow(x.w))), Narrow(x.w))

\* mutant: the shift amount is not reduced
MutFshl(x, y, s) ==
    BvExtract(BvShl(BvConcat(x, y), BvZeroExtend(s, Narrow(x.w))),
              2 * Narrow(x.w) - 1, Narrow(x.w))

Fshl(x, y, s) ==
    BvExtract(BvShl(BvConcat(x, y), ShiftWide(x, s)), 2 * Narrow(x.w) - 1, Narrow(x.w))

Fshr(x, y, s) ==
    BvExtract(BvShr(BvConcat(x, y), ShiftWide(x, s)), Narrow(x.w) - 1, 0)

Bswap(src) ==
    LET byte(i) == BvExtract(src, (i + 1) * ByteBits - 1, i * ByteBits)
        swapped[i \in 0 .. (src.w \div ByteBits) - 1] ==
            IF i = 0 THEN byte(0) ELSE BvConcat(swapped[i-1], byte(i))
    IN swapped[(src.w \div ByteBits) - 1]

\* the if-then-else chains: the bit that is tested last wins
Cttz(src, to) ==
    LET chain[i \in 0..src.w] ==
            IF i = src.w THEN Bv(Narrow(to), src.w)
            ELSE IF BitAt(src, i) = 1 THEN Bv(Narrow(to), i) ELSE chain[i+1]
    IN chain[0]

Ctlz(src, to) ==
    LET chain[i \in 0..src.w] ==
            IF i = 0 THEN Bv(Narrow(to), src.w)
            ELSE IF BitAt(src, i - 1) = 1 THEN Bv(Narrow(to), src.w - i) ELSE chain[i-1]
    IN chain[src.w]

Umax(a, b) == IF ~BvUlt(a, b) THEN a ELSE b

UsubSat(a, b, to) == IF BvUlt(a, b) THEN Bv(Narrow(to), 0) ELSE BvSub(a, b)

Abs(x) == IF BvSlt(x, Bv(x.w, 0)) THEN BvSub(Bv(x.w, 0), x) ELSE x

IntrinsicOps == {"ctpop", "fshl", "fshr", "bswap", "cttz", "ctlz", "umax", "usub_sat", "abs"}

Intrinsic(op, a, to) ==
    CASE op = "ctpop" -> Ctpop(a[1], to)
      [] op = "fshl" -> Fshl(a[1], a[2], a[3])
      [] op = "fshr" -> Fshr(a[1], a[2], a[3])
      [] op = "bswap" -> Bswap(a[1])
      [] op = "cttz" -> Cttz(a[1], to)
      [] op = "ctlz" -> Ctlz(a[1], to)
      [] op = "umax" -> Umax(a[1], a[2])
      [] op = "usub_sat" -> UsubSat(a[1], a[2], to)
      [] op = "abs" -> Abs(a[1])

\* the assertions of the intrinsics
Supported(op, a, to) ==
    /\ op = "bswap" => a[1].w % ByteBits = 0
    /\ op \in {"ctpop", "cttz", "ctlz"} => Narrow(to) # 0
    /\ op \in {"fshl", "fshr", "bswap"} => Narrow(to) = a[1].w
    /\ op \in {"umax", "usub_sat"} => Narrow(a[1].w) = a[2].w /\ Narrow(to) = Narrow(a[1].w)
    /\ op = "abs" => to = a[1].w

-----------------------------------------------------------------------------
Element(vector, i, to) == BvExtract(vector, i * to + to - 1, i * to)

\* the chain over the elements that the index can name, on top of an
\* unconstrained term for an index that names none
ElementChain(vector, index, to, poison) ==
    LET count == vector.w \div to
        named == {i \in 0..count-1 : i < 2^index.w}
        chain[i \in 0..Cardinality(named)] ==
            IF i = 0 THEN poison
            ELSE IF index.n = i - 1 THEN Element(vector, i - 1, to) ELSE chain[i-1]
    IN chain[Cardinality(named)]

Ready(ops) == res = NotRun /\ ins.op \in ops /\ UNCHANGED ins

VisitBinaryOperator == Ready(BinaryOps) /\ res' = Binary(ins.op, ins.args[1], ins.args[2])

VisitICmpInst ==
    /\ Ready(ICmpOps)
    /\ res' = Bv(1, IF Compare(ins.op, ins.args[1], ins.args[2]) THEN 1 ELSE 0)

VisitSelectInst ==
    /\ Ready({"select"})
    /\ res' = IF AsBool(ins.args[1]) THEN ins.args[2] ELSE ins.args[3]

VisitFreezeInst == Ready({"freeze"}) /\ res' = ins.args[1]

VisitCast == Ready(CastOps) /\ res' = Cast(ins.op, ins.args[1], ins.to)

HandleLlvmIntrinsics ==
    /\ Ready(IntrinsicOps)
    /\ res' = IF Supported(ins.op, ins.args, ins.to)
              THEN Intrinsic(ins.op, ins.args, ins.to) ELSE Threw

\* with a concrete index; one that names no element fails the assertion
VisitExtractElementConcrete ==
    /\ Ready({"extractelement"})
    /\ LET index == ins.args[2].n
       IN res' = IF index < ins.args[1].w \div ins.to
                 THEN Element(ins.args[1], index, ins.to) ELSE Threw

VisitExtractElementSymbolic ==
    /\ Ready({"extractelement"})
    /\ \E poison \in BVs(ins.to) :
          res' = ElementChain(ins.args[1], ins.args[2], ins.to, poison)

\* visitInstruction, and the default of every switch
VisitInstruction == Ready({"unsupported"}) /\ res' = Threw

Next ==
    \/ VisitBinaryOperator \/ VisitICmpInst \/ VisitSelectInst \/ VisitFreezeInst
    \/ VisitCast \/ HandleLlvmIntrinsics \/ VisitInstruction
    \/ VisitExtractElementConcrete \/ VisitExtractElementSymbolic

Spec == Init /\ [][Next]_vars

-----------------------------------------------------------------------------
(* What LLVM says of the instructions, in terms of integers and bits.      *)

Signed(a) == IF a.n >= 2^(a.w - 1) THEN a.n - 2^a.w ELSE a.n

AbsInt(k) == IF k < 0 THEN -k ELSE k

\* quotient rounded towards zero
Quotient(i, j) ==
    LET q == AbsInt(i) \div AbsInt(j) IN IF (i < 0) # (j < 0) THEN -q ELSE q

\* positions of the bits that are set
Ones(a) == {i \in 0..a.w-1 : BitAt(a, i) = 1}

OfOnes(w, S) == CHOOSE a \in BVs(w) : Ones(a) = S

\* x above y, shifted to the left by s bits: the bits of the upper half
Funnel(x, y, s) ==
    OfOnes(x.w, {i \in 0..x.w-1 : IF i >= s THEN i - s \in Ones(x) ELSE x.w + i - s \in Ones(y)})

\* where bit i goes when the bytes of a word of w bits change places
Mirror(w, i) == w - ((i \div ByteBits) + 1) * ByteBits + (i % ByteBits)

Least(S) == CHOOSE k \in S : \A i \in S : k <= i

\* neither undefined behaviour nor poison
Defined ==
    LET a == ins.args
    IN /\ ins.op # "unsupported"
       /\ ins.op \in {"udiv", "urem", "sdiv", "srem"} => a[2].n # 0
       /\ ins.op \in {"sdiv", "srem"} => ~(Signed(a[1]) = -(2^(a[1].w - 1)) /\ Signed(a[2]) = -1)
       /\ ins.op \in {"shl", "lshr", "ashr"} => a[2].n < a[1].w
       /\ ins.op = "bswap" => a[1].w % (2 * ByteBits) = 0
       /\ ins.op = "extractelement" => a[2].n < a[1].w \div ins.to

TruthOf(P) == Bv(1, IF P THEN 1 ELSE 0)

Meaning ==
    LET a == ins.args
        x == a[1]
        y == a[2]
        int(k) == Bv(ins.to, k)
    IN CASE ins.op = "add" -> int(x.n + y.n)
         [] ins.op = "sub" -> int(x.n - y.n)
         [] ins.op = "mul" -> int(Signed(x) * Signed(y))
         [] ins.op = "udiv" -> int(x.n \div y.n)
         [] ins.op = "urem" -> int(x.n % y.n)
         [] ins.op = "sdiv" -> int(Quotient(Signed(x), Signed(y)))
         [] ins.op = "srem" -> int(Signed(x) - Signed(y) * Quotient(Signed(x), Signed(y)))
         [] ins.op = "and" -> OfOnes(ins.to, Ones(x) \cap Ones(y))
         [] ins.op = "or" -> OfOnes(ins.to, Ones(x) \cup Ones(y))
         [] ins.op = "xor" -> OfOnes(ins.to, (Ones(x) \ Ones(y)) \cup (Ones(y) \ Ones(x)))
         [] ins.op = "shl" -> int(x.n * 2^y.n)
         [] ins.op = "lshr" -> int(x.n \div 2^y.n)
         [] ins.op = "ashr" -> int(Signed(x) \div 2^y.n)
         [] ins.op = "eq" -> TruthOf(x.n = y.n)
         [] ins.op = "ne" -> TruthOf(x.n # y.n)
         [] ins.op = "ugt" -> TruthOf(x.n > y.n)
         [] ins.op = "uge" -> TruthOf(x.n >= y.n)
         [] ins.op = "ult" -> TruthOf(x.n < y.n)
         [] ins.op = "ule" -> TruthOf(x.n <= y.n)
         [] ins.op = "sgt" -> TruthOf(Signed(x) > Signed(y))
         [] ins.op = "sge" -> TruthOf(Signed(x) >= Signed(y))
         [] ins.op = "slt" -> TruthOf(Signed(x) < Signed(y))
         [] ins.op = "sle" -> TruthOf(Signed(x) <= Signed(y))
         [] ins.op = "select" -> IF x.n = 1 THEN y ELSE a[3]
         [] ins.op = "freeze" -> x
         [] ins.op \in {"zext", "trunc"} -> int(x.n)
         [] ins.op = "sext" -> int(Signed(x))
         [] ins.op = "ctpop" -> int(Cardinality(Ones(x)))
         [] ins.op = "fshl" -> Funnel(x, y, a[3].n % x.w)
         [] ins.op = "fshr" -> IF a[3].n % x.w = 0 THEN y ELSE Funnel(x, y, x.w - (a[3].n % x.w))
         [] ins.op = "bswap" -> OfOnes(x.w, {Mirror(x.w, i) : i \in Ones(x)})
         [] ins.op = "cttz" -> int(Least(Ones(x) \cup {x.w}))
         [] ins.op = "ctlz" -> int(Least({x.w - 1 - i : i \in Ones(x)} \cup {x.w}))
         [] ins.op = "umax" -> int(IF x.n > y.n THEN x.n ELSE y.n)
         [] ins.op = "usub_sat" -> int(IF x.n > y.n THEN x.n - y.n ELSE 0)
         [] ins.op = "abs" -> int(AbsInt(Signed(x)))
         [] ins.op = "extractelement" -> int(x.n \div 2^(y.n * ins.to))

(* A term has the width of the LLVM type it stands for, whatever extracts,  *)
(* extensions and concatenations it is made of (the assertions on           *)
(* src->size() and bv_size() in emulator.cpp).                              *)
TypeOK == res \in {NotRun, Threw} \cup BVs(ins.to)

(* Where LLVM defines a result, the term has that value and is built        *)
(* without an exception: shifts by zero and by more than the width, the     *)
(* most negative number, empty and full words and every vector index        *)
(* included (emulator visitors).                                            *)
EmulatesLLVM == res # NotRun /\ Defined => res = Meaning
=============================================================================
