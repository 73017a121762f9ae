----------------------------- MODULE BitVectors -----------------------------
(***************************************************************************)
(* The terms that the operators of vexa::value (value.cpp) build, by their *)
(* values: a width and a natural number below 2^width.  An operator of     *)
(* vexa::value only picks a Bitwuzla kind; what the kind means is the      *)
(* SMT-LIB theory of fixed-size bit vectors, which is external to src/.    *)
(***************************************************************************)
EXTENDS Integers

BVs(w) == [w : {w}, n : 0 .. 2^w - 1]

Bv(w, n) == [w |-> w, n |-> n % 2^w]

BitAt(a, i) == (a.n \div 2^i) % 2

\* the bit vector whose i-th bit is bit[i]
OfBits(w, bit) ==
    LET upTo[i \in 0..w] == IF i = 0 THEN 0 ELSE upTo[i-1] + bit[i-1] * 2^(i-1)
    IN Bv(w, upTo[w])

Negative(a) == BitAt(a, a.w - 1) = 1

BvNot(a) == Bv(a.w, 2^a.w - 1 - a.n)
BvNeg(a) == Bv(a.w, 2^a.w - a.n)
BvAdd(a, b) == Bv(a.w, a.n + b.n)
BvSub(a, b) == BvAdd(a, BvNeg(b))
BvMul(a, b) == Bv(a.w, a.n * b.n)
BvUdiv(a, b) == IF b.n = 0 THEN Bv(a.w, 2^a.w - 1) ELSE Bv(a.w, a.n \div b.n)
BvUrem(a, b) == IF b.n = 0 THEN a ELSE Bv(a.w, a.n % b.n)

Magnitude(a) == IF Negative(a) THEN BvNeg(a) ELSE a

BvSdiv(a, b) ==
    LET q == BvUdiv(Magnitude(a), Magnitude(b))
    IN IF Negative(a) # Negative(b) THEN BvNeg(q) ELSE q
BvSrem(a, b) ==
    LET r == BvUrem(Magnitude(a), Magnitude(b))
    IN IF Negative(a) THEN BvNeg(r) ELSE r

BvAnd(a, b) == OfBits(a.w, [i \in 0..a.w-1 |-> BitAt(a, i) * BitAt(b, i)])
BvXor(a, b) == OfBits(a.w, [i \in 0..a.w-1 |-> (BitAt(a, i) + BitAt(b, i)) % 2])
BvOr(a, b) == BvNot(BvAnd(BvNot(a), BvNot(b)))

BvShl(a, b) == IF b.n >= a.w THEN Bv(a.w, 0) ELSE Bv(a.w, a.n * 2^b.n)
BvShr(a, b) == IF b.n >= a.w THEN Bv(a.w, 0) ELSE Bv(a.w, a.n \div 2^b.n)
BvAshr(a, b) == IF Negative(a) THEN BvNot(BvShr(BvNot(a), b)) ELSE BvShr(a, b)

\* comparisons are Boolean terms
BvUlt(a, b) == a.n < b.n
BvSlt(a, b) == IF Negative(a) # Negative(b) THEN Negative(a) ELSE a.n < b.n

BvConcat(a, b) == Bv(a.w + b.w, a.n * 2^b.w + b.n)
BvExtract(a, high, low) == Bv(high - low + 1, a.n \div 2^low)
BvZeroExtend(a, k) == Bv(a.w + k, a.n)
BvSignExtend(a, k) == Bv(a.w + k, IF Negative(a) THEN a.n + 2^(a.w + k) - 2^a.w ELSE a.n)
=============================================================================
