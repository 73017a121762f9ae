----------------------- MODULE ReplacedValues_proofs -----------------------
(***************************************************************************)
(* Proofs about ConstantPropagation: what the pass puts in place of a load *)
(* or of a pure instruction is what it computes, on every path, from every *)
(* input, no instruction that can be folded is left, and every load gets   *)
(* the verdict that its definition gives it, in whatever order the walk    *)
(* asks, for every function.                                               *)
(***************************************************************************)
EXTENDS ConstantPropagation_proofs

-----------------------------------------------------------------------------
(* The function and the analyses LLVM gives of it *)

\* The access in force ahead of a position.
InForce(p) == AccessBefore(func)[p]

\* What the analyses say, as far as it is needed here.
LEMMA Analysed ==
    ASSUME Given
    PROVE  /\ \A p \in Code : mssa.access[p] = InForce(p)
           /\ \A p \in Code : mssa.operands[p] = Operands(func, p)
           /\ \A p \in Code : DOMAIN mssa.operands[p] = DOMAIN Ins(p).args
<1>1. mssa.access = DefiningAccess(func)
      /\ mssa.operands = [p \in InstructionsOf(func) |-> Operands(func, p)]
  BY DEF Given, Analyses
<1>2. \A p \in Code : mssa.access[p] = InForce(p)
  BY <1>1 DEF DefiningAccess, Code, InForce
<1>3. \A p \in Code : mssa.operands[p] = Operands(func, p)
  BY <1>1 DEF Code
<1>4. \A p : DOMAIN Operands(func, p) = DOMAIN At(func, p).args
  BY DEF Operands
<1> QED
  BY <1>2, <1>3, <1>4 DEF Ins

\* The promises of MemorySSA.
LEMMA MemorySSA ==
    ASSUME Given
    PROVE  /\ InForce(<<1, 1>>) \in {LiveOnEntry, Phi(1)}
           /\ \A p \in Code : InForce(<<p[1], p[2] + 1>>) = IF IsWrite(func, p) THEN p ELSE InForce(p)
           /\ \A a \in Blocks : \A k \in DOMAIN func.succ[a] :
                  InForce(<<func.succ[a][k], 1>>) \in {Phi(func.succ[a][k]), InForce(<<a, Size(a) + 1>>)}
<1>1. MemorySSAHolds(func)
  BY WellFormed DEF Given
<1> QED
  BY <1>1 DEF MemorySSAHolds, InForce, Code, Blocks, BlocksOf, Size

\* The promises of SSA form.
LEMMA SSAForm ==
    ASSUME Given
    PROVE  /\ \A p \in Code : \A n \in DOMAIN mssa.operands[p] :
                  LET o == mssa.operands[p][n]
                  IN \/ o = Constant
                     \/ /\ o \in Code /\ ComputesValue(func, o)
                        /\ \/ o[1] = p[1] /\ o[2] < p[2]
                           \/ o[1] < p[1] /\ Dominates(func, o[1], p[1])
           /\ \A a, d \in Blocks : \A k \in DOMAIN func.succ[a] :
                  d # func.succ[a][k] /\ Dominates(func, d, func.succ[a][k]) => Dominates(func, d, a)
           /\ \A d \in Blocks : d # 1 => ~Dominates(func, d, 1)
<1>1. SSAHolds(func)
  BY WellFormed DEF Given
<1> QED
  BY <1>1, Analysed DEF SSAHolds, Code, Blocks, BlocksOf

\* Blocks were lifted in the order of their numbers.
LEMMA LiftingOrder ==
    ASSUME Given, NEW b \in Blocks, b # 1
    PROVE  /\ LiftedFrom(func, b) \in Blocks /\ LiftedFrom(func, b) < b
           /\ \E k \in DOMAIN func.succ[LiftedFrom(func, b)] : func.succ[LiftedFrom(func, b)][k] = b
<1>1. LiftedFrom(func, b) \in Predecessors(func, b) /\ LiftedFrom(func, b) < b
  BY WellFormed DEF Given, InLiftingOrder, Blocks, BlocksOf
<1> QED
  BY <1>1 DEF Predecessors, BlocksOf, Blocks

\* A store has the one operand it writes.
LEMMA StoreOperand ==
    ASSUME Given, NEW p \in Code, Ins(p).kind = "store"
    PROVE  1 \in DOMAIN mssa.operands[p]
<1>1. Len(Ins(p).args) = 1
  BY WellFormed DEF Given, Code, Ins
<1>2. Ins(p).args \in Seq(Nat)
  BY Pairs DEF Instructions
<1>3. DOMAIN Ins(p).args = 1 .. 1
  BY <1>1, <1>2
<1> QED
  BY <1>3, Analysed

-----------------------------------------------------------------------------
(* Recursion over the function: every position has a number, larger than    *)
(* those of the positions it depends on.                                    *)

Earlier(x, y) == x[1] < y[1] \/ (x[1] = y[1] /\ x[2] < y[2])

Numbers(r, N) ==
    /\ r \in [Positions(func) -> Nat]
    /\ N \in Nat
    /\ \A x \in Positions(func) : r[x] < N
    /\ \A x, y \in Positions(func) : Earlier(x, y) => r[x] < r[y]

\* e[b] positions are in the blocks up to b
Ends(e, n) == e \in [0 .. n -> Nat] /\ \A k \in 1 .. n : e[k] = e[k - 1] + (Size(k) + 1)

\* The positions can be counted block by block.
LEMMA EndsExist ==
    ASSUME Given, NEW B \in Nat, Blocks = 1 .. B
    PROVE  \E e : Ends(e, B)
<1> DEFINE S == {n \in Nat : n <= B => \E e : Ends(e, n)}
<1>1. 0 \in S
  <2>1. [k \in 0 .. 0 |-> 0] \in [0 .. 0 -> Nat] /\ \A k \in 1 .. 0 : FALSE
    OBVIOUS
  <2>2. Ends([k \in 0 .. 0 |-> 0], 0)
    BY <2>1 DEF Ends
  <2> QED
    BY <2>2
<1>2. ASSUME NEW n \in Nat, n \in S PROVE n + 1 \in S
  <2> SUFFICES ASSUME n + 1 <= B PROVE \E e : Ends(e, n + 1)
    OBVIOUS
  <2>1. PICK e : Ends(e, n)
    BY <1>2
  <2>2. n + 1 \in Blocks /\ Size(n + 1) \in Nat
    BY Shape
  <2>3. PICK d : d = [k \in 0 .. n + 1 |-> IF k <= n THEN e[k] ELSE e[n] + (Size(n + 1) + 1)]
    OBVIOUS
  <2>4. e \in [0 .. n -> Nat] /\ \A k \in 1 .. n : e[k] = e[k - 1] + (Size(k) + 1)
    BY <2>1 DEF Ends
  <2>5. d \in [0 .. n + 1 -> Nat]
    <3>1. \A k \in 0 .. n + 1 : k <= n => k \in 0 .. n
      OBVIOUS
    <3>2. e[n] \in Nat /\ e[n] + (Size(n + 1) + 1) \in Nat
      BY <2>2, <2>4
    <3> QED
      BY <2>3, <2>4, <3>1, <3>2
  <2>6. ASSUME NEW k \in 1 .. n + 1 PROVE d[k] = d[k - 1] + (Size(k) + 1)
    <3>1. CASE k <= n
      <4>1. k \in 1 .. n /\ k \in 0 .. n + 1 /\ k - 1 \in 0 .. n + 1 /\ k - 1 <= n
        BY <3>1
      <4>2. d[k] = e[k] /\ d[k - 1] = e[k - 1]
        BY <2>3, <3>1, <4>1
      <4> QED
        BY <2>4, <4>1, <4>2
    <3>2. CASE ~(k <= n)
      <4>1. k = n + 1 /\ k - 1 = n
        BY <3>2
      <4>2. n \in 0 .. n + 1 /\ n + 1 \in 0 .. n + 1 /\ n <= n /\ ~(n + 1 <= n)
        OBVIOUS
      <4>3. d[n] = e[n] /\ d[n + 1] = e[n] + (Size(n + 1) + 1)
        BY <2>3, <4>2
      <4> QED
        BY <4>1, <4>3
    <3> QED
      BY <3>1, <3>2
  <2> QED
    BY <2>5, <2>6 DEF Ends
<1>3. B \in S
  <2> HIDE DEF S
  <2> QED
    BY <1>1, <1>2, AllNumbers
<1> QED
  BY <1>3

\* Such counts grow.
LEMMA EndsGrow ==
    ASSUME Given, NEW B \in Nat, Blocks = 1 .. B, NEW e, Ends(e, B)
    PROVE  \A k \in 0 .. B : \A j \in 0 .. k : e[j] <= e[k]
<1> DEFINE S == {n \in Nat : n <= B => \A j \in 0 .. n : e[j] <= e[n]}
<1>0. e \in [0 .. B -> Nat] /\ \A k \in 1 .. B : e[k] = e[k - 1] + (Size(k) + 1)
  BY DEF Ends
<1>1. 0 \in S
  <2>1. \A j \in 0 .. 0 : j = 0
    OBVIOUS
  <2>2. e[0] \in Nat
    BY <1>0
  <2> QED
    BY <2>1, <2>2
<1>2. ASSUME NEW n \in Nat, n \in S PROVE n + 1 \in S
  <2> SUFFICES ASSUME n + 1 <= B, NEW j \in 0 .. n + 1 PROVE e[j] <= e[n + 1]
    OBVIOUS
  <2>1. n + 1 \in 1 .. B /\ (n + 1) - 1 = n /\ n \in 0 .. B /\ n + 1 \in 0 .. B /\ n <= B
    OBVIOUS
  <2>2. e[n + 1] = e[n] + (Size(n + 1) + 1) /\ Size(n + 1) \in Nat
    BY <1>0, <2>1, Shape
  <2>3. e[n] \in Nat /\ e[n + 1] \in Nat /\ e[n] <= e[n + 1]
    BY <1>0, <2>1, <2>2
  <2>4. CASE j = n + 1
    BY <2>3, <2>4
  <2>5. CASE j # n + 1
    <3>1. j \in 0 .. n /\ j \in 0 .. B
      BY <2>1, <2>5
    <3>2. e[j] <= e[n] /\ e[j] \in Nat
      BY <1>0, <1>2, <2>1, <3>1
    <3> QED
      BY <2>3, <3>2
  <2> QED
    BY <2>4, <2>5
<1>3. \A n \in Nat : n \in S
  <2> HIDE DEF S
  <2> QED
    BY <1>1, <1>2, AllNumbers
<1> QED
  BY <1>3

\* So the positions can be numbered.
LEMMA NumbersExist ==
    ASSUME Given
    PROVE  \E r, N : Numbers(r, N)
<1>1. PICK B \in Nat : Blocks = 1 .. B
  BY Shape
<1>2. PICK e : Ends(e, B)
  BY <1>1, EndsExist
<1>3. \A k \in 0 .. B : \A j \in 0 .. k : e[j] <= e[k]
  BY <1>1, <1>2, EndsGrow
<1>4. e \in [0 .. B -> Nat] /\ \A k \in 1 .. B : e[k] = e[k - 1] + (Size(k) + 1)
  BY <1>2 DEF Ends
<1>5. PICK r : r = [x \in Positions(func) |-> e[x[1] - 1] + x[2]]
  OBVIOUS
<1>6. ASSUME NEW x \in Positions(func)
      PROVE  /\ r[x] \in Nat /\ r[x] < e[x[1]] /\ r[x] >= e[x[1] - 1]
             /\ x[1] \in 1 .. B /\ x[2] \in Nat
             /\ x[1] \in Nat /\ e[x[1]] \in Nat /\ e[x[1] - 1] \in Nat
             /\ r[x] = e[x[1] - 1] + x[2]
  <2>1. x[1] \in 1 .. B /\ x[2] \in 0 .. Size(x[1]) /\ Size(x[1]) \in Nat
    BY <1>1, Pairs, Shape
  <2>2. x[1] - 1 \in 0 .. B /\ x[1] \in 0 .. B
    BY <2>1
  <2>3. e[x[1] - 1] \in Nat /\ e[x[1]] \in Nat
    BY <1>4, <2>2
  <2>4. e[x[1]] = e[x[1] - 1] + (Size(x[1]) + 1)
    BY <1>4, <2>1
  <2>5. r[x] = e[x[1] - 1] + x[2]
    BY <1>5
  <2> QED
    BY <2>1, <2>3, <2>4, <2>5
<1>7. ASSUME NEW x \in Positions(func) PROVE r[x] < e[B]
  <2>1. x[1] \in 0 .. B /\ B \in 0 .. B
    BY <1>6
  <2>2. e[x[1]] <= e[B] /\ e[B] \in Nat
    BY <1>3, <1>4, <2>1
  <2> QED
    BY <1>6, <2>2
<1>8. ASSUME NEW x \in Positions(func), NEW y \in Positions(func), Earlier(x, y)
      PROVE  r[x] < r[y]
  <2>1. CASE x[1] = y[1] /\ x[2] < y[2]
    <3>1. r[x] = e[y[1] - 1] + x[2] /\ r[y] = e[y[1] - 1] + y[2]
      BY <1>6, <2>1
    <3> QED
      BY <1>6, <2>1, <3>1
  <2>2. CASE x[1] < y[1]
    <3>1. x[1] \in 0 .. y[1] - 1 /\ y[1] - 1 \in 0 .. B
      BY <1>6, <2>2
    <3>2. e[x[1]] <= e[y[1] - 1]
      BY <1>3, <3>1
    <3> QED
      BY <1>6, <3>2
  <2> QED
    BY <1>8, <2>1, <2>2 DEF Earlier
<1>9. e[B] \in Nat
  BY <1>4
<1>10. r \in [Positions(func) -> Nat]
  BY <1>5, <1>6
<1> QED
  BY <1>7, <1>8, <1>9, <1>10 DEF Numbers

-----------------------------------------------------------------------------
(* What symex saw, as an equation *)

\* Induction over the positions of the function.
LEMMA AllPositions ==
    ASSUME Given, NEW S,
           \A p \in Positions(func) :
               (\A q \in Positions(func) : Earlier(q, p) => q \in S) => p \in S
    PROVE  \A p \in Positions(func) : p \in S
<1> DEFINE Bad == {p \in Positions(func) : p \notin S}
<1> SUFFICES ASSUME Bad # {} PROVE FALSE
  OBVIOUS
<1>1. PICK r, N : Numbers(r, N)
  BY NumbersExist
<1>2. r \in [Positions(func) -> Nat]
      /\ \A x, y \in Positions(func) : Earlier(x, y) => r[x] < r[y]
  BY <1>1 DEF Numbers
<1> DEFINE T == {r[p] : p \in Bad}
<1>3. T \in SUBSET Nat /\ T # {}
  BY <1>2
<1>4. PICK t \in T : \A y \in T : t <= y
  BY <1>3, LeastNumber
<1>5. PICK p \in Bad : t = r[p]
  BY <1>4
<1>6. ASSUME NEW q \in Positions(func), Earlier(q, p) PROVE q \in S
  <2> SUFFICES ASSUME q \in Bad PROVE FALSE
    OBVIOUS
  <2>1. r[q] < r[p] /\ r[q] \in Nat /\ r[p] \in Nat
    BY <1>2, <1>6
  <2>2. r[p] <= r[q]
    BY <1>4, <1>5
  <2> QED
    BY <2>1, <2>2
<1> QED
  BY <1>6

End(b) == <<b, Size(b)>>

\* the operands of p, when g gives their values
ArgsIn(g, p) ==
    [n \in DOMAIN mssa.operands[p] |->
        IF mssa.operands[p][n] = Constant THEN One ELSE g[mssa.operands[p][n]].val]

\* the body of Lifted, when the bytes K are known and the registers w are solved
LiftBody(g, p, K, w) ==
    IF p[2] = 0
    THEN [mem |-> Solved(IF p[1] = 1 THEN FirstMemory(K) ELSE g[End(LiftedFrom(func, p[1]))].mem, w[p[1]]),
          val |-> Symbolic]
    ELSE [mem |-> MemoryAfter(func, p, g[<<p[1], p[2] - 1>>].mem, ArgsIn(g, p)),
          val |-> ValueAt(func, p, g[<<p[1], p[2] - 1>>].mem, ArgsIn(g, p),
                          IF p[1] = 1 THEN 0 ELSE LiftedFrom(func, p[1]))]

\* A position is an instruction unless it is the start of a block.
LEMMA Starts ==
    ASSUME Given, NEW p \in Positions(func), p[2] # 0
    PROVE  p \in Code /\ <<p[1], p[2] - 1>> \in Positions(func) /\ Earlier(<<p[1], p[2] - 1>>, p)
<1>1. p = <<p[1], p[2]>> /\ p[1] \in Blocks /\ p[2] \in 0 .. Size(p[1]) /\ Size(p[1]) \in Nat
  BY Pairs, Shape
<1>2. p[2] \in 1 .. Size(p[1]) /\ p[2] - 1 \in 0 .. Size(p[1]) /\ p[2] - 1 < p[2]
  BY <1>1
<1>3. p \in Code /\ <<p[1], p[2] - 1>> \in Positions(func)
  BY <1>1, <1>2, Pairs
<1> QED
  BY <1>2, <1>3 DEF Earlier

\* Operands come earlier.
LEMMA OperandsEarlier ==
    ASSUME Given, NEW p \in Code, NEW n \in DOMAIN mssa.operands[p], mssa.operands[p][n] # Constant
    PROVE  mssa.operands[p][n] \in Code /\ Earlier(mssa.operands[p][n], p)
<1> QED
  BY SSAForm DEF Earlier

\* So does the end of the block from which a block was reached.
LEMMA EndEarlier ==
    ASSUME Given, NEW p \in Positions(func), p[1] # 1
    PROVE  /\ End(LiftedFrom(func, p[1])) \in Positions(func)
           /\ Earlier(End(LiftedFrom(func, p[1])), p)
<1>1. p[1] \in Blocks
  BY Pairs
<1>2. PICK a : a = LiftedFrom(func, p[1])
  OBVIOUS
<1>3. a \in Blocks /\ a < p[1]
  BY <1>1, <1>2, LiftingOrder
<1>4. Size(a) \in 0 .. Size(a)
  BY <1>3, Shape
<1> QED
  BY <1>2, <1>3, <1>4, Pairs DEF End, Earlier

\* The body looks at earlier positions only.
LEMMA BodyLocal ==
    ASSUME Given, NEW K, NEW w, NEW p \in Positions(func), NEW g, NEW h,
           \A q \in Positions(func) : Earlier(q, p) => g[q] = h[q]
    PROVE  LiftBody(g, p, K, w) = LiftBody(h, p, K, w)
<1>1. CASE p[2] = 0
  <2>1. p[1] # 1 => g[End(LiftedFrom(func, p[1]))] = h[End(LiftedFrom(func, p[1]))]
    BY EndEarlier
  <2> QED
    BY <1>1, <2>1 DEF LiftBody
<1>2. CASE p[2] # 0
  <2>1. p \in Code /\ g[<<p[1], p[2] - 1>>] = h[<<p[1], p[2] - 1>>]
    BY <1>2, Starts
  <2>2. \A n \in DOMAIN mssa.operands[p] :
            mssa.operands[p][n] # Constant => g[mssa.operands[p][n]] = h[mssa.operands[p][n]]
    BY <2>1, OperandsEarlier, Pairs
  <2>3. ArgsIn(g, p) = ArgsIn(h, p)
    BY <2>2 DEF ArgsIn
  <2> QED
    BY <1>2, <2>1, <2>3 DEF LiftBody
<1> QED
  BY <1>1, <1>2

SolvesBody(g, K, w) == g = [p \in Positions(func) |-> LiftBody(g, p, K, w)]

\* So the recursion has a solution.
LEMMA BodySolved ==
    ASSUME Given, NEW K, NEW w
    PROVE  \E g : SolvesBody(g, K, w)
<1>1. PICK r, N : Numbers(r, N)
  BY NumbersExist
<1>2. r \in [Positions(func) -> Nat] /\ N \in Nat
      /\ (\A x \in Positions(func) : r[x] < N)
      /\ \A x, y \in Positions(func) : Earlier(x, y) => r[x] < r[y]
  BY <1>1 DEF Numbers
<1> DEFINE Before(n) == {p \in Positions(func) : r[p] < n}
<1> DEFINE S == {n \in Nat : \E g : g = [p \in Before(n) |-> LiftBody(g, p, K, w)]}
<1>3. 0 \in S
  <2>1. Before(0) = {}
    BY <1>2
  <2>2. PICK g : g = [p \in {} |-> 0]
    OBVIOUS
  <2>3. g = [p \in Before(0) |-> LiftBody(g, p, K, w)]
    BY <2>1, <2>2
  <2> QED
    BY <2>3
<1>4. ASSUME NEW n \in Nat, n \in S PROVE n + 1 \in S
  <2>1. PICK g : g = [p \in Before(n) |-> LiftBody(g, p, K, w)]
    BY <1>4
  <2>2. PICK h : h = [p \in Before(n + 1) |-> LiftBody(g, p, K, w)]
    OBVIOUS
  <2>3. ASSUME NEW p \in Before(n + 1) PROVE LiftBody(g, p, K, w) = LiftBody(h, p, K, w)
    <3>1. ASSUME NEW q \in Positions(func), Earlier(q, p) PROVE g[q] = h[q]
      <4>1. r[q] < r[p] /\ r[q] \in Nat /\ r[p] \in Nat /\ r[p] < n + 1
        BY <1>2, <3>1
      <4>2. r[q] < n /\ r[q] < n + 1
        BY <4>1
      <4>3. q \in Before(n) /\ q \in Before(n + 1)
        BY <4>2
      <4>4. g[q] = LiftBody(g, q, K, w)
        <5> HIDE DEF Before
        <5> QED
          BY <2>1, <4>3
      <4>5. h[q] = LiftBody(g, q, K, w)
        <5> HIDE DEF Before
        <5> QED
          BY <2>2, <4>3
      <4> QED
        BY <4>4, <4>5
    <3>2. p \in Positions(func)
      OBVIOUS
    <3> HIDE DEF Before
    <3> QED
      BY <3>1, <3>2, BodyLocal
  <2>4. h = [p \in Before(n + 1) |-> LiftBody(h, p, K, w)]
    <3> HIDE DEF Before
    <3> QED
      BY <2>2, <2>3
  <2> QED
    BY <2>4
<1>5. N \in S
  <2> HIDE DEF S
  <2> QED
    BY <1>2, <1>3, <1>4, AllNumbers
<1>6. Before(N) = Positions(func)
  BY <1>2
<1>7. PICK g : g = [p \in Before(N) |-> LiftBody(g, p, K, w)]
  BY <1>5
<1>8. g = [p \in Positions(func) |-> LiftBody(g, p, K, w)]
  <2> HIDE DEF Before
  <2> QED
    BY <1>6, <1>7
<1> QED
  BY <1>8 DEF SolvesBody

\* Lifted, unfolded once
UnfoldedBody(g, operands, p, K, w) ==
    IF p[2] = 0
    THEN LET before == IF p[1] = 1 THEN FirstMemory(K)
                       ELSE g[<<LiftedFrom(func, p[1]), Len(func.code[LiftedFrom(func, p[1])])>>].mem
         IN [mem |-> Solved(before, w[p[1]]), val |-> Symbolic]
    ELSE LET before == g[<<p[1], p[2] - 1>>].mem
             args == [n \in DOMAIN operands[p] |->
                         IF operands[p][n] = Constant THEN One ELSE g[operands[p][n]].val]
         IN [mem |-> MemoryAfter(func, p, before, args),
             val |-> ValueAt(func, p, before, args, IF p[1] = 1 THEN 0 ELSE LiftedFrom(func, p[1]))]

Unfolded(g, K, w) ==
    LET operands == [p \in InstructionsOf(func) |-> Operands(func, p)]
    IN [p \in Positions(func) |-> UnfoldedBody(g, operands, p, K, w)]

\* Lifting obeys the equation.
LEMMA LiftedEquation ==
    ASSUME Given, NEW K, NEW w, NEW p \in Positions(func)
    PROVE  Lifted(func, K, w)[p] = LiftBody(Lifted(func, K, w), p, K, w)
<1>1. Lifted(func, K, w) = CHOOSE g : g = Unfolded(g, K, w)
  BY DEF Lifted, Unfolded, UnfoldedBody
<1>2. mssa.operands = [q \in InstructionsOf(func) |-> Operands(func, q)]
  BY DEF Given, Analyses
<1>3. ASSUME NEW g PROVE Unfolded(g, K, w) = [q \in Positions(func) |-> LiftBody(g, q, K, w)]
  <2>1. ASSUME NEW q PROVE UnfoldedBody(g, mssa.operands, q, K, w) = LiftBody(g, q, K, w)
    <3>1. CASE q[2] = 0
      BY <3>1 DEF UnfoldedBody, LiftBody, End, Size
    <3>2. CASE q[2] # 0
      BY <3>2 DEF UnfoldedBody, LiftBody, ArgsIn
    <3> QED
      BY <3>1, <3>2
  <2> QED
    BY <1>2, <2>1 DEF Unfolded
<1>4. \E g : g = Unfolded(g, K, w)
  <2>1. PICK g : SolvesBody(g, K, w)
    BY BodySolved
  <2>2. g = Unfolded(g, K, w)
    BY <1>3, <2>1 DEF SolvesBody
  <2> QED
    BY <2>2
<1>5. Lifted(func, K, w) = Unfolded(Lifted(func, K, w), K, w)
  BY <1>1, <1>4
<1>6. Lifted(func, K, w) = [q \in Positions(func) |-> LiftBody(Lifted(func, K, w), q, K, w)]
  BY <1>3, <1>5
<1> QED
  BY <1>6

\* Memory and value after an instruction, on the path that lifted it.
LEMMA LiftedInstruction ==
    ASSUME Given, NEW K, NEW w, NEW p \in Code
    PROVE  LET g == Lifted(func, K, w)
               before == g[<<p[1], p[2] - 1>>].mem
           IN /\ g[p].mem = MemoryAfter(func, p, before, ArgsIn(g, p))
              /\ g[p].val = ValueAt(func, p, before, ArgsIn(g, p), IF p[1] = 1 THEN 0 ELSE LiftedFrom(func, p[1]))
<1>1. p \in Positions(func) /\ p[2] # 0
  BY Pairs, Shape
<1>2. Lifted(func, K, w)[p] = LiftBody(Lifted(func, K, w), p, K, w)
  BY <1>1, LiftedEquation
<1> QED
  BY <1>1, <1>2 DEF LiftBody

\* Memory at the start of a block.
LEMMA LiftedStart ==
    ASSUME Given, NEW K, NEW w, NEW b \in Blocks
    PROVE  Lifted(func, K, w)[<<b, 0>>].mem =
               Solved(IF b = 1 THEN FirstMemory(K) ELSE Lifted(func, K, w)[End(LiftedFrom(func, b))].mem, w[b])
<1>1. <<b, 0>> \in Positions(func)
  BY Pairs, Shape
<1>2. Lifted(func, K, w)[<<b, 0>>] = LiftBody(Lifted(func, K, w), <<b, 0>>, K, w)
  BY <1>1, LiftedEquation
<1> QED
  BY <1>2 DEF LiftBody

-----------------------------------------------------------------------------
(* The verdicts of is_safe_value, as an equation *)

\* the body of is_safe_value
SafeBody(m, g, p) ==
    IF p = Constant THEN TRUE
    ELSE IF p \in DOMAIN value_safety THEN value_safety[p]
    ELSE /\ p[1] \notin mssa.inLoop
         /\ \/ /\ Ins(p).kind = "load"
               /\ p[1] \notin mssa.joined
               /\ mssa.access[p] = m
               /\ Ins(p).bytes # {}
               /\ Cardinality(Ins(p).bytes) <= MaxLoad
               /\ range_is_safe(Ins(p).bytes)
            \/ /\ Ins(p).kind \in {"op", "div"}
               /\ \A n \in DOMAIN mssa.operands[p] : g[mssa.operands[p][n]]

\* It asks for operands only.
LEMMA SafeLocal ==
    ASSUME Given, NEW m, NEW p \in Code \cup {Constant}, NEW g, NEW h,
           g[Constant] = h[Constant],
           \A q \in Code : p \in Code /\ Earlier(q, p) => g[q] = h[q]
    PROVE  SafeBody(m, g, p) = SafeBody(m, h, p)
<1>1. CASE p = Constant
  BY <1>1 DEF SafeBody
<1>2. CASE p # Constant
  <2>1. p \in Code
    BY <1>2
  <2>2. \A n \in DOMAIN mssa.operands[p] : g[mssa.operands[p][n]] = h[mssa.operands[p][n]]
    BY <2>1, OperandsEarlier
  <2>3. (\A n \in DOMAIN mssa.operands[p] : g[mssa.operands[p][n]])
        <=> (\A n \in DOMAIN mssa.operands[p] : h[mssa.operands[p][n]])
    BY <2>2
  <2> QED
    BY <1>2, <2>3 DEF SafeBody
<1> QED
  BY <1>1, <1>2

\* So this recursion has a solution, too.
LEMMA SafeSolved ==
    ASSUME Given, NEW m
    PROVE  \E g : g = [p \in Code \cup {Constant} |-> SafeBody(m, g, p)]
<1>1. PICK r, N : Numbers(r, N)
  BY NumbersExist
<1>2. /\ \A x \in Code : r[x] \in Nat /\ r[x] < N
      /\ N \in Nat
      /\ \A x, y \in Code : Earlier(x, y) => r[x] < r[y]
  BY <1>1, Pairs DEF Numbers
<1> DEFINE Before(n) == {p \in Code : r[p] < n} \cup {Constant}
<1> DEFINE S == {n \in Nat : \E g : g = [p \in Before(n) |-> SafeBody(m, g, p)]}
<1>3. 0 \in S
  <2>1. Before(0) = {Constant}
    BY <1>2
  <2>2. PICK g : g = [p \in {Constant} |-> TRUE]
    OBVIOUS
  <2>3. SafeBody(m, g, Constant) = TRUE
    BY DEF SafeBody
  <2>4. g = [p \in Before(0) |-> SafeBody(m, g, p)]
    BY <2>1, <2>2, <2>3
  <2> QED
    BY <2>4
<1>4. ASSUME NEW n \in Nat, n \in S PROVE n + 1 \in S
  <2>1. PICK g : g = [p \in Before(n) |-> SafeBody(m, g, p)]
    BY <1>4
  <2>2. PICK h : h = [p \in Before(n + 1) |-> SafeBody(m, g, p)]
    OBVIOUS
  <2>3. \A q \in Before(n) : g[q] = SafeBody(m, g, q)
    <3> HIDE DEF Before
    <3> QED
      BY <2>1
  <2>4. \A q \in Before(n + 1) : h[q] = SafeBody(m, g, q)
    <3> HIDE DEF Before
    <3> QED
      BY <2>2
  <2>5. g[Constant] = h[Constant]
    BY <2>3, <2>4
  <2>6. ASSUME NEW p \in Before(n + 1) PROVE SafeBody(m, g, p) = SafeBody(m, h, p)
    <3>1. ASSUME NEW q \in Code, p \in Code, Earlier(q, p) PROVE g[q] = h[q]
      <4>1. r[q] < r[p] /\ r[q] \in Nat /\ r[p] \in Nat
        BY <1>2, <3>1
      <4>2. r[p] < n + 1
        BY <3>1, Pairs
      <4>3. r[q] < n /\ r[q] < n + 1
        BY <4>1, <4>2
      <4>4. q \in Before(n) /\ q \in Before(n + 1)
        BY <4>3
      <4> HIDE DEF Before
      <4> QED
        BY <2>3, <2>4, <4>4
    <3>2. p \in Code \cup {Constant}
      OBVIOUS
    <3> HIDE DEF Before
    <3> QED
      BY <2>5, <3>1, <3>2, SafeLocal
  <2>7. h = [p \in Before(n + 1) |-> SafeBody(m, h, p)]
    <3> HIDE DEF Before
    <3> QED
      BY <2>2, <2>6
  <2> QED
    BY <2>7
<1>5. N \in S
  <2> HIDE DEF S
  <2> QED
    BY <1>2, <1>3, <1>4, AllNumbers
<1>6. Before(N) = Code \cup {Constant}
  BY <1>2
<1> QED
  BY <1>5, <1>6

\* is_safe_value obeys the equation.
LEMMA SafeEquation ==
    ASSUME Given, NEW m, NEW p \in Code \cup {Constant}
    PROVE  is_safe_value(m)[p] = SafeBody(m, is_safe_value(m), p)
<1> DEFINE U(g) == [q \in Code \cup {Constant} |-> SafeBody(m, g, q)]
<1>1. is_safe_value(m) = CHOOSE g : g = U(g)
  BY DEF is_safe_value, SafeBody
<1>2. \E g : g = U(g)
  BY SafeSolved
<1>3. is_safe_value(m) = U(is_safe_value(m))
  <2> HIDE DEF U
  <2> QED
    BY <1>1, <1>2
<1> QED
  BY <1>3

-----------------------------------------------------------------------------
(* What is the same on every path: values and bytes that justify each other *)

Facts == ({LiveOnEntry} \cup Code) \X Bytes

\* value o is one of G, or written in the instruction
GivenBy(o, G) == o = Constant \/ o \in G

ValueJustified(p, G, H) ==
    \/ /\ Ins(p).kind = "load" /\ Ins(p).bytes # {}
       /\ \A b \in Ins(p).bytes : <<mssa.access[p], b>> \in H
    \/ /\ Ins(p).kind \in {"op", "div"}
       /\ \A n \in DOMAIN mssa.operands[p] : GivenBy(mssa.operands[p][n], G)

\* byte b of the memory that access m leaves behind
ByteJustified(m, b, G, H) ==
    \/ m = LiveOnEntry
    \/ /\ m \in Code /\ Ins(m).kind = "store" /\ Ins(m).bytes # {}
       /\ IF b \in Ins(m).bytes THEN GivenBy(mssa.operands[m][1], G) ELSE <<mssa.access[m], b>> \in H

Justified(G, H) ==
    /\ G \subseteq Code /\ H \subseteq Facts
    /\ \A p \in G : ValueJustified(p, G, H)
    /\ \A x \in H : ByteJustified(x[1], x[2], G, H)

GoodValues == {p \in Code : \E G, H : Justified(G, H) /\ p \in G}

GoodBytes == {x \in Facts : \E G, H : Justified(G, H) /\ x \in H}

\* More facts justify no less.
LEMMA JustifiedGrows ==
    ASSUME NEW G, NEW H, NEW G2, NEW H2, G \subseteq G2, H \subseteq H2
    PROVE  /\ \A p : ValueJustified(p, G, H) => ValueJustified(p, G2, H2)
           /\ \A m, b : ByteJustified(m, b, G, H) => ByteJustified(m, b, G2, H2)
<1> QED
  BY DEF ValueJustified, ByteJustified, GivenBy

\* What is good is justified by what is good.
LEMMA GoodJustified == Justified(GoodValues, GoodBytes)
<1>1. ASSUME NEW G, NEW H, Justified(G, H) PROVE G \subseteq GoodValues /\ H \subseteq GoodBytes
  BY <1>1 DEF Justified, GoodValues, GoodBytes
<1>2. ASSUME NEW p \in GoodValues PROVE ValueJustified(p, GoodValues, GoodBytes)
  <2>1. PICK G, H : Justified(G, H) /\ p \in G
    BY DEF GoodValues
  <2>2. ValueJustified(p, G, H)
    BY <2>1 DEF Justified
  <2> QED
    BY <1>1, <2>1, <2>2, JustifiedGrows
<1>3. ASSUME NEW x \in GoodBytes PROVE ByteJustified(x[1], x[2], GoodValues, GoodBytes)
  <2>1. PICK G, H : Justified(G, H) /\ x \in H
    BY DEF GoodBytes
  <2>2. ByteJustified(x[1], x[2], G, H)
    BY <2>1 DEF Justified
  <2> QED
    BY <1>1, <2>1, <2>2, JustifiedGrows
<1>4. GoodValues \subseteq Code /\ GoodBytes \subseteq Facts
  BY DEF GoodValues, GoodBytes
<1> QED
  BY <1>2, <1>3, <1>4 DEF Justified

\* What justifies itself, together with what is good, is good.
LEMMA GoodExtends ==
    ASSUME NEW G \in SUBSET Code, NEW H \in SUBSET Facts,
           \A p \in G : p \in GoodValues \/ ValueJustified(p, GoodValues \cup G, GoodBytes \cup H),
           \A x \in H : x \in GoodBytes \/ ByteJustified(x[1], x[2], GoodValues \cup G, GoodBytes \cup H)
    PROVE  G \subseteq GoodValues /\ H \subseteq GoodBytes
<1>1. PICK G2, H2 : G2 = GoodValues \cup G /\ H2 = GoodBytes \cup H
  OBVIOUS
<1>2. Justified(GoodValues, GoodBytes)
  BY GoodJustified
<1>3. GoodValues \subseteq G2 /\ GoodBytes \subseteq H2
  BY <1>1
<1>4. ASSUME NEW p \in G2 PROVE ValueJustified(p, G2, H2)
  <2>1. CASE p \in GoodValues
    <3>1. ValueJustified(p, GoodValues, GoodBytes)
      BY <1>2, <2>1 DEF Justified
    <3> QED
      BY <1>3, <3>1, JustifiedGrows
  <2>2. CASE p \notin GoodValues
    BY <1>1, <2>2
  <2> QED
    BY <2>1, <2>2
<1>5. ASSUME NEW x \in H2 PROVE ByteJustified(x[1], x[2], G2, H2)
  <2>1. CASE x \in GoodBytes
    <3>1. ByteJustified(x[1], x[2], GoodValues, GoodBytes)
      BY <1>2, <2>1 DEF Justified
    <3> QED
      BY <1>3, <3>1, JustifiedGrows
  <2>2. CASE x \notin GoodBytes
    BY <1>1, <2>2
  <2> QED
    BY <2>1, <2>2
<1>6. G2 \subseteq Code /\ H2 \subseteq Facts
  BY <1>1, <1>2 DEF Justified
<1>7. Justified(G2, H2)
  BY <1>4, <1>5, <1>6 DEF Justified
<1>8. G \subseteq G2 /\ H \subseteq H2
  BY <1>1
<1> QED
  BY <1>7, <1>8 DEF GoodValues, GoodBytes

\* It depends on the function alone.
LEMMA GoodStays ==
    ASSUME UNCHANGED <<func, mssa>>
    PROVE  GoodValues' = GoodValues /\ GoodBytes' = GoodBytes /\ Code' = Code /\ (Given => Given')
<1>1. Code' = Code /\ Facts' = Facts
  BY DEF Code, Facts
<1>2. \A p, G, H : ValueJustified(p, G, H)' <=> ValueJustified(p, G, H)
  BY DEF ValueJustified, GivenBy, Ins
<1>3. \A m, b, G, H : ByteJustified(m, b, G, H)' <=> ByteJustified(m, b, G, H)
  BY <1>1 DEF ByteJustified, GivenBy, Ins
<1>4. \A G, H : Justified(G, H)' <=> Justified(G, H)
  BY <1>1, <1>2, <1>3 DEF Justified
<1> QED
  BY <1>1, <1>4 DEF GoodValues, GoodBytes, Given

-----------------------------------------------------------------------------
(* The accesses of memory *)

Behind(p) == <<p[1], p[2] + 1>>

IsAccess(m) == m = LiveOnEntry \/ (\E b \in Blocks : m = Phi(b)) \/ (m \in Code /\ IsWrite(func, m))

\* What is in force is the memory on entry, a phi or a write.
LEMMA AccessesInForce ==
    ASSUME Given
    PROVE  \A p \in Positions(func) : IsAccess(InForce(Behind(p)))
<1> DEFINE S == {p \in Positions(func) : IsAccess(InForce(Behind(p)))}
<1>1. ASSUME NEW p \in Positions(func), \A q \in Positions(func) : Earlier(q, p) => q \in S
      PROVE  IsAccess(InForce(Behind(p)))
  <2>0. p = <<p[1], p[2]>> /\ p[1] \in Blocks /\ p[2] \in Nat
    BY Pairs, Shape
  <2>1. CASE p[2] = 0 /\ p[1] = 1
    <3>1. Behind(p) = <<1, 1>>
      BY <2>1 DEF Behind
    <3>2. InForce(<<1, 1>>) \in {LiveOnEntry, Phi(1)}
      BY MemorySSA
    <3> QED
      BY <2>0, <2>1, <3>1, <3>2 DEF IsAccess
  <2>2. CASE p[2] = 0 /\ p[1] # 1
    <3>1. PICK a : a = LiftedFrom(func, p[1])
      OBVIOUS
    <3>2. PICK k \in DOMAIN func.succ[a] : a \in Blocks /\ func.succ[a][k] = p[1]
      BY <2>0, <2>2, <3>1, LiftingOrder
    <3>3. InForce(<<p[1], 1>>) \in {Phi(p[1]), InForce(<<a, Size(a) + 1>>)}
      BY <3>2, MemorySSA
    <3>4. End(a) \in S
      BY <1>1, <2>2, <3>1, EndEarlier
    <3>5. IsAccess(InForce(<<a, Size(a) + 1>>))
      BY <3>4 DEF Behind, End
    <3>6. Behind(p) = <<p[1], 1>>
      BY <2>2 DEF Behind
    <3> QED
      BY <2>0, <3>3, <3>5, <3>6 DEF IsAccess
  <2>3. CASE p[2] # 0
    <3>1. p \in Code /\ <<p[1], p[2] - 1>> \in S
      BY <1>1, <2>3, Starts
    <3>2. Behind(<<p[1], p[2] - 1>>) = p
      BY <2>0 DEF Behind
    <3>3. IsAccess(InForce(p))
      BY <3>1, <3>2
    <3>4. InForce(Behind(p)) = IF IsWrite(func, p) THEN p ELSE InForce(p)
      BY <3>1, MemorySSA DEF Behind
    <3> QED
      BY <3>1, <3>3, <3>4 DEF IsAccess
  <2> QED
    BY <2>1, <2>2, <2>3
<1>2. \A p \in Positions(func) : p \in S
  <2>1. \A p \in Positions(func) :
            (\A q \in Positions(func) : Earlier(q, p) => q \in S) => p \in S
    BY <1>1
  <2> HIDE DEF S
  <2> QED
    BY <2>1, AllPositions
<1> QED
  BY <1>2

\* Every instruction sees one of them.
LEMMA AccessSeen ==
    ASSUME Given, NEW p \in Code
    PROVE  IsAccess(mssa.access[p])
<1>1. p \in Positions(func) /\ p[2] # 0 /\ p = <<p[1], p[2]>> /\ p[2] \in Nat
  BY Pairs, Shape
<1>2. <<p[1], p[2] - 1>> \in Positions(func)
  BY <1>1, Starts
<1>3. Behind(<<p[1], p[2] - 1>>) = p
  BY <1>1 DEF Behind
<1> QED
  BY <1>2, <1>3, AccessesInForce, Analysed

\* The walk meets no others.
LEMMA TreeAccess ==
    ASSUME Given, NEW m \in DOMAIN mssa.children
    PROVE  IsAccess(m)
<1>1. mssa.access = DefiningAccess(func) /\ mssa.children = ChildrenOf(func, mssa.access)
  BY DEF Given, Analyses
<1>2. DOMAIN mssa.access = Code
  BY <1>1 DEF DefiningAccess, Code
<1>3. m \in {LiveOnEntry} \cup {mssa.access[p] : p \in Code} \cup {p \in Code : IsWrite(func, p)}
  BY <1>1, <1>2 DEF ChildrenOf, Range, Code
<1> QED
  BY <1>3, AccessSeen DEF IsAccess

\* Phis begin a block, writes do not.
LEMMA PhisAreStarts ==
    ASSUME Given, NEW m, IsAccess(m), m[2] # 0
    PROVE  m \in Code /\ m # LiveOnEntry
<1>1. m # LiveOnEntry /\ \A b : m # Phi(b)
  BY DEF LiveOnEntry, Phi
<1> QED
  BY <1>1 DEF IsAccess

-----------------------------------------------------------------------------
(* The verdicts are sound *)

SoundVerdicts ==
    \A p \in Code : p \in DOMAIN value_safety /\ value_safety[p] => p \in GoodValues

\* A byte the walk calls safe is good below the active access.
LEMMA SafeBytesGood ==
    ASSUME Given, WalkInv, SoundVerdicts, phase = "memory", stack # <<>>,
           NEW b \in Bytes, CurrentSafety(b)
    PROVE  <<Top.access, b>> \in GoodBytes
<1>1. PICK n : n = Len(stack)
  OBVIOUS
<1>2. n \in Nat /\ n >= 1 /\ BranchInv
  BY <1>1 DEF WalkInv, TypeInv
<1>3. PICK k \in 1 .. n : /\ Settles(stack[k].access, b) /\ MakesSafe(stack[k].access)
                          /\ \A j \in k + 1 .. n : ~Settles(stack[j].access, b)
  BY <1>1, StateWithoutTrace DEF SiblingsLeaveNoTrace
<1>4. \A j \in 1 .. n : /\ IsAccess(stack[j].access)
                        /\ j = 1 <=> stack[j].access[2] = 0
                        /\ j > 1 => mssa.access[stack[j].access] = stack[j - 1].access
  BY <1>1, <1>2, TreeAccess DEF BranchInv
<1> DEFINE H == {<<stack[j].access, b>> : j \in k .. n}
<1>5. ASSUME NEW j \in k .. n PROVE j \in 1 .. n /\ j \in Nat
  BY <1>2
<1>6. ASSUME NEW j \in k .. n
      PROVE  /\ <<stack[j].access, b>> \in Facts
             /\ ByteJustified(stack[j].access, b, GoodValues \cup {}, GoodBytes \cup H)
  <2>1. CASE j = k
    <3>1. CASE KnownStore(stack[k].access)
      <4>1. stack[k].access \in Code
        BY <1>4, <3>1, PhisAreStarts DEF KnownStore
      <4>2. b \in Ins(stack[k].access).bytes /\ StoreIsSafe(stack[k].access)
        BY <1>3, <3>1 DEF Settles, MakesSafe
      <4>3. Ins(stack[k].access).kind = "store" /\ Ins(stack[k].access).bytes # {}
        BY <3>1 DEF KnownStore
      <4>4. PICK o : o = mssa.operands[stack[k].access][1]
        OBVIOUS
      <4>5. o = Constant \/ (o \in DOMAIN value_safety /\ value_safety[o])
        BY <4>2, <4>4 DEF StoreIsSafe
      <4>6. 1 \in DOMAIN mssa.operands[stack[k].access]
        BY <4>1, <4>3, StoreOperand
      <4>7. o = Constant \/ o \in Code
        BY <4>1, <4>4, <4>6, OperandsEarlier
      <4>8. GivenBy(o, GoodValues)
        BY <4>5, <4>7 DEF SoundVerdicts, GivenBy
      <4> QED
        BY <2>1, <4>1, <4>2, <4>3, <4>4, <4>8 DEF ByteJustified, Facts, GivenBy
    <3>2. CASE ~KnownStore(stack[k].access)
      <4>1. stack[k].access = LiveOnEntry
        BY <1>3, <3>2 DEF MakesSafe
      <4> QED
        BY <2>1, <4>1 DEF ByteJustified, Facts
    <3> QED
      BY <3>1, <3>2
  <2>2. CASE j # k
    <3>1. j \in k + 1 .. n /\ j - 1 \in k .. n /\ j > 1
      BY <1>2, <1>6, <2>2
    <3>2. ~Settles(stack[j].access, b)
      BY <1>3, <3>1
    <3>3. KnownStore(stack[j].access) /\ b \notin Ins(stack[j].access).bytes
      BY <3>2 DEF Settles
    <3>4. stack[j].access \in Code
      BY <1>4, <1>5, <3>3, PhisAreStarts DEF KnownStore
    <3>5. mssa.access[stack[j].access] = stack[j - 1].access
      BY <1>4, <1>5, <3>1
    <3>6. <<mssa.access[stack[j].access], b>> \in H
      BY <3>1, <3>5
    <3> HIDE DEF H
    <3> QED
      BY <3>3, <3>4, <3>6 DEF ByteJustified, KnownStore, Facts
  <2> QED
    BY <2>1, <2>2
<1>7. H \in SUBSET Facts
  BY <1>6
<1>8. ASSUME NEW x \in H PROVE ByteJustified(x[1], x[2], GoodValues \cup {}, GoodBytes \cup H)
  <2>1. PICK j \in k .. n : x = <<stack[j].access, b>>
    OBVIOUS
  <2> HIDE DEF H
  <2> QED
    BY <1>6, <2>1
<1>9. H \subseteq GoodBytes
  <2> HIDE DEF H
  <2> QED
    BY <1>7, <1>8, GoodExtends
<1>10. n \in k .. n
  BY <1>2
<1> QED
  BY <1>1, <1>9, <1>10 DEF Top

\* What is_safe_value calls safe is good.
LEMMA SafeValuesGood ==
    ASSUME Given, WalkInv, SoundVerdicts, phase = "memory", stack # <<>>,
           NEW v \in Code, is_safe_value(Top.access)[v]
    PROVE  v \in GoodValues
<1>1. PICK safe : safe = is_safe_value(Top.access)
  OBVIOUS
<1> DEFINE G == {p \in Code : safe[p]}
<1>2. ASSUME NEW p \in G
      PROVE  p \in GoodValues \/ ValueJustified(p, GoodValues \cup G, GoodBytes \cup {})
  <2>1. p \in Code /\ SafeBody(Top.access, safe, p) /\ p # Constant
    BY <1>1, SafeEquation, Pairs
  <2>2. CASE p \in DOMAIN value_safety
    BY <2>1, <2>2 DEF SafeBody, SoundVerdicts
  <2>3. CASE p \notin DOMAIN value_safety
    <3>1. CASE Ins(p).kind = "load"
      <4>1. mssa.access[p] = Top.access /\ Ins(p).bytes # {} /\ \A b \in Ins(p).bytes : CurrentSafety(b)
        BY <2>1, <2>3, <3>1 DEF SafeBody, range_is_safe
      <4>2. Ins(p).bytes \subseteq Bytes
        BY <2>1, Pairs DEF Instructions
      <4>3. \A b \in Ins(p).bytes : <<mssa.access[p], b>> \in GoodBytes
        BY <4>1, <4>2, SafeBytesGood
      <4> QED
        BY <3>1, <4>1, <4>3 DEF ValueJustified
    <3>2. CASE Ins(p).kind # "load"
      <4>1. Ins(p).kind \in {"op", "div"} /\ \A n \in DOMAIN mssa.operands[p] : safe[mssa.operands[p][n]]
        BY <2>1, <2>3, <3>2 DEF SafeBody
      <4>2. \A n \in DOMAIN mssa.operands[p] : GivenBy(mssa.operands[p][n], GoodValues \cup G)
        BY <2>1, <4>1, OperandsEarlier DEF GivenBy
      <4> QED
        BY <4>1, <4>2 DEF ValueJustified
    <3> QED
      BY <3>1, <3>2
  <2> QED
    BY <2>2, <2>3
<1>3. G \in SUBSET Code /\ v \in G
  BY <1>1
<1>4. G \subseteq GoodValues
  <2> HIDE DEF G
  <2>1. {} \in SUBSET Facts /\ \A x \in {} : FALSE
    OBVIOUS
  <2> QED
    BY <1>2, <1>3, <2>1, GoodExtends
<1> QED
  BY <1>3, <1>4

\* So are the verdicts given when values are asked for.
LEMMA AskedSound ==
    ASSUME Given, WalkInv, SoundVerdicts, phase = "memory", stack # <<>>, UNCHANGED <<func, mssa>>,
           NEW P, value_safety' = Asked(P, Top.access)
    PROVE  SoundVerdicts'
<1>1. GoodValues' = GoodValues /\ Code' = Code
  BY GoodStays
<1>2. ASSUME NEW p \in Code, p \in DOMAIN value_safety', value_safety'[p]
      PROVE  p \in GoodValues
  <2>1. CASE p \in DOMAIN value_safety
    BY <1>2, <2>1 DEF Asked, SoundVerdicts
  <2>2. CASE p \notin DOMAIN value_safety
    <3>1. is_safe_value(Top.access)[p]
      BY <1>2, <2>2 DEF Asked
    <3> QED
      BY <3>1, SafeValuesGood
  <2> QED
    BY <2>1, <2>2
<1> QED
  BY <1>1, <1>2 DEF SoundVerdicts

\* Verdicts stay sound.
LEMMA VerdictStep ==
    ASSUME Given, WalkInv, SoundVerdicts, [Next]_vars
    PROVE  SoundVerdicts'
<1>1. ASSUME UNCHANGED <<func, mssa, value_safety>> PROVE SoundVerdicts'
  BY <1>1, GoodStays DEF SoundVerdicts
<1>2. CASE Enter
  <2>1. phase = "memory" /\ stack # <<>> /\ UNCHANGED <<func, mssa>>
        /\ value_safety' = Asked({p \in Code : Ins(p).kind = "load" /\ mssa.access[p] = Top.access}, Top.access)
    BY <1>2 DEF Enter
  <2> QED
    BY <2>1, AskedSound
<1>3. CASE Descend
  <2>1. phase = "memory" /\ stack # <<>> /\ UNCHANGED <<func, mssa>>
        /\ \/ value_safety' = Asked({mssa.operands[mssa.children[Top.access][Top.next_child]][1]}, Top.access)
           \/ value_safety' = value_safety
    BY <1>3 DEF Descend
  <2> QED
    BY <1>1, <2>1, AskedSound
<1>4. CASE StartRoot
  BY <1>1, <1>4 DEF StartRoot
<1>5. CASE Backtrack
  BY <1>1, <1>5 DEF Backtrack
<1>6. CASE ReplaceLoads \/ Propagate \/ EraseDead
  BY <1>1, <1>6 DEF ReplaceLoads, Propagate, EraseDead, walkVars
<1>7. CASE Call \/ RunInstruction \/ RunBranch
  BY <1>1, <1>7 DEF Call, RunInstruction, RunBranch, walkVars
<1>8. CASE UNCHANGED vars
  BY <1>1, <1>8 DEF vars, walkVars
<1> QED
  BY <1>2, <1>3, <1>4, <1>5, <1>6, <1>7, <1>8 DEF Next, Pass

-----------------------------------------------------------------------------
(* The constants *)

IsConstant(p, v) ==
    p \in GoodValues /\ p \in DOMAIN symex /\ symex[p] # Symbolic /\ v = Cut(symex[p])

ConstInv ==
    /\ symex = SymexOf(func)
    /\ \A p \in DOMAIN constants : IsConstant(p, constants[p])

\* The values noted by symex.
LEMMA SymexNoted ==
    ASSUME Given, ConstInv, NEW p \in DOMAIN symex
    PROVE  p \in Code /\ symex[p] = Lifted(func, KnownBytes, func.solved)[p].val
<1> QED
  BY DEF ConstInv, SymexOf, Code

\* Folding needs good operands.
LEMMA FoldedGood ==
    ASSUME Given, ConstInv, NEW p, is_ssa_fold_candidate(p)
    PROVE  p \in GoodValues
<1>1. p \in DOMAIN symex /\ Ins(p).kind = "op" /\ has_only_defined_constant_operands(p)
  BY DEF is_ssa_fold_candidate
<1>2. p \in Code
  BY <1>1, SymexNoted
<1>3. \A n \in DOMAIN mssa.operands[p] : GivenBy(mssa.operands[p][n], GoodValues \cup {p})
  BY <1>1 DEF has_only_defined_constant_operands, ConstInv, IsConstant, GivenBy
<1>4. ValueJustified(p, GoodValues \cup {p}, GoodBytes \cup {})
  BY <1>1, <1>3 DEF ValueJustified
<1>5. {p} \in SUBSET Code /\ {} \in SUBSET Facts
      /\ (\A q \in {p} : q \in GoodValues \/ ValueJustified(q, GoodValues \cup {p}, GoodBytes \cup {}))
      /\ \A x \in {} : FALSE
  BY <1>2, <1>4
<1>6. {p} \subseteq GoodValues
  BY <1>5, GoodExtends
<1> QED
  BY <1>6

\* Constants stay good.
LEMMA ConstStep ==
    ASSUME Given, SoundVerdicts, ConstInv, [Next]_vars
    PROVE  ConstInv'
<1>1. UNCHANGED <<func, mssa, symex>>
  BY DEF Next, Pass, StartRoot, Enter, Descend, Backtrack, ReplaceLoads, Propagate, EraseDead, Call,
         RunInstruction, RunBranch, vars
<1>2. \A p, v : IsConstant(p, v)' <=> IsConstant(p, v)
  BY <1>1, GoodStays DEF IsConstant
<1>3. symex' = SymexOf(func)'
  BY <1>1 DEF ConstInv
<1>4. ASSUME UNCHANGED constants PROVE ConstInv'
  BY <1>2, <1>3, <1>4 DEF ConstInv
<1>5. CASE ReplaceLoads
  <2>1. constants' = [p \in Replaceable |-> Cut(symex[p])]
    BY <1>5 DEF ReplaceLoads
  <2>2. ASSUME NEW p \in Replaceable PROVE IsConstant(p, Cut(symex[p]))
    BY DEF Replaceable, SoundVerdicts, IsConstant
  <2>3. \A p \in DOMAIN constants' : IsConstant(p, constants'[p])
    BY <2>1, <2>2
  <2> QED
    BY <1>2, <1>3, <2>3 DEF ConstInv
<1>6. CASE Propagate
  <2>1. PICK p : p = Head(worklist)
    OBVIOUS
  <2>2. constants' = IF Foldable(p) THEN WithConstant(p) ELSE constants
    BY <1>6, <2>1 DEF Propagate
  <2>3. CASE Foldable(p)
    <3>1. IsConstant(p, Cut(symex[p]))
      BY <2>3, FoldedGood DEF Foldable, is_ssa_fold_candidate, IsConstant
    <3>2. ASSUME NEW q \in DOMAIN constants' PROVE IsConstant(q, constants'[q])
      <4>1. q \in DOMAIN constants \cup {p}
            /\ constants'[q] = IF q \in DOMAIN constants THEN constants[q] ELSE Cut(symex[q])
        BY <2>2, <2>3 DEF WithConstant
      <4> QED
        BY <3>1, <4>1 DEF ConstInv
    <3> QED
      BY <1>2, <1>3, <3>2 DEF ConstInv
  <2>4. CASE ~Foldable(p)
    BY <1>4, <2>2, <2>4
  <2> QED
    BY <2>3, <2>4
<1>7. CASE StartRoot \/ Enter \/ Descend \/ Backtrack
  BY <1>4, <1>7 DEF StartRoot, Enter, Descend, Backtrack
<1>8. CASE EraseDead \/ Call \/ RunInstruction \/ RunBranch
  BY <1>4, <1>8 DEF EraseDead, Call, RunInstruction, RunBranch
<1>9. CASE UNCHANGED vars
  BY <1>4, <1>9 DEF vars
<1> QED
  BY <1>5, <1>6, <1>7, <1>8, <1>9 DEF Next, Pass

-----------------------------------------------------------------------------
(* What lifting knows of memory, when it relies on the bytes K of the       *)
(* binary and solves no register                                            *)

Plain(K) == Lifted(func, K, Unsolved)

\* A block starts with the memory of the end of the one from which it was reached.
LEMMA PlainStart ==
    ASSUME Given, NEW K, NEW c \in Blocks, NEW b \in Bytes
    PROVE  Plain(K)[<<c, 0>>].mem[b] =
               (IF c = 1 THEN FirstMemory(K) ELSE Plain(K)[End(LiftedFrom(func, c))].mem)[b]
<1>1. PICK m : m = IF c = 1 THEN FirstMemory(K) ELSE Plain(K)[End(LiftedFrom(func, c))].mem
  OBVIOUS
<1>2. Unsolved[c] = <<>>
  BY DEF Unsolved, Blocks, BlocksOf
<1>3. Plain(K)[<<c, 0>>].mem = Solved(m, <<>>)
  BY <1>1, <1>2, LiftedStart DEF Plain
<1>4. Solved(m, <<>>)[b] = m[b]
  BY DEF Solved
<1> QED
  BY <1>1, <1>3, <1>4

\* Memory and value after an instruction.
LEMMA PlainInstruction ==
    ASSUME Given, NEW K, NEW p \in Code
    PROVE  LET before == Plain(K)[<<p[1], p[2] - 1>>].mem
           IN /\ Plain(K)[p].mem = MemoryAfter(func, p, before, ArgsIn(Plain(K), p))
              /\ Plain(K)[p].val = ValueAt(func, p, before, ArgsIn(Plain(K), p),
                                           IF p[1] = 1 THEN 0 ELSE LiftedFrom(func, p[1]))
<1> QED
  BY LiftedInstruction DEF Plain

\* byte b of the memory that access m left behind, on the path that lifted it
SymByte(K, m, b) == IF m = LiveOnEntry THEN FirstMemory(K)[b] ELSE Plain(K)[m].mem[b]

\* Phis are never good.
LEMMA GoodAccess ==
    ASSUME Given, NEW m, NEW b, <<m, b>> \in GoodBytes
    PROVE  /\ b \in Bytes
           /\ \A c \in Blocks : m # Phi(c)
           /\ m # LiveOnEntry =>
                 /\ m \in Code /\ Ins(m).kind = "store" /\ Ins(m).bytes # {}
                 /\ IF b \in Ins(m).bytes THEN GivenBy(mssa.operands[m][1], GoodValues)
                    ELSE <<mssa.access[m], b>> \in GoodBytes
<1>1. <<m, b>> \in Facts /\ ByteJustified(m, b, GoodValues, GoodBytes)
  BY GoodJustified DEF Justified
<1>2. b \in Bytes /\ m \in {LiveOnEntry} \cup Code
  BY <1>1 DEF Facts
<1>3. ASSUME NEW c \in Blocks PROVE m # Phi(c)
  <2>1. c >= 1 /\ c \in Nat
    BY Shape
  <2>2. Phi(c) # LiveOnEntry
    BY <2>1 DEF Phi, LiveOnEntry
  <2>3. Phi(c) \notin Code
    BY Pairs, Shape DEF Phi
  <2> QED
    BY <1>2, <2>2, <2>3
<1> QED
  BY <1>1, <1>2, <1>3 DEF ByteJustified

\* The memory lifting had at a position was that of the access in force, in the good bytes.
LEMMA MemoryNoted ==
    ASSUME Given, NEW K, NEW b
    PROVE  \A p \in Positions(func) :
               <<InForce(Behind(p)), b>> \in GoodBytes
                   => Plain(K)[p].mem[b] = SymByte(K, InForce(Behind(p)), b)
<1> DEFINE S == {p \in Positions(func) :
                    <<InForce(Behind(p)), b>> \in GoodBytes
                        => Plain(K)[p].mem[b] = SymByte(K, InForce(Behind(p)), b)}
<1>1. ASSUME NEW p \in Positions(func), \A q \in Positions(func) : Earlier(q, p) => q \in S,
             <<InForce(Behind(p)), b>> \in GoodBytes
      PROVE  Plain(K)[p].mem[b] = SymByte(K, InForce(Behind(p)), b)
  <2>0. p = <<p[1], p[2]>> /\ p[1] \in Blocks /\ p[2] \in Nat
    BY Pairs, Shape
  <2>1. CASE p[2] = 0 /\ p[1] = 1
    <3>1. Behind(p) = <<1, 1>> /\ p = <<1, 0>>
      BY <2>0, <2>1 DEF Behind
    <3>2. InForce(<<1, 1>>) \in {LiveOnEntry, Phi(1)}
      BY MemorySSA
    <3>3. InForce(Behind(p)) = LiveOnEntry
      BY <1>1, <2>0, <2>1, <3>1, <3>2, GoodAccess
    <3>4. b \in Bytes
      BY <1>1, GoodAccess
    <3>5. Plain(K)[p].mem[b] = FirstMemory(K)[b]
      BY <2>0, <2>1, <3>1, <3>4, PlainStart
    <3> QED
      BY <3>3, <3>5 DEF SymByte
  <2>2. CASE p[2] = 0 /\ p[1] # 1
    <3>1. PICK a : a = LiftedFrom(func, p[1])
      OBVIOUS
    <3>2. PICK k \in DOMAIN func.succ[a] : a \in Blocks /\ func.succ[a][k] = p[1]
      BY <2>0, <2>2, <3>1, LiftingOrder
    <3>3. InForce(<<p[1], 1>>) \in {Phi(p[1]), InForce(<<a, Size(a) + 1>>)}
      BY <3>2, MemorySSA
    <3>4. End(a) \in S
      BY <1>1, <2>2, <3>1, EndEarlier
    <3>5. Behind(p) = <<p[1], 1>> /\ Behind(End(a)) = <<a, Size(a) + 1>>
      BY <2>2 DEF Behind, End
    <3>6. InForce(Behind(p)) = InForce(Behind(End(a)))
      BY <1>1, <2>0, <3>3, <3>5, GoodAccess
    <3>7. b \in Bytes
      BY <1>1, GoodAccess
    <3>8. Plain(K)[p].mem[b] = Plain(K)[End(a)].mem[b]
      BY <2>0, <2>2, <3>1, <3>7, PlainStart
    <3> QED
      BY <1>1, <3>4, <3>6, <3>8
  <2>3. CASE p[2] # 0
    <3>1. p \in Code /\ <<p[1], p[2] - 1>> \in S
      BY <1>1, <2>3, Starts
    <3>2. Behind(<<p[1], p[2] - 1>>) = p
      BY <2>0 DEF Behind
    <3>3. InForce(Behind(p)) = IF IsWrite(func, p) THEN p ELSE InForce(p)
      BY <3>1, MemorySSA DEF Behind
    <3>4. CASE IsWrite(func, p)
      <4>1. p # LiveOnEntry
        BY <2>3 DEF LiveOnEntry
      <4> QED
        BY <3>3, <3>4, <4>1 DEF SymByte
    <3>5. CASE ~IsWrite(func, p)
      <4>1. Plain(K)[p].mem = MemoryAfter(func, p, Plain(K)[<<p[1], p[2] - 1>>].mem, ArgsIn(Plain(K), p))
        BY <3>1, PlainInstruction
      <4>2. Plain(K)[p].mem = Plain(K)[<<p[1], p[2] - 1>>].mem
        BY <3>5, <4>1 DEF MemoryAfter, IsWrite
      <4> QED
        BY <1>1, <3>1, <3>2, <3>3, <3>5, <4>2
    <3> QED
      BY <3>4, <3>5
  <2> QED
    BY <2>0, <2>1, <2>2, <2>3
<1>2. \A p \in Positions(func) : p \in S
  <2>1. \A p \in Positions(func) :
            (\A q \in Positions(func) : Earlier(q, p) => q \in S) => p \in S
    BY <1>1
  <2> HIDE DEF S
  <2> QED
    BY <2>1, AllPositions
<1> QED
  BY <1>2

\* The memory ahead of an instruction.
LEMMA MemoryAhead ==
    ASSUME Given, NEW K, NEW p \in Code, NEW b, <<mssa.access[p], b>> \in GoodBytes
    PROVE  Plain(K)[<<p[1], p[2] - 1>>].mem[b] = SymByte(K, InForce(p), b)
<1>1. p \in Positions(func) /\ p[2] # 0 /\ p = <<p[1], p[2]>> /\ p[2] \in Nat
  BY Pairs, Shape
<1>2. <<p[1], p[2] - 1>> \in Positions(func)
  BY <1>1, Starts
<1>3. Behind(<<p[1], p[2] - 1>>) = p
  BY <1>1 DEF Behind
<1> QED
  BY <1>2, <1>3, MemoryNoted, Analysed

-----------------------------------------------------------------------------
(* Values that agree *)

\* v is what symex noted, if it noted anything
Agrees(v, s) == s = Symbolic \/ v = s

\* Loads of bytes that agree, agree.
LEMMA LoadsAgree ==
    ASSUME NEW m, NEW n, NEW S, \A b \in S : Agrees(m[b], n[b])
    PROVE  Agrees(ValueOf(m, S), ValueOf(n, S))
<1>1. CASE \E b \in S : n[b] = Symbolic
  BY <1>1 DEF ValueOf, Agrees
<1>2. CASE ~\E b \in S : n[b] = Symbolic
  <2>1. \A b \in S : m[b] = n[b]
    BY <1>2 DEF Agrees
  <2>2. PICK T : T = {c \in S : n[c] = 1}
    OBVIOUS
  <2>3. {c \in S : m[c] = 1} = T
    BY <2>1, <2>2
  <2>4. PICK w : w = [b \in S |-> 2 ^ (b - Min(S))]
    OBVIOUS
  <2>5. {m[b] * w[b] : b \in T} = {n[b] * w[b] : b \in T}
    <3>1. \A b \in T : m[b] * w[b] = n[b] * w[b]
      BY <2>1, <2>2
    <3> QED
      BY <3>1
  <2>6. {m[b] * 2 ^ (b - Min(S)) : b \in T} = {m[b] * w[b] : b \in T}
        /\ {n[b] * 2 ^ (b - Min(S)) : b \in T} = {n[b] * w[b] : b \in T}
    BY <2>2, <2>4, Zenon
  <2>7. {m[b] * 2 ^ (b - Min(S)) : b \in {c \in S : m[c] = 1}}
        = {n[b] * 2 ^ (b - Min(S)) : b \in {c \in S : n[c] = 1}}
    BY <2>2, <2>3, <2>5, <2>6, Zenon
  <2>8. ~\E b \in S : m[b] = Symbolic
    BY <1>2, <2>1
  <2> QED
    BY <1>2, <2>7, <2>8, Zenon DEF ValueOf, Agrees
<1> QED
  BY <1>1, <1>2

\* Sums of operands that agree, agree.
LEMMA SumsAgree ==
    ASSUME NEW D, NEW x, NEW y, x = [n \in D |-> x[n]], y = [n \in D |-> y[n]],
           \A n \in D : Agrees(x[n], y[n])
    PROVE  Agrees(Summed(x), Summed(y))
<1>1. CASE Symbolic \in Range(y)
  BY <1>1 DEF Summed, Agrees
<1>2. CASE Symbolic \notin Range(y)
  <2>1. \A n \in D : x[n] = y[n]
    BY <1>2 DEF Range, Agrees
  <2>2. x = y
    BY <2>1
  <2> QED
    BY <2>2 DEF Agrees
<1> QED
  BY <1>1, <1>2

\* Bytes of values that agree, agree.
LEMMA BytesAgree ==
    ASSUME NEW v, NEW s, NEW S, NEW b, Agrees(v, s)
    PROVE  Agrees(ByteOf(v, S, b), ByteOf(s, S, b))
<1>1. CASE s = Symbolic
  BY <1>1 DEF ByteOf, Agrees
<1>2. CASE s # Symbolic
  <2>1. v = s
    BY <1>2 DEF Agrees
  <2> QED
    BY <2>1 DEF Agrees
<1> QED
  BY <1>1, <1>2

\* What symex noted agrees with what it would have noted, had it relied on fewer bytes and solved
\* no register.
LEMMA MoreNoted ==
    ASSUME Given, NEW K, K \subseteq KnownBytes
    PROVE  \A p \in Positions(func) : Agrees(Lifted(func, KnownBytes, func.solved)[p].val, Plain(K)[p].val)
<1>1. PICK L, M, w : L = Lifted(func, KnownBytes, w) /\ M = Plain(K) /\ w = func.solved
  OBVIOUS
<1> DEFINE S == {p \in Positions(func) :
                    /\ Agrees(L[p].val, M[p].val)
                    /\ \A b \in Bytes : Agrees(L[p].mem[b], M[p].mem[b])}
<1>2. ASSUME NEW p \in Positions(func), \A q \in Positions(func) : Earlier(q, p) => q \in S
      PROVE  p \in S
  <2>0. p = <<p[1], p[2]>> /\ p[1] \in Blocks /\ p[2] \in Nat
    BY Pairs, Shape
  <2>1. CASE p[2] = 0
    <3>1. L[p].val = Symbolic /\ M[p].val = Symbolic
      <4>1. L[p] = LiftBody(L, p, KnownBytes, w) /\ M[p] = LiftBody(M, p, K, Unsolved)
        BY <1>1, LiftedEquation DEF Plain
      <4>2. LiftBody(L, p, KnownBytes, w).val = Symbolic /\ LiftBody(M, p, K, Unsolved).val = Symbolic
        BY <2>1 DEF LiftBody
      <4> QED
        BY <4>1, <4>2
    <3>2. PICK m, n : /\ m = IF p[1] = 1 THEN FirstMemory(KnownBytes) ELSE L[End(LiftedFrom(func, p[1]))].mem
                      /\ n = IF p[1] = 1 THEN FirstMemory(K) ELSE M[End(LiftedFrom(func, p[1]))].mem
      OBVIOUS
    <3>3. ASSUME NEW b \in Bytes PROVE Agrees(m[b], n[b])
      <4>1. CASE p[1] = 1
        BY <3>2, <4>1 DEF FirstMemory, Agrees
      <4>2. CASE p[1] # 1
        <5>1. End(LiftedFrom(func, p[1])) \in S
          BY <1>2, <4>2, EndEarlier
        <5> QED
          BY <3>2, <4>2, <5>1
      <4> QED
        BY <4>1, <4>2
    <3>4. L[p].mem = Solved(m, w[p[1]]) /\ \A b \in Bytes : M[p].mem[b] = n[b]
      BY <1>1, <2>0, <2>1, <3>2, LiftedStart, PlainStart
    <3>5. ASSUME NEW b \in Bytes PROVE Agrees(L[p].mem[b], M[p].mem[b])
      <4>1. PICK v : v = w[p[1]]
        OBVIOUS
      <4>2. L[p].mem[b] = IF m[b] = Symbolic /\ b \in DOMAIN v THEN v[b] ELSE m[b]
        BY <3>4, <4>1 DEF Solved
      <4>3. M[p].mem[b] = n[b] /\ Agrees(m[b], n[b])
        BY <3>3, <3>4
      <4> QED
        BY <4>2, <4>3 DEF Agrees
    <3> QED
      BY <3>1, <3>5 DEF Agrees
  <2>2. CASE p[2] # 0
    <3>1. p \in Code /\ <<p[1], p[2] - 1>> \in S
      BY <1>2, <2>2, Starts
    <3>2. PICK m, n, x, y, from : /\ m = L[<<p[1], p[2] - 1>>].mem /\ n = M[<<p[1], p[2] - 1>>].mem
                                  /\ x = ArgsIn(L, p) /\ y = ArgsIn(M, p)
                                  /\ from = IF p[1] = 1 THEN 0 ELSE LiftedFrom(func, p[1])
      OBVIOUS
    <3>3. /\ L[p].mem = MemoryAfter(func, p, m, x) /\ M[p].mem = MemoryAfter(func, p, n, y)
          /\ L[p].val = ValueAt(func, p, m, x, from) /\ M[p].val = ValueAt(func, p, n, y, from)
      BY <1>1, <3>1, <3>2, LiftedInstruction, PlainInstruction
    <3>4. \A b \in Bytes : Agrees(m[b], n[b])
      BY <3>1, <3>2
    <3>5. PICK D : D = DOMAIN mssa.operands[p] /\ x = [k \in D |-> x[k]] /\ y = [k \in D |-> y[k]]
      BY <3>2 DEF ArgsIn
    <3>6. ASSUME NEW k \in D PROVE Agrees(x[k], y[k])
      <4>1. PICK o : o = mssa.operands[p][k]
        OBVIOUS
      <4>2. CASE o = Constant
        BY <3>2, <3>5, <4>1, <4>2 DEF ArgsIn, Agrees
      <4>3. CASE o # Constant
        <5>1. o \in S
          BY <1>2, <3>1, <3>5, <4>1, <4>3, OperandsEarlier, Pairs
        <5> QED
          BY <3>2, <3>5, <4>1, <4>3, <5>1 DEF ArgsIn
      <4> QED
        BY <4>2, <4>3
    <3>7. ASSUME NEW b \in Bytes PROVE Agrees(L[p].mem[b], M[p].mem[b])
      <4>1. CASE Ins(p).kind = "store" /\ Ins(p).bytes # {}
        <5>1. L[p].mem = Stored(m, x[1], Ins(p).bytes) /\ M[p].mem = Stored(n, y[1], Ins(p).bytes)
          BY <3>3, <4>1 DEF MemoryAfter, Ins
        <5>2. Agrees(x[1], y[1])
          BY <3>1, <3>5, <3>6, <4>1, StoreOperand
        <5>3. Agrees(ByteOf(x[1], Ins(p).bytes, b), ByteOf(y[1], Ins(p).bytes, b))
          BY <5>2, BytesAgree
        <5> QED
          BY <3>4, <5>1, <5>3 DEF Stored
      <4>2. CASE ~(Ins(p).kind = "store" /\ Ins(p).bytes # {})
        BY <3>3, <3>4, <4>2 DEF MemoryAfter, Ins
      <4> QED
        BY <4>1, <4>2
    <3>8. Agrees(L[p].val, M[p].val)
      <4>1. CASE Ins(p).kind = "load" /\ Ins(p).bytes # {}
        <5>1. Ins(p).bytes \subseteq Bytes
          BY <3>1, Pairs DEF Instructions
        <5>2. Agrees(ValueOf(m, Ins(p).bytes), ValueOf(n, Ins(p).bytes))
          BY <3>4, <5>1, LoadsAgree
        <5> QED
          BY <3>3, <4>1, <5>2 DEF ValueAt, Ins
      <4>2. CASE Ins(p).kind \in {"op", "div"}
        <5>1. Agrees(Summed(x), Summed(y))
          BY <3>5, <3>6, SumsAgree
        <5>2. L[p].val = Summed(x) /\ M[p].val = Summed(y)
          BY <3>3, <4>2 DEF ValueAt, Ins
        <5> QED
          BY <5>1, <5>2
      <4>3. CASE ~(Ins(p).kind = "load" /\ Ins(p).bytes # {}) /\ Ins(p).kind \notin {"op", "div"}
        <5>1. L[p].val = M[p].val
          BY <3>3, <4>3 DEF ValueAt, Ins
        <5> QED
          BY <5>1 DEF Agrees
      <4> QED
        BY <4>1, <4>2, <4>3
    <3> QED
      BY <3>7, <3>8
  <2> QED
    BY <2>1, <2>2
<1>3. \A p \in Positions(func) : p \in S
  <2>1. \A p \in Positions(func) : (\A q \in Positions(func) : Earlier(q, p) => q \in S) => p \in S
    BY <1>2
  <2> HIDE DEF S
  <2> QED
    BY <2>1, AllPositions
<1> QED
  BY <1>1, <1>3

-----------------------------------------------------------------------------
(* The execution *)

\* q was computed on every path that stands at position at
RunsBefore(q, at) ==
    /\ ComputesValue(func, q)
    /\ \/ q[1] = at[1] /\ q[2] < at[2]
       \/ q[1] # at[1] /\ Dominates(func, q[1], at[1])

Stands(at) == at = <<at[1], at[2]>> /\ at[1] \in Blocks /\ at[2] \in 1 .. Size(at[1]) + 1

ValuesOK(K, val) == \A p \in DOMAIN val : p \in GoodValues => Agrees(val[p], Plain(K)[p].val)

MemoryOK(K, at, mem) ==
    \A b \in Bytes :
        <<InForce(at), b>> \in GoodBytes => Agrees(mem[b], SymByte(K, InForce(at), b))

RunOK(K, at, mem, val) ==
    /\ Stands(at)
    /\ \A q \in Code : RunsBefore(q, at) => q \in DOMAIN val
    /\ ValuesOK(K, val)
    /\ MemoryOK(K, at, mem)

\* the bytes of the binary that had not changed when the execution began
Unchanged == KnownBytes \ exec.changed

RunInv == phase = "run" => RunOK(Unchanged, exec.at, exec.mem, exec.val)

\* Good operands agree.
LEMMA ArgsAgree ==
    ASSUME Given, NEW K, NEW p \in Code, NEW mem, NEW val, RunOK(K, p, mem, val),
           NEW n \in DOMAIN mssa.operands[p], GivenBy(mssa.operands[p][n], GoodValues)
    PROVE  Agrees(ArgsOf(mssa.operands[p], val)[n], ArgsIn(Plain(K), p)[n])
<1>1. PICK o : o = mssa.operands[p][n]
  OBVIOUS
<1>2. CASE o = Constant
  BY <1>1, <1>2 DEF ArgsOf, ArgsIn, Agrees
<1>3. CASE o # Constant
  <2>1. o \in GoodValues /\ o \in Code
    BY <1>1, <1>3, GoodJustified DEF GivenBy, Justified
  <2>2. RunsBefore(o, p)
    <3>1. /\ ComputesValue(func, o)
          /\ \/ o[1] = p[1] /\ o[2] < p[2]
             \/ o[1] < p[1] /\ Dominates(func, o[1], p[1])
      BY <1>1, <1>3, SSAForm
    <3>2. o[1] \in Nat /\ p[1] \in Nat
      BY <2>1, Pairs, Shape
    <3> QED
      BY <3>1, <3>2 DEF RunsBefore
  <2>3. o \in DOMAIN val
    BY <2>1, <2>2 DEF RunOK
  <2>4. Agrees(val[o], Plain(K)[o].val)
    BY <2>1, <2>3 DEF RunOK, ValuesOK
  <2> QED
    BY <1>1, <1>3, <2>4 DEF ArgsOf, ArgsIn
<1> QED
  BY <1>2, <1>3

\* A good value agrees with what symex noted.
LEMMA ValueAgrees ==
    ASSUME Given, NEW K, NEW p \in Code, p \in GoodValues, NEW mem, NEW val, RunOK(K, p, mem, val), NEW from
    PROVE  Agrees(ValueAt(func, p, mem, ArgsOf(mssa.operands[p], val), from), Plain(K)[p].val)
<1>1. PICK before : before = Plain(K)[<<p[1], p[2] - 1>>].mem
  OBVIOUS
<1>2. PICK f0 : Plain(K)[p].val = ValueAt(func, p, before, ArgsIn(Plain(K), p), f0)
  BY <1>1, PlainInstruction
<1>3. ValueJustified(p, GoodValues, GoodBytes)
  BY GoodJustified DEF Justified
<1>4. CASE Ins(p).kind = "load"
  <2>1. Ins(p).bytes # {} /\ \A b \in Ins(p).bytes : <<mssa.access[p], b>> \in GoodBytes
    BY <1>3, <1>4 DEF ValueJustified
  <2>2. ASSUME NEW b \in Ins(p).bytes PROVE Agrees(mem[b], before[b])
    <3>1. before[b] = SymByte(K, InForce(p), b)
      BY <1>1, <2>1, MemoryAhead
    <3>2. b \in Bytes /\ <<InForce(p), b>> \in GoodBytes
      BY <2>1, GoodAccess, Analysed
    <3> QED
      BY <3>1, <3>2 DEF RunOK, MemoryOK
  <2>3. Agrees(ValueOf(mem, Ins(p).bytes), ValueOf(before, Ins(p).bytes))
    BY <2>2, LoadsAgree
  <2> QED
    BY <1>2, <1>4, <2>1, <2>3 DEF ValueAt, Ins
<1>5. CASE Ins(p).kind # "load"
  <2>1. Ins(p).kind \in {"op", "div"}
        /\ \A n \in DOMAIN mssa.operands[p] : GivenBy(mssa.operands[p][n], GoodValues)
    BY <1>3, <1>5 DEF ValueJustified
  <2>2. PICK x, y, D : /\ x = ArgsOf(mssa.operands[p], val) /\ y = ArgsIn(Plain(K), p)
                       /\ D = DOMAIN mssa.operands[p]
    OBVIOUS
  <2>3. x = [n \in D |-> x[n]] /\ y = [n \in D |-> y[n]]
    BY <2>2 DEF ArgsOf, ArgsIn
  <2>4. \A n \in D : Agrees(x[n], y[n])
    BY <2>1, <2>2, ArgsAgree
  <2>5. Agrees(Summed(x), Summed(y))
    BY <2>3, <2>4, SumsAgree
  <2>6. At(func, p).kind \in {"op", "div"} /\ At(func, p).kind # "load" /\ At(func, p).kind # "phi"
    BY <2>1 DEF Ins
  <2>7. /\ ValueAt(func, p, mem, x, from) = Summed(x)
        /\ Plain(K)[p].val = Summed(y)
    BY <1>2, <2>2, <2>6 DEF ValueAt
  <2> QED
    BY <2>2, <2>5, <2>7
<1> QED
  BY <1>4, <1>5

\* Behind an instruction the same values have run, and itself.
LEMMA OneMore ==
    ASSUME Given, NEW p \in Code
    PROVE  /\ Stands(Behind(p))
           /\ \A q \in Code : RunsBefore(q, Behind(p)) => RunsBefore(q, p) \/ (q = p /\ ComputesValue(func, p))
<1>1. p = <<p[1], p[2]>> /\ p[1] \in Blocks /\ p[2] \in 1 .. Size(p[1]) /\ Size(p[1]) \in Nat
  BY Pairs, Shape
<1>2. Behind(p) = <<p[1], p[2] + 1>> /\ Behind(p)[1] = p[1] /\ Behind(p)[2] = p[2] + 1
  BY DEF Behind
<1>3. Stands(Behind(p))
  <2>1. p[2] + 1 \in 1 .. Size(p[1]) + 1
    BY <1>1
  <2> QED
    BY <1>1, <1>2, <2>1 DEF Stands
<1>4. ASSUME NEW q \in Code, RunsBefore(q, Behind(p))
      PROVE  RunsBefore(q, p) \/ (q = p /\ ComputesValue(func, p))
  <2>1. q = <<q[1], q[2]>> /\ q[2] \in Nat /\ p[2] \in Nat
    BY <1>1, Pairs, Shape
  <2>2. CASE q[1] = p[1]
    <3>1. q[2] < p[2] + 1 /\ ComputesValue(func, q)
      BY <1>2, <1>4, <2>2 DEF RunsBefore
    <3>2. q[2] < p[2] \/ q[2] = p[2]
      BY <2>1, <3>1
    <3> QED
      BY <1>1, <2>1, <2>2, <3>1, <3>2 DEF RunsBefore
  <2>3. CASE q[1] # p[1]
    BY <1>2, <1>4, <2>3 DEF RunsBefore
  <2> QED
    BY <2>2, <2>3
<1> QED
  BY <1>3, <1>4

\* An instruction that computes a value.
LEMMA AfterValue ==
    ASSUME Given, NEW K, NEW p \in Code, NEW mem, NEW val, RunOK(K, p, mem, val), ~IsWrite(func, p),
           NEW v, p \in GoodValues => Agrees(v, Plain(K)[p].val),
           NEW next, next = [q \in DOMAIN val \cup {p} |-> IF q = p THEN v ELSE val[q]]
    PROVE  RunOK(K, Behind(p), mem, next)
<1>1. InForce(Behind(p)) = InForce(p)
  BY MemorySSA DEF Behind
<1>2. MemoryOK(K, Behind(p), mem)
  BY <1>1 DEF RunOK, MemoryOK
<1>3. \A q \in Code : RunsBefore(q, Behind(p)) => q \in DOMAIN next
  BY OneMore DEF RunOK
<1>4. ValuesOK(K, next)
  BY DEF RunOK, ValuesOK
<1> QED
  BY <1>2, <1>3, <1>4, OneMore DEF RunOK

\* A write through an unknown address.
LEMMA AfterUnknown ==
    ASSUME Given, NEW K, NEW p \in Code, NEW mem, NEW val, RunOK(K, p, mem, val), IsWrite(func, p), Ins(p).bytes = {},
           NEW next
    PROVE  RunOK(K, Behind(p), next, val)
<1>1. InForce(Behind(p)) = p
  BY MemorySSA DEF Behind
<1>2. p # LiveOnEntry
  BY Pairs, Shape DEF LiveOnEntry
<1>3. MemoryOK(K, Behind(p), next)
  BY <1>1, <1>2, GoodAccess DEF MemoryOK
<1>4. ~ComputesValue(func, p)
  BY DEF ComputesValue, IsWrite
<1>5. \A q \in Code : RunsBefore(q, Behind(p)) => q \in DOMAIN val
  BY <1>4, OneMore DEF RunOK
<1> QED
  BY <1>3, <1>5, OneMore DEF RunOK

\* A store to known bytes.
LEMMA AfterStore ==
    ASSUME Given, NEW K, NEW p \in Code, NEW mem, NEW val, RunOK(K, p, mem, val),
           Ins(p).kind = "store", Ins(p).bytes # {}
    PROVE  RunOK(K, Behind(p), MemoryAfter(func, p, mem, ArgsOf(mssa.operands[p], val)), val)
<1>0. IsWrite(func, p) /\ ~ComputesValue(func, p)
  BY DEF ComputesValue, IsWrite, Ins
<1>1. InForce(Behind(p)) = p
  BY <1>0, MemorySSA DEF Behind
<1>2. p # LiveOnEntry
  BY Pairs, Shape DEF LiveOnEntry
<1>3. PICK before, x, y : /\ before = Plain(K)[<<p[1], p[2] - 1>>].mem
                          /\ x = ArgsOf(mssa.operands[p], val)
                          /\ y = ArgsIn(Plain(K), p)
  OBVIOUS
<1>4. /\ MemoryAfter(func, p, mem, x) = Stored(mem, x[1], Ins(p).bytes)
      /\ Plain(K)[p].mem = Stored(before, y[1], Ins(p).bytes)
  BY <1>3, PlainInstruction DEF MemoryAfter, Ins
<1>5. ASSUME NEW b \in Bytes, <<p, b>> \in GoodBytes
      PROVE  Agrees(Stored(mem, x[1], Ins(p).bytes)[b], Stored(before, y[1], Ins(p).bytes)[b])
  <2>1. IF b \in Ins(p).bytes THEN GivenBy(mssa.operands[p][1], GoodValues)
        ELSE <<mssa.access[p], b>> \in GoodBytes
    BY <1>2, <1>5, GoodAccess
  <2>2. CASE b \in Ins(p).bytes
    <3>1. Agrees(x[1], y[1])
      BY <1>3, <2>1, <2>2, ArgsAgree, StoreOperand
    <3>2. Agrees(ByteOf(x[1], Ins(p).bytes, b), ByteOf(y[1], Ins(p).bytes, b))
      BY <3>1, BytesAgree
    <3> QED
      BY <2>2, <3>2 DEF Stored
  <2>3. CASE b \notin Ins(p).bytes
    <3>1. before[b] = SymByte(K, InForce(p), b)
      BY <1>3, <2>1, <2>3, MemoryAhead
    <3>2. <<InForce(p), b>> \in GoodBytes
      BY <2>1, <2>3, Analysed
    <3>3. Agrees(mem[b], before[b])
      BY <3>1, <3>2 DEF RunOK, MemoryOK
    <3> QED
      BY <2>3, <3>3 DEF Stored
  <2> QED
    BY <2>2, <2>3
<1>6. MemoryOK(K, Behind(p), MemoryAfter(func, p, mem, x))
  BY <1>1, <1>2, <1>4, <1>5 DEF MemoryOK, SymByte
<1>7. \A q \in Code : RunsBefore(q, Behind(p)) => q \in DOMAIN val
  BY <1>0, OneMore DEF RunOK
<1> QED
  BY <1>3, <1>6, <1>7, OneMore DEF RunOK

\* A branch.
LEMMA AfterBranch ==
    ASSUME Given, NEW K, NEW at, NEW mem, NEW val, RunOK(K, at, mem, val), at \notin Code,
           NEW k \in DOMAIN func.succ[at[1]], NEW c, c = func.succ[at[1]][k]
    PROVE  RunOK(K, <<c, 1>>, mem, val)
<1>1. at = <<at[1], at[2]>> /\ at[1] \in Blocks /\ at[2] \in 1 .. Size(at[1]) + 1 /\ Size(at[1]) \in Nat
  BY Shape DEF RunOK, Stands
<1>2. at[2] \notin 1 .. Size(at[1])
  BY <1>1, Pairs
<1>3. at[2] = Size(at[1]) + 1
  BY <1>1, <1>2
<1>4. c \in Blocks /\ Size(c) \in Nat
  BY <1>1, Shape
<1>5. Stands(<<c, 1>>)
  BY <1>4 DEF Stands
<1>6. ASSUME NEW q \in Code, RunsBefore(q, <<c, 1>>) PROVE q \in DOMAIN val
  <2>1. q[1] \in Blocks /\ q[2] \in 1 .. Size(q[1]) /\ Size(q[1]) \in Nat
    BY Pairs, Shape
  <2>2. ComputesValue(func, q) /\ q[1] # c /\ Dominates(func, q[1], c)
    BY <1>6, <2>1 DEF RunsBefore
  <2>3. Dominates(func, q[1], at[1])
    BY <1>1, <2>1, <2>2, SSAForm
  <2>4. q[1] = at[1] => q[2] < at[2]
    BY <1>3, <2>1
  <2>5. RunsBefore(q, at)
    BY <2>2, <2>3, <2>4 DEF RunsBefore
  <2> QED
    BY <2>5 DEF RunOK
<1>7. MemoryOK(K, <<c, 1>>, mem)
  <2>1. InForce(<<c, 1>>) \in {Phi(c), InForce(<<at[1], Size(at[1]) + 1>>)}
    BY <1>1, MemorySSA
  <2>2. <<at[1], Size(at[1]) + 1>> = at
    BY <1>1, <1>3
  <2>3. ASSUME NEW b \in Bytes, <<InForce(<<c, 1>>), b>> \in GoodBytes
        PROVE  Agrees(mem[b], SymByte(K, InForce(<<c, 1>>), b))
    <3>1. InForce(<<c, 1>>) = InForce(at)
      BY <1>4, <2>1, <2>2, <2>3, GoodAccess
    <3> QED
      BY <2>3, <3>1 DEF RunOK, MemoryOK
  <2> QED
    BY <2>3 DEF MemoryOK
<1> QED
  BY <1>5, <1>6, <1>7 DEF RunOK

\* The start of an execution.
LEMMA AtEntry ==
    ASSUME Given, NEW K, NEW mem, \A b \in K : mem[b] = 0
    PROVE  RunOK(K, <<1, 1>>, mem, <<>>)
<1>1. 1 \in Blocks /\ Size(1) \in Nat
  BY Shape
<1>2. Stands(<<1, 1>>)
  BY <1>1 DEF Stands
<1>3. ASSUME NEW q \in Code PROVE ~RunsBefore(q, <<1, 1>>)
  <2>1. q[1] \in Blocks /\ q[2] \in 1 .. Size(q[1]) /\ Size(q[1]) \in Nat
    BY Pairs, Shape
  <2> QED
    BY <2>1, SSAForm DEF RunsBefore
<1>4. ValuesOK(K, <<>>)
  BY DEF ValuesOK
<1>5. MemoryOK(K, <<1, 1>>, mem)
  <2>1. InForce(<<1, 1>>) \in {LiveOnEntry, Phi(1)}
    BY MemorySSA
  <2>2. ASSUME NEW b \in Bytes, <<InForce(<<1, 1>>), b>> \in GoodBytes
        PROVE  Agrees(mem[b], SymByte(K, InForce(<<1, 1>>), b))
    <3>1. InForce(<<1, 1>>) = LiveOnEntry
      BY <1>1, <2>1, <2>2, GoodAccess
    <3> QED
      BY <3>1 DEF SymByte, FirstMemory, Agrees
  <2> QED
    BY <2>2 DEF MemoryOK
<1> QED
  BY <1>2, <1>3, <1>4, <1>5 DEF RunOK

\* An execution stays in agreement with what symex noted.
LEMMA RunStep ==
    ASSUME Given, RunInv, [Next]_vars
    PROVE  RunInv'
<1>1. UNCHANGED <<func, mssa>>
  BY DEF Next, Pass, StartRoot, Enter, Descend, Backtrack, ReplaceLoads, Propagate, EraseDead, Call,
         RunInstruction, RunBranch, vars
<1>2. GoodValues' = GoodValues /\ GoodBytes' = GoodBytes /\ Code' = Code
  BY <1>1, GoodStays
<1>3. ASSUME NEW at, NEW from, NEW mem, NEW val, NEW changed,
             exec' = Running(at, from, mem, val, changed), RunOK(KnownBytes \ changed, at, mem, val)
      PROVE  RunInv'
  <2>0. PICK K : K = KnownBytes \ changed
    OBVIOUS
  <2>1. exec'.at = at /\ exec'.mem = mem /\ exec'.val = val /\ Unchanged' = K
    BY <1>3, <2>0 DEF Running, Unchanged
  <2>2. Stands(at)' /\ Stands(at)
    BY <1>1, <1>3, <2>0 DEF RunOK, Stands, Blocks, Size
  <2>3. \A q \in Code : RunsBefore(q, at)' => q \in DOMAIN val
    BY <1>1, <1>3, <2>0 DEF RunOK, RunsBefore
  <2>4. ValuesOK(K, val)'
    BY <1>1, <1>2, <1>3, <2>0 DEF RunOK, ValuesOK, Plain, Unsolved
  <2>5. MemoryOK(K, at, mem)'
    BY <1>1, <1>2, <1>3, <2>0 DEF RunOK, MemoryOK, SymByte, InForce, Plain, Unsolved
  <2>6. RunOK(K, at, mem, val)'
    BY <1>2, <2>2, <2>3, <2>4, <2>5 DEF RunOK
  <2>7. RunOK(Unchanged, exec.at, exec.mem, exec.val)'
    BY <2>1, <2>6
  <2> QED
    BY <2>7 DEF RunInv
<1>4. CASE Call
  <2>1. PICK mem \in [Bytes -> {0, 1}] :
            exec' = Running(<<1, 1>>, 0, mem, <<>>, {b \in KnownBytes : mem[b] # 0})
    BY <1>4 DEF Call
  <2>2. PICK changed : changed = {b \in KnownBytes : mem[b] # 0}
    OBVIOUS
  <2>3. \A b \in KnownBytes \ changed : mem[b] = 0
    BY <2>2
  <2>4. RunOK(KnownBytes \ changed, <<1, 1>>, mem, <<>>)
    BY <2>3, AtEntry
  <2> QED
    BY <1>3, <2>1, <2>2, <2>4
<1>5. CASE RunInstruction
  <2>1. PICK p, mem, val, from, changed : /\ p = exec.at /\ mem = exec.mem /\ val = exec.val
                                    /\ from = exec.from /\ changed = exec.changed
    OBVIOUS
  <2>0. PICK K : K = KnownBytes \ changed
    OBVIOUS
  <2>2. p \in Code /\ RunOK(K, p, mem, val)
    BY <1>5, <2>0, <2>1 DEF RunInstruction, RunInv, Unchanged
  <2>3. PICK next : next = Behind(p)
    OBVIOUS
  <2>4. CASE /\ Ins(p).kind \in {"store", "call"} /\ Ins(p).bytes = {}
             /\ \E b \in Bytes, v \in {0, 1} : exec' = Running(next, from, [mem EXCEPT ![b] = v], val, changed)
    <3>1. PICK m : exec' = Running(next, from, m, val, changed)
      BY <2>4
    <3>2. IsWrite(func, p)
      BY <2>4 DEF IsWrite, Ins
    <3>3. RunOK(K, next, m, val)
      BY <2>2, <2>3, <2>4, <3>2, AfterUnknown
    <3> QED
      BY <1>3, <2>0, <3>1, <3>3
  <2>5. CASE /\ Ins(p).kind = "store" /\ Ins(p).bytes # {}
             /\ exec' = Running(next, from, MemoryAfter(func, p, mem, ArgsOf(mssa.operands[p], val)), val,
                             changed)
    BY <1>3, <2>0, <2>2, <2>3, <2>5, AfterStore
  <2>6. CASE /\ Ins(p).kind = "load" /\ Ins(p).bytes = {}
             /\ \E v \in {0, 1} : exec' = Running(next, from, mem, Computed(v), changed)
    <3>1. PICK v : exec' = Running(next, from, mem, Computed(v), changed)
      BY <2>6
    <3>2. p \notin GoodValues
      BY <2>6, GoodJustified DEF Justified, ValueJustified
    <3>3. Computed(v) = [q \in DOMAIN val \cup {p} |-> IF q = p THEN v ELSE val[q]]
      BY <2>1 DEF Computed
    <3>4. ~IsWrite(func, p)
      BY <2>6 DEF IsWrite, Ins
    <3>5. RunOK(K, next, mem, Computed(v))
      BY <2>2, <2>3, <3>2, <3>3, <3>4, AfterValue
    <3> QED
      BY <1>3, <2>0, <3>1, <3>5
  <2>7. CASE /\ Ins(p).kind = "load" => Ins(p).bytes # {}
             /\ ComputesValue(func, p)
             /\ exec' = Running(next, from, mem,
                                Computed(ValueAt(func, p, mem, ArgsOf(mssa.operands[p], val), from)), changed)
    <3>1. PICK v : v = ValueAt(func, p, mem, ArgsOf(mssa.operands[p], val), from)
      OBVIOUS
    <3>2. p \in GoodValues => Agrees(v, Plain(K)[p].val)
      BY <2>2, <3>1, ValueAgrees
    <3>3. Computed(v) = [q \in DOMAIN val \cup {p} |-> IF q = p THEN v ELSE val[q]]
      BY <2>1 DEF Computed
    <3>4. ~IsWrite(func, p)
      BY <2>7 DEF IsWrite, ComputesValue
    <3>5. RunOK(K, next, mem, Computed(v))
      BY <2>2, <2>3, <3>2, <3>3, <3>4, AfterValue
    <3> QED
      BY <1>3, <2>0, <2>7, <3>1, <3>5
  <2> QED
    BY <1>5, <2>1, <2>3, <2>4, <2>5, <2>6, <2>7 DEF RunInstruction, Resumes, Behind
<1>6. CASE RunBranch
  <2>1. PICK at, mem, val, changed :
            at = exec.at /\ mem = exec.mem /\ val = exec.val /\ changed = exec.changed
    OBVIOUS
  <2>2. at \notin Code /\ RunOK(KnownBytes \ changed, at, mem, val)
    BY <1>6, <2>1 DEF RunBranch, RunInv, Unchanged
  <2>3. PICK k \in DOMAIN func.succ[at[1]] :
            exec' = Running(<<func.succ[at[1]][k], 1>>, at[1], mem, val, changed)
    BY <1>6, <2>1 DEF RunBranch
  <2>4. RunOK(KnownBytes \ changed, <<func.succ[at[1]][k], 1>>, mem, val)
    BY <2>2, <2>3, AfterBranch
  <2> QED
    BY <1>3, <2>3, <2>4
<1>7. CASE phase' # "run"
  BY <1>7 DEF RunInv
<1>8. CASE UNCHANGED vars
  <2>1. UNCHANGED <<exec, phase>>
    BY <1>8 DEF vars
  <2>2. SUFFICES ASSUME phase = "run" PROVE RunInv'
    BY <2>1 DEF RunInv
  <2>3. PICK K, at, mem, val : K = Unchanged /\ at = exec.at /\ mem = exec.mem /\ val = exec.val
    OBVIOUS
  <2>4. RunOK(K, at, mem, val)
    BY <2>2, <2>3 DEF RunInv
  <2>5. Stands(at)' /\ (\A q \in Code : RunsBefore(q, at)' => q \in DOMAIN val)
    BY <1>1, <2>4 DEF RunOK, Stands, Blocks, Size, RunsBefore
  <2>6. ValuesOK(K, val)'
    BY <1>1, <1>2, <2>4 DEF RunOK, ValuesOK, Plain, Unsolved
  <2>7. MemoryOK(K, at, mem)'
    BY <1>1, <1>2, <2>4 DEF RunOK, MemoryOK, SymByte, InForce, Plain, Unsolved
  <2>8. RunOK(K, at, mem, val)'
    BY <1>2, <2>5, <2>6, <2>7 DEF RunOK
  <2>9. Unchanged' = K /\ exec'.at = at /\ exec'.mem = mem /\ exec'.val = val
    BY <2>1, <2>3 DEF Unchanged
  <2> QED
    BY <2>8, <2>9 DEF RunInv
<1>9. CASE StartRoot \/ Enter \/ Descend \/ Backtrack
  <2>1. phase' # "run"
    BY <1>9 DEF StartRoot, Enter, Descend, Backtrack
  <2> QED
    BY <1>7, <2>1
<1>10. CASE ReplaceLoads \/ Propagate \/ EraseDead
  <2>1. phase' # "run"
    BY <1>10 DEF ReplaceLoads, Propagate, EraseDead
  <2> QED
    BY <1>7, <2>1
<1> QED
  BY <1>4, <1>5, <1>6, <1>8, <1>9, <1>10 DEF Next, Pass

-----------------------------------------------------------------------------
Sound == SoundVerdicts /\ ConstInv /\ RunInv

\* What the walk judges safe, what the worklist folds and what an execution computes go together.
THEOREM ReplacementSound == Spec => []Sound
<1>1. WalkInv => Given
  BY DEF WalkInv, TypeInv, Given
<1>2. Init => Sound
  BY DEF Init, Sound, SoundVerdicts, ConstInv, RunInv
<1>3. WalkInv /\ Sound /\ [Next]_vars => Sound'
  BY <1>1, VerdictStep, ConstStep, RunStep DEF Sound
<1> QED
  BY <1>2, <1>3, WalkCorrect, PTL DEF Spec

\* The constants that replace loads and fold instructions are the low 64 bits of the values these
\* have on every path, through joins and loops, from every input and whatever unknown stores write,
\* for every function, although symex noted them on one path only, unless it took them from a global
\* variable that has changed since or from a register it solved from the condition of a branch.
THEOREM ReplacedValuesAreRight == Spec => []ReplacedValuesHold
<1>1. WalkInv /\ Sound => ReplacedValuesHold
  <2> SUFFICES ASSUME WalkInv, Sound, phase = "run", NEW p \in DOMAIN exec.val \cap DOMAIN constants,
                      Noted[p].val # Symbolic
               PROVE  constants[p] = Cut(exec.val[p])
    BY DEF ReplacedValuesHold
  <2>1. Given
    BY DEF WalkInv, TypeInv, Given
  <2>2. p \in GoodValues /\ p \in DOMAIN symex /\ constants[p] = Cut(symex[p])
    BY DEF Sound, ConstInv, IsConstant
  <2>3. p \in Positions(func) /\ symex[p] = Lifted(func, KnownBytes, func.solved)[p].val
    BY <2>1, <2>2, SymexNoted, Pairs DEF Sound
  <2>4. PICK K : K = Unchanged /\ K \subseteq KnownBytes
    BY DEF Unchanged
  <2>5. Agrees(symex[p], Plain(K)[p].val)
    BY <2>1, <2>3, <2>4, MoreNoted
  <2>6. Agrees(exec.val[p], Plain(K)[p].val)
    BY <2>2, <2>4 DEF Sound, RunInv, RunOK, ValuesOK
  <2>7. Plain(K)[p].val # Symbolic
    BY <2>4 DEF Noted, Plain, Unchanged
  <2>8. symex[p] = exec.val[p]
    BY <2>5, <2>6, <2>7 DEF Agrees
  <2> QED
    BY <2>2, <2>8
<1> QED
  BY <1>1, ReplacementSound, WalkCorrect, PTL

-----------------------------------------------------------------------------
(* The worklist *)

\* A sequence turned around has the same elements.
LEMMA Reversed ==
    ASSUME NEW S, NEW s \in Seq(S)
    PROVE  Reverse(s) \in Seq(S) /\ Range(Reverse(s)) = Range(s)
<1>1. Len(s) \in Nat /\ DOMAIN s = 1 .. Len(s)
  OBVIOUS
<1>2. Reverse(s) = [i \in 1 .. Len(s) |-> s[(Len(s) - i) + 1]]
  BY DEF Reverse
<1>3. \A i \in 1 .. Len(s) : (Len(s) - i) + 1 \in 1 .. Len(s) /\ (Len(s) - ((Len(s) - i) + 1)) + 1 = i
  BY <1>1
<1>4. Reverse(s) \in [1 .. Len(s) -> S]
  BY <1>1, <1>2, <1>3
<1>5. Reverse(s) \in Seq(S)
  BY <1>1, <1>4, SequenceOf
<1>6. Range(Reverse(s)) \subseteq Range(s)
  BY <1>1, <1>2, <1>3 DEF Range
<1>7. \A i \in 1 .. Len(s) : s[i] = Reverse(s)[(Len(s) - i) + 1]
  BY <1>2, <1>3
<1>8. ASSUME NEW i \in 1 .. Len(s) PROVE s[i] \in Range(Reverse(s))
  <2>1. PICK j \in 1 .. Len(s) : s[i] = Reverse(s)[j]
    BY <1>3, <1>7
  <2>2. DOMAIN Reverse(s) = 1 .. Len(s)
    BY <1>2
  <2> QED
    BY <2>1, <2>2 DEF Range
<1> QED
  BY <1>1, <1>5, <1>6, <1>8 DEF Range

Uses(q, p) == \E n \in DOMAIN mssa.operands[q] : mssa.operands[q][n] = p

\* The use lists.
LEMMA UsersAre ==
    ASSUME Given, NEW p \in Code
    PROVE  /\ mssa.users[p] \in Seq(Code)
           /\ \A q \in Code : Uses(q, p) => q \in Range(mssa.users[p])
<1> DEFINE T == {q \in InstructionsOf(func) : Contains(Operands(func, q), p)}
<1>1. mssa.users[p] = Reverse(Among(func, T))
  BY DEF Given, Analyses, UsersOf, Code
<1>2. T \in SUBSET Code
  BY DEF Code
<1>3. ASSUME NEW q \in Code, Uses(q, p) PROVE q \in T
  <2>1. mssa.operands[q] = Operands(func, q) /\ DOMAIN mssa.operands[q] = DOMAIN Ins(q).args
    BY Analysed
  <2>2. Ins(q).args \in Seq(Nat)
    BY Pairs DEF Instructions
  <2>3. PICK n \in Nat : DOMAIN Ins(q).args = 1 .. n
    BY <2>2
  <2>4. PICK o : o = Operands(func, q)
    OBVIOUS
  <2>5. o \in [1 .. n -> Range(o)]
    BY <2>1, <2>3, <2>4 DEF Operands, Range, Ins
  <2>6. Len(o) = n
    BY <2>5, SequenceOf
  <2>7. \E i \in 1 .. Len(o) : o[i] = p
    BY <1>3, <2>1, <2>3, <2>4, <2>6 DEF Uses
  <2> QED
    BY <2>4, <2>7 DEF Contains, Code
<1> HIDE DEF T
<1>4. Among(func, T) \in Seq(Code) /\ \A x : x \in Range(Among(func, T)) <=> x \in T
  BY <1>2, AmongThem
<1> QED
  BY <1>1, <1>3, <1>4, Reversed

-----------------------------------------------------------------------------
(* Nothing that can be folded is forgotten *)

\* p can be folded, and an operand of it was replaced
Ready(p) == Foldable(p) /\ \E q \in DOMAIN constants : Uses(p, q)

FoldInv ==
    /\ worklist \in Seq(Code) /\ dead_values \in Seq(Code) /\ dead_loads \in Seq(Code)
    /\ queued \subseteq Range(worklist)
    /\ phase = "memory" => dead_values = <<>>
    /\ phase = "memory" \/ Range(dead_values) \cup Range(dead_loads) = DOMAIN constants
    /\ phase = "fold" => \A p \in Code : Ready(p) => p \in Range(worklist)
    /\ phase \in {"erase", "run"} => (\A p \in Code : ~Ready(p)) /\ erased = DOMAIN constants

\* A list that loses its head.
LEMMA RangeTail ==
    ASSUME NEW S, NEW s \in Seq(S), s # <<>>
    PROVE  /\ Head(s) \in S /\ Tail(s) \in Seq(S)
           /\ \A x \in Range(s) : x = Head(s) \/ x \in Range(Tail(s))
<1>1. /\ Len(s) \in Nat /\ Len(s) # 0 /\ DOMAIN s = 1 .. Len(s) /\ Head(s) = s[1] /\ s[1] \in S
      /\ Tail(s) \in Seq(S) /\ DOMAIN Tail(s) = 1 .. Len(s) - 1
      /\ \A k \in 1 .. Len(s) - 1 : Tail(s)[k] = s[k + 1]
  OBVIOUS
<1>2. ASSUME NEW k \in DOMAIN s, k # 1 PROVE s[k] \in Range(Tail(s))
  <2>1. k - 1 \in 1 .. Len(s) - 1 /\ (k - 1) + 1 = k
    BY <1>1, <1>2
  <2>2. s[k] = Tail(s)[k - 1] /\ k - 1 \in DOMAIN Tail(s)
    BY <1>1, <2>1
  <2> QED
    BY <2>2 DEF Range
<1> QED
  BY <1>1, <1>2 DEF Range

\* A list with one more element.
LEMMA RangeAppend ==
    ASSUME NEW S, NEW s \in Seq(S), NEW x \in S
    PROVE  Append(s, x) \in Seq(S) /\ \A y : y \in Range(Append(s, x)) <=> y \in Range(s) \/ y = x
<1>1. PICK t : t = <<x>>
  OBVIOUS
<1>2. t \in Seq(S) /\ \A y : y \in Range(t) <=> y = x
  BY <1>1, OneOrNone
<1>3. Append(s, x) = s \o t
  BY <1>1
<1>4. s \o t \in Seq(S) /\ Range(s \o t) = Range(s) \cup Range(t)
  BY <1>2, RangeJoined
<1> QED
  BY <1>2, <1>3, <1>4, Zenon

\* Two ways to say that x is in a sequence.
LEMMA ContainsRange ==
    ASSUME NEW S, NEW s \in Seq(S), NEW x
    PROVE  Contains(s, x) <=> x \in Range(s)
BY DEF Contains, Range

\* An instruction that becomes ready does so by the new constant.
LEMMA ReadyBefore ==
    ASSUME Given, UNCHANGED <<func, mssa, symex>>, NEW p, NEW q \in Code, Ready(q)', ~Uses(q, p),
           DOMAIN constants' \subseteq DOMAIN constants \cup {p}, Contains(dead_values, q) => Contains(dead_values', q)
    PROVE  Ready(q)
<1>1. Foldable(q)' /\ \E r \in DOMAIN constants' : Uses(q, r)'
  BY DEF Ready
<1>2. Uses(q, p)' = Uses(q, p) /\ \A r : Uses(q, r)' = Uses(q, r)
  BY DEF Uses
<1>3. \E r \in DOMAIN constants : Uses(q, r)
  BY <1>1, <1>2
<1>4. \A n \in DOMAIN mssa.operands[q] : mssa.operands[q][n] # p
  BY DEF Uses
<1>5. has_only_defined_constant_operands(q)
  BY <1>1, <1>4 DEF Foldable, is_ssa_fold_candidate, has_only_defined_constant_operands
<1>6. is_ssa_fold_candidate(q) /\ symex[q] # Symbolic
  BY <1>1, <1>5 DEF Foldable, is_ssa_fold_candidate, Ins
<1>7. ~Contains(dead_values, q)
  BY <1>1 DEF Foldable
<1> QED
  BY <1>3, <1>6, <1>7 DEF Ready, Foldable

\* The replaced loads seed the worklist with all their users.
LEMMA ReplaceStep ==
    ASSUME Given, FoldInv, ReplaceLoads
    PROVE  FoldInv'
<1>1. /\ phase' = "fold" /\ UNCHANGED <<func, mssa, symex, dead_values>>
      /\ dead_loads' = Among(func, Replaceable) /\ DOMAIN constants' = Replaceable
      /\ queued' = Range(worklist') /\ phase = "memory"
  BY DEF ReplaceLoads
<1>2. dead_values = <<>> /\ Replaceable \in SUBSET Code
  BY <1>1 DEF FoldInv, Replaceable
<1>3. dead_loads' \in Seq(Code) /\ \A x : x \in Range(dead_loads') <=> x \in Replaceable
  BY <1>1, <1>2, AmongThem
<1>4. PICK l : l = dead_loads'
  OBVIOUS
<1>5. PICK ss : ss = [k \in DOMAIN l |-> mssa.users[l[k]]]
  OBVIOUS
<1>6. worklist' = Fresh(FlattenSeq(ss), {})
  BY <1>4, <1>5 DEF ReplaceLoads
<1>7. l \in Seq(Code) /\ Len(l) \in Nat /\ DOMAIN l = 1 .. Len(l) /\ \A k \in 1 .. Len(l) : l[k] \in Code
  BY <1>3, <1>4
<1>8. ss \in [1 .. Len(l) -> Seq(Code)]
  BY <1>5, <1>7, UsersAre
<1>9. /\ FlattenSeq(ss) \in Seq(Code)
      /\ \A x : x \in Range(FlattenSeq(ss)) <=> \E k \in 1 .. Len(l) : x \in Range(ss[k])
  BY <1>7, <1>8, Flattened
<1>10. worklist' \in Seq(Code) /\ \A x \in Range(FlattenSeq(ss)) : x \in Range(worklist')
  BY <1>6, <1>9, FreshAre
<1>11. ASSUME NEW q \in Code, Ready(q)' PROVE q \in Range(worklist')
  <2>1. PICK r \in Replaceable : Uses(q, r)
    BY <1>1, <1>11 DEF Ready, Uses
  <2>2. PICK k \in 1 .. Len(l) : l[k] = r
    BY <1>3, <1>4, <1>7 DEF Range
  <2>3. ss[k] = mssa.users[r] /\ r \in Code
    BY <1>2, <1>5, <1>7, <2>2
  <2>4. q \in Range(ss[k])
    BY <2>1, <2>3, UsersAre
  <2> QED
    BY <1>9, <1>10, <2>4
<1>12. Code' = Code
  BY <1>1 DEF Code
<1>13. Range(dead_values') \cup Range(dead_loads') = DOMAIN constants'
  <2>1. Range(dead_values') = {}
    BY <1>1, <1>2 DEF Range
  <2> QED
    BY <1>1, <1>3, <2>1
<1> QED
  BY <1>1, <1>2, <1>3, <1>10, <1>11, <1>12, <1>13 DEF FoldInv

\* A round takes one instruction and enqueues the users of what it folds.
LEMMA PropagateStep ==
    ASSUME Given, ConstInv, FoldInv, Propagate
    PROVE  FoldInv'
<1>1. PICK p, w, new :
          /\ p = Head(worklist) /\ w = queued \ {p}
          /\ new = Fresh(IF Foldable(p) THEN mssa.users[p] ELSE <<>>, w \cup Range(dead_values'))
  OBVIOUS
<1>2. /\ phase = "fold" /\ phase' = "fold" /\ worklist # <<>>
      /\ dead_values' = IF Foldable(p) THEN Append(dead_values, p) ELSE dead_values
      /\ constants' = IF Foldable(p) THEN WithConstant(p) ELSE constants
      /\ worklist' = Tail(worklist) \o new
      /\ queued' = w \cup Range(new)
      /\ UNCHANGED <<func, mssa, symex, dead_loads>>
  BY <1>1 DEF Propagate
<1>3. /\ worklist \in Seq(Code) /\ dead_values \in Seq(Code) /\ dead_loads \in Seq(Code)
      /\ queued \subseteq Range(worklist)
      /\ Range(dead_values) \cup Range(dead_loads) = DOMAIN constants
      /\ \A q \in Code : Ready(q) => q \in Range(worklist)
  BY <1>2 DEF FoldInv
<1>4. /\ p \in Code /\ Tail(worklist) \in Seq(Code)
      /\ \A x \in Range(worklist) : x = p \/ x \in Range(Tail(worklist))
  BY <1>1, <1>2, <1>3, RangeTail
<1>5. mssa.users[p] \in Seq(Code) /\ <<>> \in Seq(Code)
  BY <1>4, UsersAre
<1>6. /\ new \in Seq(Code)
      /\ Foldable(p) => \A x \in Range(mssa.users[p]) : x \in w \cup Range(dead_values') \/ x \in Range(new)
  <2>1. CASE Foldable(p)
    BY <1>1, <1>5, <2>1, FreshAre
  <2>2. CASE ~Foldable(p)
    BY <1>1, <1>5, <2>2, FreshAre
  <2> QED
    BY <2>1, <2>2
<1>7. worklist' \in Seq(Code) /\ Range(worklist') = Range(Tail(worklist)) \cup Range(new)
  <2>1. PICK t : t = Tail(worklist)
    OBVIOUS
  <2>2. t \in Seq(Code) /\ new \in Seq(Code)
    BY <1>4, <1>6, <2>1
  <2>3. t \o new \in Seq(Code) /\ Range(t \o new) = Range(t) \cup Range(new)
    BY <2>2, RangeJoined
  <2> QED
    BY <1>2, <2>1, <2>3, Zenon
<1>8. queued' \subseteq Range(worklist')
  BY <1>1, <1>2, <1>3, <1>4, <1>7
<1>9. /\ dead_values' \in Seq(Code)
      /\ \A x : x \in Range(dead_values') <=> x \in Range(dead_values) \/ (Foldable(p) /\ x = p)
  <2>1. CASE Foldable(p)
    BY <1>2, <1>3, <1>4, <2>1, RangeAppend
  <2>2. CASE ~Foldable(p)
    BY <1>2, <1>3, <2>2
  <2> QED
    BY <2>1, <2>2
<1>10. \A x : x \in DOMAIN constants' <=> x \in DOMAIN constants \/ (Foldable(p) /\ x = p)
  BY <1>2 DEF WithConstant
<1>11. Range(dead_values') \cup Range(dead_loads') = DOMAIN constants'
  BY <1>2, <1>3, <1>9, <1>10
<1>12. \A x : Contains(dead_values, x) => Contains(dead_values', x)
  BY <1>3, <1>9, ContainsRange
<1>13. ASSUME NEW q \in Code, Ready(q)' PROVE q \in Range(worklist')
  <2>1. ~Contains(dead_values', q)
    BY <1>13 DEF Ready, Foldable
  <2>2. q \notin Range(dead_values')
    BY <1>9, <2>1, ContainsRange
  <2>3. CASE Foldable(p) /\ Uses(q, p)
    <3>1. q \in Range(mssa.users[p]) /\ q # p
      BY <1>4, <1>9, <2>2, <2>3, UsersAre
    <3>2. q \in w \/ q \in Range(new)
      BY <1>6, <2>2, <2>3, <3>1
    <3> QED
      BY <1>1, <1>3, <1>4, <1>7, <3>1, <3>2
  <2>4. CASE Foldable(p) /\ ~Uses(q, p)
    <3>1. Ready(q)
      BY <1>2, <1>10, <1>12, <1>13, <2>4, ReadyBefore
    <3>2. q # p
      BY <1>9, <2>2, <2>4
    <3> QED
      BY <1>3, <1>4, <1>7, <3>1, <3>2
  <2>5. CASE ~Foldable(p)
    <3>1. constants' = constants /\ dead_values' = dead_values
      BY <1>2, <2>5
    <3>2. Ready(q)
      BY <1>2, <1>13, <3>1 DEF Ready, Foldable, is_ssa_fold_candidate, has_only_defined_constant_operands,
                               Uses, Ins
    <3>3. q # p
      BY <2>5, <3>2 DEF Ready
    <3> QED
      BY <1>3, <1>4, <1>7, <3>2, <3>3
  <2> QED
    BY <2>3, <2>4, <2>5
<1>14. Code' = Code
  BY <1>2 DEF Code
<1> QED
  BY <1>2, <1>3, <1>7, <1>8, <1>9, <1>11, <1>13, <1>14 DEF FoldInv

\* The worklist is empty when the dead instructions are erased.
LEMMA EraseStep ==
    ASSUME Given, FoldInv, EraseDead
    PROVE  FoldInv'
<1>1. /\ phase = "fold" /\ phase' = "erase" /\ worklist = <<>>
      /\ erased' = {p \in Range(dead_values) \cup Range(dead_loads) : UseEmpty(p)}
      /\ UNCHANGED <<func, mssa, symex, constants, dead_loads, worklist, queued, dead_values>>
  BY DEF EraseDead, foldVars
<1>2. /\ worklist \in Seq(Code) /\ dead_values \in Seq(Code) /\ dead_loads \in Seq(Code)
      /\ queued \subseteq Range(worklist)
      /\ Range(dead_values) \cup Range(dead_loads) = DOMAIN constants
      /\ \A q \in Code : Ready(q) => q \in Range(worklist)
  BY <1>1 DEF FoldInv
<1>3. Range(worklist) = {}
  BY <1>1 DEF Range
<1>4. \A q \in Code : ~Ready(q)
  BY <1>2, <1>3
<1>5. \A q : Ready(q)' = Ready(q)
  BY <1>1 DEF Ready, Foldable, is_ssa_fold_candidate, has_only_defined_constant_operands, Uses, Ins
<1>6. erased' = DOMAIN constants
  BY <1>1, <1>2 DEF UseEmpty
<1>7. Code' = Code
  BY <1>1 DEF Code
<1> QED
  BY <1>1, <1>2, <1>4, <1>5, <1>6, <1>7 DEF FoldInv

\* Steps that leave the replaced values alone.
LEMMA FoldUntouched ==
    ASSUME FoldInv, UNCHANGED <<func, mssa, symex, constants, dead_loads, worklist, queued, dead_values, erased>>,
           phase' = phase \/ (phase = "erase" /\ phase' = "run")
    PROVE  FoldInv'
<1>1. \A q : Ready(q)' = Ready(q)
  BY DEF Ready, Foldable, is_ssa_fold_candidate, has_only_defined_constant_operands, Uses, Ins
<1>2. Code' = Code
  BY DEF Code
<1> QED
  BY <1>1, <1>2 DEF FoldInv

\* The worklist never loses an instruction that can be folded.
THEOREM FoldCorrect == Spec => []FoldInv
<1>1. Init => FoldInv
  BY DEF Init, FoldInv
<1>2. WalkInv /\ Sound /\ FoldInv /\ [Next]_vars => FoldInv'
  <2> SUFFICES ASSUME WalkInv, Sound, FoldInv, [Next]_vars PROVE FoldInv'
    OBVIOUS
  <2>1. Given /\ ConstInv
    BY DEF WalkInv, TypeInv, Given, Sound
  <2>2. CASE ReplaceLoads
    BY <2>1, <2>2, ReplaceStep
  <2>3. CASE Propagate
    BY <2>1, <2>3, PropagateStep
  <2>4. CASE EraseDead
    BY <2>1, <2>4, EraseStep
  <2>5. CASE StartRoot \/ Enter \/ Descend \/ Backtrack
    BY <2>5, FoldUntouched DEF StartRoot, Enter, Descend, Backtrack, foldVars
  <2>6. CASE Call \/ RunInstruction \/ RunBranch
    BY <2>6, FoldUntouched DEF Call, RunInstruction, RunBranch, foldVars, walkVars
  <2>7. CASE UNCHANGED vars
    BY <2>7, FoldUntouched DEF vars, foldVars
  <2> QED
    BY <2>2, <2>3, <2>4, <2>5, <2>6, <2>7 DEF Next, Pass
<1> QED
  BY <1>1, <1>2, WalkCorrect, ReplacementSound, PTL DEF Spec

\* When the pass is done, every instruction that has become a candidate because an operand of it was
\* replaced is folded and erased, in whatever order the worklist met its operands, for every function.
THEOREM NothingLeftToFold == Spec => []FoldingComplete
<1>1. WalkInv /\ FoldInv => FoldingComplete
  <2> SUFFICES ASSUME WalkInv, FoldInv, phase \in {"erase", "run"}, NEW p \in Code,
                      is_ssa_fold_candidate(p), symex[p] # Symbolic,
                      Range(mssa.operands[p]) \cap DOMAIN constants # {}
               PROVE  p \in erased
    BY DEF FoldingComplete
  <2>1. \E q \in DOMAIN constants : Uses(p, q)
    BY DEF Uses, Range
  <2>2. /\ ~Ready(p) /\ erased = DOMAIN constants /\ dead_values \in Seq(Code)
        /\ Range(dead_values) \cup Range(dead_loads) = DOMAIN constants
    BY DEF FoldInv
  <2>3. Contains(dead_values, p)
    BY <2>1, <2>2 DEF Ready, Foldable
  <2> QED
    BY <2>2, <2>3, ContainsRange
<1> QED
  BY <1>1, FoldCorrect, WalkCorrect, PTL

-----------------------------------------------------------------------------
(* The order in which the roots are found *)

\* x occurs in s ahead of place j
Ahead(x, s, j) == \E i \in 1 .. j - 1 : s[i] = x

\* what is at place j of s comes from one of the first n sequences of ss, and
\* the sequences before that one are ahead of it
InOrder(s, ss, n) ==
    \A j \in 1 .. Len(s) : \E k \in 1 .. n :
        /\ s[j] \in Range(ss[k])
        /\ \A i \in 1 .. k - 1 : \A x \in Range(ss[i]) : Ahead(x, s, j)

\* Joining another sequence keeps the order.
LEMMA JoinedInOrder ==
    ASSUME NEW S, NEW n \in Nat, NEW ss, NEW s \in Seq(S), ss[n + 1] \in Seq(S),
           InOrder(s, ss, n), \A k \in 1 .. n : \A x \in Range(ss[k]) : x \in Range(s)
    PROVE  InOrder(s \o ss[n + 1], ss, n + 1)
<1>1. PICK t \in Seq(S) : t = ss[n + 1]
  OBVIOUS
<1>2. PICK u : u = s \o t
  OBVIOUS
<1>3. /\ Len(s) \in Nat /\ Len(t) \in Nat /\ Len(u) = Len(s) + Len(t)
      /\ DOMAIN s = 1 .. Len(s) /\ DOMAIN t = 1 .. Len(t)
      /\ \A k \in 1 .. Len(s) : u[k] = s[k]
      /\ \A k \in 1 .. Len(t) : u[Len(s) + k] = t[k]
  BY <1>2
<1>4. ASSUME NEW j \in 1 .. Len(u)
      PROVE  \E k \in 1 .. n + 1 : /\ u[j] \in Range(ss[k])
                                   /\ \A i \in 1 .. k - 1 : \A x \in Range(ss[i]) : Ahead(x, u, j)
  <2>1. CASE j <= Len(s)
    <3>1. j \in 1 .. Len(s) /\ u[j] = s[j]
      BY <1>3, <2>1
    <3>2. PICK k \in 1 .. n : /\ s[j] \in Range(ss[k])
                              /\ \A i \in 1 .. k - 1 : \A x \in Range(ss[i]) : Ahead(x, s, j)
      BY <3>1 DEF InOrder
    <3>3. ASSUME NEW x, Ahead(x, s, j) PROVE Ahead(x, u, j)
      <4>1. PICK i \in 1 .. j - 1 : s[i] = x
        BY <3>3 DEF Ahead
      <4>2. i \in 1 .. Len(s)
        BY <1>3, <3>1
      <4>3. u[i] = x
        BY <1>3, <4>1, <4>2
      <4> QED
        BY <4>1, <4>3 DEF Ahead
    <3>4. k \in 1 .. n + 1
      OBVIOUS
    <3> QED
      BY <3>1, <3>2, <3>3, <3>4
  <2>2. CASE ~(j <= Len(s))
    <3>1. j - Len(s) \in 1 .. Len(t) /\ Len(s) + (j - Len(s)) = j
      BY <1>3, <2>2
    <3>2. u[j] = t[j - Len(s)]
      BY <1>3, <3>1
    <3>3. u[j] \in Range(ss[n + 1])
      BY <1>1, <1>3, <3>1, <3>2 DEF Range
    <3>4. ASSUME NEW i \in 1 .. n, NEW x \in Range(ss[i]) PROVE Ahead(x, u, j)
      <4>1. PICK l \in 1 .. Len(s) : s[l] = x
        BY <1>3, <3>4 DEF Range
      <4>2. l \in 1 .. j - 1 /\ u[l] = x
        BY <1>3, <2>2, <4>1
      <4> QED
        BY <4>2 DEF Ahead
    <3>5. n + 1 \in 1 .. n + 1 /\ (n + 1) - 1 = n
      OBVIOUS
    <3> QED
      BY <3>3, <3>4, <3>5
  <2> QED
    BY <2>1, <2>2
<1> QED
  BY <1>1, <1>2, <1>4 DEF InOrder

\* The flattened sequence keeps the order of the sequences.
LEMMA FlattenedInOrder ==
    ASSUME NEW S, NEW n \in Nat, NEW ss \in [1 .. n -> Seq(S)]
    PROVE  InOrder(FlattenSeq(ss), ss, n)
<1>1. Len(ss) = n /\ ss \in Seq(Seq(S))
  OBVIOUS
<1>2. CASE n = 0
  <2>1. FlattenSeq(ss) = <<>>
    BY <1>1, <1>2 DEF FlattenSeq
  <2>2. Len(<<>>) = 0 /\ \A j \in 1 .. 0 : FALSE
    OBVIOUS
  <2> QED
    BY <2>1, <2>2 DEF InOrder
<1>3. CASE n # 0
  <2>1. PICK f : f = CHOOSE g : g = [i \in 1 .. n |-> IF i = 1 THEN ss[i] ELSE g[i - 1] \o ss[i]]
    OBVIOUS
  <2>2. FlattenSeq(ss) = f[n]
    BY <1>1, <1>3, <2>1 DEF FlattenSeq
  <2>3. f = CHOOSE g : Joining(ss, g, n)
    BY <2>1 DEF Joining
  <2>4. Joining(ss, f, n)
    BY <2>3, JoiningExists
  <2>5. \A i \in 1 .. n : f[i] = IF i = 1 THEN ss[i] ELSE f[i - 1] \o ss[i]
    BY <2>4 DEF Joining
  <2> DEFINE Joined(i) == /\ f[i] \in Seq(S)
                          /\ \A k \in 1 .. i : \A x \in Range(ss[k]) : x \in Range(f[i])
                          /\ InOrder(f[i], ss, i)
             T == {m \in Nat : m + 1 \in 1 .. n => Joined(m + 1)}
  <2>6. 0 \in T
    <3>1. f[1] = ss[1] /\ ss[1] \in Seq(S)
      BY <1>3, <2>5
    <3>2. (\A k \in 1 .. 1 : k = 1) /\ 1 \in 1 .. 1 /\ \A i \in 1 .. 1 - 1 : FALSE
      OBVIOUS
    <3>3. \A j \in 1 .. Len(f[1]) : f[1][j] \in Range(ss[1])
      BY <3>1 DEF Range
    <3>4. InOrder(f[1], ss, 1)
      BY <3>2, <3>3 DEF InOrder
    <3>5. Joined(1)
      BY <3>1, <3>2, <3>4
    <3> QED
      BY <3>5
  <2>7. ASSUME NEW m \in Nat, m \in T PROVE m + 1 \in T
    <3> SUFFICES ASSUME (m + 1) + 1 \in 1 .. n PROVE Joined((m + 1) + 1)
      OBVIOUS
    <3>1. PICK i : i = m + 1
      OBVIOUS
    <3>2. i \in 1 .. n /\ i + 1 \in 1 .. n /\ i + 1 # 1 /\ (i + 1) - 1 = i /\ i \in Nat
      BY <3>1
    <3>3. f[i + 1] = f[i] \o ss[i + 1] /\ ss[i + 1] \in Seq(S)
      BY <2>5, <3>2
    <3>4. Joined(i)
      BY <2>7, <3>1, <3>2
    <3>5. f[i + 1] \in Seq(S) /\ Range(f[i + 1]) = Range(f[i]) \cup Range(ss[i + 1])
      BY <3>3, <3>4, RangeJoined
    <3>6. \A k : k \in 1 .. i + 1 <=> k \in 1 .. i \/ k = i + 1
      BY <3>2
    <3>7. InOrder(f[i + 1], ss, i + 1)
      BY <3>2, <3>3, <3>4, JoinedInOrder
    <3>8. Joined(i + 1)
      BY <3>4, <3>5, <3>6, <3>7
    <3> QED
      BY <3>1, <3>8
  <2>8. \A m \in Nat : m \in T
    <3> HIDE DEF T
    <3> QED
      BY <2>6, <2>7, AllNumbers
  <2>9. n - 1 \in Nat /\ (n - 1) + 1 = n /\ n \in 1 .. n
    BY <1>3
  <2>10. Joined(n)
    BY <2>8, <2>9
  <2> QED
    BY <2>2, <2>10
<1> QED
  BY <1>2, <1>3

\* Blocks are laid out in the order of their numbers.
LEMMA LayoutInOrder ==
    ASSUME Given, NEW j \in 1 .. Len(Layout(func)), NEW p \in Code, p[1] < Layout(func)[j][1]
    PROVE  Ahead(p, Layout(func), j)
<1>1. PICK B \in Nat : Blocks = 1 .. B
  BY Shape
<1>2. PICK ss : ss = [b \in Blocks |-> [i \in DOMAIN func.code[b] |-> <<b, i>>]]
  OBVIOUS
<1>3. Layout(func) = FlattenSeq(ss)
  BY <1>2 DEF Layout, BlocksOf, Blocks
<1>4. ASSUME NEW b \in Blocks
      PROVE  /\ ss[b] \in Seq(Code)
             /\ \A x : x \in Range(ss[b]) <=> \E i \in 1 .. Size(b) : x = <<b, i>>
  <2>1. ss[b] = [i \in 1 .. Size(b) |-> <<b, i>>] /\ Size(b) \in Nat
    BY <1>2, Shape
  <2>2. \A i \in 1 .. Size(b) : <<b, i>> \in Code
    BY Pairs
  <2>3. ss[b] \in [1 .. Size(b) -> Code]
    BY <2>1, <2>2
  <2>4. ss[b] \in Seq(Code)
    BY <2>1, <2>3, SequenceOf
  <2> QED
    BY <2>1, <2>4 DEF Range
<1>5. ss \in [1 .. B -> Seq(Code)]
  BY <1>1, <1>2, <1>4
<1>6. InOrder(FlattenSeq(ss), ss, B)
  BY <1>5, FlattenedInOrder
<1>7. PICK s : s = Layout(func)
  OBVIOUS
<1>8. PICK k \in 1 .. B : /\ s[j] \in Range(ss[k])
                          /\ \A i \in 1 .. k - 1 : \A x \in Range(ss[i]) : Ahead(x, s, j)
  BY <1>3, <1>6, <1>7 DEF InOrder
<1>9. s[j][1] = k
  BY <1>1, <1>4, <1>8
<1>10. p = <<p[1], p[2]>> /\ p[1] \in Blocks /\ p[2] \in 1 .. Size(p[1])
  BY Pairs
<1>11. p \in Range(ss[p[1]])
  BY <1>4, <1>10
<1>12. p[1] \in 1 .. k - 1
  BY <1>1, <1>7, <1>9, <1>10
<1> QED
  BY <1>7, <1>8, <1>11, <1>12

\* So are instructions that are picked.
LEMMA AmongInOrder ==
    ASSUME Given, NEW T \in SUBSET Code, NEW j \in 1 .. Len(Among(func, T)), NEW p \in T,
           p[1] < Among(func, T)[j][1]
    PROVE  Ahead(p, Among(func, T), j)
<1>1. PICK c : c = Layout(func)
  OBVIOUS
<1>2. c \in Seq(Code) /\ (\A x : x \in Range(c) <=> x \in Code) /\ DOMAIN c = 1 .. Len(c) /\ Len(c) \in Nat
  BY <1>1, LayoutIsCode
<1>3. PICK ss : ss = [k \in DOMAIN c |-> IF c[k] \in T THEN <<c[k]>> ELSE <<>>]
  OBVIOUS
<1>4. PICK s : s = Among(func, T)
  OBVIOUS
<1>5. s = FlattenSeq(ss)
  BY <1>1, <1>3, <1>4 DEF Among
<1>6. \A k \in 1 .. Len(c) : c[k] \in Code
  BY <1>2
<1>7. ASSUME NEW k \in 1 .. Len(c)
      PROVE  ss[k] \in Seq(Code) /\ \A x : x \in Range(ss[k]) <=> x = c[k] /\ x \in T
  <2>1. ss[k] = IF c[k] \in T THEN <<c[k]>> ELSE <<>>
    BY <1>2, <1>3
  <2> QED
    BY <1>6, <2>1, OneOrNone
<1>8. ss \in [1 .. Len(c) -> Seq(Code)]
  BY <1>2, <1>3, <1>7
<1>9. InOrder(FlattenSeq(ss), ss, Len(c))
  BY <1>2, <1>8, FlattenedInOrder
<1>10. PICK k \in 1 .. Len(c) : /\ s[j] \in Range(ss[k])
                                /\ \A i \in 1 .. k - 1 : \A x \in Range(ss[i]) : Ahead(x, s, j)
  BY <1>4, <1>5, <1>9 DEF InOrder
<1>11. s[j] = c[k]
  BY <1>7, <1>10
<1>12. Ahead(p, c, k)
  BY <1>1, <1>4, <1>10, <1>11, LayoutInOrder
<1>13. PICK i \in 1 .. k - 1 : c[i] = p
  BY <1>12 DEF Ahead
<1>14. i \in 1 .. Len(c)
  BY <1>2, <1>10, <1>13
<1>15. p \in Range(ss[i])
  BY <1>7, <1>13, <1>14
<1> QED
  BY <1>4, <1>10, <1>13, <1>15

\* What is listed for the first time keeps its order, too.
LEMMA FreshInOrder ==
    ASSUME NEW S, NEW news \in Seq(S), NEW j \in 1 .. Len(Fresh(news, {}))
    PROVE  \E k \in 1 .. Len(news) :
               /\ Fresh(news, {})[j] = news[k]
               /\ \A i \in 1 .. k - 1 : Ahead(news[i], Fresh(news, {}), j)
<1>1. Len(news) \in Nat /\ DOMAIN news = 1 .. Len(news) /\ \A k \in 1 .. Len(news) : news[k] \in S
  OBVIOUS
<1>2. PICK ss : ss = [k \in DOMAIN news |->
                         IF news[k] \in {} \/ \E i \in 1 .. k - 1 : news[i] = news[k]
                         THEN <<>> ELSE <<news[k]>>]
  OBVIOUS
<1>3. PICK s : s = Fresh(news, {})
  OBVIOUS
<1>4. s = FlattenSeq(ss)
  BY <1>2, <1>3 DEF Fresh
<1>5. ASSUME NEW k \in 1 .. Len(news)
      PROVE  /\ ss[k] \in Seq(S)
             /\ \A x \in Range(ss[k]) : x = news[k]
             /\ ~(\E i \in 1 .. k - 1 : news[i] = news[k]) => news[k] \in Range(ss[k])
  <2>1. ss[k] = IF \E i \in 1 .. k - 1 : news[i] = news[k] THEN <<>> ELSE <<news[k]>>
    BY <1>1, <1>2
  <2> QED
    BY <1>1, <2>1, OneOrNone
<1>6. ss \in [1 .. Len(news) -> Seq(S)]
  BY <1>1, <1>2, <1>5
<1>7. InOrder(FlattenSeq(ss), ss, Len(news))
  BY <1>1, <1>6, FlattenedInOrder
<1>8. PICK k \in 1 .. Len(news) : /\ s[j] \in Range(ss[k])
                                  /\ \A i \in 1 .. k - 1 : \A x \in Range(ss[i]) : Ahead(x, s, j)
  BY <1>3, <1>4, <1>7 DEF InOrder
<1>9. ASSUME NEW i \in 1 .. k - 1 PROVE Ahead(news[i], s, j)
  <2> DEFINE K == {l \in 1 .. Len(news) : news[l] = news[i]}
  <2>1. i \in K /\ K \in SUBSET Nat
    BY <1>1, <1>8, <1>9
  <2>2. PICK l \in K : \A o \in K : l <= o
    BY <2>1, LeastNumber
  <2>3. l \in 1 .. Len(news) /\ news[l] = news[i] /\ l <= i
    BY <2>1, <2>2
  <2>4. \A o \in 1 .. l - 1 : o \in 1 .. Len(news) /\ ~(l <= o)
    BY <1>1, <2>3
  <2>5. ~(\E o \in 1 .. l - 1 : news[o] = news[l])
    BY <2>2, <2>3, <2>4
  <2>6. news[l] \in Range(ss[l])
    BY <1>5, <2>3, <2>5
  <2>7. l \in 1 .. k - 1
    BY <1>9, <2>3
  <2>8. Ahead(news[l], s, j)
    BY <1>8, <2>6, <2>7
  <2> QED
    BY <2>3, <2>8
<1> QED
  BY <1>3, <1>5, <1>8, <1>9

\* The places in a sequence that is made of two.
LEMMA JoinedPlaces ==
    ASSUME NEW S, NEW s \in Seq(S), NEW t \in Seq(S)
    PROVE  /\ Len(s) \in Nat /\ Len(t) \in Nat /\ DOMAIN s = 1 .. Len(s) /\ DOMAIN t = 1 .. Len(t)
           /\ Len(s \o t) = Len(s) + Len(t)
           /\ \A k \in DOMAIN s : (s \o t)[k] = s[k]
           /\ \A k \in DOMAIN t : (s \o t)[Len(s) + k] = t[k]
OBVIOUS

\* A sequence with one more element ahead of it.
LEMMA OneAhead ==
    ASSUME NEW S, NEW e \in Seq(S), Len(e) = 1, NEW t \in Seq(S)
    PROVE  /\ Len(t) \in Nat /\ DOMAIN t = 1 .. Len(t)
           /\ Len(e \o t) = Len(t) + 1 /\ (e \o t)[1] = e[1]
           /\ \A i \in 1 .. Len(t) : (e \o t)[i + 1] = t[i]
<1>1. PICK u : u = e \o t
  OBVIOUS
<1>2. /\ Len(e) \in Nat /\ Len(t) \in Nat /\ DOMAIN e = 1 .. Len(e) /\ DOMAIN t = 1 .. Len(t)
      /\ Len(u) = Len(e) + Len(t)
      /\ \A k \in DOMAIN e : u[k] = e[k]
      /\ \A k \in DOMAIN t : u[Len(e) + k] = t[k]
  BY <1>1, JoinedPlaces
<1>3. Len(u) = Len(t) + 1 /\ 1 \in DOMAIN e
  BY <1>2
<1>4. ASSUME NEW i \in 1 .. Len(t) PROVE u[i + 1] = t[i]
  <2>1. u[Len(e) + i] = t[i] /\ Len(e) + i = i + 1
    BY <1>2
  <2> QED
    BY <2>1
<1> QED
  BY <1>1, <1>2, <1>3, <1>4

Touching(p) == IsWrite(func, p) \/ Ins(p).kind = "load"

\* Every phi that something sees is a root, and comes ahead of the roots that are only seen in later blocks.
LEMMA RootsInOrder ==
    ASSUME Given
    PROVE  /\ Len(mssa.roots) \in Nat /\ Len(mssa.roots) >= 1
           /\ mssa.roots[1] = LiveOnEntry
           /\ \A p \in Code : Touching(p) /\ IsPhi(mssa.access[p]) =>
                  \E j \in 1 .. Len(mssa.roots) : mssa.roots[j] = mssa.access[p]
           /\ \A j \in 2 .. Len(mssa.roots) :
                  \E q \in Code : /\ mssa.roots[j] = mssa.access[q] /\ IsPhi(mssa.access[q])
                                  /\ \A p \in Code : Touching(p) /\ IsPhi(mssa.access[p]) /\ p[1] < q[1]
                                         => Ahead(mssa.access[p], mssa.roots, j)
<1> DEFINE access == DefiningAccess(func)
           P == {p \in {q \in InstructionsOf(func) : IsWrite(func, q) \/ At(func, q).kind = "load"} :
                     IsPhi(access[p])}
<1>1. mssa.access = access /\ mssa.roots = RootsOf(func, access)
  BY DEF Given, Analyses
<1>2. PICK b : b = Among(func, P)
  OBVIOUS
<1>3. PICK s : s = [k \in DOMAIN b |-> access[b[k]]]
  OBVIOUS
<1>4. PICK t : t = Fresh(s, {})
  OBVIOUS
<1>5. mssa.roots = <<LiveOnEntry>> \o t
  BY <1>1, <1>2, <1>3, <1>4 DEF RootsOf
<1>6. P \in SUBSET Code /\ \A p \in Code : p \in P <=> Touching(p) /\ IsPhi(mssa.access[p])
  BY <1>1 DEF Code, Touching, Ins
<1> HIDE DEF P
<1>7. b \in Seq(Code) /\ \A x : x \in Range(b) <=> x \in P
  BY <1>2, <1>6, AmongThem
<1>8. Len(b) \in Nat /\ DOMAIN b = 1 .. Len(b) /\ \A k \in 1 .. Len(b) : b[k] \in P
  BY <1>7 DEF Range
<1>9. s = [k \in 1 .. Len(b) |-> mssa.access[b[k]]]
  BY <1>1, <1>3, <1>8
<1>10. PICK M : M = {mssa.access[p] : p \in P}
  OBVIOUS
<1>11. s \in [1 .. Len(b) -> M]
  BY <1>8, <1>9, <1>10
<1>12. s \in Seq(M) /\ Len(s) = Len(b)
  BY <1>8, <1>11, SequenceOf
<1>13. t \in Seq(M) /\ \A x \in Range(s) : x \in Range(t)
  BY <1>4, <1>12, FreshAre
<1>14. /\ Len(t) \in Nat /\ DOMAIN t = 1 .. Len(t) /\ Len(mssa.roots) = Len(t) + 1
       /\ mssa.roots[1] = LiveOnEntry /\ \A i \in 1 .. Len(t) : mssa.roots[i + 1] = t[i]
  <2>1. PICK e : e = <<LiveOnEntry>>
    OBVIOUS
  <2>2. e \in Seq({LiveOnEntry}) /\ Len(e) = 1 /\ e[1] = LiveOnEntry
    BY <2>1
  <2>3. PICK N : N = M \cup {LiveOnEntry}
    OBVIOUS
  <2>4. e \in Seq(N) /\ t \in Seq(N)
    BY <1>13, <2>2, <2>3
  <2>5. /\ Len(t) \in Nat /\ DOMAIN t = 1 .. Len(t) /\ Len(e \o t) = Len(t) + 1 /\ (e \o t)[1] = e[1]
        /\ \A i \in 1 .. Len(t) : (e \o t)[i + 1] = t[i]
    BY <2>2, <2>4, OneAhead
  <2>7. mssa.roots = e \o t
    BY <1>5, <2>1, Zenon
  <2>8. PICK u : u = e \o t
    OBVIOUS
  <2> QED
    BY <2>2, <2>5, <2>7, <2>8
<1>15. ASSUME NEW p \in Code, Touching(p), IsPhi(mssa.access[p])
       PROVE  \E j \in 1 .. Len(mssa.roots) : mssa.roots[j] = mssa.access[p]
  <2>1. p \in Range(b)
    BY <1>6, <1>7, <1>15
  <2>2. PICK k \in 1 .. Len(b) : b[k] = p
    BY <1>8, <2>1 DEF Range
  <2>3. mssa.access[p] \in Range(s)
    BY <1>9, <2>2 DEF Range
  <2>4. PICK i \in 1 .. Len(t) : t[i] = mssa.access[p]
    BY <1>13, <1>14, <2>3 DEF Range
  <2>5. i + 1 \in 1 .. Len(mssa.roots) /\ mssa.roots[i + 1] = mssa.access[p]
    BY <1>14, <2>4
  <2> QED
    BY <2>5
<1>16. ASSUME NEW j \in 2 .. Len(mssa.roots)
       PROVE  \E q \in Code : /\ mssa.roots[j] = mssa.access[q] /\ IsPhi(mssa.access[q])
                              /\ \A p \in Code : Touching(p) /\ IsPhi(mssa.access[p]) /\ p[1] < q[1]
                                     => Ahead(mssa.access[p], mssa.roots, j)
  <2>1. PICK i : i = j - 1
    OBVIOUS
  <2>2. i \in 1 .. Len(t) /\ i + 1 = j /\ mssa.roots[j] = t[i]
    BY <1>14, <2>1
  <2>3. PICK k \in 1 .. Len(s) : t[i] = s[k] /\ \A l \in 1 .. k - 1 : Ahead(s[l], t, i)
    BY <1>4, <1>12, <2>2, FreshInOrder
  <2>4. PICK q : q = b[k]
    OBVIOUS
  <2>5. q \in P /\ q \in Code /\ s[k] = mssa.access[q] /\ k \in 1 .. Len(b)
    BY <1>6, <1>8, <1>9, <1>12, <2>3, <2>4
  <2>6. ASSUME NEW p \in Code, Touching(p), IsPhi(mssa.access[p]), p[1] < q[1]
        PROVE  Ahead(mssa.access[p], mssa.roots, j)
    <3>1. p \in P
      BY <1>6, <2>6
    <3>2. Ahead(p, b, k)
      BY <1>2, <1>6, <2>4, <2>5, <2>6, <3>1, AmongInOrder
    <3>3. PICK l \in 1 .. k - 1 : b[l] = p
      BY <3>2 DEF Ahead
    <3>4. l \in 1 .. Len(b)
      BY <1>8, <2>5, <3>3
    <3>5. s[l] = mssa.access[p]
      BY <1>9, <3>3, <3>4
    <3>6. Ahead(mssa.access[p], t, i)
      BY <2>3, <3>3, <3>5
    <3>7. PICK o \in 1 .. i - 1 : t[o] = mssa.access[p]
      BY <3>6 DEF Ahead
    <3>8. o \in 1 .. Len(t) /\ o + 1 \in 1 .. j - 1
      BY <1>14, <2>2, <3>7, SMTT(30)
    <3>9. mssa.roots[o + 1] = mssa.access[p]
      BY <1>14, <3>7, <3>8
    <3> QED
      BY <3>8, <3>9 DEF Ahead
  <2>7. IsPhi(mssa.access[q])
    BY <1>6, <2>5
  <2> QED
    BY <2>2, <2>3, <2>5, <2>6, <2>7
<1> QED
  BY <1>14, <1>15, <1>16

-----------------------------------------------------------------------------
(* The path that lifted a position, and the definitions above an access *)

\* where the path that lifted position x came from
Prev(x) == IF x[2] = 0 THEN End(LiftedFrom(func, x[1])) ELSE <<x[1], x[2] - 1>>

First == <<1, 0>>

\* with a position, all of its path
Backward(S) == \A x \in S : x # First => Prev(x) \in S

\* position q is on the path that lifted d
Leads(q, d) == \A S \in SUBSET Positions(func) : d \in S /\ Backward(S) => q \in S

\* A path has a step before each but the first.
LEMMA PrevEarlier ==
    ASSUME Given, NEW x \in Positions(func), x # First
    PROVE  Prev(x) \in Positions(func) /\ Earlier(Prev(x), x)
<1>1. x = <<x[1], x[2]>>
  BY Pairs
<1>2. CASE x[2] = 0
  <2>1. x[1] # 1
    BY <1>1, <1>2 DEF First
  <2> QED
    BY <1>2, <2>1, EndEarlier DEF Prev
<1>3. CASE x[2] # 0
  BY <1>3, Starts DEF Prev
<1> QED
  BY <1>2, <1>3

\* Paths are closed, and can be put together.
LEMMA LeadsOn ==
    ASSUME Given, NEW d \in Positions(func)
    PROVE  /\ Leads(d, d)
           /\ d # First => \A q : Leads(q, Prev(d)) => Leads(q, d)
           /\ \A p, q : Leads(p, d) /\ Leads(q, p) => Leads(q, d)
           /\ \A q : Leads(q, d) => q \in Positions(func)
<1>1. Leads(d, d)
  BY DEF Leads
<1>2. ASSUME d # First, NEW q, Leads(q, Prev(d)) PROVE Leads(q, d)
  BY <1>2 DEF Leads, Backward
<1>3. ASSUME NEW p, NEW q, Leads(p, d), Leads(q, p) PROVE Leads(q, d)
  BY <1>3 DEF Leads
<1>4. ASSUME NEW q, Leads(q, d) PROVE q \in Positions(func)
  <2>1. Backward(Positions(func))
    BY PrevEarlier DEF Backward
  <2> QED
    BY <1>4, <2>1 DEF Leads
<1> QED
  BY <1>1, <1>2, <1>3, <1>4

\* The last step of a path.
LEMMA LeadsBack ==
    ASSUME Given, NEW d \in Positions(func), NEW q, Leads(q, d), q # d
    PROVE  d # First /\ Leads(q, Prev(d))
<1>1. CASE d = First
  <2>1. {d} \in SUBSET Positions(func) /\ Backward({d})
    BY <1>1 DEF Backward
  <2> QED
    BY <2>1 DEF Leads
<1>2. CASE d # First
  <2> DEFINE S == {d} \cup {x \in Positions(func) : Leads(x, Prev(d))}
  <2>1. Prev(d) \in Positions(func)
    BY <1>2, PrevEarlier
  <2>2. Leads(Prev(d), Prev(d))
    BY <2>1, LeadsOn
  <2>3. ASSUME NEW x \in Positions(func), Leads(x, Prev(d)), x # First
        PROVE  Prev(x) \in Positions(func) /\ Leads(Prev(x), Prev(d))
    <3>1. Prev(x) \in Positions(func)
      BY <2>3, PrevEarlier
    <3>2. Leads(Prev(x), x)
      BY <2>3, <3>1, LeadsOn
    <3> QED
      BY <2>1, <2>3, <3>1, <3>2, LeadsOn
  <2>4. Backward(S)
    BY <2>1, <2>2, <2>3 DEF Backward
  <2>5. S \in SUBSET Positions(func) /\ d \in S
    OBVIOUS
  <2>6. q \in S
    BY <2>4, <2>5 DEF Leads
  <2> QED
    BY <1>2, <2>6
<1> QED
  BY <1>1, <1>2

\* A path goes through earlier blocks.
LEMMA LeadsEarlier ==
    ASSUME Given, NEW d \in Positions(func), NEW q, Leads(q, d)
    PROVE  q = d \/ Earlier(q, d)
<1> DEFINE S == {x \in Positions(func) : x = d \/ Earlier(x, d)}
<1>1. ASSUME NEW x \in Positions(func), x = d \/ Earlier(x, d), x # First
      PROVE  Prev(x) \in Positions(func) /\ Earlier(Prev(x), d)
  <2>1. PICK y : y = Prev(x)
    OBVIOUS
  <2>2. y \in Positions(func) /\ Earlier(y, x)
    BY <1>1, <2>1, PrevEarlier
  <2>3. \A z \in Positions(func) : z[1] \in Nat /\ z[2] \in Nat
    BY Pairs, Shape
  <2>4. y[1] \in Nat /\ y[2] \in Nat /\ x[1] \in Nat /\ x[2] \in Nat /\ d[1] \in Nat /\ d[2] \in Nat
    BY <2>2, <2>3
  <2>5. Earlier(y, d)
    BY <1>1, <2>2, <2>4 DEF Earlier
  <2> QED
    BY <2>1, <2>2, <2>5
<1>2. Backward(S) /\ d \in S /\ S \in SUBSET Positions(func)
  BY <1>1 DEF Backward
<1>3. q \in S
  <2> HIDE DEF S
  <2> QED
    BY <1>2 DEF Leads
<1> QED
  BY <1>3

\* What runs before a position on every path is on the path that lifted it.
LEMMA DominatorsLead ==
    ASSUME Given, NEW o \in Code
    PROVE  \A d \in Positions(func) :
               \/ o[1] = d[1] /\ o[2] <= d[2]
               \/ o[1] # d[1] /\ Dominates(func, o[1], d[1])
               => Leads(o, d)
<1> DEFINE Dom(d) == \/ o[1] = d[1] /\ o[2] <= d[2]
                     \/ o[1] # d[1] /\ Dominates(func, o[1], d[1])
           S == {d \in Positions(func) : Dom(d) => Leads(o, d)}
<1>0. o = <<o[1], o[2]>> /\ o[1] \in Blocks /\ o[2] \in 1 .. Size(o[1]) /\ Size(o[1]) \in Nat
  BY Pairs, Shape
<1>1. ASSUME NEW d \in Positions(func), \A q \in Positions(func) : Earlier(q, d) => q \in S, Dom(d)
      PROVE  Leads(o, d)
  <2>1. d = <<d[1], d[2]>> /\ d[1] \in Blocks /\ d[2] \in 0 .. Size(d[1]) /\ Size(d[1]) \in Nat
    BY Pairs, Shape
  <2>2. CASE d = o
    BY <2>2, LeadsOn
  <2>3. CASE d # o /\ d[2] # 0
    <3>1. d # First /\ Prev(d) = <<d[1], d[2] - 1>>
      BY <2>1, <2>3 DEF First, Prev
    <3>2. Prev(d)[1] = d[1] /\ Prev(d)[2] = d[2] - 1
      BY <3>1
    <3>3. o[1] = d[1] => o[2] # d[2]
      BY <1>0, <2>1, <2>3
    <3>4. Dom(Prev(d))
      BY <1>0, <1>1, <2>1, <3>2, <3>3
    <3>5. Prev(d) \in S
      BY <1>1, <3>1, PrevEarlier
    <3>6. Leads(o, Prev(d))
      BY <3>4, <3>5
    <3> QED
      BY <3>1, <3>6, LeadsOn
  <2>4. CASE d[2] = 0
    <3>1. ~(o[1] = d[1] /\ o[2] <= d[2])
      BY <1>0, <2>4
    <3>2. o[1] # d[1] /\ Dominates(func, o[1], d[1])
      BY <1>1, <3>1
    <3>3. d[1] # 1
      <4>1. 1 \in Blocks
        BY Shape
      <4> QED
        BY <1>0, <3>2, SSAForm
    <3>4. PICK a : a = LiftedFrom(func, d[1])
      OBVIOUS
    <3>5. PICK k \in DOMAIN func.succ[a] : a \in Blocks /\ func.succ[a][k] = d[1]
      BY <2>1, <3>3, <3>4, LiftingOrder
    <3>6. Dominates(func, o[1], a)
      BY <1>0, <3>2, <3>5, SSAForm
    <3>7. d # First /\ Prev(d) = <<a, Size(a)>>
      BY <2>1, <2>4, <3>3, <3>4 DEF First, Prev, End
    <3>8. Prev(d)[1] = a /\ Prev(d)[2] = Size(a)
      BY <3>7
    <3>9. Dom(Prev(d))
      BY <1>0, <3>6, <3>8
    <3>10. Prev(d) \in S
      BY <1>1, <3>7, PrevEarlier
    <3>11. Leads(o, Prev(d))
      BY <3>9, <3>10
    <3> QED
      BY <3>7, <3>11, LeadsOn
  <2> QED
    BY <2>2, <2>3, <2>4
<1>2. \A d \in Positions(func) : d \in S
  <2>1. \A d \in Positions(func) :
            (\A q \in Positions(func) : Earlier(q, d) => q \in S) => d \in S
    BY <1>1
  <2> HIDE DEF S
  <2> QED
    BY <2>1, AllPositions
<1> QED
  BY <1>2

\* So the operands of an instruction are.
LEMMA OperandsLead ==
    ASSUME Given, NEW p \in Code, NEW n \in DOMAIN mssa.operands[p], mssa.operands[p][n] # Constant
    PROVE  LET o == mssa.operands[p][n] IN o \in Code /\ Leads(o, Prev(p)) /\ Leads(o, p)
<1>1. PICK o : o = mssa.operands[p][n]
  OBVIOUS
<1>2. /\ o \in Code
      /\ \/ o[1] = p[1] /\ o[2] < p[2]
         \/ o[1] < p[1] /\ Dominates(func, o[1], p[1])
  BY <1>1, SSAForm
<1>3. p \in Positions(func) /\ p[1] \in Nat /\ p[2] \in Nat /\ o[1] \in Nat /\ o[2] \in Nat
  BY <1>2, Pairs, Shape
<1>4. Leads(o, p)
  BY <1>2, <1>3, DominatorsLead
<1>5. o # p
  BY <1>2, <1>3
<1> QED
  BY <1>1, <1>2, <1>3, <1>4, <1>5, LeadsBack

\* the access in force behind a position
Mem(x) == InForce(Behind(x))

\* How the access in force changes along a path.
LEMMA MemSteps ==
    ASSUME Given
    PROVE  /\ \A p \in Code : /\ p # First /\ Prev(p) \in Positions(func) /\ mssa.access[p] = Mem(Prev(p))
                              /\ Mem(p) = IF IsWrite(func, p) THEN p ELSE mssa.access[p]
           /\ \A x \in Positions(func) : x[2] = 0 =>
                  IF x = First THEN Mem(x) \in {LiveOnEntry, Phi(1)} ELSE Mem(x) \in {Phi(x[1]), Mem(Prev(x))}
<1>1. ASSUME NEW p \in Code
      PROVE  /\ p # First /\ Prev(p) \in Positions(func) /\ mssa.access[p] = Mem(Prev(p))
             /\ Mem(p) = IF IsWrite(func, p) THEN p ELSE mssa.access[p]
  <2>1. p = <<p[1], p[2]>> /\ p[2] # 0 /\ p[2] \in Nat /\ p \in Positions(func)
    BY Pairs, Shape
  <2>2. Prev(p) = <<p[1], p[2] - 1>> /\ p # First
    BY <2>1 DEF Prev, First
  <2>3. Behind(Prev(p)) = p
    BY <2>1, <2>2 DEF Behind
  <2>4. Mem(p) = IF IsWrite(func, p) THEN p ELSE InForce(p)
    BY MemorySSA DEF Mem, Behind
  <2> QED
    BY <2>1, <2>2, <2>3, <2>4, Analysed, PrevEarlier DEF Mem
<1>2. ASSUME NEW x \in Positions(func), x[2] = 0
      PROVE  IF x = First THEN Mem(x) \in {LiveOnEntry, Phi(1)} ELSE Mem(x) \in {Phi(x[1]), Mem(Prev(x))}
  <2>1. x = <<x[1], x[2]>> /\ x[1] \in Blocks
    BY Pairs
  <2>2. Behind(x) = <<x[1], 1>>
    BY <1>2 DEF Behind
  <2>3. CASE x = First
    <3>1. Behind(x) = <<1, 1>>
      BY <2>2, <2>3 DEF First
    <3> QED
      BY <2>3, <3>1, MemorySSA DEF Mem
  <2>4. CASE x # First
    <3>1. x[1] # 1
      BY <1>2, <2>1, <2>4 DEF First
    <3>2. PICK a : a = LiftedFrom(func, x[1])
      OBVIOUS
    <3>3. PICK k \in DOMAIN func.succ[a] : a \in Blocks /\ func.succ[a][k] = x[1]
      BY <2>1, <3>1, <3>2, LiftingOrder
    <3>4. InForce(<<x[1], 1>>) \in {Phi(x[1]), InForce(<<a, Size(a) + 1>>)}
      BY <3>3, MemorySSA
    <3>5. Prev(x) = <<a, Size(a)>>
      BY <1>2, <3>2 DEF Prev, End
    <3>6. Behind(Prev(x)) = <<a, Size(a) + 1>>
      BY <3>5 DEF Behind
    <3> QED
      BY <2>2, <2>4, <3>4, <3>6 DEF Mem
  <2> QED
    BY <2>3, <2>4
<1> QED
  BY <1>1, <1>2

\* A start or an instruction.
LEMMA StartOrCode ==
    ASSUME Given, NEW x \in Positions(func)
    PROVE  x[2] = 0 \/ x \in Code
BY Starts

\* The access in force is a phi of an earlier block or a write on the path.
LEMMA MemLeads ==
    ASSUME Given
    PROVE  \A x \in Positions(func) :
               \/ Mem(x) = LiveOnEntry
               \/ \E b \in Blocks : Mem(x) = Phi(b) /\ b <= x[1]
               \/ Mem(x) \in Code /\ IsWrite(func, Mem(x)) /\ Leads(Mem(x), x)
<1> DEFINE Good(x) == \/ Mem(x) = LiveOnEntry
                      \/ \E b \in Blocks : Mem(x) = Phi(b) /\ b <= x[1]
                      \/ Mem(x) \in Code /\ IsWrite(func, Mem(x)) /\ Leads(Mem(x), x)
           S == {x \in Positions(func) : Good(x)}
<1>1. ASSUME NEW x \in Positions(func), \A q \in Positions(func) : Earlier(q, x) => q \in S
      PROVE  Good(x)
  <2>1. x = <<x[1], x[2]>> /\ x[1] \in Blocks /\ x[1] \in Nat
    BY Pairs, Shape
  <2>2. CASE x = First
    <3>1. Mem(x) \in {LiveOnEntry, Phi(1)} /\ x[1] = 1
      BY <2>2, MemSteps DEF First
    <3> QED
      BY <2>1, <3>1
  <2>3. ASSUME x # First, Mem(x) = Mem(Prev(x)) PROVE Good(x)
    <3>1. Prev(x) \in Positions(func) /\ Earlier(Prev(x), x)
      BY <2>3, PrevEarlier
    <3>2. Good(Prev(x))
      BY <1>1, <3>1
    <3>3. Prev(x)[1] <= x[1] /\ Prev(x)[1] \in Nat /\ \A b \in Blocks : b \in Nat
      BY <2>1, <3>1, Pairs, Shape DEF Earlier
    <3>4. CASE Mem(Prev(x)) = LiveOnEntry
      BY <2>3, <3>4
    <3>5. ASSUME NEW b \in Blocks, Mem(Prev(x)) = Phi(b), b <= Prev(x)[1] PROVE Good(x)
      <4>1. b <= x[1]
        BY <2>1, <3>3, <3>5
      <4> QED
        BY <2>3, <3>5, <4>1
    <3>6. CASE Mem(Prev(x)) \in Code /\ IsWrite(func, Mem(Prev(x))) /\ Leads(Mem(Prev(x)), Prev(x))
      BY <2>3, <3>6, LeadsOn
    <3> QED
      BY <3>2, <3>4, <3>5, <3>6
  <2>4. CASE x # First /\ x[2] = 0
    <3>1. Mem(x) = Phi(x[1]) \/ Mem(x) = Mem(Prev(x))
      BY <2>4, MemSteps
    <3>2. CASE Mem(x) = Phi(x[1])
      BY <2>1, <3>2
    <3> QED
      BY <2>3, <2>4, <3>1, <3>2
  <2>5. CASE x \in Code
    <3>1. x # First /\ Mem(x) = IF IsWrite(func, x) THEN x ELSE Mem(Prev(x))
      BY <2>5, MemSteps
    <3>2. CASE IsWrite(func, x)
      BY <2>5, <3>1, <3>2, LeadsOn
    <3>3. CASE ~IsWrite(func, x)
      BY <2>3, <3>1, <3>3
    <3> QED
      BY <3>2, <3>3
  <2> QED
    BY <2>2, <2>4, <2>5, StartOrCode
<1>2. \A x \in Positions(func) : x \in S
  <2>1. \A x \in Positions(func) :
            (\A q \in Positions(func) : Earlier(q, x) => q \in S) => x \in S
    BY <1>1
  <2> HIDE DEF S
  <2> QED
    BY <2>1, AllPositions
<1> QED
  BY <1>2

-----------------------------------------------------------------------------
(* The tree of definitions *)

Universe == {LiveOnEntry} \cup Positions(func)

\* with a write, what defines it
Upwards(S) == \A y \in S : y \in Code /\ IsWrite(func, y) => mssa.access[y] \in S

\* access x is m or above it in the tree of definitions
Above(x, m) == \A S \in SUBSET Universe : m \in S /\ Upwards(S) => x \in S

\* Accesses are in the universe, and whatever defines a write is one.
LEMMA InUniverse ==
    ASSUME Given
    PROVE  /\ \A m : IsAccess(m) => m \in Universe
           /\ \A p \in Code : mssa.access[p] \in Universe
           /\ Upwards(Universe)
<1>1. ASSUME NEW b \in Blocks PROVE Phi(b) \in Universe
  <2>1. 0 \in 0 .. Size(b)
    BY Shape
  <2> QED
    BY <2>1, Pairs DEF Phi, Universe
<1>2. ASSUME NEW m, IsAccess(m) PROVE m \in Universe
  BY <1>1, <1>2, Pairs DEF IsAccess, Universe
<1> QED
  BY <1>2, AccessSeen DEF Upwards

\* The ways up.
LEMMA AboveOn ==
    ASSUME Given, NEW m \in Universe
    PROVE  /\ Above(m, m)
           /\ m \in Code /\ IsWrite(func, m) => \A x : Above(x, mssa.access[m]) => Above(x, m)
           /\ \A x, y : Above(y, m) /\ Above(x, y) => Above(x, m)
           /\ \A x : Above(x, m) => x \in Universe
<1>1. Above(m, m)
  BY DEF Above
<1>2. ASSUME m \in Code, IsWrite(func, m), NEW x, Above(x, mssa.access[m]) PROVE Above(x, m)
  BY <1>2 DEF Above, Upwards
<1>3. ASSUME NEW y, NEW x, Above(y, m), Above(x, y) PROVE Above(x, m)
  BY <1>3 DEF Above
<1>4. ASSUME NEW x, Above(x, m) PROVE x \in Universe
  BY <1>4, InUniverse DEF Above
<1> QED
  BY <1>1, <1>2, <1>3, <1>4

\* The last step down.
LEMMA AboveChild ==
    ASSUME Given, NEW m \in Universe, NEW x, Above(x, m), x # m
    PROVE  \E w \in Code : IsWrite(func, w) /\ mssa.access[w] = x /\ Above(w, m)
<1> SUFFICES ASSUME \A w \in Code : IsWrite(func, w) /\ Above(w, m) => mssa.access[w] # x
             PROVE  FALSE
  OBVIOUS
<1> DEFINE S == {y \in Universe : Above(y, m) /\ y # x}
<1>1. m \in S /\ S \in SUBSET Universe
  BY AboveOn
<1>2. ASSUME NEW y \in S, y \in Code, IsWrite(func, y) PROVE mssa.access[y] \in S
  <2>1. mssa.access[y] \in Universe
    BY <1>2, InUniverse
  <2>2. Above(mssa.access[y], mssa.access[y])
    BY <2>1, AboveOn
  <2>3. Above(mssa.access[y], y)
    BY <1>2, <2>2, AboveOn
  <2>4. Above(mssa.access[y], m)
    BY <1>2, <2>3, AboveOn
  <2> QED
    BY <1>2, <2>1, <2>4
<1>3. Upwards(S)
  BY <1>2 DEF Upwards
<1> HIDE DEF S
<1>4. x \in S
  BY <1>1, <1>3 DEF Above
<1> QED
  BY <1>4 DEF S

\* What was in force on the path to a position is above what is in force there, or a later
\* block began a tree of its own.
LEMMA PathAbove ==
    ASSUME Given, NEW q \in Positions(func)
    PROVE  \A d \in Positions(func) : Leads(q, d) =>
               \/ Above(Mem(q), Mem(d))
               \/ \E b \in Blocks : q[1] < b /\ Above(Phi(b), Mem(d))
<1> DEFINE Seen(d) == \/ Above(Mem(q), Mem(d))
                      \/ \E b \in Blocks : q[1] < b /\ Above(Phi(b), Mem(d))
           S == {d \in Positions(func) : Leads(q, d) => Seen(d)}
<1>0. \A x \in Positions(func) : Mem(x) \in Universe
  BY AccessesInForce, InUniverse DEF Mem
<1>1. ASSUME NEW d \in Positions(func), \A x \in Positions(func) : Earlier(x, d) => x \in S, Leads(q, d)
      PROVE  Seen(d)
  <2>1. CASE q = d
    BY <1>0, <2>1, AboveOn
  <2>2. CASE q # d
    <3>1. d # First /\ Leads(q, Prev(d))
      BY <1>1, <2>2, LeadsBack
    <3>2. Prev(d) \in Positions(func) /\ Earlier(Prev(d), d)
      BY <3>1, PrevEarlier
    <3>3. Seen(Prev(d))
      BY <1>1, <3>1, <3>2
    <3>4. CASE Mem(d) = Mem(Prev(d))
      BY <3>3, <3>4
    <3>5. CASE d \in Code /\ IsWrite(func, d)
      <4>1. Mem(d) = d /\ mssa.access[d] = Mem(Prev(d))
        BY <3>5, MemSteps
      <4>2. \A x : Above(x, Mem(Prev(d))) => Above(x, Mem(d))
        BY <1>0, <3>5, <4>1, AboveOn
      <4> QED
        BY <3>3, <4>2
    <3>6. CASE d[2] = 0 /\ Mem(d) = Phi(d[1])
      <4>1. d = <<d[1], d[2]>> /\ d[1] \in Blocks
        BY Pairs
      <4>2. Prev(d) = End(LiftedFrom(func, d[1])) /\ d[1] # 1
        BY <3>1, <3>6, <4>1 DEF Prev, First
      <4>3. Prev(d)[1] < d[1]
        BY <4>1, <4>2, LiftingOrder DEF End
      <4>4. q = Prev(d) \/ Earlier(q, Prev(d))
        BY <3>1, <3>2, LeadsEarlier
      <4>5. q[1] \in Nat /\ Prev(d)[1] \in Nat /\ d[1] \in Nat
        BY <3>2, Pairs, Shape
      <4>6. q[1] < d[1]
        BY <4>3, <4>4, <4>5 DEF Earlier
      <4>7. Above(Phi(d[1]), Mem(d))
        BY <1>0, <3>6, AboveOn
      <4> QED
        BY <4>1, <4>6, <4>7
    <3> QED
      BY <3>1, <3>4, <3>5, <3>6, StartOrCode, MemSteps
  <2> QED
    BY <2>1, <2>2
<1>2. \A d \in Positions(func) : d \in S
  <2>1. \A d \in Positions(func) :
            (\A x \in Positions(func) : Earlier(x, d) => x \in S) => d \in S
    BY <1>1
  <2> HIDE DEF S
  <2> QED
    BY <2>1, AllPositions
<1> QED
  BY <1>2

\* Whatever an instruction sees hangs on a root that is seen in its block or before.
LEMMA RootAbove ==
    ASSUME Given
    PROVE  \A p \in Positions(func) : p \in Code /\ Touching(p) =>
               \E q \in Code : /\ Touching(q) /\ q[1] <= p[1] /\ Above(mssa.access[q], mssa.access[p])
                               /\ mssa.access[q] = LiveOnEntry \/ IsPhi(mssa.access[q])
<1> DEFINE Hangs(p) == \E q \in Code : /\ Touching(q) /\ q[1] <= p[1] /\ Above(mssa.access[q], mssa.access[p])
                                       /\ mssa.access[q] = LiveOnEntry \/ IsPhi(mssa.access[q])
           S == {p \in Positions(func) : p \in Code /\ Touching(p) => Hangs(p)}
<1>1. ASSUME NEW p \in Positions(func), \A x \in Positions(func) : Earlier(x, p) => x \in S,
             p \in Code, Touching(p)
      PROVE  Hangs(p)
  <2>1. p[1] \in Nat /\ mssa.access[p] \in Universe
    BY <1>1, Pairs, Shape, InUniverse
  <2>2. p # First /\ Prev(p) \in Positions(func) /\ mssa.access[p] = Mem(Prev(p))
    BY <1>1, MemSteps
  <2>3. Earlier(Prev(p), p)
    BY <2>2, PrevEarlier
  <2>4. Above(mssa.access[p], mssa.access[p]) /\ p[1] <= p[1]
    BY <2>1, AboveOn
  <2>5. CASE mssa.access[p] = LiveOnEntry
    BY <1>1, <2>4, <2>5
  <2>6. CASE \E b \in Blocks : mssa.access[p] = Phi(b)
    <3>1. PICK b \in Blocks : mssa.access[p] = Phi(b)
      BY <2>6
    <3>2. b >= 1
      BY Shape
    <3>3. IsPhi(mssa.access[p])
      BY <3>1, <3>2 DEF IsPhi, Phi, LiveOnEntry
    <3> QED
      BY <1>1, <2>4, <3>3
  <2>7. CASE mssa.access[p] \in Code /\ IsWrite(func, mssa.access[p]) /\ Leads(mssa.access[p], Prev(p))
    <3>1. PICK w \in Code : w = mssa.access[p]
      BY <2>7
    <3>2. w = Prev(p) \/ Earlier(w, Prev(p))
      BY <2>2, <2>7, <3>1, LeadsEarlier
    <3>3. w \in Positions(func) /\ w[1] \in Nat /\ w[2] \in Nat /\ p[2] \in Nat
          /\ Prev(p)[1] \in Nat /\ Prev(p)[2] \in Nat
      BY <1>1, <2>2, Pairs, Shape
    <3>4. Earlier(w, p) /\ w[1] <= p[1]
      BY <2>1, <2>3, <3>2, <3>3 DEF Earlier
    <3>5. Touching(w)
      BY <2>7, <3>1 DEF Touching
    <3>6. PICK q \in Code : /\ Touching(q) /\ q[1] <= w[1] /\ Above(mssa.access[q], mssa.access[w])
                            /\ mssa.access[q] = LiveOnEntry \/ IsPhi(mssa.access[q])
      BY <1>1, <3>3, <3>4, <3>5
    <3>7. Above(mssa.access[q], w)
      BY <2>1, <2>7, <3>1, <3>6, AboveOn
    <3>8. q[1] \in Nat
      BY Pairs, Shape
    <3>9. q[1] <= p[1]
      BY <2>1, <3>3, <3>4, <3>6, <3>8
    <3> QED
      BY <3>1, <3>6, <3>7, <3>9
  <2> QED
    BY <2>2, <2>5, <2>6, <2>7, MemLeads
<1>2. \A p \in Positions(func) : p \in S
  <2>1. \A p \in Positions(func) :
            (\A x \in Positions(func) : Earlier(x, p) => x \in S) => p \in S
    BY <1>1
  <2> HIDE DEF S
  <2> QED
    BY <2>1, AllPositions
<1> QED
  BY <1>2

\* A phi is seen in its block or behind it.
LEMMA PhiSeenLater ==
    ASSUME Given, NEW q \in Code, NEW b \in Blocks, mssa.access[q] = Phi(b)
    PROVE  b <= q[1]
<1>1. q # First /\ Prev(q) \in Positions(func) /\ mssa.access[q] = Mem(Prev(q)) /\ q \in Positions(func)
  BY MemSteps, Pairs
<1>2. Earlier(Prev(q), q)
  BY <1>1, PrevEarlier
<1>3. b >= 1 /\ b \in Nat /\ q[1] \in Nat /\ Prev(q)[1] \in Nat
  BY <1>1, Pairs, Shape
<1>4. Phi(b) # LiveOnEntry /\ Phi(b)[2] = 0 /\ Phi(b)[1] = b
  BY <1>3 DEF Phi, LiveOnEntry
<1>5. Phi(b) \notin Code
  BY <1>4, Pairs, Shape
<1>6. PICK c \in Blocks : Mem(Prev(q)) = Phi(c) /\ c <= Prev(q)[1]
  BY <1>1, <1>4, <1>5, MemLeads
<1>7. c = b
  BY <1>1, <1>6 DEF Phi
<1> QED
  BY <1>2, <1>3, <1>6, <1>7 DEF Earlier

-----------------------------------------------------------------------------
(* The walk leaves no load out *)

IsLoad(l) == l \in Code /\ Ins(l).kind = "load"

\* the loads that see access m are judged
LoadsDone(m) == \A l : IsLoad(l) /\ mssa.access[l] = m => l \in DOMAIN value_safety

\* so are those below m
TreeDone(m) == \A l : IsLoad(l) /\ Above(m, mssa.access[l]) => l \in DOMAIN value_safety

\* how far the walk got with the access of frame k; on top of other frames is
\* the child they went to last
Visited(k) ==
    /\ stack[k].entered => LoadsDone(stack[k].access)
    /\ k < Len(stack) =>
          /\ stack[k].entered
          /\ stack[k].next_child - 1 \in DOMAIN mssa.children[stack[k].access]
          /\ mssa.children[stack[k].access][stack[k].next_child - 1] = stack[k + 1].access
    /\ \A c \in DOMAIN mssa.children[stack[k].access] :
          c < stack[k].next_child /\ (k < Len(stack) => c # stack[k].next_child - 1)
              => TreeDone(mssa.children[stack[k].access][c])

VisitInv ==
    /\ phase = "memory" =>
          /\ root <= Len(mssa.roots)
          /\ \A j \in 1 .. root : stack = <<>> \/ j < root => TreeDone(mssa.roots[j])
          /\ stack # <<>> => root >= 1 /\ stack[1].access = mssa.roots[root]
          /\ \A k \in 1 .. Len(stack) : Visited(k)
    /\ phase # "memory" => \A l : IsLoad(l) => l \in DOMAIN value_safety

\* What is done stays done.
LEMMA DoneStays ==
    ASSUME Grown, UNCHANGED <<func, mssa>>
    PROVE  /\ \A l : IsLoad(l)' = IsLoad(l)
           /\ \A m : LoadsDone(m) => LoadsDone(m)'
           /\ \A m : TreeDone(m) => TreeDone(m)'
<1>1. Code' = Code /\ \A l : IsLoad(l)' = IsLoad(l)
  BY DEF Code, IsLoad, Ins
<1>2. \A x, m : Above(x, m)' = Above(x, m)
  BY <1>1 DEF Above, Upwards, Universe
<1> QED
  BY <1>1, <1>2 DEF LoadsDone, TreeDone, Grown

\* The children of an access are the writes it defines.
LEMMA ChildrenAre ==
    ASSUME Given, NEW m \in DOMAIN mssa.children
    PROVE  /\ Len(mssa.children[m]) \in Nat
           /\ DOMAIN mssa.children[m] = 1 .. Len(mssa.children[m])
           /\ \A w \in Code : IsWrite(func, w) /\ mssa.access[w] = m =>
                  \E c \in DOMAIN mssa.children[m] : mssa.children[m][c] = w
           /\ \A c \in DOMAIN mssa.children[m] :
                  /\ mssa.children[m][c] \in Code /\ IsWrite(func, mssa.children[m][c])
                  /\ mssa.access[mssa.children[m][c]] = m
<1> DEFINE access == DefiningAccess(func)
<1>1. mssa.access = access /\ mssa.children = ChildrenOf(func, access)
  BY DEF Given, Analyses
<1>2. PICK T : T = {p \in InstructionsOf(func) : IsWrite(func, p) /\ access[p] = m}
  OBVIOUS
<1>3. mssa.children[m] = Among(func, T)
  BY <1>1, <1>2 DEF ChildrenOf
<1>4. T \in SUBSET Code
  BY <1>2 DEF Code
<1>5. PICK s : s = mssa.children[m]
  OBVIOUS
<1>6. s \in Seq(Code) /\ \A x : x \in Range(s) <=> x \in T
  BY <1>3, <1>4, <1>5, AmongThem
<1>7. Len(s) \in Nat /\ DOMAIN s = 1 .. Len(s)
  BY <1>6
<1>8. \A x : x \in T <=> \E c \in DOMAIN s : s[c] = x
  BY <1>6 DEF Range
<1>9. \A w : w \in T <=> w \in Code /\ IsWrite(func, w) /\ mssa.access[w] = m
  BY <1>1, <1>2 DEF Code
<1> QED
  BY <1>5, <1>7, <1>8, <1>9

\* A tree is done when its root and its subtrees are.
LEMMA TreeFromChildren ==
    ASSUME Given, NEW m \in DOMAIN mssa.children, LoadsDone(m),
           \A c \in DOMAIN mssa.children[m] : TreeDone(mssa.children[m][c])
    PROVE  TreeDone(m)
<1> SUFFICES ASSUME NEW l, IsLoad(l), Above(m, mssa.access[l]) PROVE l \in DOMAIN value_safety
  BY DEF TreeDone
<1>1. l \in Code /\ mssa.access[l] \in Universe
  BY InUniverse DEF IsLoad
<1>2. CASE mssa.access[l] = m
  BY <1>2 DEF LoadsDone
<1>3. CASE mssa.access[l] # m
  <2>1. PICK w \in Code : IsWrite(func, w) /\ mssa.access[w] = m /\ Above(w, mssa.access[l])
    BY <1>1, <1>3, AboveChild
  <2>2. TreeDone(w)
    BY <2>1, ChildrenAre
  <2> QED
    BY <2>1, <2>2 DEF TreeDone
<1> QED
  BY <1>2, <1>3

\* A new root has one frame that is not entered.
LEMMA VisitRoot ==
    ASSUME WalkInv, VisitInv, StartRoot
    PROVE  VisitInv'
<1>1. PICK r : r = mssa.roots[root + 1]
  OBVIOUS
<1>2. /\ Given /\ root \in Nat /\ root < Len(mssa.roots) /\ stack = <<>> /\ phase = "memory"
      /\ UNCHANGED <<func, mssa, value_safety>> /\ root' = root + 1 /\ phase' = "memory"
      /\ stack' = <<Frame(r, 0, r, r = LiveOnEntry)>>
  BY <1>1 DEF WalkInv, TypeInv, StartRoot, Given
<1>3. PICK f : f = Frame(r, 0, r, r = LiveOnEntry)
  OBVIOUS
<1>4. f.access = r /\ f.next_child = 1 /\ f.entered = FALSE
  BY <1>3 DEF Frame
<1>5. stack' = <<f>>
  BY <1>2, <1>3
<1>6. Len(stack') = 1 /\ stack'[1] = f /\ stack' # <<>>
  BY <1>5
<1>7. Grown
  BY <1>2 DEF Grown
<1>8. ASSUME NEW j \in 1 .. root', j < root' PROVE TreeDone(mssa.roots[j])'
  <2>1. j \in 1 .. root
    BY <1>2, <1>8
  <2>2. TreeDone(mssa.roots[j])
    BY <1>2, <2>1 DEF VisitInv
  <2> QED
    BY <1>2, <1>7, <2>2, DoneStays
<1>9. Len(mssa.roots) \in Nat
  BY <1>2, RootsInOrder
<1>10. root' <= Len(mssa.roots') /\ root' >= 1 /\ stack'[1].access = mssa'.roots[root']
  BY <1>1, <1>2, <1>4, <1>6, <1>9
<1>11. Visited(1)'
  <2>1. r \in DOMAIN mssa.children
    <3>1. root + 1 \in DOMAIN mssa.roots
      <4>1. mssa.roots \in Seq(Nat \X {0})
        BY <1>2, Forest DEF Given
      <4> QED
        BY <1>2, <1>9, <4>1
    <3> QED
      BY <1>1, <1>2, <3>1, Forest DEF Given
  <2>2. \A c \in DOMAIN mssa.children[r] : c \in Nat /\ ~(c < 1)
    BY <1>2, <2>1, ChildrenAre
  <2> QED
    BY <1>2, <1>4, <1>6, <2>2 DEF Visited
<1>12. \A k \in 1 .. Len(stack') : k = 1
  BY <1>6
<1> QED
  BY <1>2, <1>6, <1>8, <1>10, <1>11, <1>12 DEF VisitInv

\* The shape of the stack in the middle of the walk.
LEMMA StackShape ==
    ASSUME WalkInv, phase = "memory", stack # <<>>
    PROVE  /\ Given /\ Len(stack) \in Nat /\ Len(stack) >= 1 /\ DOMAIN stack = 1 .. Len(stack)
           /\ \A k \in 1 .. Len(stack) : /\ stack[k].access \in DOMAIN mssa.children
                                         /\ stack[k].next_child \in Nat \ {0} /\ stack[k].entered \in BOOLEAN
           /\ root \in Nat
<1>1. stack \in Seq(Frames) /\ BranchInv /\ Given /\ root \in Nat
  BY DEF WalkInv, TypeInv, Given
<1>2. Len(stack) \in Nat /\ Len(stack) >= 1 /\ DOMAIN stack = 1 .. Len(stack)
  BY <1>1
<1>3. \A k \in 1 .. Len(stack) : stack[k] \in Frames
  BY <1>1, <1>2
<1> QED
  BY <1>1, <1>2, <1>3 DEF BranchInv, Frames

\* Entering a frame judges its loads.
LEMMA VisitEnter ==
    ASSUME WalkInv, VisitInv, Enter
    PROVE  VisitInv'
<1>1. PICK n : n = Len(stack)
  OBVIOUS
<1>2. /\ phase = "memory" /\ stack # <<>> /\ UNCHANGED <<func, mssa, phase, root>>
      /\ stack' = [stack EXCEPT ![n].entered = TRUE]
      /\ value_safety' = Asked({p \in Code : Ins(p).kind = "load" /\ mssa.access[p] = Top.access}, Top.access)
  BY <1>1 DEF Enter
<1>3. /\ Given /\ n \in Nat /\ n >= 1 /\ DOMAIN stack = 1 .. n
      /\ \A k \in 1 .. n : stack[k].access \in DOMAIN mssa.children
  BY <1>1, <1>2, StackShape
<1>4. stack \in Seq(Frames) /\ \A k \in 1 .. n : stack[k] \in Frames
  BY <1>1, <1>2, <1>3 DEF WalkInv, TypeInv
<1>5. /\ Len(stack') = n /\ stack' # <<>>
      /\ \A k \in 1 .. n : /\ stack'[k].access = stack[k].access
                           /\ stack'[k].next_child = stack[k].next_child
                           /\ stack'[k].entered = (k = n \/ stack[k].entered)
  <2>1. PICK t : t = [stack[n] EXCEPT !.entered = TRUE]
    OBVIOUS
  <2>2. stack[n] \in Frames
    BY <1>3, <1>4
  <2>3. t.access = stack[n].access /\ t.next_child = stack[n].next_child /\ t.entered = TRUE /\ t \in Frames
    BY <2>1, <2>2 DEF Frames
  <2>4. stack' = [stack EXCEPT ![n] = t]
    BY <1>2, <2>1
  <2>5. \A k \in 1 .. n : stack[k].entered \in BOOLEAN
    BY <1>4 DEF Frames
  <2>6. \A k \in 1 .. n : stack'[k] = IF k = n THEN t ELSE stack[k]
    BY <1>3, <2>4
  <2>7. \A k \in 1 .. n : k # n => (k = n \/ stack[k].entered) = stack[k].entered
    BY <2>5
  <2>8. Len(stack') = n
    BY <1>1, <1>3, <1>4, <2>3, <2>4
  <2>9. stack' # <<>>
    BY <1>3, <2>8
  <2> QED
    BY <2>3, <2>6, <2>7, <2>8, <2>9
<1>6. Grown
  BY <1>2, AskedGrows
<1>7. LoadsDone(stack[n].access)'
  <2>1. PICK m : m = stack[n].access
    OBVIOUS
  <2>2. \A l : IsLoad(l) /\ mssa.access[l] = m => l \in DOMAIN value_safety'
    <3> SUFFICES ASSUME NEW l, IsLoad(l), mssa.access[l] = m PROVE l \in DOMAIN value_safety'
      OBVIOUS
    <3>1. l \in {p \in Code : Ins(p).kind = "load" /\ mssa.access[p] = Top.access}
      BY <1>1, <2>1 DEF IsLoad, Top
    <3>2. l # Constant
      BY <1>3, Pairs DEF IsLoad
    <3> QED
      BY <1>2, <3>1, <3>2, AskedGrows
  <2>3. \A l : IsLoad(l)' = IsLoad(l)
    BY <1>2, <1>6, DoneStays
  <2>4. stack'[n].access = m
    BY <1>3, <1>5, <2>1
  <2> QED
    BY <1>2, <2>2, <2>3, <2>4 DEF LoadsDone
<1>8. ASSUME NEW k \in 1 .. n PROVE Visited(k)'
  <2>1. Visited(k)
    BY <1>1, <1>2, <1>8 DEF VisitInv
  <2>2. stack'[k].entered => LoadsDone(stack[k].access)'
    <3>1. CASE k = n
      BY <1>7, <3>1
    <3>2. CASE k # n
      <4>1. stack'[k].entered = stack[k].entered /\ stack'[k].access = stack[k].access
        BY <1>4, <1>5, <3>2 DEF Frames
      <4> QED
        BY <1>2, <1>6, <2>1, <4>1, DoneStays DEF Visited
    <3> QED
      BY <3>1, <3>2
  <2>3. k < n => /\ stack'[k].entered
                 /\ stack'[k].next_child - 1 \in DOMAIN mssa'.children[stack'[k].access]
                 /\ mssa'.children[stack'[k].access][stack'[k].next_child - 1] = stack'[k + 1].access
    <3> SUFFICES ASSUME k < n
                 PROVE  /\ stack'[k].entered
                        /\ stack'[k].next_child - 1 \in DOMAIN mssa'.children[stack'[k].access]
                        /\ mssa'.children[stack'[k].access][stack'[k].next_child - 1] = stack'[k + 1].access
      OBVIOUS
    <3>1. k + 1 \in 1 .. n
      BY <1>3
    <3>2. stack'[k + 1].access = stack[k + 1].access
      BY <1>5, <3>1
    <3> QED
      BY <1>1, <1>2, <1>5, <2>1, <3>2 DEF Visited
  <2>4. ASSUME NEW c \in DOMAIN mssa'.children[stack'[k].access],
               c < stack'[k].next_child, k < n => c # stack'[k].next_child - 1
        PROVE  TreeDone(mssa.children[stack[k].access][c])'
    <3>1. stack'[k].access = stack[k].access /\ stack'[k].next_child = stack[k].next_child
      BY <1>5
    <3>2. TreeDone(mssa.children[stack[k].access][c])
      BY <1>1, <1>2, <2>1, <2>4, <3>1 DEF Visited
    <3> QED
      BY <1>2, <1>6, <3>1, <3>2, DoneStays
  <2> QED
    BY <1>5, <2>2, <2>3, <2>4 DEF Visited
<1>9. ASSUME NEW j \in 1 .. root', j < root' PROVE TreeDone(mssa.roots[j])'
  <2>1. TreeDone(mssa.roots[j])
    BY <1>2, <1>9 DEF VisitInv
  <2> QED
    BY <1>2, <1>6, <2>1, DoneStays
<1>10. root' <= Len(mssa'.roots) /\ root' >= 1 /\ stack'[1].access = mssa'.roots[root']
  <2>1. 1 \in 1 .. n
    BY <1>3
  <2> QED
    BY <1>2, <1>5, <2>1 DEF VisitInv
<1> QED
  BY <1>2, <1>5, <1>8, <1>9, <1>10 DEF VisitInv

\* Going down leaves what was done behind.
LEMMA VisitDescend ==
    ASSUME WalkInv, VisitInv, Descend
    PROVE  VisitInv'
<1>1. PICK n, d : n = Len(stack) /\ d = mssa.children[stack[n].access][stack[n].next_child]
  OBVIOUS
<1>2. /\ phase = "memory" /\ stack # <<>> /\ stack[n].entered /\ UNCHANGED <<func, mssa, phase, root>>
      /\ stack[n].next_child <= Len(mssa.children[stack[n].access])
      /\ stack' = Append([stack EXCEPT ![n].next_child = @ + 1],
                         Frame(d, Len(undo_log), active_generation, default_byte_safety))
  BY <1>1 DEF Descend, Top
<1>3. /\ Given /\ n \in Nat /\ n >= 1 /\ DOMAIN stack = 1 .. n
      /\ \A k \in 1 .. n : stack[k].access \in DOMAIN mssa.children /\ stack[k].next_child \in Nat \ {0}
  BY <1>1, <1>2, StackShape
<1>4. stack \in Seq(Frames) /\ \A k \in 1 .. n : stack[k] \in Frames
  BY <1>1, <1>2, <1>3 DEF WalkInv, TypeInv
<1>5. /\ Len(stack') = n + 1 /\ stack' # <<>>
      /\ \A k \in 1 .. n : /\ stack'[k].access = stack[k].access
                           /\ stack'[k].entered = stack[k].entered
                           /\ stack'[k].next_child = IF k = n THEN stack[n].next_child + 1 ELSE stack[k].next_child
      /\ stack'[n + 1].access = d /\ stack'[n + 1].next_child = 1 /\ stack'[n + 1].entered = FALSE
  <2>1. PICK t : t = [stack[n] EXCEPT !.next_child = @ + 1]
    OBVIOUS
  <2>2. stack[n] \in Frames
    BY <1>3, <1>4
  <2>3. /\ t.access = stack[n].access /\ t.next_child = stack[n].next_child + 1 /\ t.entered = stack[n].entered
        /\ t \in Frames
    BY <2>1, <2>2 DEF Frames
  <2>4. PICK s : s = [stack EXCEPT ![n] = t]
    OBVIOUS
  <2>5. PICK f : f = Frame(d, Len(undo_log), active_generation, default_byte_safety)
    OBVIOUS
  <2>6. stack' = Append(s, f)
    BY <1>2, <2>1, <2>4, <2>5
  <2>7. s \in Seq(Frames) /\ Len(s) = n /\ \A k \in 1 .. n : s[k] = IF k = n THEN t ELSE stack[k]
    BY <1>1, <1>3, <1>4, <2>3, <2>4
  <2>8. f.access = d /\ f.next_child = 1 /\ f.entered = FALSE
    BY <2>5 DEF Frame
  <2>9. Len(stack') = n + 1 /\ stack'[n + 1] = f /\ \A k \in 1 .. n : stack'[k] = s[k]
    BY <1>3, <2>6, <2>7
  <2>10. stack' # <<>>
    BY <1>3, <2>9
  <2> QED
    BY <2>3, <2>7, <2>8, <2>9, <2>10
<1>6. Grown
  <2>1. \/ \E P, m : value_safety' = Asked(P, m)
        \/ value_safety' = value_safety
    BY DEF Descend
  <2>2. CASE \E P, m : value_safety' = Asked(P, m)
    BY <2>2, AskedGrows
  <2>3. CASE value_safety' = value_safety
    BY <2>3 DEF Grown
  <2> QED
    BY <2>1, <2>2, <2>3
<1>7. n \in 1 .. n /\ n + 1 \in 1 .. n + 1 /\ stack[n].next_child \in Nat \ {0}
  BY <1>3
<1>8. stack[n].next_child \in DOMAIN mssa.children[stack[n].access]
  BY <1>2, <1>3, <1>7, ChildrenAre
<1>9. ASSUME NEW k \in 1 .. n PROVE Visited(k)'
  <2>1. Visited(k)
    BY <1>1, <1>2, <1>9 DEF VisitInv
  <2>2. stack'[k].access = stack[k].access /\ stack'[k].entered = stack[k].entered
    BY <1>5
  <2>3. stack'[k].entered => LoadsDone(stack[k].access)'
    BY <1>2, <1>6, <2>1, <2>2, DoneStays DEF Visited
  <2>4. CASE k < n
    <3>1. k + 1 \in 1 .. n /\ k # n /\ k < n + 1
      BY <1>3, <2>4
    <3>2. stack'[k + 1].access = stack[k + 1].access /\ stack'[k].next_child = stack[k].next_child
      BY <1>5, <3>1
    <3>3. /\ stack'[k].entered
          /\ stack'[k].next_child - 1 \in DOMAIN mssa'.children[stack'[k].access]
          /\ mssa'.children[stack'[k].access][stack'[k].next_child - 1] = stack'[k + 1].access
      BY <1>1, <1>2, <2>1, <2>2, <2>4, <3>2 DEF Visited
    <3>4. ASSUME NEW c \in DOMAIN mssa'.children[stack'[k].access],
                 c < stack'[k].next_child, c # stack'[k].next_child - 1
          PROVE  TreeDone(mssa.children[stack[k].access][c])'
      <4>1. TreeDone(mssa.children[stack[k].access][c])
        BY <1>1, <1>2, <2>1, <2>2, <3>2, <3>4 DEF Visited
      <4> QED
        BY <1>2, <1>6, <2>2, <4>1, DoneStays
    <3> QED
      BY <1>5, <2>3, <3>1, <3>3, <3>4 DEF Visited
  <2>5. CASE ~(k < n)
    <3>1. k = n /\ k < n + 1
      BY <1>3, <2>5
    <3>2. stack'[k].next_child = stack[k].next_child + 1 /\ stack'[k + 1].access = d
      BY <1>5, <3>1
    <3>3. stack[k].next_child \in Nat
      BY <1>3
    <3>4. stack'[k].next_child - 1 = stack[k].next_child
      BY <3>2, <3>3
    <3>5. /\ stack'[k].entered
          /\ stack'[k].next_child - 1 \in DOMAIN mssa'.children[stack'[k].access]
          /\ mssa'.children[stack'[k].access][stack'[k].next_child - 1] = stack'[k + 1].access
      BY <1>1, <1>2, <1>8, <2>2, <3>1, <3>2, <3>4, SMTT(30)
    <3>6. ASSUME NEW c \in DOMAIN mssa'.children[stack'[k].access],
                 c < stack'[k].next_child, c # stack'[k].next_child - 1
          PROVE  TreeDone(mssa.children[stack[k].access][c])'
      <4>1. c \in DOMAIN mssa.children[stack[k].access] /\ c \in Nat
        BY <1>2, <1>3, <2>2, <3>6, ChildrenAre
      <4>2. c < stack[k].next_child
        BY <3>2, <3>3, <3>4, <3>6, <4>1
      <4>3. TreeDone(mssa.children[stack[k].access][c])
        BY <1>1, <2>1, <2>5, <4>1, <4>2 DEF Visited
      <4> QED
        BY <1>2, <1>6, <2>2, <4>3, DoneStays
    <3> QED
      BY <1>5, <2>3, <3>1, <3>5, <3>6 DEF Visited
  <2> QED
    BY <2>4, <2>5
<1>10. Visited(n + 1)'
  <2>1. d \in DOMAIN mssa.children
    BY <1>1, ArrivalType
  <2>2. \A c \in DOMAIN mssa.children[d] : c \in Nat /\ ~(c < 1)
    BY <1>3, <2>1, ChildrenAre
  <2>3. ~(n + 1 < n + 1)
    BY <1>3
  <2> QED
    BY <1>2, <1>5, <2>2, <2>3 DEF Visited
<1>11. \A k \in 1 .. n + 1 : k \in 1 .. n \/ k = n + 1
  BY <1>3
<1>12. ASSUME NEW j \in 1 .. root', j < root' PROVE TreeDone(mssa.roots[j])'
  <2>1. TreeDone(mssa.roots[j])
    BY <1>2, <1>12 DEF VisitInv
  <2> QED
    BY <1>2, <1>6, <2>1, DoneStays
<1>13. root' <= Len(mssa'.roots) /\ root' >= 1 /\ stack'[1].access = mssa'.roots[root']
  <2>1. 1 \in 1 .. n
    BY <1>3
  <2> QED
    BY <1>2, <1>5, <2>1 DEF VisitInv
<1> QED
  BY <1>2, <1>5, <1>9, <1>10, <1>11, <1>12, <1>13 DEF VisitInv

\* What is left is done.
LEMMA VisitBacktrack ==
    ASSUME WalkInv, VisitInv, Backtrack
    PROVE  VisitInv'
<1>1. PICK n, m : n = Len(stack) /\ m = stack[n].access
  OBVIOUS
<1>2. /\ phase = "memory" /\ stack # <<>> /\ stack[n].entered
      /\ UNCHANGED <<func, mssa, phase, root, value_safety>>
      /\ stack[n].next_child > Len(mssa.children[m]) /\ stack' = Front(stack)
  BY <1>1 DEF Backtrack, Top
<1>3. /\ Given /\ n \in Nat /\ n >= 1 /\ DOMAIN stack = 1 .. n /\ root \in Nat
      /\ \A k \in 1 .. n : stack[k].access \in DOMAIN mssa.children /\ stack[k].next_child \in Nat \ {0}
  BY <1>1, <1>2, StackShape
<1>4. stack \in Seq(Frames)
  BY <1>2 DEF WalkInv, TypeInv
<1>5. Len(stack') = n - 1 /\ \A k \in 1 .. n - 1 : stack'[k] = stack[k]
  BY <1>1, <1>2, <1>3, <1>4 DEF Front
<1>6. Grown
  BY <1>2 DEF Grown
<1>7. n \in 1 .. n /\ stack[n].next_child \in Nat \ {0} /\ m \in DOMAIN mssa.children
  BY <1>1, <1>3
<1>8. TreeDone(m)
  <2>1. Visited(n)
    BY <1>1, <1>2, <1>7 DEF VisitInv
  <2>2. LoadsDone(m)
    BY <1>1, <1>2, <2>1 DEF Visited
  <2>3. ASSUME NEW c \in DOMAIN mssa.children[m] PROVE TreeDone(mssa.children[m][c])
    <3>1. c < stack[n].next_child
      BY <1>2, <1>3, <1>7, <2>3, ChildrenAre
    <3>2. ~(n < Len(stack))
      BY <1>1, <1>3
    <3> QED
      BY <1>1, <2>1, <2>3, <3>1, <3>2 DEF Visited
  <2> QED
    BY <1>3, <1>7, <2>2, <2>3, TreeFromChildren
<1>9. \A x : TreeDone(x) => TreeDone(x)'
  BY <1>2, <1>6, DoneStays
<1>10. \A x : LoadsDone(x) => LoadsDone(x)'
  BY <1>2, <1>6, DoneStays
<1>11. ASSUME NEW k \in 1 .. n - 1 PROVE Visited(k)'
  <2>1. k \in 1 .. n /\ k < n /\ k \in Nat
    BY <1>3
  <2>2. Visited(k)
    BY <1>1, <1>2, <2>1 DEF VisitInv
  <2>3. stack'[k] = stack[k]
    BY <1>5
  <2>4. stack'[k].entered => LoadsDone(stack[k].access)'
    BY <1>10, <2>2, <2>3 DEF Visited
  <2>5. k < n - 1 => /\ stack'[k].entered
                     /\ stack'[k].next_child - 1 \in DOMAIN mssa'.children[stack'[k].access]
                     /\ mssa'.children[stack'[k].access][stack'[k].next_child - 1] = stack'[k + 1].access
    <3> SUFFICES ASSUME k < n - 1
                 PROVE  /\ stack'[k].entered
                        /\ stack'[k].next_child - 1 \in DOMAIN mssa'.children[stack'[k].access]
                        /\ mssa'.children[stack'[k].access][stack'[k].next_child - 1] = stack'[k + 1].access
      OBVIOUS
    <3>1. k + 1 \in 1 .. n - 1
      BY <1>3, <2>1
    <3>2. stack'[k + 1] = stack[k + 1]
      BY <1>5, <3>1
    <3> QED
      BY <1>1, <1>2, <2>1, <2>2, <2>3, <3>2 DEF Visited
  <2>6. ASSUME NEW c \in DOMAIN mssa'.children[stack'[k].access],
               c < stack'[k].next_child, k < n - 1 => c # stack'[k].next_child - 1
        PROVE  TreeDone(mssa.children[stack[k].access][c])'
    <3>1. CASE c # stack[k].next_child - 1
      <4>1. TreeDone(mssa.children[stack[k].access][c])
        BY <1>2, <2>2, <2>3, <2>6, <3>1 DEF Visited
      <4> QED
        BY <1>2, <1>9, <2>3, <4>1
    <3>2. CASE c = stack[k].next_child - 1
      <4>1. ~(k < n - 1)
        BY <2>3, <2>6, <3>2
      <4>2. k + 1 = n
        BY <1>3, <2>1, <4>1
      <4>3. mssa.children[stack[k].access][c] = m
        BY <1>1, <2>1, <2>2, <3>2, <4>2 DEF Visited
      <4> QED
        BY <1>2, <1>8, <1>9, <2>3, <4>3
    <3> QED
      BY <3>1, <3>2
  <2> QED
    BY <1>5, <2>3, <2>4, <2>5, <2>6 DEF Visited
<1>12. ASSUME NEW j \in 1 .. root', stack' = <<>> \/ j < root' PROVE TreeDone(mssa.roots[j])'
  <2>1. CASE j < root
    <3>1. TreeDone(mssa.roots[j])
      BY <1>2, <1>12, <2>1 DEF VisitInv
    <3> QED
      BY <1>2, <1>9, <3>1
  <2>2. CASE ~(j < root)
    <3>1. j = root /\ Len(stack') = 0
      BY <1>2, <1>3, <1>12, <2>2
    <3>2. n = 1
      BY <1>3, <1>5, <3>1
    <3>3. m = mssa.roots[j]
      BY <1>1, <1>2, <3>1, <3>2 DEF VisitInv
    <3> QED
      BY <1>2, <1>8, <1>9, <3>3
  <2> QED
    BY <2>1, <2>2
<1>13. root' <= Len(mssa'.roots) /\ (stack' # <<>> => root' >= 1 /\ stack'[1].access = mssa'.roots[root'])
  <2>1. stack' # <<>> => 1 \in 1 .. n - 1
    <3>1. stack' \in Seq(Frames)
      BY <1>1, <1>2, <1>3, <1>4 DEF Front
    <3>2. Len(stack') = 0 => stack' = <<>>
      BY <3>1
    <3> QED
      BY <1>3, <1>5, <3>2
  <2> QED
    BY <1>2, <1>5, <2>1 DEF VisitInv
<1> QED
  BY <1>2, <1>5, <1>11, <1>12, <1>13 DEF VisitInv

\* When all roots are done, every load is.
LEMMA VisitReplace ==
    ASSUME WalkInv, VisitInv, ReplaceLoads
    PROVE  VisitInv'
<1>1. /\ phase = "memory" /\ stack = <<>> /\ root = Len(mssa.roots) /\ phase' = "fold"
      /\ UNCHANGED <<func, mssa, value_safety>> /\ Given
  BY DEF ReplaceLoads, walkVars, WalkInv, TypeInv, Given
<1>2. ASSUME NEW l, IsLoad(l) PROVE l \in DOMAIN value_safety
  <2>1. l \in Code /\ Touching(l) /\ l \in Positions(func)
    BY <1>1, <1>2, Pairs DEF IsLoad, Touching
  <2>2. PICK q \in Code : /\ Touching(q) /\ Above(mssa.access[q], mssa.access[l])
                          /\ mssa.access[q] = LiveOnEntry \/ IsPhi(mssa.access[q])
    BY <1>1, <2>1, RootAbove
  <2>3. PICK j \in 1 .. Len(mssa.roots) : mssa.roots[j] = mssa.access[q]
    <3>1. CASE mssa.access[q] = LiveOnEntry
      <4>1. 1 \in 1 .. Len(mssa.roots) /\ mssa.roots[1] = LiveOnEntry
        BY <1>1, RootsInOrder
      <4> QED
        BY <3>1, <4>1
    <3>2. CASE IsPhi(mssa.access[q])
      BY <1>1, <2>2, <3>2, RootsInOrder
    <3> QED
      BY <2>2, <3>1, <3>2
  <2>4. TreeDone(mssa.roots[j])
    BY <1>1, <2>3 DEF VisitInv
  <2> QED
    BY <1>2, <2>2, <2>3, <2>4 DEF TreeDone
<1>3. \A l : IsLoad(l)' = IsLoad(l)
  BY <1>1 DEF IsLoad, Code, Ins
<1> QED
  BY <1>1, <1>2, <1>3 DEF VisitInv

\* Nothing else takes a verdict back.
LEMMA VisitOther ==
    ASSUME VisitInv, phase # "memory", phase' # "memory", UNCHANGED <<func, mssa, value_safety>>
    PROVE  VisitInv'
<1>1. \A l : IsLoad(l)' = IsLoad(l)
  BY DEF IsLoad, Code, Ins
<1> QED
  BY <1>1 DEF VisitInv

\* A step that changes nothing of the walk.
LEMMA VisitStutter ==
    ASSUME VisitInv, UNCHANGED <<func, mssa, value_safety, phase, root, stack>>
    PROVE  VisitInv'
<1>1. Grown
  BY DEF Grown
<1>2. /\ \A l : IsLoad(l)' = IsLoad(l)
      /\ \A m : LoadsDone(m) => LoadsDone(m)'
      /\ \A m : TreeDone(m) => TreeDone(m)'
  BY <1>1, DoneStays
<1>3. ASSUME NEW k, Visited(k) PROVE Visited(k)'
  BY <1>2, <1>3 DEF Visited
<1> QED
  BY <1>2, <1>3 DEF VisitInv

\* The walk visits every access that something sees, and judges every load.
THEOREM EveryLoadJudged == Spec => []VisitInv
<1>1. Init => VisitInv
  <2> SUFFICES ASSUME Init PROVE VisitInv
    OBVIOUS
  <2>1. phase = "memory" /\ root = 0 /\ stack = <<>> /\ Len(stack) = 0 /\ Given
    BY DEF Init, Given
  <2>2. Len(mssa.roots) \in Nat
    BY <2>1, RootsInOrder
  <2>3. (\A k \in 1 .. 0 : FALSE) /\ 0 <= Len(mssa.roots)
    BY <2>2
  <2> QED
    BY <2>1, <2>3 DEF VisitInv
<1>2. WalkInv /\ VisitInv /\ [Next]_vars => VisitInv'
  <2> SUFFICES ASSUME WalkInv, VisitInv, [Next]_vars PROVE VisitInv'
    OBVIOUS
  <2>1. CASE StartRoot \/ Enter \/ Descend \/ Backtrack \/ ReplaceLoads
    BY <2>1, VisitRoot, VisitEnter, VisitDescend, VisitBacktrack, VisitReplace
  <2>2. CASE Propagate \/ EraseDead \/ Call \/ RunInstruction \/ RunBranch
    BY <2>2, VisitOther DEF Propagate, EraseDead, Call, RunInstruction, RunBranch, walkVars
  <2>3. CASE UNCHANGED vars
    BY <2>3, VisitStutter DEF vars, walkVars
  <2> QED
    BY <2>1, <2>2, <2>3 DEF Next, Pass
<1> QED
  BY <1>1, <1>2, WalkCorrect, PTL DEF Spec

-----------------------------------------------------------------------------
(* The definition of the verdicts, as an equation.  Facts justify each other; *)
(* the largest set of facts that justifies itself solves it.                  *)

OfValue(p) == <<"value", p>>

OfByte(m, b) == <<"byte", m, b>>

Defined == {OfValue(p) : p \in Code \cup {Constant}} \cup {OfByte(m, b) : m \in Accesses, b \in Bytes}

\* the body of SafeByDefinition
DefBody(g, x) ==
    IF x[1] = "value"
    THEN LET p == x[2]
         IN \/ p = Constant
            \/ /\ p # Constant /\ p[1] \notin mssa.inLoop
               /\ \/ /\ Ins(p).kind = "load" /\ Ins(p).bytes # {} /\ Cardinality(Ins(p).bytes) <= MaxLoad
                     /\ p[1] \notin mssa.joined
                     /\ \A b \in Ins(p).bytes : g[<<"byte", mssa.access[p], b>>]
                  \/ /\ Ins(p).kind \in {"op", "div"}
                     /\ \A n \in DOMAIN mssa.operands[p] : g[<<"value", mssa.operands[p][n]>>]
    ELSE LET m == x[2]
         IN \/ m = LiveOnEntry
            \/ /\ ~IsPhi(m) /\ m # LiveOnEntry
               /\ Ins(m).kind = "store" /\ Ins(m).bytes # {}
               /\ IF x[3] \in Ins(m).bytes
                  THEN /\ m[1] \notin mssa.inLoop \cup mssa.joined
                       /\ g[<<"value", mssa.operands[m][1]>>]
                  ELSE g[<<"byte", mssa.access[m], x[3]>>]

\* the same for value p, and for byte b behind access m, when G are the facts
ValueBody(G, p) ==
    \/ p = Constant
    \/ /\ p # Constant /\ p[1] \notin mssa.inLoop
       /\ \/ /\ Ins(p).kind = "load" /\ Ins(p).bytes # {} /\ Cardinality(Ins(p).bytes) <= MaxLoad
             /\ p[1] \notin mssa.joined
             /\ \A b \in Ins(p).bytes : OfByte(mssa.access[p], b) \in G
          \/ /\ Ins(p).kind \in {"op", "div"}
             /\ \A n \in DOMAIN mssa.operands[p] : OfValue(mssa.operands[p][n]) \in G

ByteBody(G, m, b) ==
    \/ m = LiveOnEntry
    \/ /\ ~IsPhi(m) /\ m # LiveOnEntry
       /\ Ins(m).kind = "store" /\ Ins(m).bytes # {}
       /\ IF b \in Ins(m).bytes
          THEN m[1] \notin mssa.inLoop \cup mssa.joined /\ OfValue(mssa.operands[m][1]) \in G
          ELSE OfByte(mssa.access[m], b) \in G

FactBody(G, x) == IF x[1] = "value" THEN ValueBody(G, x[2]) ELSE ByteBody(G, x[2], x[3])

\* More facts justify no less.
LEMMA BodyGrows ==
    ASSUME NEW G, NEW H, G \subseteq H
    PROVE  /\ \A p : ValueBody(G, p) => ValueBody(H, p)
           /\ \A m, b : ByteBody(G, m, b) => ByteBody(H, m, b)
           /\ \A x : FactBody(G, x) => FactBody(H, x)
<1>1. \A p : ValueBody(G, p) => ValueBody(H, p)
  BY DEF ValueBody
<1>2. \A m, b : ByteBody(G, m, b) => ByteBody(H, m, b)
  BY DEF ByteBody
<1> QED
  BY <1>1, <1>2 DEF FactBody

\* The accesses are those of before.
LEMMA AccessesAre ==
    ASSUME Given
    PROVE  \A m : m \in Accesses <=> IsAccess(m)
BY DEF Accesses, IsAccess, Blocks, BlocksOf

\* A fact asks for facts.
LEMMA DefinedClosed ==
    ASSUME Given
    PROVE  /\ \A p \in Code : \A b \in Ins(p).bytes : b \in Bytes /\ OfByte(mssa.access[p], b) \in Defined
           /\ \A p \in Code : \A n \in DOMAIN mssa.operands[p] : OfValue(mssa.operands[p][n]) \in Defined
           /\ \A m \in Accesses : m # LiveOnEntry /\ ~IsPhi(m) =>
                  /\ m \in Code
                  /\ Ins(m).kind = "store" => OfValue(mssa.operands[m][1]) \in Defined
                  /\ \A b \in Bytes : OfByte(mssa.access[m], b) \in Defined
<1>1. \A p \in Code : mssa.access[p] \in Accesses /\ Ins(p).bytes \subseteq Bytes
  BY AccessSeen, AccessesAre, Pairs DEF Instructions
<1>2. \A p \in Code : \A n \in DOMAIN mssa.operands[p] : mssa.operands[p][n] \in Code \cup {Constant}
  BY OperandsEarlier
<1>3. ASSUME NEW m \in Accesses, m # LiveOnEntry, ~IsPhi(m) PROVE m \in Code
  <2>1. IsAccess(m) /\ m[2] # 0
    BY <1>3, AccessesAre DEF IsPhi
  <2> QED
    BY <2>1, PhisAreStarts
<1>4. \A m \in Code : Ins(m).kind = "store" => mssa.operands[m][1] \in Code \cup {Constant}
  BY <1>2, StoreOperand
<1> QED
  BY <1>1, <1>2, <1>3, <1>4 DEF Defined

\* The facts are as their bodies say.
LEMMA FactBodies ==
    ASSUME Given, NEW G, NEW g, g = [x \in Defined |-> x \in G], NEW x \in Defined
    PROVE  DefBody(g, x) = FactBody(G, x)
<1>0. \A y \in Defined : g[y] = (y \in G)
  OBVIOUS
<1>1. CASE \E p \in Code \cup {Constant} : x = OfValue(p)
  <2>1. PICK p \in Code \cup {Constant} : x = OfValue(p)
    BY <1>1
  <2>2. x[1] = "value" /\ x[2] = p
    BY <2>1 DEF OfValue
  <2>3. p # Constant => /\ \A b \in Ins(p).bytes : g[<<"byte", mssa.access[p], b>>] = (OfByte(mssa.access[p], b) \in G)
                        /\ \A n \in DOMAIN mssa.operands[p] :
                              g[<<"value", mssa.operands[p][n]>>] = (OfValue(mssa.operands[p][n]) \in G)
    BY <1>0, DefinedClosed DEF OfByte, OfValue
  <2>4. p # Constant => /\ (\A b \in Ins(p).bytes : g[<<"byte", mssa.access[p], b>>])
                               <=> (\A b \in Ins(p).bytes : OfByte(mssa.access[p], b) \in G)
                        /\ (\A n \in DOMAIN mssa.operands[p] : g[<<"value", mssa.operands[p][n]>>])
                               <=> (\A n \in DOMAIN mssa.operands[p] : OfValue(mssa.operands[p][n]) \in G)
    BY <2>3
  <2>5. DefBody(g, x) = ValueBody(G, p)
    BY <2>2, <2>4 DEF DefBody, ValueBody
  <2> QED
    BY <2>2, <2>5 DEF FactBody
<1>2. CASE \E m \in Accesses, b \in Bytes : x = OfByte(m, b)
  <2>1. PICK m \in Accesses, b \in Bytes : x = OfByte(m, b)
    BY <1>2
  <2>2. x[1] = "byte" /\ x[2] = m /\ x[3] = b /\ x[1] # "value"
    BY <2>1 DEF OfByte
  <2>3. ~IsPhi(m) /\ m # LiveOnEntry /\ Ins(m).kind = "store" =>
            /\ g[<<"value", mssa.operands[m][1]>>] = (OfValue(mssa.operands[m][1]) \in G)
            /\ g[<<"byte", mssa.access[m], b>>] = (OfByte(mssa.access[m], b) \in G)
    BY <1>0, DefinedClosed DEF OfByte, OfValue
  <2>4. DefBody(g, x) = ByteBody(G, m, b)
    BY <2>2, <2>3 DEF DefBody, ByteBody
  <2> QED
    BY <2>2, <2>4 DEF FactBody
<1> QED
  BY <1>1, <1>2 DEF Defined

\* The recursion has a solution.
LEMMA DefinitionSolved ==
    ASSUME Given
    PROVE  \E g : g = [x \in Defined |-> DefBody(g, x)]
<1> DEFINE Closed(G) == \A y \in G : FactBody(G, y)
           M == {x \in Defined : \E G \in SUBSET Defined : Closed(G) /\ x \in G}
<1>1. ASSUME NEW G \in SUBSET Defined, Closed(G) PROVE G \subseteq M
  BY <1>1
<1>2. ASSUME NEW x \in M PROVE FactBody(M, x)
  <2>1. PICK G \in SUBSET Defined : Closed(G) /\ x \in G
    OBVIOUS
  <2>2. FactBody(G, x) /\ G \subseteq M
    BY <1>1, <2>1
  <2> HIDE DEF M
  <2> QED
    BY <2>2, BodyGrows
<1>3. ASSUME NEW x \in Defined, FactBody(M, x) PROVE x \in M
  <2>1. PICK G : G = M \cup {x}
    OBVIOUS
  <2>2. M \subseteq G /\ G \in SUBSET Defined /\ x \in G
    BY <2>1
  <2>3. \A y \in G : FactBody(M, y)
    <3> HIDE DEF M
    <3> QED
      BY <1>2, <1>3, <2>1
  <2>4. Closed(G)
    <3> HIDE DEF M
    <3> QED
      BY <2>2, <2>3, BodyGrows
  <2> QED
    BY <1>1, <2>2, <2>4
<1> HIDE DEF M
<1>4. \A x \in Defined : (x \in M) = FactBody(M, x)
  <2>1. \A x \in Defined : (x \in M) <=> FactBody(M, x)
    BY <1>2, <1>3
  <2>2. (\A p : ValueBody(M, p) \in BOOLEAN) /\ \A m, b : ByteBody(M, m, b) \in BOOLEAN
    BY DEF ValueBody, ByteBody
  <2>3. \A x : FactBody(M, x) \in BOOLEAN
    BY <2>2 DEF FactBody
  <2> QED
    BY <2>1, <2>3
<1>5. PICK g : g = [x \in Defined |-> x \in M]
  OBVIOUS
<1>6. \A x \in Defined : DefBody(g, x) = (x \in M)
  BY <1>4, <1>5, FactBodies
<1>7. g = [x \in Defined |-> DefBody(g, x)]
  BY <1>5, <1>6
<1> QED
  BY <1>7

SafeValue(p) == SafeByDefinition[<<"value", p>>]

SafeByte(m, b) == SafeByDefinition[<<"byte", m, b>>]

\* The definition of the verdicts holds of them.
LEMMA DefinitionHolds ==
    ASSUME Given
    PROVE  /\ SafeValue(Constant)
           /\ \A p \in Code : SafeValue(p) <=>
                  /\ p[1] \notin mssa.inLoop
                  /\ \/ /\ Ins(p).kind = "load" /\ Ins(p).bytes # {} /\ Cardinality(Ins(p).bytes) <= MaxLoad
                        /\ p[1] \notin mssa.joined
                        /\ \A b \in Ins(p).bytes : SafeByte(mssa.access[p], b)
                     \/ /\ Ins(p).kind \in {"op", "div"}
                        /\ \A n \in DOMAIN mssa.operands[p] : SafeValue(mssa.operands[p][n])
           /\ \A m : IsAccess(m) => \A b \in Bytes : SafeByte(m, b) <=>
                  \/ m = LiveOnEntry
                  \/ /\ KnownStore(m)
                     /\ IF b \in Ins(m).bytes
                        THEN m[1] \notin mssa.inLoop \cup mssa.joined /\ SafeValue(mssa.operands[m][1])
                        ELSE SafeByte(mssa.access[m], b)
           /\ \A p \in Code : SafeValue(p) \in BOOLEAN
<1> DEFINE U(g) == [x \in Defined |-> DefBody(g, x)]
<1>1. SafeByDefinition = CHOOSE g : g = U(g)
  BY DEF SafeByDefinition, DefBody, Defined, OfValue, OfByte
<1>2. \E g : g = U(g)
  BY DefinitionSolved
<1>3. SafeByDefinition = U(SafeByDefinition)
  <2> HIDE DEF U
  <2> QED
    BY <1>1, <1>2
<1>4. PICK s : s = SafeByDefinition
  OBVIOUS
<1>5. \A x \in Defined : s[x] = DefBody(s, x)
  BY <1>3, <1>4
<1>6. ASSUME NEW p \in Code \cup {Constant}
      PROVE  s[<<"value", p>>] =
               (\/ p = Constant
                \/ /\ p # Constant /\ p[1] \notin mssa.inLoop
                   /\ \/ /\ Ins(p).kind = "load" /\ Ins(p).bytes # {} /\ Cardinality(Ins(p).bytes) <= MaxLoad
                         /\ p[1] \notin mssa.joined
                         /\ \A b \in Ins(p).bytes : s[<<"byte", mssa.access[p], b>>]
                      \/ /\ Ins(p).kind \in {"op", "div"}
                         /\ \A n \in DOMAIN mssa.operands[p] : s[<<"value", mssa.operands[p][n]>>])
  <2>1. PICK x : x = <<"value", p>>
    OBVIOUS
  <2>2. x \in Defined
    BY <2>1 DEF Defined, OfValue
  <2>3. x[1] = "value" /\ x[2] = p
    BY <2>1
  <2>4. s[x] = DefBody(s, x)
    BY <1>5, <2>2
  <2> QED
    BY <2>1, <2>3, <2>4 DEF DefBody
<1>7. ASSUME NEW m, IsAccess(m), NEW b \in Bytes
      PROVE  s[<<"byte", m, b>>] =
               (\/ m = LiveOnEntry
                \/ /\ ~IsPhi(m) /\ m # LiveOnEntry
                   /\ Ins(m).kind = "store" /\ Ins(m).bytes # {}
                   /\ IF b \in Ins(m).bytes
                      THEN /\ m[1] \notin mssa.inLoop \cup mssa.joined
                           /\ s[<<"value", mssa.operands[m][1]>>]
                      ELSE s[<<"byte", mssa.access[m], b>>])
  <2>1. PICK x : x = <<"byte", m, b>>
    OBVIOUS
  <2>2. x \in Defined
    BY <1>7, <2>1, AccessesAre DEF Defined, OfByte
  <2>3. x[1] # "value" /\ x[2] = m /\ x[3] = b
    BY <2>1
  <2>4. s[x] = DefBody(s, x)
    BY <1>5, <2>2
  <2> QED
    BY <2>1, <2>3, <2>4 DEF DefBody
<1>8. ASSUME NEW m, IsAccess(m)
      PROVE  ~IsPhi(m) /\ m # LiveOnEntry /\ Ins(m).kind = "store" /\ Ins(m).bytes # {} <=> KnownStore(m)
  BY <1>8, PhisAreStarts DEF IsPhi, KnownStore, LiveOnEntry
<1>9. \A p \in Code : p # Constant
  BY Pairs
<1>10. SafeValue(Constant)
  BY <1>4, <1>6 DEF SafeValue
<1> QED
  BY <1>4, <1>6, <1>7, <1>8, <1>9, <1>10 DEF SafeValue, SafeByte

-----------------------------------------------------------------------------
(* What is asked for *)

\* what is asked for with the operands of p, when s are the verdicts
AskBelow(s, g, p) ==
    LET o == mssa.operands[p]
    IN UNION {g[o[n]] : n \in {k \in DOMAIN o : \A j \in 1..k-1 : s[o[j]]}}

\* the body of asked
AskBody(s, g, p) ==
    IF p = Constant \/ p \in DOMAIN value_safety THEN {}
    ELSE {p} \cup (IF Ins(p).kind \in {"op", "div"} /\ p[1] \notin mssa.inLoop
                    THEN AskBelow(s, g, p) ELSE {})

\* It asks for operands only.
LEMMA AskLocal ==
    ASSUME Given, NEW s, NEW p \in Code \cup {Constant}, NEW g, NEW h,
           g[Constant] = h[Constant],
           \A q \in Code : p \in Code /\ Earlier(q, p) => g[q] = h[q]
    PROVE  AskBody(s, g, p) = AskBody(s, h, p)
<1>1. CASE p = Constant
  BY <1>1 DEF AskBody
<1>2. CASE p # Constant
  <2>1. p \in Code
    BY <1>2
  <2>2. PICK o : o = mssa.operands[p]
    OBVIOUS
  <2>3. \A n \in DOMAIN o : g[o[n]] = h[o[n]]
    BY <2>1, <2>2, OperandsEarlier
  <2>4. PICK K : K = {k \in DOMAIN o : \A j \in 1..k-1 : s[o[j]]}
    OBVIOUS
  <2>5. K \subseteq DOMAIN o
    BY <2>4
  <2>6. /\ \A y : y \in AskBelow(s, g, p) <=> \E n \in K : y \in g[o[n]]
        /\ \A y : y \in AskBelow(s, h, p) <=> \E n \in K : y \in h[o[n]]
    BY <2>2, <2>4 DEF AskBelow
  <2>7. AskBelow(s, g, p) = AskBelow(s, h, p)
    <3>1. \A y : y \in AskBelow(s, g, p) <=> y \in AskBelow(s, h, p)
      BY <2>3, <2>5, <2>6
    <3> QED
      BY <3>1
  <2> QED
    BY <2>7 DEF AskBody
<1> QED
  BY <1>1, <1>2

\* So this recursion has a solution, too.
LEMMA AskSolved ==
    ASSUME Given, NEW s
    PROVE  \E g : g = [p \in Code \cup {Constant} |-> AskBody(s, g, p)]
<1>1. PICK r, N : Numbers(r, N)
  BY NumbersExist
<1>2. /\ \A x \in Code : r[x] \in Nat /\ r[x] < N
      /\ N \in Nat
      /\ \A x, y \in Code : Earlier(x, y) => r[x] < r[y]
  BY <1>1, Pairs DEF Numbers
<1> DEFINE Before(n) == {p \in Code : r[p] < n} \cup {Constant}
<1> DEFINE S == {n \in Nat : \E g : g = [p \in Before(n) |-> AskBody(s, g, p)]}
<1>3. 0 \in S
  <2>1. Before(0) = {Constant}
    BY <1>2
  <2>2. PICK g : g = [p \in {Constant} |-> {}]
    OBVIOUS
  <2>3. AskBody(s, g, Constant) = {}
    BY DEF AskBody
  <2>4. g = [p \in Before(0) |-> AskBody(s, g, p)]
    BY <2>1, <2>2, <2>3
  <2> QED
    BY <2>4
<1>4. ASSUME NEW n \in Nat, n \in S PROVE n + 1 \in S
  <2>1. PICK g : g = [p \in Before(n) |-> AskBody(s, g, p)]
    BY <1>4
  <2>2. PICK h : h = [p \in Before(n + 1) |-> AskBody(s, g, p)]
    OBVIOUS
  <2>3. \A q \in Before(n) : g[q] = AskBody(s, g, q)
    <3> HIDE DEF Before
    <3> QED
      BY <2>1
  <2>4. \A q \in Before(n + 1) : h[q] = AskBody(s, g, q)
    <3> HIDE DEF Before
    <3> QED
      BY <2>2
  <2>5. g[Constant] = h[Constant]
    BY <2>3, <2>4
  <2>6. ASSUME NEW p \in Before(n + 1) PROVE AskBody(s, g, p) = AskBody(s, h, p)
    <3>1. ASSUME NEW q \in Code, p \in Code, Earlier(q, p) PROVE g[q] = h[q]
      <4>1. r[q] < r[p] /\ r[q] \in Nat /\ r[p] \in Nat
        BY <1>2, <3>1
      <4>2. r[p] < n + 1
        BY <3>1, Pairs
      <4>3. r[q] < n /\ r[q] < n + 1
        BY <4>1, <4>2
      <4>4. q \in Before(n) /\ q \in Before(n + 1)
        BY <4>3
      <4> HIDE DEF Before
      <4> QED
        BY <2>3, <2>4, <4>4
    <3>2. p \in Code \cup {Constant}
      OBVIOUS
    <3> HIDE DEF Before
    <3> QED
      BY <2>5, <3>1, <3>2, AskLocal
  <2>7. h = [p \in Before(n + 1) |-> AskBody(s, h, p)]
    <3> HIDE DEF Before
    <3> QED
      BY <2>2, <2>6
  <2> QED
    BY <2>7
<1>5. N \in S
  <2> HIDE DEF S
  <2> QED
    BY <1>2, <1>3, <1>4, AllNumbers
<1>6. Before(N) = Code \cup {Constant}
  BY <1>2
<1> QED
  BY <1>5, <1>6

\* Only what leads to a value is asked for with it, nothing else with a load.
LEMMA AskedLead ==
    ASSUME Given, NEW s, NEW a, a = [p \in Code \cup {Constant} |-> AskBody(s, a, p)]
    PROVE  /\ a[Constant] = {}
           /\ \A p \in Code : \A x \in a[p] : x \in Code /\ Leads(x, p)
           /\ \A p \in Code : Ins(p).kind = "load" => a[p] \subseteq {p}
<1>1. \A p \in Code \cup {Constant} : a[p] = AskBody(s, a, p)
  OBVIOUS
<1>2. a[Constant] = {}
  BY <1>1 DEF AskBody
<1>3. ASSUME NEW p \in Code, Ins(p).kind = "load" PROVE a[p] \subseteq {p}
  BY <1>1, <1>3 DEF AskBody
<1> DEFINE S == {p \in Positions(func) : p \in Code => \A x \in a[p] : x \in Code /\ Leads(x, p)}
<1>4. ASSUME NEW p \in Positions(func), \A q \in Positions(func) : Earlier(q, p) => q \in S,
             p \in Code, NEW x \in a[p]
      PROVE  x \in Code /\ Leads(x, p)
  <2>1. CASE x = p
    BY <1>4, <2>1, LeadsOn
  <2>2. CASE x # p
    <3>1. PICK n \in DOMAIN mssa.operands[p] : x \in a[mssa.operands[p][n]]
      <4>1. a[p] = AskBody(s, a, p)
        BY <1>1, <1>4
      <4>2. x \in AskBelow(s, a, p)
        BY <1>4, <2>2, <4>1 DEF AskBody
      <4> QED
        BY <4>2 DEF AskBelow
    <3>2. PICK o : o = mssa.operands[p][n]
      OBVIOUS
    <3>3. o # Constant
      BY <1>2, <3>1, <3>2
    <3>4. o \in Code /\ Leads(o, p) /\ Earlier(o, p)
      BY <1>4, <3>2, <3>3, OperandsLead, OperandsEarlier
    <3>5. o \in S
      BY <1>4, <3>4, Pairs
    <3>6. x \in Code /\ Leads(x, o)
      BY <3>1, <3>2, <3>4, <3>5
    <3> QED
      BY <3>4, <3>6, LeadsOn
  <2> QED
    BY <2>1, <2>2
<1>5. \A p \in Positions(func) : p \in S
  <2>1. \A p \in Positions(func) :
            (\A q \in Positions(func) : Earlier(q, p) => q \in S) => p \in S
    BY <1>4
  <2> HIDE DEF S
  <2> QED
    BY <2>1, AllPositions
<1>6. \A p \in Code : \A x \in a[p] : x \in Code /\ Leads(x, p)
  BY <1>5, Pairs
<1> QED
  BY <1>2, <1>3, <1>6

\* So a verdict that is new was asked for.
LEMMA AskedAre ==
    ASSUME Given, NEW P \in SUBSET (Code \cup {Constant}), NEW m,
           NEW x \in DOMAIN Asked(P, m), x \notin DOMAIN value_safety
    PROVE  /\ x \in Code /\ Asked(P, m)[x] = is_safe_value(m)[x]
           /\ \E p \in P : p \in Code /\ Leads(x, p) /\ (Ins(p).kind = "load" => x = p)
<1>1. PICK s : s = is_safe_value(m)
  OBVIOUS
<1> DEFINE U(g) == [p \in Code \cup {Constant} |-> AskBody(s, g, p)]
<1>2. PICK a : a = CHOOSE g : g = U(g)
  OBVIOUS
<1>3. Asked(P, m) = [p \in DOMAIN value_safety \cup (P \ {Constant}) \cup UNION {a[q] : q \in P} |->
                        IF p \in DOMAIN value_safety THEN value_safety[p] ELSE s[p]]
  BY <1>1, <1>2 DEF Asked, AskBody, AskBelow
<1>4. a = U(a)
  <2>1. \E g : g = U(g)
    BY AskSolved
  <2> HIDE DEF U
  <2> QED
    BY <1>2, <2>1
<1>5. /\ a[Constant] = {}
      /\ \A p \in Code : \A y \in a[p] : y \in Code /\ Leads(y, p)
      /\ \A p \in Code : Ins(p).kind = "load" => a[p] \subseteq {p}
  BY <1>4, AskedLead
<1>6. x \in P \ {Constant} \/ \E p \in P : x \in a[p]
  BY <1>3
<1>7. \E p \in P : p \in Code /\ x \in Code /\ Leads(x, p) /\ (Ins(p).kind = "load" => x = p)
  <2>1. CASE x \in P \ {Constant}
    <3>1. x \in Code /\ Leads(x, x)
      BY <2>1, LeadsOn, Pairs
    <3> QED
      BY <2>1, <3>1
  <2>2. CASE \E p \in P : x \in a[p]
    <3>1. PICK p \in P : x \in a[p]
      BY <2>2
    <3>2. p \in Code
      BY <1>5, <3>1
    <3> QED
      BY <1>5, <3>1, <3>2
  <2> QED
    BY <1>6, <2>1, <2>2
<1>8. Asked(P, m)[x] = s[x]
  BY <1>3
<1> QED
  BY <1>1, <1>7, <1>8

-----------------------------------------------------------------------------
(* The verdicts are those of the definition *)

Exact == \A p \in Code : p \in DOMAIN value_safety => (value_safety[p] <=> SafeValue(p))

\* It depends on the function alone.
LEMMA DefinitionStays ==
    ASSUME UNCHANGED <<func, mssa>>
    PROVE  Code' = Code /\ \A p : SafeValue(p)' = SafeValue(p)
<1>1. func' = func /\ mssa' = mssa
  OBVIOUS
<1>2. SafeByDefinition' = SafeByDefinition
  BY <1>1 DEF SafeByDefinition, Code, Accesses, Ins
<1> QED
  BY <1>1, <1>2 DEF SafeValue, Code

\* One more access of the branch.
LEMMA SettleStep ==
    ASSUME NEW k \in Nat, k >= 1, NEW b
    PROVE  SafeUpTo(k, b) <=> IF Settles(stack[k].access, b) THEN MakesSafe(stack[k].access)
                              ELSE k > 1 /\ SafeUpTo(k - 1, b)
<1>1. CASE Settles(stack[k].access, b)
  <2>1. k \in 1 .. k /\ \A i \in k + 1 .. k : FALSE
    OBVIOUS
  <2>2. ASSUME NEW j \in 1 .. k, \A i \in j + 1 .. k : ~Settles(stack[i].access, b) PROVE j = k
    <3>1. j # k => k \in j + 1 .. k
      OBVIOUS
    <3> QED
      BY <1>1, <2>2, <3>1
  <2> QED
    BY <1>1, <2>1, <2>2 DEF SafeUpTo
<1>2. CASE ~Settles(stack[k].access, b)
  <2>1. ASSUME NEW j \in 1 .. k, Settles(stack[j].access, b) PROVE j \in 1 .. k - 1 /\ k > 1
    <3>1. j # k
      BY <1>2, <2>1
    <3> QED
      BY <3>1
  <2>2. \A j \in 1 .. k - 1 : j \in 1 .. k /\ \A i : i \in j + 1 .. k <=> i = k \/ i \in j + 1 .. k - 1
    OBVIOUS
  <2>3. ASSUME SafeUpTo(k, b) PROVE k > 1 /\ SafeUpTo(k - 1, b)
    <3>1. PICK j \in 1 .. k : /\ Settles(stack[j].access, b) /\ MakesSafe(stack[j].access)
                              /\ \A i \in j + 1 .. k : ~Settles(stack[i].access, b)
      BY <2>3 DEF SafeUpTo
    <3>2. j \in 1 .. k - 1 /\ k > 1
      BY <2>1, <3>1
    <3>3. \A i \in j + 1 .. k - 1 : ~Settles(stack[i].access, b)
      BY <2>2, <3>1, <3>2
    <3> QED
      BY <3>1, <3>2, <3>3 DEF SafeUpTo
  <2>4. ASSUME SafeUpTo(k - 1, b) PROVE SafeUpTo(k, b)
    <3>1. PICK j \in 1 .. k - 1 : /\ Settles(stack[j].access, b) /\ MakesSafe(stack[j].access)
                                  /\ \A i \in j + 1 .. k - 1 : ~Settles(stack[i].access, b)
      BY <2>4 DEF SafeUpTo
    <3>2. j \in 1 .. k /\ \A i \in j + 1 .. k : ~Settles(stack[i].access, b)
      BY <1>2, <2>2, <3>1
    <3> QED
      BY <3>1, <3>2 DEF SafeUpTo
  <2> QED
    BY <1>2, <2>3, <2>4
<1> QED
  BY <1>1, <1>2

\* A store of the branch is judged by its definition.
LEMMA StoreExact ==
    ASSUME Given, Exact, NEW m, IsAccess(m), KnownStore(m), VerdictKnown(m)
    PROVE  /\ m \in Code /\ m # LiveOnEntry
           /\ StoreIsSafe(m) <=> m[1] \notin mssa.inLoop \cup mssa.joined /\ SafeValue(mssa.operands[m][1])
<1>1. m \in Code /\ m # LiveOnEntry
  BY PhisAreStarts DEF KnownStore
<1>2. PICK o : o = mssa.operands[m][1]
  OBVIOUS
<1>3. o = Constant \/ o \in Code
  <2>1. 1 \in DOMAIN mssa.operands[m]
    BY <1>1, StoreOperand DEF KnownStore
  <2> QED
    BY <1>1, <1>2, <2>1, OperandsEarlier
<1>4. SafeValue(Constant) /\ \A p \in Code : p # Constant
  BY DefinitionHolds, Pairs
<1>5. o # Constant /\ o \in DOMAIN value_safety => (value_safety[o] <=> SafeValue(o))
  BY <1>3 DEF Exact
<1>6. \/ m[1] \in mssa.inLoop \cup mssa.joined
      \/ o = Constant
      \/ o \in DOMAIN value_safety
  BY <1>2 DEF VerdictKnown
<1>7. StoreIsSafe(m) <=> /\ m[1] \notin mssa.inLoop \cup mssa.joined
                         /\ o = Constant \/ (o \in DOMAIN value_safety /\ value_safety[o])
  BY <1>2 DEF StoreIsSafe
<1> QED
  BY <1>1, <1>2, <1>4, <1>5, <1>6, <1>7

\* So the bytes of the active access are.
LEMMA BytesExact ==
    ASSUME WalkInv, Exact, phase = "memory", stack # <<>>, NEW b \in Bytes
    PROVE  CurrentSafety(b) <=> SafeByte(Top.access, b)
<1>1. PICK n : n = Len(stack)
  OBVIOUS
<1>2. n \in Nat /\ n >= 1 /\ BranchInv /\ VerdictInv /\ Given
  BY <1>1 DEF WalkInv, TypeInv, Given
<1>3. \A k \in 1 .. n : /\ IsAccess(stack[k].access)
                        /\ k = 1 <=> stack[k].access[2] = 0
                        /\ k > 1 => mssa.access[stack[k].access] = stack[k - 1].access
                        /\ KnownStore(stack[k].access) => VerdictKnown(stack[k].access)
  BY <1>1, <1>2, TreeAccess DEF BranchInv, VerdictInv
<1>4. CurrentSafety(b) <=> SafeUpTo(n, b)
  BY <1>1, StateWithoutTrace DEF SiblingsLeaveNoTrace, SafeUpTo
<1>5. ASSUME NEW k \in 1 .. n, k > 1 => (SafeByte(stack[k - 1].access, b) <=> SafeUpTo(k - 1, b))
      PROVE  SafeByte(stack[k].access, b) <=> SafeUpTo(k, b)
  <2>1. PICK m : m = stack[k].access
    OBVIOUS
  <2>2. IsAccess(m) /\ (KnownStore(m) => VerdictKnown(m))
    BY <1>3, <2>1
  <2>3. SafeByte(m, b) <=>
            \/ m = LiveOnEntry
            \/ /\ KnownStore(m)
               /\ IF b \in Ins(m).bytes
                  THEN m[1] \notin mssa.inLoop \cup mssa.joined /\ SafeValue(mssa.operands[m][1])
                  ELSE SafeByte(mssa.access[m], b)
    BY <1>2, <2>2, DefinitionHolds
  <2>4. SafeUpTo(k, b) <=> IF Settles(m, b) THEN MakesSafe(m) ELSE k > 1 /\ SafeUpTo(k - 1, b)
    BY <1>2, <2>1, SettleStep
  <2>5. CASE ~KnownStore(m)
    BY <2>1, <2>3, <2>4, <2>5 DEF Settles, MakesSafe
  <2>6. CASE KnownStore(m)
    <3>1. /\ m # LiveOnEntry
          /\ StoreIsSafe(m) <=> m[1] \notin mssa.inLoop \cup mssa.joined /\ SafeValue(mssa.operands[m][1])
      BY <1>2, <2>2, <2>6, StoreExact
    <3>2. CASE b \in Ins(m).bytes
      BY <2>1, <2>3, <2>4, <2>6, <3>1, <3>2 DEF Settles, MakesSafe
    <3>3. CASE b \notin Ins(m).bytes
      <4>1. k > 1
        BY <1>3, <2>1, <2>6 DEF KnownStore
      <4>2. mssa.access[m] = stack[k - 1].access
        BY <1>3, <2>1, <4>1
      <4>3. ~Settles(m, b)
        BY <2>6, <3>3 DEF Settles
      <4> QED
        BY <1>5, <2>1, <2>3, <2>4, <2>6, <3>1, <3>3, <4>1, <4>2, <4>3
    <3> QED
      BY <3>2, <3>3
  <2> QED
    BY <2>5, <2>6
<1> DEFINE S == {j \in Nat : j + 1 \in 1 .. n => (SafeByte(stack[j + 1].access, b) <=> SafeUpTo(j + 1, b))}
<1>6. 0 \in S
  <2>1. 1 \in 1 .. n /\ ~(1 > 1)
    BY <1>2
  <2>2. SafeByte(stack[1].access, b) <=> SafeUpTo(1, b)
    BY <1>5, <2>1
  <2> QED
    BY <2>2
<1>7. ASSUME NEW j \in Nat, j \in S PROVE j + 1 \in S
  <2> SUFFICES ASSUME (j + 1) + 1 \in 1 .. n
               PROVE  SafeByte(stack[(j + 1) + 1].access, b) <=> SafeUpTo((j + 1) + 1, b)
    OBVIOUS
  <2>1. PICK k : k = (j + 1) + 1
    OBVIOUS
  <2>2. k \in 1 .. n /\ k > 1 /\ k - 1 = j + 1 /\ j + 1 \in 1 .. n
    BY <1>2, <2>1
  <2>3. SafeByte(stack[k - 1].access, b) <=> SafeUpTo(k - 1, b)
    BY <1>7, <2>2
  <2>4. SafeByte(stack[k].access, b) <=> SafeUpTo(k, b)
    BY <1>5, <2>2, <2>3
  <2> QED
    BY <2>1, <2>4
<1>8. n - 1 \in S
  <2> HIDE DEF S
  <2>1. n - 1 \in Nat
    BY <1>2
  <2> QED
    BY <1>6, <1>7, <2>1, AllNumbers
<1>9. (n - 1) + 1 = n /\ n \in 1 .. n
  BY <1>2
<1>10. SafeByte(stack[n].access, b) <=> SafeUpTo(n, b)
  BY <1>8, <1>9
<1> QED
  BY <1>1, <1>4, <1>10 DEF Top

\* A load of the active access is judged by its definition.
LEMMA LoadExact ==
    ASSUME WalkInv, Exact, phase = "memory", stack # <<>>, NEW l, IsLoad(l), mssa.access[l] = Top.access
    PROVE  is_safe_value(Top.access)[l] <=> SafeValue(l)
<1>1. Given /\ l \in Code /\ l # Constant /\ Ins(l).kind = "load"
  BY Pairs DEF WalkInv, TypeInv, Given, IsLoad
<1>2. is_safe_value(Top.access)[l] = SafeBody(Top.access, is_safe_value(Top.access), l)
  BY <1>1, SafeEquation
<1>3. CASE l \in DOMAIN value_safety
  BY <1>1, <1>2, <1>3 DEF SafeBody, Exact
<1>4. CASE l \notin DOMAIN value_safety
  <2>1. Ins(l).bytes \subseteq Bytes
    BY <1>1, Pairs DEF Instructions
  <2>2. range_is_safe(Ins(l).bytes) <=> \A b \in Ins(l).bytes : SafeByte(mssa.access[l], b)
    BY <2>1, BytesExact DEF range_is_safe
  <2>3. SafeValue(l) <=>
            /\ l[1] \notin mssa.inLoop
            /\ Ins(l).bytes # {} /\ Cardinality(Ins(l).bytes) <= MaxLoad
            /\ l[1] \notin mssa.joined
            /\ \A b \in Ins(l).bytes : SafeByte(mssa.access[l], b)
    BY <1>1, DefinitionHolds
  <2>4. SafeBody(Top.access, is_safe_value(Top.access), l) <=>
            /\ l[1] \notin mssa.inLoop
            /\ Ins(l).bytes # {} /\ Cardinality(Ins(l).bytes) <= MaxLoad
            /\ l[1] \notin mssa.joined
            /\ range_is_safe(Ins(l).bytes)
    BY <1>1, <1>4 DEF SafeBody
  <2> QED
    BY <1>2, <2>2, <2>3, <2>4
<1> QED
  BY <1>3, <1>4

-----------------------------------------------------------------------------
(* What is judged on the way down is judged in time *)

\* The accesses on the stack are closed upwards.
LEMMA BranchAbove ==
    ASSUME WalkInv, phase = "memory", stack # <<>>, NEW x, Above(x, Top.access)
    PROVE  \E k \in 1 .. Len(stack) : stack[k].access = x
<1>1. PICK n : n = Len(stack)
  OBVIOUS
<1>2. n \in Nat /\ n >= 1 /\ BranchInv /\ Given
  BY <1>1 DEF WalkInv, TypeInv, Given
<1>3. \A k \in 1 .. n : /\ IsAccess(stack[k].access)
                        /\ k = 1 <=> stack[k].access[2] = 0
                        /\ k > 1 => mssa.access[stack[k].access] = stack[k - 1].access
  BY <1>1, <1>2, TreeAccess DEF BranchInv
<1>4. PICK F : F = {stack[k].access : k \in 1 .. n}
  OBVIOUS
<1>5. F \in SUBSET Universe
  BY <1>2, <1>3, <1>4, InUniverse
<1>6. Top.access \in F
  <2>1. n \in 1 .. n
    BY <1>2
  <2> QED
    BY <1>1, <1>4, <2>1 DEF Top
<1>7. ASSUME NEW y \in F, y \in Code PROVE mssa.access[y] \in F
  <2>1. PICK k \in 1 .. n : y = stack[k].access
    BY <1>4
  <2>2. y[2] # 0
    BY <1>2, <1>7, Pairs, Shape
  <2>3. k > 1 /\ k - 1 \in 1 .. n
    BY <1>2, <1>3, <2>1, <2>2
  <2> QED
    BY <1>3, <1>4, <2>1, <2>3
<1>8. x \in F
  BY <1>5, <1>6, <1>7 DEF Above, Upwards
<1> QED
  BY <1>1, <1>4, <1>8

\* When a store is reached, every load on the path that lifted it has been judged.
LEMMA LeadingJudged ==
    ASSUME WalkInv, VisitInv, phase = "memory", stack # <<>>, Top.entered,
           NEW d \in Code, mssa.access[d] = Top.access, NEW l, IsLoad(l), Leads(l, Prev(d))
    PROVE  l \in DOMAIN value_safety
<1>1. PICK n : n = Len(stack)
  OBVIOUS
<1>2. /\ Given /\ n \in Nat /\ n >= 1 /\ root \in Nat
      /\ BranchInv
  BY <1>1, StackShape DEF WalkInv
<1>3. l \in Code /\ Ins(l).kind = "load" /\ Touching(l) /\ ~IsWrite(func, l)
  BY DEF IsLoad, Touching, IsWrite, Ins
<1>4. /\ l \in Positions(func) /\ Prev(d) \in Positions(func)
      /\ Mem(l) = mssa.access[l] /\ Mem(Prev(d)) = Top.access
  BY <1>2, <1>3, MemSteps, Pairs
<1>5. \/ Above(mssa.access[l], Top.access)
      \/ \E b \in Blocks : l[1] < b /\ Above(Phi(b), Top.access)
  BY <1>2, <1>4, PathAbove
<1>6. CASE Above(mssa.access[l], Top.access)
  <2>1. PICK k \in 1 .. n : stack[k].access = mssa.access[l]
    BY <1>1, <1>6, BranchAbove
  <2>2. Visited(k)
    BY <1>1 DEF VisitInv
  <2>3. stack[k].entered
    BY <1>1, <1>2, <2>2 DEF Visited, Top
  <2> QED
    BY <2>1, <2>2, <2>3 DEF Visited, LoadsDone
<1>7. CASE \E b \in Blocks : l[1] < b /\ Above(Phi(b), Top.access)
  <2>1. PICK b \in Blocks : l[1] < b /\ Above(Phi(b), Top.access)
    BY <1>7
  <2>2. PICK k \in 1 .. n : stack[k].access = Phi(b)
    BY <1>1, <2>1, BranchAbove
  <2>3. k = 1
    BY <1>1, <1>2, <2>2 DEF BranchInv, Phi
  <2>4. /\ mssa.roots[root] = Phi(b) /\ root >= 1 /\ root <= Len(mssa.roots)
        /\ \A j \in 1 .. root : j < root => TreeDone(mssa.roots[j])
    BY <2>2, <2>3 DEF VisitInv
  <2>5. b \in Nat /\ b >= 1 /\ l[1] \in Nat
    BY <1>2, <1>3, Pairs, Shape
  <2>6. /\ Len(mssa.roots) \in Nat /\ mssa.roots[1] = LiveOnEntry
        /\ \A j \in 2 .. Len(mssa.roots) :
              \E q \in Code : /\ mssa.roots[j] = mssa.access[q] /\ IsPhi(mssa.access[q])
                              /\ \A p \in Code : Touching(p) /\ IsPhi(mssa.access[p]) /\ p[1] < q[1]
                                     => Ahead(mssa.access[p], mssa.roots, j)
    BY <1>2, RootsInOrder
  <2>7. root # 1
    BY <2>4, <2>5, <2>6 DEF Phi, LiveOnEntry
  <2>8. root \in 2 .. Len(mssa.roots) /\ 1 \in 1 .. root /\ 1 < root
    BY <1>2, <2>4, <2>6, <2>7
  <2>9. PICK q \in Code : /\ mssa.roots[root] = mssa.access[q]
                          /\ \A p \in Code : Touching(p) /\ IsPhi(mssa.access[p]) /\ p[1] < q[1]
                                 => Ahead(mssa.access[p], mssa.roots, root)
    BY <2>6, <2>8
  <2>10. b <= q[1] /\ q[1] \in Nat
    <3>1. mssa.access[q] = Phi(b)
      BY <2>4, <2>9
    <3>2. b <= q[1]
      BY <1>2, <3>1, PhiSeenLater
    <3>3. q[1] \in Nat
      BY <1>2, Pairs, Shape
    <3> QED
      BY <3>2, <3>3
  <2>11. PICK r \in Code : /\ Touching(r) /\ r[1] <= l[1] /\ Above(mssa.access[r], mssa.access[l])
                           /\ mssa.access[r] = LiveOnEntry \/ IsPhi(mssa.access[r])
    BY <1>2, <1>3, <1>4, RootAbove
  <2>12. r[1] < q[1]
    <3>1. r[1] \in Nat
      BY <1>2, Pairs, Shape, SMTT(30)
    <3> QED
      BY <2>1, <2>5, <2>10, <2>11, <3>1
  <2>13. TreeDone(mssa.access[r])
    <3>1. CASE mssa.access[r] = LiveOnEntry
      BY <2>4, <2>6, <2>8, <3>1
    <3>2. CASE IsPhi(mssa.access[r])
      <4>1. Ahead(mssa.access[r], mssa.roots, root)
        BY <2>9, <2>11, <2>12, <3>2
      <4>2. PICK j \in 1 .. root - 1 : mssa.roots[j] = mssa.access[r]
        BY <4>1 DEF Ahead
      <4>3. j \in 1 .. root /\ j < root
        BY <1>2
      <4> QED
        BY <2>4, <4>2, <4>3
    <3> QED
      BY <2>11, <3>1, <3>2
  <2> QED
    BY <2>11, <2>13 DEF TreeDone
<1> QED
  BY <1>5, <1>6, <1>7

\* So whatever is asked for then has the verdict of its definition.
LEMMA LeadingExact ==
    ASSUME WalkInv, VisitInv, Exact, phase = "memory", stack # <<>>, Top.entered,
           NEW d \in Code, mssa.access[d] = Top.access
    PROVE  \A x \in Code : Leads(x, Prev(d)) => (is_safe_value(Top.access)[x] <=> SafeValue(x))
<1>1. PICK s : s = is_safe_value(Top.access)
  OBVIOUS
<1>2. Given
  BY DEF WalkInv, TypeInv, Given
<1>3. \A x \in Code \cup {Constant} : s[x] = SafeBody(Top.access, s, x)
  BY <1>1, <1>2, SafeEquation
<1>4. Prev(d) \in Positions(func)
  BY <1>2, MemSteps
<1>5. s[Constant] /\ SafeValue(Constant)
  BY <1>2, <1>3, DefinitionHolds DEF SafeBody
<1> DEFINE S == {x \in Positions(func) : x \in Code /\ Leads(x, Prev(d)) => (s[x] <=> SafeValue(x))}
<1>6. ASSUME NEW x \in Positions(func), \A q \in Positions(func) : Earlier(q, x) => q \in S,
             x \in Code, Leads(x, Prev(d))
      PROVE  s[x] <=> SafeValue(x)
  <2>1. x # Constant /\ s[x] = SafeBody(Top.access, s, x)
    BY <1>2, <1>3, <1>6, Pairs
  <2>2. CASE x \in DOMAIN value_safety
    BY <1>6, <2>1, <2>2 DEF SafeBody, Exact
  <2>3. CASE x \notin DOMAIN value_safety
    <3>1. Ins(x).kind # "load"
      BY <1>6, <2>3, LeadingJudged DEF IsLoad
    <3>2. \A n \in DOMAIN mssa.operands[x] : s[mssa.operands[x][n]] <=> SafeValue(mssa.operands[x][n])
      <4> SUFFICES ASSUME NEW n \in DOMAIN mssa.operands[x], mssa.operands[x][n] # Constant
                   PROVE  s[mssa.operands[x][n]] <=> SafeValue(mssa.operands[x][n])
        BY <1>5
      <4>1. PICK o : o = mssa.operands[x][n]
        OBVIOUS
      <4>2. o \in Code /\ Leads(o, x) /\ Earlier(o, x)
        BY <1>2, <1>6, <4>1, OperandsLead, OperandsEarlier
      <4>3. Leads(o, Prev(d))
        BY <1>2, <1>4, <1>6, <4>2, LeadsOn
      <4>4. o \in S
        BY <1>2, <1>6, <4>2, Pairs
      <4> QED
        BY <4>1, <4>2, <4>3, <4>4
    <3>3. SafeValue(x) <=> /\ x[1] \notin mssa.inLoop /\ Ins(x).kind \in {"op", "div"}
                           /\ \A n \in DOMAIN mssa.operands[x] : SafeValue(mssa.operands[x][n])
      BY <1>2, <1>6, <3>1, DefinitionHolds
    <3>4. SafeBody(Top.access, s, x) <=> /\ x[1] \notin mssa.inLoop /\ Ins(x).kind \in {"op", "div"}
                                         /\ \A n \in DOMAIN mssa.operands[x] : s[mssa.operands[x][n]]
      BY <2>1, <2>3, <3>1 DEF SafeBody
    <3> QED
      BY <2>1, <3>2, <3>3, <3>4
  <2> QED
    BY <2>2, <2>3
<1>7. \A x \in Positions(func) : x \in S
  <2>1. \A x \in Positions(func) :
            (\A q \in Positions(func) : Earlier(q, x) => q \in S) => x \in S
    BY <1>6
  <2> HIDE DEF S
  <2> QED
    BY <1>2, <2>1, AllPositions
<1> QED
  BY <1>1, <1>2, <1>7, Pairs

\* Verdicts that were exact stay so if those that are new are.
LEMMA AskedExact ==
    ASSUME Given, Exact, UNCHANGED <<func, mssa>>,
           NEW P \in SUBSET (Code \cup {Constant}), NEW m, value_safety' = Asked(P, m),
           \A p \in P : p \in Code =>
               \A x \in Code : Leads(x, p) /\ (Ins(p).kind = "load" => x = p) =>
                   (is_safe_value(m)[x] <=> SafeValue(x))
    PROVE  Exact'
<1>1. Code' = Code /\ \A p : SafeValue(p)' = SafeValue(p)
  BY DefinitionStays
<1>2. Grown
  BY AskedGrows
<1>3. ASSUME NEW x \in Code, x \in DOMAIN value_safety' PROVE value_safety'[x] <=> SafeValue(x)
  <2>1. CASE x \in DOMAIN value_safety
    BY <1>2, <2>1 DEF Grown, Exact
  <2>2. CASE x \notin DOMAIN value_safety
    <3>1. /\ value_safety'[x] = is_safe_value(m)[x]
          /\ \E p \in P : p \in Code /\ Leads(x, p) /\ (Ins(p).kind = "load" => x = p)
      BY <1>3, <2>2, AskedAre
    <3> QED
      BY <3>1
  <2> QED
    BY <2>1, <2>2
<1> QED
  BY <1>1, <1>3 DEF Exact

\* Entering a frame judges loads of the active access.
LEMMA ExactEnter ==
    ASSUME WalkInv, Exact, Enter
    PROVE  Exact'
<1>1. /\ phase = "memory" /\ stack # <<>> /\ UNCHANGED <<func, mssa>>
      /\ value_safety' = Asked({p \in Code : Ins(p).kind = "load" /\ mssa.access[p] = Top.access}, Top.access)
  BY DEF Enter
<1>2. PICK P : P = {p \in Code : Ins(p).kind = "load" /\ mssa.access[p] = Top.access}
  OBVIOUS
<1>3. P \in SUBSET (Code \cup {Constant})
  BY <1>2
<1>4. \A p \in P : IsLoad(p) /\ mssa.access[p] = Top.access
  BY <1>2 DEF IsLoad
<1>5. \A p \in P : Ins(p).kind = "load" /\ (is_safe_value(Top.access)[p] <=> SafeValue(p))
  BY <1>1, <1>4, LoadExact DEF IsLoad
<1>6. value_safety' = Asked(P, Top.access)
  BY <1>1, <1>2
<1>7. Given
  BY DEF WalkInv, TypeInv, Given
<1> QED
  BY <1>1, <1>3, <1>5, <1>6, <1>7, AskedExact

\* Going down judges what a store writes, and what that is made of.
LEMMA ExactDescend ==
    ASSUME WalkInv, VisitInv, Exact, Descend
    PROVE  Exact'
<1>1. PICK d : d = mssa.children[Top.access][Top.next_child]
  OBVIOUS
<1>2. PICK v : v = mssa.operands[d][1]
  OBVIOUS
<1>3. /\ phase = "memory" /\ stack # <<>> /\ UNCHANGED <<func, mssa>> /\ Top.entered
      /\ Top.next_child <= Len(mssa.children[Top.access])
      /\ \/ KnownStore(d) /\ value_safety' = Asked({v}, Top.access)
         \/ value_safety' = value_safety
  BY <1>1, <1>2 DEF Descend
<1>4. CASE value_safety' = value_safety
  BY <1>3, <1>4, DefinitionStays DEF Exact
<1>5. CASE KnownStore(d) /\ value_safety' = Asked({v}, Top.access)
  <2>1. PICK n : n = Len(stack)
    OBVIOUS
  <2>2. Given /\ n \in 1 .. n /\ Top.access \in DOMAIN mssa.children /\ Top.next_child \in Nat \ {0}
    <3>1. Given /\ n \in 1 .. n /\ \A k \in 1 .. n : /\ stack[k].access \in DOMAIN mssa.children
                                                     /\ stack[k].next_child \in Nat \ {0}
      BY <1>3, <2>1, StackShape
    <3> QED
      BY <2>1, <3>1 DEF Top
  <2>3. d \in Code /\ mssa.access[d] = Top.access
    <3>1. Top.next_child \in DOMAIN mssa.children[Top.access]
      BY <1>3, <2>2, ChildrenAre
    <3> QED
      BY <1>1, <2>2, <3>1, ChildrenAre
  <2>4. 1 \in DOMAIN mssa.operands[d]
    BY <1>5, <2>2, <2>3, StoreOperand DEF KnownStore
  <2>5. v = Constant \/ (v \in Code /\ Leads(v, Prev(d)))
    BY <1>2, <2>2, <2>3, <2>4, OperandsLead
  <2>6. Prev(d) \in Positions(func)
    BY <2>2, <2>3, MemSteps
  <2>7. ASSUME v \in Code, NEW x \in Code, Leads(x, v)
        PROVE  is_safe_value(Top.access)[x] <=> SafeValue(x)
    <3>1. Leads(v, Prev(d))
      BY <2>2, <2>5, <2>7, Pairs
    <3>2. Leads(x, Prev(d))
      BY <2>2, <2>6, <2>7, <3>1, LeadsOn
    <3> QED
      BY <1>3, <2>3, <3>2, LeadingExact
  <2>8. PICK P : P = {v}
    OBVIOUS
  <2>9. P \in SUBSET (Code \cup {Constant}) /\ value_safety' = Asked(P, Top.access)
    BY <1>5, <2>5, <2>8
  <2>10. \A p \in P : p \in Code =>
             \A x \in Code : Leads(x, p) /\ (Ins(p).kind = "load" => x = p) =>
                 (is_safe_value(Top.access)[x] <=> SafeValue(x))
    BY <2>7, <2>8
  <2> QED
    BY <1>3, <2>2, <2>9, <2>10, AskedExact
<1> QED
  BY <1>3, <1>4, <1>5

\* Every verdict, whenever it is given, is the one its definition gives.
THEOREM VerdictsExact == Spec => []Exact
<1>1. Init => Exact
  <2> SUFFICES ASSUME Init PROVE Exact
    OBVIOUS
  <2>1. DOMAIN value_safety = {}
    BY DEF Init
  <2> QED
    BY <2>1 DEF Exact
<1>2. WalkInv /\ VisitInv /\ Exact /\ [Next]_vars => Exact'
  <2> SUFFICES ASSUME WalkInv, VisitInv, Exact, [Next]_vars PROVE Exact'
    OBVIOUS
  <2>1. ASSUME UNCHANGED <<func, mssa, value_safety>> PROVE Exact'
    BY <2>1, DefinitionStays DEF Exact
  <2>2. CASE Enter \/ Descend
    BY <2>2, ExactEnter, ExactDescend
  <2>3. CASE StartRoot \/ Backtrack
    BY <2>1, <2>3 DEF StartRoot, Backtrack
  <2>4. CASE ReplaceLoads \/ Propagate \/ EraseDead \/ Call \/ RunInstruction \/ RunBranch
    BY <2>1, <2>4 DEF ReplaceLoads, Propagate, EraseDead, Call, RunInstruction, RunBranch, walkVars
  <2>5. CASE UNCHANGED vars
    BY <2>1, <2>5 DEF vars, walkVars
  <2> QED
    BY <2>2, <2>3, <2>4, <2>5 DEF Next, Pass
<1> QED
  BY <1>1, <1>2, WalkCorrect, EveryLoadJudged, PTL DEF Spec

\* Whatever is asked first, and wherever in the forest: when the walk of concretize_memory_loads
\* has ended every load has a verdict, and it is the one that the definition of safety gives
\* without a walk and without a cache, for every function.
THEOREM OrderDoesNotMatter == Spec => []VerdictsIndependentOfOrder
<1>1. VisitInv /\ Exact => VerdictsIndependentOfOrder
  <2> SUFFICES ASSUME VisitInv, Exact, phase # "memory", NEW p \in Code, Ins(p).kind = "load"
               PROVE  p \in DOMAIN value_safety /\ (value_safety[p] <=> SafeByDefinition[<<"value", p>>])
    BY DEF VerdictsIndependentOfOrder
  <2>1. p \in DOMAIN value_safety
    BY DEF VisitInv, IsLoad
  <2> QED
    BY <2>1 DEF Exact, SafeValue
<1> QED
  BY <1>1, EveryLoadJudged, VerdictsExact, PTL
============================================================================
