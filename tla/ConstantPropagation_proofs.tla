--------------------- MODULE ConstantPropagation_proofs ---------------------
(* Proofs about ConstantPropagation: the one map that concretize_memory_loads *)
(* edits and repairs on its way through the tree of definitions always shows  *)
(* the writes of the current branch, for every function and whatever was      *)
(* visited before.                                                            *)
EXTENDS ConstantPropagation, TLAPS, WellFoundedInduction

-----------------------------------------------------------------------------
(* Numbers and sequences *)

\* A set of natural numbers that is not empty has a least element.
LEMMA LeastNumber ==
    ASSUME NEW T \in SUBSET Nat, T # {}
    PROVE  \E x \in T : \A y \in T : x <= y
<1>1. IsWellFoundedOn(OpToRel(<, Nat), Nat)
  BY NatLessThanWellFounded
<1>2. PICK x \in T : \A y \in T : ~(<<y, x>> \in OpToRel(<, Nat))
  BY <1>1, WFMin
<1>3. \A y \in T : ~(y < x)
  BY <1>2 DEF OpToRel
<1> QED
  BY <1>3

\* Induction, for a set of numbers.
LEMMA AllNumbers ==
    ASSUME NEW S, 0 \in S, \A n \in Nat : n \in S => n + 1 \in S
    PROVE  \A n \in Nat : n \in S
<1> DEFINE T == {n \in Nat : n \notin S}
<1> SUFFICES ASSUME T # {} PROVE FALSE
  OBVIOUS
<1>1. T \in SUBSET Nat
  OBVIOUS
<1>2. PICK x \in T : \A y \in T : x <= y
  BY <1>1, LeastNumber
<1>3. x # 0 /\ x \in Nat
  BY <1>2
<1>4. x - 1 \in Nat /\ ~(x <= x - 1) /\ (x - 1) + 1 = x
  BY <1>3
<1>5. x - 1 \in S
  BY <1>2, <1>4
<1> QED
  BY <1>2, <1>4, <1>5

\* What is in a sequence that is made of two.
LEMMA RangeJoined ==
    ASSUME NEW S, NEW s \in Seq(S), NEW t \in Seq(S)
    PROVE  s \o t \in Seq(S) /\ Range(s \o t) = Range(s) \cup Range(t)
<1>1. /\ Len(s) \in Nat /\ Len(t) \in Nat /\ DOMAIN s = 1 .. Len(s) /\ DOMAIN t = 1 .. Len(t)
      /\ s \o t \in Seq(S) /\ Len(s \o t) = Len(s) + Len(t)
      /\ DOMAIN (s \o t) = 1 .. Len(s) + Len(t)
  OBVIOUS
<1>2. ASSUME NEW k \in DOMAIN s PROVE k \in DOMAIN (s \o t) /\ (s \o t)[k] = s[k]
  OBVIOUS
<1>3. ASSUME NEW k \in DOMAIN t PROVE Len(s) + k \in DOMAIN (s \o t) /\ (s \o t)[Len(s) + k] = t[k]
  OBVIOUS
<1>4. ASSUME NEW k \in DOMAIN (s \o t)
      PROVE  (s \o t)[k] \in Range(s) \cup Range(t)
  <2>1. CASE k <= Len(s)
    <3>1. k \in DOMAIN s /\ (s \o t)[k] = s[k]
      BY <1>1, <1>2, <2>1
    <3> QED
      BY <3>1 DEF Range
  <2>2. CASE ~(k <= Len(s))
    <3>1. k - Len(s) \in DOMAIN t /\ Len(s) + (k - Len(s)) = k
      BY <1>1, <2>2
    <3>2. (s \o t)[k] = t[k - Len(s)]
      BY <1>3, <3>1
    <3> QED
      BY <3>1, <3>2 DEF Range
  <2> QED
    BY <2>1, <2>2
<1>5. Range(s \o t) \subseteq Range(s) \cup Range(t)
  BY <1>4 DEF Range
<1>6. Range(s) \subseteq Range(s \o t)
  BY <1>2 DEF Range
<1>7. Range(t) \subseteq Range(s \o t)
  BY <1>3 DEF Range
<1> QED
  BY <1>1, <1>5, <1>6, <1>7

\* g joins the first m sequences of ss one after the other
Joining(ss, g, m) ==
    g = [i \in 1 .. m |-> IF i = 1 THEN ss[i] ELSE g[i - 1] \o ss[i]]

\* There is such a function.
LEMMA JoiningExists ==
    ASSUME NEW ss, NEW n \in Nat
    PROVE  \E g : Joining(ss, g, n)
<1> DEFINE S == {m \in Nat : \E g : Joining(ss, g, m)}
<1>1. 0 \in S
  <2>1. PICK e : e = [i \in 1 .. 0 |-> <<>>]
    OBVIOUS
  <2>2. Joining(ss, e, 0)
    BY <2>1 DEF Joining
  <2> QED
    BY <2>2
<1>2. ASSUME NEW m \in Nat, m \in S PROVE m + 1 \in S
  <2>1. PICK g : Joining(ss, g, m)
    BY <1>2
  <2>2. PICK new : new = IF m = 0 THEN ss[1] ELSE g[m] \o ss[m + 1]
    OBVIOUS
  <2>3. PICK h : h = [i \in 1 .. m + 1 |-> IF i = m + 1 THEN new ELSE g[i]]
    OBVIOUS
  <2>4. ASSUME NEW i \in 1 .. m + 1 PROVE h[i] = IF i = 1 THEN ss[i] ELSE h[i - 1] \o ss[i]
    <3>1. CASE i = m + 1
      <4>1. h[i] = new
        BY <2>3, <3>1
      <4>2. CASE m = 0
        BY <2>2, <3>1, <4>1, <4>2
      <4>3. CASE m # 0
        <5>1. i # 1 /\ i - 1 = m /\ m \in 1 .. m + 1 /\ m # m + 1
          BY <3>1, <4>3
        <5>2. h[m] = g[m]
          BY <2>3, <5>1
        <5> QED
          BY <2>2, <3>1, <4>1, <4>3, <5>1, <5>2
      <4> QED
        BY <4>2, <4>3
    <3>2. CASE i # m + 1
      <4>1. i \in 1 .. m /\ (i # 1 => i - 1 \in 1 .. m + 1 /\ i - 1 # m + 1)
        BY <3>2
      <4>2. h[i] = g[i] /\ (i # 1 => h[i - 1] = g[i - 1])
        BY <2>3, <3>2, <4>1
      <4>3. g[i] = IF i = 1 THEN ss[i] ELSE g[i - 1] \o ss[i]
        BY <2>1, <4>1 DEF Joining
      <4> QED
        BY <4>2, <4>3
    <3> QED
      BY <3>1, <3>2
  <2>5. Joining(ss, h, m + 1)
    BY <2>3, <2>4 DEF Joining
  <2> QED
    BY <2>5
<1>3. n \in S
  <2> HIDE DEF S
  <2> QED
    BY <1>1, <1>2, AllNumbers
<1> QED
  BY <1>3

\* What is in the sequences is in the flattened one.
LEMMA Flattened ==
    ASSUME NEW S, NEW n \in Nat, NEW ss \in [1 .. n -> Seq(S)]
    PROVE  /\ FlattenSeq(ss) \in Seq(S)
           /\ \A x : x \in Range(FlattenSeq(ss)) <=> \E k \in 1 .. n : x \in Range(ss[k])
<1>1. Len(ss) = n /\ ss \in Seq(Seq(S))
  OBVIOUS
<1>2. CASE n = 0
  <2>1. FlattenSeq(ss) = <<>>
    BY <1>1, <1>2 DEF FlattenSeq
  <2>2. Range(<<>>) = {}
    BY DEF Range
  <2> QED
    BY <1>2, <2>1, <2>2
<1>3. CASE n # 0
  <2>1. PICK f : f = CHOOSE g : g = [i \in 1 .. n |-> IF i = 1 THEN ss[i] ELSE g[i - 1] \o ss[i]]
    OBVIOUS
  <2>2. FlattenSeq(ss) = f[n]
    BY <1>1, <1>3, <2>1 DEF FlattenSeq
  <2>3. f = CHOOSE g : Joining(ss, g, n)
    BY <2>1 DEF Joining
  <2>4. Joining(ss, f, n)
    BY <2>3, JoiningExists
  <2>5. \A i \in 1 .. n : f[i] = IF i = 1 THEN ss[i] ELSE f[i - 1] \o ss[i]
    BY <2>4 DEF Joining
  <2> DEFINE Joined(i) == /\ f[i] \in Seq(S)
                          /\ \A x : x \in Range(f[i]) <=> \E k \in 1 .. i : x \in Range(ss[k])
             T == {m \in Nat : m + 1 \in 1 .. n => Joined(m + 1)}
  <2>6. 0 \in T
    <3>1. f[1] = ss[1] /\ ss[1] \in Seq(S)
      BY <1>3, <2>5
    <3>2. \A k \in 1 .. 1 : k = 1
      OBVIOUS
    <3>3. Joined(1)
      BY <3>1, <3>2
    <3> QED
      BY <3>3
  <2>7. ASSUME NEW m \in Nat, m \in T PROVE m + 1 \in T
    <3> SUFFICES ASSUME (m + 1) + 1 \in 1 .. n PROVE Joined((m + 1) + 1)
      OBVIOUS
    <3>1. PICK i : i = m + 1
      OBVIOUS
    <3>2. i \in 1 .. n /\ i + 1 \in 1 .. n /\ i + 1 # 1 /\ (i + 1) - 1 = i /\ i \in Nat
      BY <3>1
    <3>3. f[i + 1] = f[i] \o ss[i + 1] /\ ss[i + 1] \in Seq(S)
      BY <2>5, <3>2
    <3>4. Joined(i)
      BY <2>7, <3>1, <3>2
    <3>5. f[i + 1] \in Seq(S) /\ Range(f[i + 1]) = Range(f[i]) \cup Range(ss[i + 1])
      BY <3>3, <3>4, RangeJoined
    <3>6. \A k : k \in 1 .. i + 1 <=> k \in 1 .. i \/ k = i + 1
      BY <3>2
    <3>7. Joined(i + 1)
      BY <3>4, <3>5, <3>6
    <3> QED
      BY <3>1, <3>7
  <2>8. \A m \in Nat : m \in T
    <3> HIDE DEF T
    <3> QED
      BY <2>6, <2>7, AllNumbers
  <2>9. n - 1 \in Nat /\ (n - 1) + 1 = n /\ n \in 1 .. n
    BY <1>3
  <2>10. Joined(n)
    BY <2>8, <2>9
  <2> QED
    BY <2>2, <2>10
<1> QED
  BY <1>2, <1>3

\* A function on an initial segment is a sequence.
LEMMA SequenceOf ==
    ASSUME NEW S, NEW n \in Nat, NEW t \in [1 .. n -> S]
    PROVE  t \in Seq(S) /\ Len(t) = n
OBVIOUS

\* A sequence of one element or none.
LEMMA OneOrNone ==
    ASSUME NEW S, NEW x \in S
    PROVE  /\ <<x>> \in Seq(S) /\ <<>> \in Seq(S)
           /\ \A y : y \in Range(<<x>>) <=> y = x
           /\ \A y : y \notin Range(<<>>)
BY DEF Range

\* What is new to the worklist gets into it.
LEMMA FreshAre ==
    ASSUME NEW S, NEW news \in Seq(S), NEW known
    PROVE  /\ Fresh(news, known) \in Seq(S)
           /\ \A x \in Range(news) : x \in known \/ x \in Range(Fresh(news, known))
<1>1. Len(news) \in Nat /\ DOMAIN news = 1 .. Len(news) /\ \A k \in 1 .. Len(news) : news[k] \in S
  OBVIOUS
<1>2. PICK ss : ss = [k \in DOMAIN news |->
                         IF news[k] \in known \/ \E j \in 1 .. k - 1 : news[j] = news[k]
                         THEN <<>> ELSE <<news[k]>>]
  OBVIOUS
<1>3. Fresh(news, known) = FlattenSeq(ss)
  BY <1>2 DEF Fresh
<1>4. ASSUME NEW k \in 1 .. Len(news)
      PROVE  /\ ss[k] \in Seq(S)
             /\ ~(news[k] \in known \/ \E j \in 1 .. k - 1 : news[j] = news[k]) => news[k] \in Range(ss[k])
  <2>1. ss[k] = IF news[k] \in known \/ \E j \in 1 .. k - 1 : news[j] = news[k] THEN <<>> ELSE <<news[k]>>
    BY <1>1, <1>2
  <2> QED
    BY <1>1, <2>1, OneOrNone
<1>5. ss \in [1 .. Len(news) -> Seq(S)]
  BY <1>1, <1>2, <1>4
<1>6. /\ FlattenSeq(ss) \in Seq(S)
      /\ \A x : x \in Range(FlattenSeq(ss)) <=> \E k \in 1 .. Len(news) : x \in Range(ss[k])
  BY <1>1, <1>5, Flattened
<1>7. ASSUME NEW x \in Range(news), x \notin known PROVE x \in Range(FlattenSeq(ss))
  <2> DEFINE K == {k \in 1 .. Len(news) : news[k] = x}
  <2>1. K \in SUBSET Nat /\ K # {}
    BY <1>1, <1>7 DEF Range
  <2>2. PICK k \in K : \A j \in K : k <= j
    BY <2>1, LeastNumber
  <2>3. k \in 1 .. Len(news) /\ news[k] = x
    BY <2>2
  <2>4. \A j \in 1 .. k - 1 : j \in 1 .. Len(news) /\ ~(k <= j)
    BY <1>1, <2>3
  <2>5. ~(\E j \in 1 .. k - 1 : news[j] = news[k])
    BY <2>2, <2>3, <2>4
  <2> QED
    BY <1>4, <1>6, <1>7, <2>3, <2>5
<1> QED
  BY <1>3, <1>6, <1>7

-----------------------------------------------------------------------------
(* The function, and the forest of definitions *)

Blocks == DOMAIN func.code

Size(b) == Len(func.code[b])

Given ==
    /\ func \in Functions
    /\ mssa = Analyses(func)

\* The blocks of the function, and the instructions in them.
LEMMA Shape ==
    ASSUME Given
    PROVE  /\ \E n \in Nat : Blocks = 1 .. n /\ n >= 1
           /\ \A b \in Blocks : /\ Size(b) \in Nat
                                /\ func.code[b] \in Seq(Instructions)
                                /\ DOMAIN func.code[b] = 1 .. Size(b)
           /\ DOMAIN func.succ = Blocks
           /\ \A a \in Blocks : \A k \in DOMAIN func.succ[a] : func.succ[a][k] \in Blocks
<1>1. func.code # <<>> /\ func.code \in Seq(Seq(Instructions))
  BY WellFormed DEF Given
<1>2. Blocks = 1 .. Len(func.code) /\ Len(func.code) \in Nat /\ Len(func.code) >= 1
  BY <1>1 DEF Blocks
<1>3. \A b \in Blocks : func.code[b] \in Seq(Instructions)
  BY <1>1 DEF Blocks
<1>4. DOMAIN func.succ = Blocks
      /\ \A a \in Blocks : \A k \in DOMAIN func.succ[a] : func.succ[a][k] \in Blocks
  BY WellFormed DEF Given, Blocks
<1> QED
  BY <1>2, <1>3, <1>4 DEF Size

\* Instructions and positions are pairs of a block and a place in it.
LEMMA Pairs ==
    ASSUME Given
    PROVE  /\ \A p \in Code : /\ p = <<p[1], p[2]>> /\ p[1] \in Blocks /\ p[2] \in 1 .. Size(p[1])
                              /\ p # Constant
                              /\ Ins(p) \in Instructions
           /\ \A b \in Blocks : \A i \in 1 .. Size(b) : <<b, i>> \in Code
           /\ \A p \in Positions(func) : p = <<p[1], p[2]>> /\ p[1] \in Blocks /\ p[2] \in 0 .. Size(p[1])
           /\ \A b \in Blocks : \A i \in 0 .. Size(b) : <<b, i>> \in Positions(func)
           /\ Code \subseteq Positions(func)
<1>1. \A b \in Blocks : Size(b) \in Nat /\ DOMAIN func.code[b] = 1 .. Size(b)
  BY Shape
<1>2. ASSUME NEW p \in Code
      PROVE  p = <<p[1], p[2]>> /\ p[1] \in Blocks /\ p[2] \in 1 .. Size(p[1])
  BY <1>1 DEF Code, InstructionsOf, BlocksOf, Blocks
<1>3. \A b \in Blocks : \A i \in 1 .. Size(b) : <<b, i>> \in Code
  BY <1>1 DEF Code, InstructionsOf, BlocksOf, Blocks
<1>4. ASSUME NEW p \in Positions(func)
      PROVE  p = <<p[1], p[2]>> /\ p[1] \in Blocks /\ p[2] \in 0 .. Size(p[1])
  BY DEF Positions, BlocksOf, Blocks, Size
<1>5. \A b \in Blocks : \A i \in 0 .. Size(b) : <<b, i>> \in Positions(func)
  BY DEF Positions, BlocksOf, Blocks, Size
<1>6. ASSUME NEW p \in Code PROVE p # Constant
  <2>1. p[1] >= 1
    BY <1>2, Shape
  <2> QED
    BY <2>1 DEF Constant
<1>7. ASSUME NEW p \in Code PROVE Ins(p) \in Instructions
  BY <1>1, <1>2, Shape DEF Ins, At
<1>8. ASSUME NEW p \in Code PROVE p \in Positions(func)
  <2>1. p[2] \in 0 .. Size(p[1])
    BY <1>1, <1>2
  <2> QED
    BY <1>2, <1>5, <2>1
<1> QED
  BY <1>2, <1>3, <1>4, <1>5, <1>6, <1>7, <1>8

\* The sequence of instructions has all of them.
LEMMA LayoutIsCode ==
    ASSUME Given
    PROVE  Layout(func) \in Seq(Code) /\ \A x : x \in Range(Layout(func)) <=> x \in Code
<1>1. PICK B \in Nat : Blocks = 1 .. B
  BY Shape
<1>2. PICK ss : ss = [b \in Blocks |-> [i \in DOMAIN func.code[b] |-> <<b, i>>]]
  OBVIOUS
<1>3. Layout(func) = FlattenSeq(ss)
  BY <1>2 DEF Layout, BlocksOf, Blocks
<1>4. ASSUME NEW b \in Blocks
      PROVE  /\ ss[b] \in Seq(Code)
             /\ \A x : x \in Range(ss[b]) <=> \E i \in 1 .. Size(b) : x = <<b, i>>
  <2>1. ss[b] = [i \in 1 .. Size(b) |-> <<b, i>>] /\ Size(b) \in Nat
    BY <1>2, Shape
  <2>2. \A i \in 1 .. Size(b) : <<b, i>> \in Code
    BY Pairs
  <2>3. ss[b] \in [1 .. Size(b) -> Code]
    BY <2>1, <2>2
  <2>4. ss[b] \in Seq(Code)
    BY <2>1, <2>3, SequenceOf
  <2> QED
    BY <2>1, <2>4 DEF Range
<1>5. ss \in [1 .. B -> Seq(Code)]
  BY <1>1, <1>2, <1>4
<1>6. /\ FlattenSeq(ss) \in Seq(Code)
      /\ \A x : x \in Range(FlattenSeq(ss)) <=> \E k \in 1 .. B : x \in Range(ss[k])
  BY <1>5, Flattened
<1>7. ASSUME NEW x PROVE x \in Code <=> \E b \in Blocks : \E i \in 1 .. Size(b) : x = <<b, i>>
  BY Pairs
<1> QED
  BY <1>1, <1>3, <1>4, <1>6, <1>7

\* Picking instructions keeps those that are asked for.
LEMMA AmongThem ==
    ASSUME Given, NEW T \in SUBSET Code
    PROVE  Among(func, T) \in Seq(Code) /\ \A x : x \in Range(Among(func, T)) <=> x \in T
<1>1. PICK c : c = Layout(func)
  OBVIOUS
<1>2. c \in Seq(Code) /\ (\A x : x \in Range(c) <=> x \in Code) /\ DOMAIN c = 1 .. Len(c) /\ Len(c) \in Nat
  BY <1>1, LayoutIsCode
<1>3. PICK ss : ss = [k \in DOMAIN c |-> IF c[k] \in T THEN <<c[k]>> ELSE <<>>]
  OBVIOUS
<1>4. Among(func, T) = FlattenSeq(ss)
  BY <1>1, <1>3 DEF Among
<1>5. \A k \in 1 .. Len(c) : c[k] \in Code
  BY <1>2
<1>6. ASSUME NEW k \in 1 .. Len(c)
      PROVE  ss[k] \in Seq(Code) /\ \A x : x \in Range(ss[k]) <=> x = c[k] /\ x \in T
  <2>1. ss[k] = IF c[k] \in T THEN <<c[k]>> ELSE <<>>
    BY <1>2, <1>3
  <2> QED
    BY <1>5, <2>1, OneOrNone
<1>7. ss \in [1 .. Len(c) -> Seq(Code)]
  BY <1>2, <1>3, <1>6
<1>8. /\ FlattenSeq(ss) \in Seq(Code)
      /\ \A x : x \in Range(FlattenSeq(ss)) <=> \E k \in 1 .. Len(c) : x \in Range(ss[k])
  BY <1>2, <1>7, Flattened
<1>9. \A x : x \in Code <=> \E k \in 1 .. Len(c) : x = c[k]
  BY <1>2 DEF Range
<1> QED
  BY <1>4, <1>6, <1>8, <1>9

\* Children are writes defined by their parent, and roots are none.
LEMMA Forest ==
    ASSUME func \in Functions, mssa = Analyses(func)
    PROVE  /\ mssa.roots \in Seq(Nat \X {0})
           /\ \A k \in DOMAIN mssa.roots : mssa.roots[k] \in DOMAIN mssa.children
           /\ \A m \in DOMAIN mssa.children :
                 /\ mssa.children[m] \in Seq(Nat \X (Nat \ {0}))
                 /\ \A k \in DOMAIN mssa.children[m] :
                       /\ mssa.children[m][k] \in DOMAIN mssa.children
                       /\ mssa.access[mssa.children[m][k]] = m
                       /\ Ins(mssa.children[m][k]).bytes \subseteq Bytes
<1> DEFINE access == DefiningAccess(func)
           Writes == {p \in InstructionsOf(func) : IsWrite(func, p)}
           T(m) == {p \in InstructionsOf(func) : IsWrite(func, p) /\ access[p] = m}
<1>0. Given
  BY DEF Given
<1>1. mssa.access = access /\ mssa.roots = RootsOf(func, access) /\ mssa.children = ChildrenOf(func, access)
  BY DEF Analyses
<1>2. DOMAIN mssa.children = {LiveOnEntry} \cup Range(access) \cup Writes
      /\ \A m \in DOMAIN mssa.children : mssa.children[m] = Among(func, T(m))
  BY <1>1 DEF ChildrenOf
<1>3. ASSUME NEW p \in Code
      PROVE  p \in Nat \X (Nat \ {0}) /\ p[2] # 0 /\ Ins(p).bytes \subseteq Bytes
  <2>1. p = <<p[1], p[2]>> /\ p[1] \in Blocks /\ p[2] \in 1 .. Size(p[1]) /\ Ins(p) \in Instructions
    BY <1>0, Pairs
  <2>2. p[1] \in Nat /\ p[2] \in Nat \ {0}
    BY <1>0, <2>1, Shape
  <2> QED
    BY <2>1, <2>2 DEF Instructions
<1>4. ASSUME NEW m \in DOMAIN mssa.children
      PROVE  /\ mssa.children[m] \in Seq(Nat \X (Nat \ {0}))
             /\ \A k \in DOMAIN mssa.children[m] :
                   /\ mssa.children[m][k] \in DOMAIN mssa.children
                   /\ mssa.access[mssa.children[m][k]] = m
                   /\ Ins(mssa.children[m][k]).bytes \subseteq Bytes
  <2>1. T(m) \in SUBSET Code
    BY DEF Code
  <2>2. PICK s : s = mssa.children[m]
    OBVIOUS
  <2>3. s \in Seq(Code) /\ \A x : x \in Range(s) <=> x \in T(m)
    <3>1. PICK S \in SUBSET Code : S = T(m)
      BY <2>1
    <3>2. s = Among(func, S)
      BY <1>2, <2>2, <3>1
    <3>3. Among(func, S) \in Seq(Code) /\ \A x : x \in Range(Among(func, S)) <=> x \in S
      BY <1>0, AmongThem
    <3> QED
      BY <3>1, <3>2, <3>3, Zenon
  <2>4. Code \subseteq Nat \X (Nat \ {0})
    BY <1>3
  <2>5. s \in Seq(Nat \X (Nat \ {0}))
    BY <2>3, <2>4
  <2>6. \A k \in DOMAIN s : s[k] \in T(m)
    BY <2>3 DEF Range
  <2>7. \A d \in T(m) : d \in DOMAIN mssa.children /\ mssa.access[d] = m /\ Ins(d).bytes \subseteq Bytes
    BY <1>1, <1>2, <1>3 DEF Code
  <2> QED
    BY <2>2, <2>5, <2>6, <2>7
<1>5. /\ mssa.roots \in Seq(Nat \X {0})
      /\ \A k \in DOMAIN mssa.roots : mssa.roots[k] \in DOMAIN mssa.children
  <2> DEFINE P == {p \in {q \in InstructionsOf(func) : IsWrite(func, q) \/ At(func, q).kind = "load"} :
                       IsPhi(access[p])}
             M == {m \in (Nat \X {0}) : m \in DOMAIN mssa.children}
  <2>1. PICK b : b = Among(func, P)
    OBVIOUS
  <2>2. PICK s : s = [k \in DOMAIN b |-> access[b[k]]]
    OBVIOUS
  <2>3. mssa.roots = <<LiveOnEntry>> \o Fresh(s, {})
    BY <1>1, <2>1, <2>2 DEF RootsOf
  <2>4. P \in SUBSET Code
    BY DEF Code
  <2>5. b \in Seq(Code) /\ \A x : x \in Range(b) <=> x \in P
    BY <1>0, <2>1, <2>4, AmongThem
  <2>6. Len(b) \in Nat /\ DOMAIN b = 1 .. Len(b) /\ \A k \in 1 .. Len(b) : b[k] \in P
    BY <2>5 DEF Range
  <2>7. ASSUME NEW p \in P PROVE access[p] \in M
    <3>1. p \in InstructionsOf(func) /\ access[p] = AccessBefore(func)[p] /\ IsPhi(access[p])
      BY DEF DefiningAccess
    <3>2. access[p] \in Range(access)
      BY <3>1 DEF DefiningAccess, Range
    <3>3. MemorySSAHolds(func)
      BY WellFormed
    <3>4. \/ access[p] = LiveOnEntry
          \/ \E a \in BlocksOf(func) : access[p] = Phi(a)
          \/ access[p] \in InstructionsOf(func) /\ IsWrite(func, access[p])
      BY <3>1, <3>3 DEF MemorySSAHolds
    <3>5. access[p] # LiveOnEntry /\ access[p][2] = 0
      BY <3>1 DEF IsPhi
    <3>6. PICK a \in Blocks : access[p] = Phi(a)
      BY <1>3, <3>4, <3>5 DEF Code, BlocksOf, Blocks
    <3>7. a \in Nat
      BY <1>0, Shape
    <3>8. access[p] \in Nat \X {0}
      BY <3>6, <3>7 DEF Phi
    <3> QED
      BY <1>2, <3>2, <3>8
  <2> HIDE DEF P, M
  <2>8. s \in [1 .. Len(b) -> M]
    BY <2>2, <2>6, <2>7
  <2>9. s \in Seq(M)
    BY <2>6, <2>8, SequenceOf
  <2>10. Fresh(s, {}) \in Seq(M)
    BY <2>9, FreshAre
  <2>11. LiveOnEntry \in M
    BY <1>2 DEF M, LiveOnEntry
  <2>12. <<LiveOnEntry>> \in Seq(M)
    BY <2>11, OneOrNone
  <2>13. <<LiveOnEntry>> \o Fresh(s, {}) \in Seq(M)
    BY <2>10, <2>12, RangeJoined
  <2>14. mssa.roots \in Seq(M)
    BY <2>3, <2>13
  <2>15. M \subseteq Nat \X {0} /\ M \subseteq DOMAIN mssa.children
    BY DEF M
  <2> QED
    BY <2>14, <2>15
<1> QED
  BY <1>4, <1>5

-----------------------------------------------------------------------------
\* The inductive invariant

Memory == Nat \X Nat

Frames ==
    [access : Memory, next_child : Nat \ {0}, checkpoint : Nat, previous_generation : Memory,
     previous_default : BOOLEAN, entered : BOOLEAN]

ByteStates == [generation : Memory, safe : BOOLEAN, absent : BOOLEAN]

Maps == [Bytes -> ByteStates]

Records == UNION {[K -> ByteStates] : K \in SUBSET Bytes}

TypeInv ==
    /\ func \in Functions
    /\ mssa = Analyses(func)
    /\ root \in Nat
    /\ phase = "memory" =>
          /\ stack \in Seq(Frames)
          /\ byte_safety \in Maps
          /\ undo_log \in Seq(Records)
          /\ active_generation \in Memory
          /\ default_byte_safety \in BOOLEAN

\* the frames are a path of the definition tree, and no access occurs twice
BranchInv ==
    /\ \A k \in 1 .. Len(stack) :
          /\ stack[k].access \in DOMAIN mssa.children
          /\ k = 1 <=> stack[k].access[2] = 0
          /\ k > 1 => mssa.access[stack[k].access] = stack[k - 1].access
    /\ \A j, k \in 1 .. Len(stack) : stack[j].access = stack[k].access => j = k

\* what active_generation, default_byte_safety and the length of the log were
\* when frame j was on top
Generation(j) == IF j = Len(stack) THEN active_generation ELSE stack[j + 1].previous_generation

Default(j) == IF j = Len(stack) THEN default_byte_safety ELSE stack[j + 1].previous_default

LogLength(j) == IF j = Len(stack) THEN Len(undo_log) ELSE stack[j + 1].checkpoint

\* a frame has left at most one record behind, on top of those below it
LogInv ==
    \A j \in 1 .. Len(stack) :
        /\ LogLength(j) <= stack[j].checkpoint + 1
        /\ \A i \in 1 .. j : stack[i].checkpoint <= LogLength(j) /\ LogLength(i) <= LogLength(j)

\* the verdict on what a store of the branch writes is there
VerdictKnown(m) ==
    \/ m[1] \in mssa.inLoop \cup mssa.joined
    \/ mssa.operands[m][1] = Constant
    \/ mssa.operands[m][1] \in DOMAIN value_safety

VerdictInv ==
    \A k \in 1 .. Len(stack) : KnownStore(stack[k].access) => VerdictKnown(stack[k].access)

\* byte b is safe after the first j accesses of the branch
SafeUpTo(j, b) ==
    \E k \in 1 .. j :
        /\ Settles(stack[k].access, b) /\ MakesSafe(stack[k].access)
        /\ \A i \in k + 1 .. j : ~Settles(stack[i].access, b)

\* the map h is the right one for frame j, and later generations are new to it
LevelOK(j, h) ==
    /\ \E i \in 1 .. j : stack[i].access = Generation(j)
    /\ \A b \in Bytes :
          /\ (IF ~h[b].absent /\ h[b].generation = Generation(j) THEN h[b].safe ELSE Default(j))
                <=> SafeUpTo(j, b)
          /\ ~h[b].absent => \E i \in 1 .. j : stack[i].access = h[b].generation

\* the map before the record at c + 1, if there is one
Undone(h, c, e) ==
    [b \in Bytes |-> IF c < e /\ b \in DOMAIN undo_log[c + 1] THEN undo_log[c + 1][b] ELSE h[b]]

\* every frame on the stack finds its own map again
MapsInv ==
    \E h \in [1 .. Len(stack) -> Maps] :
        /\ h[Len(stack)] = byte_safety
        /\ \A j \in 1 .. Len(stack) : LevelOK(j, h[j])
        /\ \A j \in 1 .. Len(stack) - 1 : h[j] = Undone(h[j + 1], LogLength(j), LogLength(j + 1))

WalkInv ==
    /\ TypeInv
    /\ phase = "memory" /\ stack # <<>> => BranchInv /\ LogInv /\ VerdictInv /\ MapsInv

-----------------------------------------------------------------------------
LEMMA AbsentType == Absent \in ByteStates
  BY DEF ByteStates, Absent, LiveOnEntry, Memory

LEMMA WalkInit == Init => WalkInv
  <1> SUFFICES ASSUME Init PROVE WalkInv
    OBVIOUS
  <1>1. stack = <<>> /\ undo_log = <<>> /\ byte_safety \in Maps /\ active_generation \in Memory
        /\ default_byte_safety \in BOOLEAN /\ root \in Nat /\ func \in Functions /\ mssa = Analyses(func)
    BY AbsentType DEF Init, Maps, Memory, LiveOnEntry
  <1>2. stack \in Seq(Frames) /\ undo_log \in Seq(Records)
    BY <1>1
  <1> QED BY <1>1, <1>2 DEF WalkInv, TypeInv

\* verdicts are never taken back
Grown ==
    \A p \in DOMAIN value_safety : p \in DOMAIN value_safety' /\ value_safety'[p] = value_safety[p]

LEMMA AskedGrows ==
    ASSUME NEW P, NEW m, value_safety' = Asked(P, m)
    PROVE  Grown /\ \A p \in P : p # Constant => p \in DOMAIN value_safety'
  BY DEF Asked, Grown

LEMMA VerdictStays ==
    ASSUME Grown, UNCHANGED <<func, mssa>>, NEW m, KnownStore(m) => VerdictKnown(m)
    PROVE  /\ KnownStore(m)' = KnownStore(m)
           /\ KnownStore(m)' => VerdictKnown(m)'
           /\ MakesSafe(m)' = MakesSafe(m)
           /\ \A b : Settles(m, b)' = Settles(m, b)
  <1>1. KnownStore(m)' = KnownStore(m) /\ \A b : Settles(m, b)' = Settles(m, b)
    BY DEF KnownStore, Settles, Ins
  <1>2. KnownStore(m) => VerdictKnown(m)' /\ StoreIsSafe(m)' = StoreIsSafe(m)
    BY DEF VerdictKnown, StoreIsSafe, Grown
  <1> QED BY <1>1, <1>2 DEF MakesSafe

\* what is below the top keeps
LEMMA LevelKept ==
    ASSUME Grown, UNCHANGED <<func, mssa>>, VerdictInv, NEW j \in Nat, j <= Len(stack), Len(stack) \in Nat,
           \A i \in 1 .. j : stack'[i].access = stack[i].access,
           Generation(j)' = Generation(j), Default(j)' = Default(j),
           NEW h, LevelOK(j, h)
    PROVE  LevelOK(j, h)'
  <1>1. ASSUME NEW i \in 1 .. j
        PROVE  /\ MakesSafe(stack[i].access)' = MakesSafe(stack[i].access)
               /\ \A b : Settles(stack[i].access, b)' = Settles(stack[i].access, b)
    <2>1. PICK m : m = stack[i].access /\ m = stack'[i].access
      OBVIOUS
    <2>2. KnownStore(m) => VerdictKnown(m)
      BY <2>1 DEF VerdictInv
    <2>3. MakesSafe(m)' = MakesSafe(m) /\ \A b : Settles(m, b)' = Settles(m, b)
      BY <2>2, VerdictStays
    <2> QED BY <2>1, <2>3 DEF MakesSafe, Settles
  <1>2. \A b \in Bytes : SafeUpTo(j, b)' <=> SafeUpTo(j, b)
    <2> SUFFICES ASSUME NEW b \in Bytes PROVE SafeUpTo(j, b)' <=> SafeUpTo(j, b)
      OBVIOUS
    <2>1. \A i \in 1 .. j : /\ MakesSafe(stack[i].access)' <=> MakesSafe(stack[i].access)
                            /\ Settles(stack[i].access, b)' <=> Settles(stack[i].access, b)
      BY <1>1
    <2>2. \A k \in 1 .. j : \A i \in k + 1 .. j : i \in 1 .. j
      OBVIOUS
    <2>3. \A k \in 1 .. j :
             (\A i \in k + 1 .. j : ~Settles(stack[i].access, b)')
                <=> (\A i \in k + 1 .. j : ~Settles(stack[i].access, b))
      BY <2>1, <2>2
    <2> QED BY <2>1, <2>3 DEF SafeUpTo
  <1> QED BY <1>2 DEF LevelOK

LEMMA Upward == \A n \in Nat : \A j \in 1 .. n : j # n => j + 1 \in 1 .. n
  OBVIOUS

LEMMA Inward == \A n \in Nat : \A j \in 1 .. n : \A i \in 1 .. j : i \in 1 .. n
  OBVIOUS

-----------------------------------------------------------------------------
\* The steps of the walk

LEMMA RootStep == WalkInv /\ StartRoot => WalkInv'
  <1> SUFFICES ASSUME WalkInv, StartRoot PROVE WalkInv'
    OBVIOUS
  <1>1. PICK r : r = mssa.roots[root + 1]
    OBVIOUS
  <1>2. /\ func \in Functions /\ mssa = Analyses(func) /\ root \in Nat /\ root < Len(mssa.roots)
        /\ UNCHANGED <<func, mssa>> /\ root' = root + 1 /\ phase' = "memory"
        /\ active_generation' = r /\ default_byte_safety' = (r = LiveOnEntry)
        /\ stack' = <<Frame(r, 0, r, r = LiveOnEntry)>>
        /\ byte_safety' = [b \in Bytes |-> Absent] /\ undo_log' = <<>>
    BY <1>1 DEF WalkInv, TypeInv, StartRoot
  <1>3. r \in Memory /\ r[2] = 0 /\ r \in DOMAIN mssa.children
    <2>1. mssa.roots \in Seq(Nat \X {0}) /\ \A k \in DOMAIN mssa.roots : mssa.roots[k] \in DOMAIN mssa.children
      BY <1>2, Forest
    <2>2. root + 1 \in DOMAIN mssa.roots
      BY <1>2, <2>1
    <2>3. r \in Nat \X {0}
      BY <1>1, <2>1, <2>2
    <2> QED BY <1>1, <2>1, <2>2, <2>3 DEF Memory
  <1>4. /\ Frame(r, 0, r, r = LiveOnEntry) \in Frames
        /\ Frame(r, 0, r, r = LiveOnEntry).access = r /\ Frame(r, 0, r, r = LiveOnEntry).checkpoint = 0
    BY <1>3 DEF Frame, Frames
  <1> HIDE DEF Frame
  <1>5. /\ stack' \in Seq(Frames) /\ Len(stack') = 1 /\ stack'[1].access = r /\ stack'[1].checkpoint = 0
        /\ undo_log' \in Seq(Records) /\ Len(undo_log') = 0
    BY <1>2, <1>4
  <1>6. byte_safety' \in Maps /\ \A b \in Bytes : byte_safety'[b].absent
    BY <1>2, AbsentType DEF Maps, Absent
  <1>7. TypeInv'
    BY <1>2, <1>3, <1>5, <1>6 DEF TypeInv
  <1>8. BranchInv'
    BY <1>2, <1>3, <1>5 DEF BranchInv
  <1>9. LogInv'
    BY <1>5 DEF LogInv, LogLength
  <1>10. ~KnownStore(r)'
    BY <1>3 DEF KnownStore
  <1>11. VerdictInv'
    BY <1>5, <1>10 DEF VerdictInv, KnownStore
  <1>12. Generation(1)' = r /\ Default(1)' = (r = LiveOnEntry)
    BY <1>2, <1>5 DEF Generation, Default
  <1>13. \A b \in Bytes : SafeUpTo(1, b)' <=> r = LiveOnEntry
    <2>1. \A b : Settles(stack[1].access, b)'
      BY <1>5, <1>10 DEF Settles, KnownStore
    <2>2. MakesSafe(stack[1].access)' <=> r = LiveOnEntry
      BY <1>5, <1>10 DEF MakesSafe, KnownStore
    <2> QED BY <2>1, <2>2 DEF SafeUpTo
  <1>14. PICK h : h = [j \in 1 .. 1 |-> byte_safety']
    OBVIOUS
  <1>15. h \in [1 .. Len(stack') -> Maps] /\ h[1] = byte_safety'
    BY <1>5, <1>6, <1>14
  <1>16. LevelOK(1, h[1])'
    <2>1. PICK g : g = h[1]
      OBVIOUS
    <2>2. \A b \in Bytes : g[b].absent
      BY <1>6, <1>15, <2>1
    <2>3. \E i \in 1 .. 1 : stack'[i].access = Generation(1)'
      <3>1. 1 \in 1 .. 1 /\ stack'[1].access = Generation(1)'
        BY <1>5, <1>12
      <3> QED BY <3>1
    <2>4. LevelOK(1, g)'
      BY <1>12, <1>13, <2>2, <2>3 DEF LevelOK
    <2> QED BY <2>1, <2>4
  <1>17. MapsInv'
    BY <1>5, <1>15, <1>16 DEF MapsInv
  <1> QED BY <1>7, <1>8, <1>9, <1>11, <1>17 DEF WalkInv

LEMMA EnterStep == WalkInv /\ Enter => WalkInv'
  <1> SUFFICES ASSUME WalkInv, Enter PROVE WalkInv'
    OBVIOUS
  <1> DEFINE n == Len(stack)
  <1>1. /\ phase = "memory" /\ stack # <<>> /\ stack \in Seq(Frames) /\ TypeInv
        /\ BranchInv /\ LogInv /\ VerdictInv /\ MapsInv
        /\ UNCHANGED <<func, mssa, phase, root, byte_safety, undo_log, active_generation, default_byte_safety>>
        /\ stack' = [stack EXCEPT ![n].entered = TRUE]
    BY DEF WalkInv, TypeInv, Enter
  <1>2. n \in Nat /\ n >= 1 /\ DOMAIN stack = 1 .. n /\ n = Len(stack)
    BY <1>1
  <1> HIDE DEF n
  <1>3. stack' \in Seq(Frames) /\ Len(stack') = n
    <2>1. \A f \in Frames : [f EXCEPT !.entered = TRUE] \in Frames
      BY DEF Frames
    <2>2. stack[n] \in Frames
      BY <1>1, <1>2
    <2> QED BY <1>1, <1>2, <2>1, <2>2
  <1>4. \A k \in 1 .. n :
           /\ stack'[k].access = stack[k].access /\ stack'[k].checkpoint = stack[k].checkpoint
           /\ stack'[k].previous_generation = stack[k].previous_generation
           /\ stack'[k].previous_default = stack[k].previous_default
    BY <1>1, <1>2 DEF Frames
  <1>5. Grown
    BY AskedGrows DEF Enter
  <1>6. TypeInv'
    BY <1>1, <1>3 DEF TypeInv
  <1>7. BranchInv'
    BY <1>1, <1>2, <1>3, <1>4 DEF BranchInv
  <1>8. \A j \in 1 .. n :
           /\ Generation(j)' = Generation(j) /\ Default(j)' = Default(j) /\ LogLength(j)' = LogLength(j)
    <2>1. \A j \in 1 .. n : j # n => j + 1 \in 1 .. n
      BY <1>2, Upward
    <2> QED BY <1>1, <1>2, <1>3, <1>4, <2>1 DEF Generation, Default, LogLength
  <1>9. LogInv'
    <2>1. \A j \in 1 .. n : \A i \in 1 .. j : i \in 1 .. n
      BY <1>2, Inward
    <2> QED BY <1>1, <1>2, <1>3, <1>4, <1>8, <2>1 DEF LogInv
  <1>10. VerdictInv'
    <2>1. ASSUME NEW k \in 1 .. n PROVE KnownStore(stack[k].access)' => VerdictKnown(stack[k].access)'
      <3>1. PICK m : m = stack[k].access /\ m = stack'[k].access
        BY <1>4
      <3>2. KnownStore(m) => VerdictKnown(m)
        BY <1>1, <1>2, <3>1 DEF VerdictInv
      <3>3. KnownStore(m)' => VerdictKnown(m)'
        BY <1>1, <1>5, <3>2, VerdictStays
      <3> QED BY <3>1, <3>3 DEF KnownStore, VerdictKnown
    <2> QED BY <1>3, <2>1 DEF VerdictInv
  <1>11. MapsInv'
    <2>1. PICK h \in [1 .. n -> Maps] :
             /\ h[n] = byte_safety
             /\ \A j \in 1 .. n : LevelOK(j, h[j])
             /\ \A j \in 1 .. n - 1 : h[j] = Undone(h[j + 1], LogLength(j), LogLength(j + 1))
      BY <1>1, <1>2 DEF MapsInv
    <2>2. ASSUME NEW j \in 1 .. n PROVE LevelOK(j, h[j])'
      <3>1. PICK g : g = h[j]
        OBVIOUS
      <3>2. LevelOK(j, g)
        BY <2>1, <3>1
      <3>3. \A i \in 1 .. j : stack'[i].access = stack[i].access
        BY <1>2, <1>4
      <3>4. LevelOK(j, g)'
        BY <1>1, <1>2, <1>5, <1>8, <3>2, <3>3, LevelKept
      <3> QED BY <3>1, <3>4
    <2>3. ASSUME NEW j \in 1 .. n - 1 PROVE h[j] = Undone(h[j + 1], LogLength(j), LogLength(j + 1))'
      <3>1. j \in 1 .. n /\ j + 1 \in 1 .. n
        BY <1>2
      <3>2. PICK g, c, e : /\ g = h[j + 1] /\ c = LogLength(j) /\ e = LogLength(j + 1)
                           /\ c = LogLength(j)' /\ e = LogLength(j + 1)'
        BY <1>8, <3>1
      <3>3. h[j] = Undone(g, c, e)
        BY <2>1, <3>2
      <3>4. Undone(g, c, e)' = Undone(g, c, e)
        BY <1>1 DEF Undone
      <3>5. Undone(g, c, e)' = Undone(h[j + 1], LogLength(j), LogLength(j + 1))'
        BY <3>2 DEF Undone
      <3> QED BY <3>3, <3>4, <3>5
    <2>4. h \in [1 .. Len(stack') -> Maps] /\ h[Len(stack')] = byte_safety'
      BY <1>1, <1>3, <2>1
    <2>5. \A j \in 1 .. Len(stack') : LevelOK(j, h[j])'
      BY <1>3, <2>2
    <2>6. \A j \in 1 .. Len(stack') - 1 : h[j] = Undone(h[j + 1], LogLength(j), LogLength(j + 1))'
      BY <1>3, <2>3
    <2> QED BY <2>4, <2>5, <2>6 DEF MapsInv
  <1> QED BY <1>6, <1>7, <1>9, <1>10, <1>11 DEF WalkInv

-----------------------------------------------------------------------------
\* One frame more on the stack

Pushed(n, d) ==
    /\ n \in Nat /\ n >= 1 /\ n = Len(stack) /\ Len(stack') = n + 1
    /\ \A k \in 1 .. n :
          /\ stack'[k].access = stack[k].access /\ stack'[k].checkpoint = stack[k].checkpoint
          /\ stack'[k].previous_generation = stack[k].previous_generation
          /\ stack'[k].previous_default = stack[k].previous_default
    /\ stack'[n + 1].access = d /\ stack'[n + 1].checkpoint = Len(undo_log)
    /\ stack'[n + 1].previous_generation = active_generation
    /\ stack'[n + 1].previous_default = default_byte_safety

\* the last access decides, if it settles the byte
LEMMA SafeAfter ==
    ASSUME NEW n \in Nat, NEW b
    PROVE  SafeUpTo(n + 1, b)' <=> IF Settles(stack[n + 1].access, b)' THEN MakesSafe(stack[n + 1].access)'
                                   ELSE SafeUpTo(n, b)'
  <1>1. CASE Settles(stack[n + 1].access, b)'
    <2>1. \A k \in 1 .. n : n + 1 \in k + 1 .. n + 1
      OBVIOUS
    <2>2. \A k \in 1 .. n + 1 : k # n + 1 => k \in 1 .. n
      OBVIOUS
    <2>3. n + 1 \in 1 .. n + 1 /\ (n + 1) + 1 .. n + 1 = {}
      OBVIOUS
    <2> QED BY <1>1, <2>1, <2>2, <2>3 DEF SafeUpTo
  <1>2. CASE ~Settles(stack[n + 1].access, b)'
    <2>1. \A k \in 1 .. n : k \in 1 .. n + 1 /\ k + 1 .. n + 1 = (k + 1 .. n) \cup {n + 1}
      OBVIOUS
    <2>2. \A k \in 1 .. n + 1 : k # n + 1 => k \in 1 .. n
      OBVIOUS
    <2> QED BY <1>2, <2>1, <2>2 DEF SafeUpTo
  <1> QED BY <1>1, <1>2

LEMMA PushedLevels ==
    ASSUME NEW n, NEW d, Pushed(n, d)
    PROVE  /\ \A j \in 1 .. n :
                 Generation(j)' = Generation(j) /\ Default(j)' = Default(j) /\ LogLength(j)' = LogLength(j)
           /\ Generation(n) = active_generation /\ Default(n) = default_byte_safety
           /\ LogLength(n) = Len(undo_log)
           /\ Generation(n + 1)' = active_generation' /\ Default(n + 1)' = default_byte_safety'
           /\ LogLength(n + 1)' = Len(undo_log')
  <1>1. n \in Nat /\ n = Len(stack) /\ Len(stack') = n + 1
    BY DEF Pushed
  <1>2. \A j \in 1 .. n : j # n + 1 /\ (j # n => j + 1 \in 1 .. n)
    BY <1>1, Upward
  <1>3. \A j \in 1 .. n :
           Generation(j)' = Generation(j) /\ Default(j)' = Default(j) /\ LogLength(j)' = LogLength(j)
    BY <1>1, <1>2 DEF Pushed, Generation, Default, LogLength
  <1> QED BY <1>1, <1>3 DEF Generation, Default, LogLength

LEMMA PushedBranch ==
    ASSUME NEW n, NEW d, Pushed(n, d), BranchInv, UNCHANGED mssa,
           d \in DOMAIN mssa.children, d[2] # 0, mssa.access[d] = stack[n].access
    PROVE  BranchInv' /\ \A k \in 1 .. n : stack[k].access # d
  <1>1. n \in Nat /\ n >= 1 /\ n = Len(stack) /\ Len(stack') = n + 1
    BY DEF Pushed
  <1>2. \A k \in 1 .. n + 1 : k = n + 1 \/ k \in 1 .. n
    BY <1>1
  <1>3. \A k \in 1 .. n : k > 1 => k - 1 \in 1 .. n /\ k - 1 # n
    BY <1>1
  <1>4. \A k \in 1 .. n : stack[k].access # d
    <2> SUFFICES ASSUME NEW k \in 1 .. n, stack[k].access = d PROVE FALSE
      OBVIOUS
    <2>1. k > 1
      BY <1>1 DEF BranchInv
    <2>2. stack[k - 1].access = stack[n].access
      BY <1>1, <2>1 DEF BranchInv
    <2>3. k - 1 \in 1 .. n /\ n \in 1 .. n
      BY <1>1, <1>3, <2>1
    <2>4. k - 1 = n
      BY <1>1, <2>2, <2>3 DEF BranchInv
    <2> QED BY <1>3, <2>1, <2>4
  <1>5. \A k \in 1 .. n + 1 :
           /\ stack'[k].access \in DOMAIN mssa.children
           /\ k = 1 <=> stack'[k].access[2] = 0
           /\ k > 1 => mssa.access[stack'[k].access] = stack'[k - 1].access
    <2>1. ASSUME NEW k \in 1 .. n
          PROVE  /\ stack'[k].access \in DOMAIN mssa.children
                 /\ k = 1 <=> stack'[k].access[2] = 0
                 /\ k > 1 => mssa.access[stack'[k].access] = stack'[k - 1].access
      <3>1. stack'[k].access = stack[k].access /\ (k > 1 => stack'[k - 1].access = stack[k - 1].access)
        BY <1>3 DEF Pushed
      <3> QED BY <1>1, <3>1 DEF BranchInv
    <2>2. /\ stack'[n + 1].access = d /\ n + 1 # 1 /\ (n + 1) - 1 = n
          /\ stack'[n].access = stack[n].access
      BY <1>1 DEF Pushed
    <2> QED BY <1>2, <2>1, <2>2
  <1>6. \A j, k \in 1 .. n + 1 : stack'[j].access = stack'[k].access => j = k
    BY <1>1, <1>2, <1>4 DEF Pushed, BranchInv
  <1> QED BY <1>1, <1>4, <1>5, <1>6 DEF BranchInv

LEMMA PushedLog ==
    ASSUME NEW n, NEW d, Pushed(n, d), LogInv, stack \in Seq(Frames), Len(undo_log) \in Nat,
           Len(undo_log') = Len(undo_log) \/ Len(undo_log') = Len(undo_log) + 1
    PROVE  LogInv'
  <1>1. n \in Nat /\ n >= 1 /\ n = Len(stack) /\ Len(stack') = n + 1
    BY DEF Pushed
  <1>2. \A k \in 1 .. n + 1 : k = n + 1 \/ k \in 1 .. n
    BY <1>1
  <1>3. \A j \in 1 .. n : LogLength(j)' = LogLength(j) /\ stack'[j].checkpoint = stack[j].checkpoint
    BY PushedLevels DEF Pushed
  <1>4. LogLength(n) = Len(undo_log) /\ LogLength(n + 1)' = Len(undo_log')
    BY PushedLevels
  <1>5. ASSUME NEW j \in 1 .. n
        PROVE  /\ LogLength(j)' <= stack'[j].checkpoint + 1
               /\ \A i \in 1 .. j : stack'[i].checkpoint <= LogLength(j)' /\ LogLength(i)' <= LogLength(j)'
    <2>1. \A i \in 1 .. j : i \in 1 .. n
      BY <1>1, Inward
    <2> QED BY <1>1, <1>3, <2>1 DEF LogInv
  <1>6. \A i \in 1 .. n : stack[i].checkpoint <= Len(undo_log) /\ LogLength(i) <= Len(undo_log)
    <2>1. n \in 1 .. n
      BY <1>1
    <2> QED BY <1>1, <1>4, <2>1 DEF LogInv
  <1>7. \A i \in 1 .. n : stack[i].checkpoint \in Nat /\ LogLength(i) \in Nat
    <2>1. \A i \in 1 .. n : stack[i] \in Frames
      BY <1>1
    <2>2. \A i \in 1 .. n : stack[i].checkpoint \in Nat
      BY <2>1 DEF Frames
    <2> QED BY <1>1, <2>2, Upward DEF LogLength
  <1>8. /\ LogLength(n + 1)' <= stack'[n + 1].checkpoint + 1
        /\ \A i \in 1 .. n + 1 :
              stack'[i].checkpoint <= LogLength(n + 1)' /\ LogLength(i)' <= LogLength(n + 1)'
    <2>1. Len(undo_log') \in Nat /\ Len(undo_log) <= Len(undo_log') /\ Len(undo_log') <= Len(undo_log) + 1
      OBVIOUS
    <2>2. stack'[n + 1].checkpoint = Len(undo_log)
      BY DEF Pushed
    <2>3. \A i \in 1 .. n : stack[i].checkpoint <= Len(undo_log') /\ LogLength(i) <= Len(undo_log')
      BY <1>6, <1>7, <2>1
    <2> QED BY <1>2, <1>3, <1>4, <2>1, <2>2, <2>3
  <1> QED BY <1>1, <1>2, <1>5, <1>8 DEF LogInv

\* the maps of the frames below are found again, and the new frame's too
LEMMA PushedMaps ==
    ASSUME NEW n, NEW d, Pushed(n, d), Grown, UNCHANGED <<func, mssa>>, VerdictInv, LogInv, MapsInv,
           stack \in Seq(Frames), undo_log \in Seq(Records), byte_safety' \in Maps, Len(undo_log') \in Nat,
           \A k \in 1 .. Len(undo_log) : undo_log'[k] = undo_log[k],
           LevelOK(n, byte_safety) => LevelOK(n + 1, byte_safety)',
           \A b \in Bytes :
               byte_safety[b] = IF Len(undo_log) < Len(undo_log') /\ b \in DOMAIN undo_log'[Len(undo_log) + 1]
                                THEN undo_log'[Len(undo_log) + 1][b] ELSE byte_safety'[b],
           byte_safety \in Maps
    PROVE  MapsInv'
  <1>1. n \in Nat /\ n >= 1 /\ n = Len(stack) /\ Len(stack') = n + 1
    BY DEF Pushed
  <1>2. PICK h \in [1 .. n -> Maps] :
           /\ h[n] = byte_safety
           /\ \A j \in 1 .. n : LevelOK(j, h[j])
           /\ \A j \in 1 .. n - 1 : h[j] = Undone(h[j + 1], LogLength(j), LogLength(j + 1))
    BY <1>1 DEF MapsInv
  <1>3. PICK top : top = byte_safety'
    OBVIOUS
  <1>4. PICK g : g = [j \in 1 .. n + 1 |-> IF j = n + 1 THEN top ELSE h[j]]
    OBVIOUS
  <1>5. /\ g \in [1 .. n + 1 -> Maps] /\ g[n + 1] = top
        /\ \A j \in 1 .. n : g[j] = h[j]
    <2>1. \A j \in 1 .. n + 1 : j = n + 1 \/ j \in 1 .. n
      BY <1>1
    <2>2. n + 1 \in 1 .. n + 1 /\ \A j \in 1 .. n : j \in 1 .. n + 1 /\ j # n + 1
      BY <1>1
    <2> QED BY <1>2, <1>3, <1>4, <2>1, <2>2
  <1>6. ASSUME NEW j \in 1 .. n + 1 PROVE LevelOK(j, g[j])'
    <2>1. CASE j \in 1 .. n
      <3>1. PICK m : m = h[j] /\ m = g[j]
        BY <1>5, <2>1
      <3>2. \A i \in 1 .. j : stack'[i].access = stack[i].access
        BY <1>1, <2>1, Inward DEF Pushed
      <3>3. Generation(j)' = Generation(j) /\ Default(j)' = Default(j)
        BY <2>1, PushedLevels
      <3>4. j \in Nat /\ j <= Len(stack) /\ Len(stack) \in Nat
        BY <1>1, <2>1
      <3>5. LevelOK(j, m)
        BY <1>2, <2>1, <3>1
      <3>6. LevelOK(j, m)'
        BY <3>2, <3>3, <3>4, <3>5, LevelKept
      <3> QED BY <3>1, <3>6
    <2>2. CASE j = n + 1
      <3>1. LevelOK(n, h[n])
        BY <1>1, <1>2
      <3>2. LevelOK(n, byte_safety)
        BY <1>2, <3>1
      <3>3. LevelOK(n + 1, byte_safety)'
        BY <3>2
      <3>4. LevelOK(n + 1, top)'
        BY <1>3, <3>3 DEF LevelOK
      <3>5. top = g[j]
        BY <1>5, <2>2
      <3> QED BY <2>2, <3>4, <3>5
    <2> QED BY <1>1, <2>1, <2>2
  <1>7. ASSUME NEW j \in 1 .. n PROVE g[j] = Undone(g[j + 1], LogLength(j), LogLength(j + 1))'
    <2>1. CASE j = n
      <3>1. PICK c, e : c = LogLength(n)' /\ e = LogLength(n + 1)' /\ c = Len(undo_log) /\ e = Len(undo_log')
        BY <1>1, PushedLevels
      <3>2. byte_safety = Undone(top, c, e)'
        BY <1>3, <3>1 DEF Undone, Maps
      <3>3. g[j] = byte_safety /\ g[j + 1] = top
        BY <1>2, <1>5, <2>1
      <3>4. Undone(g[j + 1], LogLength(j), LogLength(j + 1))' = Undone(top, c, e)'
        BY <2>1, <3>1, <3>3 DEF Undone
      <3> QED BY <3>2, <3>3, <3>4
    <2>2. CASE j # n
      <3>1. j \in 1 .. n - 1 /\ j + 1 \in 1 .. n /\ j \in 1 .. j + 1 /\ n \in 1 .. n
        BY <1>1, <2>2
      <3>2. PICK m, c, e : /\ m = g[j + 1] /\ m = h[j + 1]
                           /\ c = LogLength(j) /\ e = LogLength(j + 1)
                           /\ c = LogLength(j)' /\ e = LogLength(j + 1)'
        BY <1>5, <3>1, PushedLevels
      <3>3. g[j] = Undone(m, c, e)
        BY <1>2, <1>5, <3>1, <3>2
      <3>4. c \in Nat /\ e \in Nat /\ e <= Len(undo_log)
        <4>1. stack[j + 1] \in Frames /\ (j + 1 # n => stack[(j + 1) + 1] \in Frames)
          BY <1>1, <3>1, Upward
        <4>2. c \in Nat /\ e \in Nat
          BY <1>1, <3>1, <3>2, <4>1 DEF LogLength, Frames
        <4>3. e <= LogLength(n)
          BY <1>1, <3>1, <3>2 DEF LogInv
        <4> QED BY <4>2, <4>3, PushedLevels
      <3>5. c < e => c + 1 \in 1 .. Len(undo_log)
        BY <3>4
      <3>6. Undone(m, c, e)' = Undone(m, c, e)
        BY <3>5 DEF Undone
      <3>7. Undone(m, c, e)' = Undone(g[j + 1], LogLength(j), LogLength(j + 1))'
        BY <3>2 DEF Undone
      <3> QED BY <3>3, <3>6, <3>7
    <2> QED BY <2>1, <2>2
  <1>8. g \in [1 .. Len(stack') -> Maps] /\ g[Len(stack')] = byte_safety'
    BY <1>1, <1>3, <1>5
  <1>9. \A j \in 1 .. Len(stack') : LevelOK(j, g[j])'
    BY <1>1, <1>6
  <1>10. \A j \in 1 .. Len(stack') - 1 : g[j] = Undone(g[j + 1], LogLength(j), LogLength(j + 1))'
    <2>1. Len(stack') - 1 = n
      BY <1>1
    <2> QED BY <1>7, <2>1
  <1> QED BY <1>8, <1>9, <1>10 DEF MapsInv

-----------------------------------------------------------------------------
\* Down to a definition

LEMMA ArrivalType ==
    ASSUME WalkInv, Descend, NEW n, n = Len(stack), NEW d, d = mssa.children[stack[n].access][stack[n].next_child]
    PROVE  /\ Pushed(n, d) /\ stack' \in Seq(Frames)
           /\ d \in Memory /\ d[2] # 0 /\ d \in DOMAIN mssa.children
           /\ mssa.access[d] = stack[n].access /\ Ins(d).bytes \subseteq Bytes
  <1>1. /\ phase = "memory" /\ stack # <<>> /\ stack \in Seq(Frames) /\ undo_log \in Seq(Records)
        /\ active_generation \in Memory /\ default_byte_safety \in BOOLEAN /\ BranchInv
        /\ func \in Functions /\ mssa = Analyses(func)
        /\ stack[n].next_child <= Len(mssa.children[stack[n].access])
        /\ stack' = Append([stack EXCEPT ![n].next_child = @ + 1],
                           Frame(d, Len(undo_log), active_generation, default_byte_safety))
    BY DEF WalkInv, TypeInv, Descend, Top
  <1>2. n \in Nat /\ n >= 1 /\ DOMAIN stack = 1 .. n /\ n \in 1 .. n
    BY <1>1
  <1>3. stack[n] \in Frames /\ stack[n].next_child \in Nat \ {0} /\ stack[n].access \in Memory
    <2>1. stack[n] \in Frames
      BY <1>1, <1>2
    <2> QED BY <2>1 DEF Frames
  <1>4. PICK m : m = stack[n].access
    OBVIOUS
  <1>5. m \in DOMAIN mssa.children
    BY <1>1, <1>2, <1>4 DEF BranchInv
  <1>6. /\ mssa.children[m] \in Seq(Nat \X (Nat \ {0}))
        /\ \A k \in DOMAIN mssa.children[m] :
              /\ mssa.children[m][k] \in DOMAIN mssa.children
              /\ mssa.access[mssa.children[m][k]] = m
              /\ Ins(mssa.children[m][k]).bytes \subseteq Bytes
    BY <1>1, <1>5, Forest
  <1>7. stack[n].next_child \in DOMAIN mssa.children[m]
    <2>1. ASSUME NEW c \in Nat \ {0}, NEW s \in Seq(Nat \X (Nat \ {0})), c <= Len(s) PROVE c \in DOMAIN s
      BY <2>1
    <2> QED BY <1>1, <1>3, <1>4, <1>6, <2>1
  <1>8. d \in Nat \X (Nat \ {0})
    <2>1. ASSUME NEW s \in Seq(Nat \X (Nat \ {0})), NEW c \in DOMAIN s PROVE s[c] \in Nat \X (Nat \ {0})
      BY <2>1
    <2>2. PICK s : s = mssa.children[m]
      OBVIOUS
    <2>3. s \in Seq(Nat \X (Nat \ {0})) /\ stack[n].next_child \in DOMAIN s
      BY <1>6, <1>7, <2>2
    <2>4. d = s[stack[n].next_child]
      BY <1>4, <2>2
    <2> QED BY <2>1, <2>3, <2>4
  <1>9. /\ d \in Memory /\ d[2] # 0 /\ d \in DOMAIN mssa.children
        /\ mssa.access[d] = m /\ Ins(d).bytes \subseteq Bytes
    BY <1>4, <1>6, <1>7, <1>8 DEF Memory
  <1>10. PICK f : f = Frame(d, Len(undo_log), active_generation, default_byte_safety)
    OBVIOUS
  <1>11. /\ f \in Frames /\ f.access = d /\ f.checkpoint = Len(undo_log)
         /\ f.previous_generation = active_generation /\ f.previous_default = default_byte_safety
    <2>1. Len(undo_log) \in Nat
      BY <1>1
    <2>2. ASSUME NEW x \in Memory, NEW c \in Nat, NEW g \in Memory, NEW e \in BOOLEAN
          PROVE  Frame(x, c, g, e) \in Frames
      BY DEF Frame, Frames
    <2>3. f \in Frames
      BY <1>1, <1>9, <1>10, <2>1, <2>2
    <2> QED BY <1>10, <2>3 DEF Frame
  <1>12. PICK s : s = [stack EXCEPT ![n].next_child = @ + 1]
    OBVIOUS
  <1>13. /\ s \in Seq(Frames) /\ Len(s) = n
         /\ \A k \in 1 .. n : /\ s[k].access = stack[k].access /\ s[k].checkpoint = stack[k].checkpoint
                             /\ s[k].previous_generation = stack[k].previous_generation
                             /\ s[k].previous_default = stack[k].previous_default
    <2>1. PICK t : t = [stack[n] EXCEPT !.next_child = @ + 1]
      OBVIOUS
    <2>2. /\ t \in Frames /\ t.access = stack[n].access /\ t.checkpoint = stack[n].checkpoint
          /\ t.previous_generation = stack[n].previous_generation
          /\ t.previous_default = stack[n].previous_default
      BY <1>3, <2>1 DEF Frames
    <2>3. s = [stack EXCEPT ![n] = t]
      BY <1>12, <2>1
    <2> QED BY <1>1, <1>2, <2>2, <2>3
  <1>14. stack' = Append(s, f)
    BY <1>1, <1>10, <1>12
  <1>15. /\ stack' \in Seq(Frames) /\ Len(stack') = n + 1 /\ stack'[n + 1] = f
         /\ \A k \in 1 .. n : stack'[k] = s[k]
    BY <1>2, <1>11, <1>13, <1>14
  <1> QED BY <1>2, <1>4, <1>9, <1>11, <1>13, <1>15 DEF Pushed

\* an unknown write starts a generation that no entry of the map has
LEMMA UnknownLevel ==
    ASSUME NEW n, NEW d, Pushed(n, d), Grown, UNCHANGED <<func, mssa, byte_safety>>, VerdictInv,
           d[2] # 0, ~KnownStore(d), \A k \in 1 .. n : stack[k].access # d,
           active_generation' = d, default_byte_safety' = FALSE, LevelOK(n, byte_safety)
    PROVE  LevelOK(n + 1, byte_safety)'
  <1>1. /\ n \in Nat /\ n >= 1 /\ stack'[n + 1].access = d
        /\ \A k \in 1 .. n : stack'[k].access = stack[k].access
    BY DEF Pushed
  <1>2. Generation(n + 1)' = d /\ Default(n + 1)' = FALSE
    BY PushedLevels
  <1>3. ~KnownStore(d)' /\ d # LiveOnEntry
    BY DEF KnownStore, Ins, LiveOnEntry
  <1>4. (\A b : Settles(stack[n + 1].access, b)') /\ ~MakesSafe(stack[n + 1].access)'
    BY <1>1, <1>3 DEF Settles, MakesSafe, KnownStore
  <1>5. \A b \in Bytes : ~SafeUpTo(n + 1, b)'
    BY <1>1, <1>4, SafeAfter
  <1>6. \A b \in Bytes : ~byte_safety[b].absent =>
           \E i \in 1 .. n : stack'[i].access = byte_safety[b].generation /\ byte_safety[b].generation # d
    BY <1>1 DEF LevelOK
  <1>7. \A i \in 1 .. n : i \in 1 .. n + 1
    BY <1>1
  <1>8. \A b \in Bytes :
           /\ ~byte_safety[b].absent => byte_safety[b].generation # Generation(n + 1)'
           /\ ~byte_safety[b].absent => \E i \in 1 .. n + 1 : stack'[i].access = byte_safety[b].generation
    BY <1>2, <1>6, <1>7
  <1>9. \E i \in 1 .. n + 1 : stack'[i].access = Generation(n + 1)'
    <2>1. n + 1 \in 1 .. n + 1 /\ stack'[n + 1].access = Generation(n + 1)'
      BY <1>1, <1>2
    <2> QED BY <2>1
  <1> QED BY <1>2, <1>5, <1>8, <1>9 DEF LevelOK

\* a store to known bytes changes the safety of those bytes and of no others
LEMMA StoreEffect ==
    ASSUME byte_safety \in Maps, active_generation \in Memory, default_byte_safety \in BOOLEAN,
           NEW S \in SUBSET Bytes, NEW safe \in BOOLEAN, byte_safety' = WithSafety(S, safe),
           UNCHANGED <<active_generation, default_byte_safety>>
    PROVE  /\ byte_safety' \in Maps
           /\ \A b \in Bytes :
                 /\ CurrentSafety(b)' <=> (IF b \in S THEN safe ELSE CurrentSafety(b))
                 /\ b \notin Changed(S, safe) => byte_safety'[b] = byte_safety[b]
                 /\ ~byte_safety'[b].absent =>
                       \/ byte_safety'[b].generation = active_generation
                       \/ ~byte_safety[b].absent /\ byte_safety'[b].generation = byte_safety[b].generation
  <1>1. \A b \in Bytes : byte_safety[b] \in ByteStates /\ CurrentSafety(b) \in BOOLEAN
    <2>1. \A b \in Bytes : byte_safety[b] \in ByteStates
      BY DEF Maps
    <2>2. \A b \in Bytes : byte_safety[b].safe \in BOOLEAN
      BY <2>1 DEF ByteStates
    <2> QED BY <2>1, <2>2 DEF CurrentSafety
  <1>2. \A b \in Bytes :
           byte_safety'[b] = IF b \notin Changed(S, safe) THEN byte_safety[b]
                             ELSE IF safe = default_byte_safety THEN Absent
                             ELSE ByteState(active_generation, safe)
    BY DEF WithSafety
  <1>3. ByteState(active_generation, safe) \in ByteStates /\ Absent \in ByteStates
    BY AbsentType DEF ByteStates, ByteState
  <1>4. byte_safety' \in Maps
    <2>1. \A b \in Bytes : byte_safety'[b] \in ByteStates
      BY <1>1, <1>2, <1>3
    <2>2. byte_safety' = [b \in Bytes |-> byte_safety'[b]]
      BY DEF WithSafety
    <2> QED BY <2>1, <2>2 DEF Maps
  <1>5. ASSUME NEW b \in Bytes
        PROVE  /\ CurrentSafety(b)' <=> (IF b \in S THEN safe ELSE CurrentSafety(b))
               /\ ~byte_safety'[b].absent =>
                     \/ byte_safety'[b].generation = active_generation
                     \/ ~byte_safety[b].absent /\ byte_safety'[b].generation = byte_safety[b].generation
    <2>1. CASE b \notin Changed(S, safe)
      <3>1. byte_safety'[b] = byte_safety[b]
        BY <1>2, <2>1
      <3>2. CurrentSafety(b)' = CurrentSafety(b)
        BY <3>1 DEF CurrentSafety
      <3>3. b \in S => CurrentSafety(b) = safe
        BY <2>1 DEF Changed
      <3> QED BY <3>1, <3>2, <3>3
    <2>2. CASE b \in Changed(S, safe) /\ safe = default_byte_safety
      <3>1. byte_safety'[b] = Absent /\ b \in S
        BY <1>2, <2>2 DEF Changed
      <3>2. byte_safety'[b].absent
        BY <3>1 DEF Absent
      <3> QED BY <2>2, <3>1, <3>2 DEF CurrentSafety
    <2>3. CASE b \in Changed(S, safe) /\ safe # default_byte_safety
      <3>1. byte_safety'[b] = ByteState(active_generation, safe) /\ b \in S
        BY <1>2, <2>3 DEF Changed
      <3>2. /\ ~byte_safety'[b].absent /\ byte_safety'[b].generation = active_generation
            /\ byte_safety'[b].safe = safe
        BY <3>1 DEF ByteState
      <3> QED BY <3>1, <3>2 DEF CurrentSafety
    <2> QED BY <2>1, <2>2, <2>3
  <1> QED BY <1>2, <1>4, <1>5

LEMMA KnownLevel ==
    ASSUME NEW n, NEW d, Pushed(n, d), Grown, UNCHANGED <<func, mssa>>, VerdictInv,
           KnownStore(d), Ins(d).bytes \subseteq Bytes,
           byte_safety \in Maps, active_generation \in Memory, default_byte_safety \in BOOLEAN,
           NEW safe \in BOOLEAN, byte_safety' = WithSafety(Ins(d).bytes, safe), MakesSafe(d)' <=> safe,
           UNCHANGED <<active_generation, default_byte_safety>>, LevelOK(n, byte_safety)
    PROVE  LevelOK(n + 1, byte_safety)'
  <1>1. /\ n \in Nat /\ n >= 1 /\ n = Len(stack) /\ stack'[n + 1].access = d
        /\ \A k \in 1 .. n : stack'[k].access = stack[k].access
    BY DEF Pushed
  <1>2. /\ Generation(n + 1)' = active_generation /\ Default(n + 1)' = default_byte_safety
        /\ Generation(n)' = active_generation /\ Default(n)' = default_byte_safety
        /\ Generation(n) = active_generation /\ Default(n) = default_byte_safety
    BY <1>1, PushedLevels
  <1>3. PICK g : g = byte_safety
    OBVIOUS
  <1>4. LevelOK(n, g)'
    <2>1. LevelOK(n, g)
      BY <1>3 DEF LevelOK
    <2> QED BY <1>1, <1>2, <2>1, LevelKept
  <1>5. \A b \in Bytes : CurrentSafety(b) <=> SafeUpTo(n, b)'
    BY <1>2, <1>3, <1>4 DEF LevelOK, CurrentSafety
  <1>6. /\ \A b : Settles(stack[n + 1].access, b)' <=> b \in Ins(d).bytes
        /\ MakesSafe(stack[n + 1].access)' <=> safe
    <2>1. KnownStore(d)' /\ Ins(d)' = Ins(d)
      BY DEF KnownStore, Ins
    <2>2. PICK m : m = d /\ m = stack'[n + 1].access
      BY <1>1
    <2>3. (\A b : Settles(m, b)' <=> b \in Ins(m).bytes) /\ (MakesSafe(m)' <=> safe)
      BY <2>1, <2>2 DEF Settles
    <2> QED BY <2>2, <2>3 DEF Settles, MakesSafe
  <1>7. \A b \in Bytes : SafeUpTo(n + 1, b)' <=> (IF b \in Ins(d).bytes THEN safe ELSE CurrentSafety(b))
    BY <1>1, <1>5, <1>6, SafeAfter
  <1>8. \A b \in Bytes :
           /\ CurrentSafety(b)' <=> (IF b \in Ins(d).bytes THEN safe ELSE CurrentSafety(b))
           /\ ~byte_safety'[b].absent =>
                 \/ byte_safety'[b].generation = active_generation
                 \/ ~byte_safety[b].absent /\ byte_safety'[b].generation = byte_safety[b].generation
    BY StoreEffect
  <1>9. \A b \in Bytes :
           (IF ~byte_safety'[b].absent /\ byte_safety'[b].generation = Generation(n + 1)'
            THEN byte_safety'[b].safe ELSE Default(n + 1)') <=> SafeUpTo(n + 1, b)'
    BY <1>2, <1>7, <1>8 DEF CurrentSafety
  <1>10. \A i \in 1 .. n : i \in 1 .. n + 1
    BY <1>1
  <1>11. \E i \in 1 .. n + 1 : stack'[i].access = active_generation
    BY <1>1, <1>2, <1>10 DEF LevelOK
  <1>12. \A b \in Bytes : ~byte_safety[b].absent =>
            \E i \in 1 .. n + 1 : stack'[i].access = byte_safety[b].generation
    BY <1>1, <1>10 DEF LevelOK
  <1> QED BY <1>2, <1>8, <1>9, <1>11, <1>12 DEF LevelOK

LEMMA DescendStep == WalkInv /\ Descend => WalkInv'
  <1> SUFFICES ASSUME WalkInv, Descend PROVE WalkInv'
    OBVIOUS
  <1>1. PICK n, d : n = Len(stack) /\ d = mssa.children[stack[n].access][stack[n].next_child]
    OBVIOUS
  <1>2. /\ Pushed(n, d) /\ stack' \in Seq(Frames)
        /\ d \in Memory /\ d[2] # 0 /\ d \in DOMAIN mssa.children
        /\ mssa.access[d] = stack[n].access /\ Ins(d).bytes \subseteq Bytes
    BY <1>1, ArrivalType
  <1>3. /\ phase = "memory" /\ stack \in Seq(Frames) /\ undo_log \in Seq(Records) /\ byte_safety \in Maps
        /\ active_generation \in Memory /\ default_byte_safety \in BOOLEAN
        /\ func \in Functions /\ mssa = Analyses(func) /\ root \in Nat
        /\ BranchInv /\ LogInv /\ VerdictInv /\ MapsInv /\ UNCHANGED <<func, mssa, phase, root>>
    BY DEF WalkInv, TypeInv, Descend
  <1>4. BranchInv' /\ \A k \in 1 .. n : stack[k].access # d
    BY <1>2, <1>3, PushedBranch
  <1>5. Len(undo_log) \in Nat
    BY <1>3
  <1>6. ASSUME Grown, KnownStore(d)' => VerdictKnown(d)' PROVE VerdictInv'
    <2>1. n \in Nat /\ n = Len(stack) /\ Len(stack') = n + 1 /\ stack'[n + 1].access = d
      BY <1>2 DEF Pushed
    <2>2. ASSUME NEW k \in 1 .. n + 1 PROVE KnownStore(stack[k].access)' => VerdictKnown(stack[k].access)'
      <3>1. PICK m : m = stack'[k].access
        OBVIOUS
      <3>2. CASE k \in 1 .. n
        <4>1. m = stack[k].access
          BY <1>2, <3>1, <3>2 DEF Pushed
        <4>2. KnownStore(m) => VerdictKnown(m)
          BY <1>3, <2>1, <3>2, <4>1 DEF VerdictInv
        <4>3. KnownStore(m)' => VerdictKnown(m)'
          BY <1>3, <1>6, <4>2, VerdictStays
        <4> QED BY <3>1, <4>3 DEF KnownStore, VerdictKnown
      <3>3. CASE k = n + 1
        <4>1. m = d
          BY <2>1, <3>1, <3>3
        <4> QED BY <1>6, <3>1, <4>1 DEF KnownStore, VerdictKnown
      <3> QED BY <2>1, <3>2, <3>3
    <2> QED BY <2>1, <2>2 DEF VerdictInv
  <1>7. CASE ~KnownStore(d)
    <2>1. /\ active_generation' = d /\ default_byte_safety' = FALSE
          /\ UNCHANGED <<value_safety, undo_log, byte_safety>>
      BY <1>1, <1>7 DEF Descend, Top
    <2>2. Grown /\ ~KnownStore(d)'
      BY <1>3, <1>7, <2>1 DEF Grown, KnownStore, Ins
    <2>3. TypeInv'
      BY <1>2, <1>3, <2>1 DEF TypeInv
    <2>4. LogInv'
      BY <1>2, <1>3, <1>5, <2>1, PushedLog
    <2>5. VerdictInv'
      BY <1>6, <2>2
    <2>6. LevelOK(n, byte_safety) => LevelOK(n + 1, byte_safety)'
      BY <1>2, <1>3, <1>4, <1>7, <2>1, <2>2, UnknownLevel
    <2>7. MapsInv'
      <3>1. \A b \in Bytes :
               byte_safety[b] = IF Len(undo_log) < Len(undo_log') /\ b \in DOMAIN undo_log'[Len(undo_log) + 1]
                                THEN undo_log'[Len(undo_log) + 1][b] ELSE byte_safety'[b]
        BY <1>5, <2>1
      <3>2. \A k \in 1 .. Len(undo_log) : undo_log'[k] = undo_log[k]
        BY <2>1
      <3> QED BY <1>2, <1>3, <1>5, <2>1, <2>2, <2>6, <3>1, <3>2, PushedMaps
    <2> QED BY <1>4, <2>3, <2>4, <2>5, <2>7 DEF WalkInv
  <1>8. CASE KnownStore(d)
    <2> DEFINE plain == d[1] \notin mssa.inLoop /\ d[1] \notin mssa.joined
               value == mssa.operands[d][1]
    <2>1. PICK safe \in BOOLEAN : safe <=> (plain /\ (value = Constant \/ value_safety'[value]))
      <3>1. (plain /\ (value = Constant \/ value_safety'[value])) \in BOOLEAN
        OBVIOUS
      <3> QED BY <3>1
    <2>2. /\ value_safety' = IF plain THEN Asked({value}, Top.access) ELSE value_safety
          /\ undo_log' = Logged(Ins(d).bytes, safe)
          /\ byte_safety' = WithSafety(Ins(d).bytes, safe)
          /\ UNCHANGED <<active_generation, default_byte_safety>>
      <3>1. safe = (plain /\ (value = Constant \/ value_safety'[value]))
        BY <2>1
      <3> QED BY <1>1, <1>8, <3>1 DEF Descend, Top
    <2>3. Grown /\ (plain /\ value # Constant => value \in DOMAIN value_safety')
      <3>1. CASE plain
        BY <2>2, <3>1, AskedGrows
      <3>2. CASE ~plain
        BY <2>2, <3>2 DEF Grown
      <3> QED BY <3>1, <3>2
    <2>4. VerdictKnown(d)' /\ (MakesSafe(d)' <=> safe)
      <3>1. KnownStore(d)'
        BY <1>3, <1>8 DEF KnownStore, Ins
      <3>2. VerdictKnown(d)'
        BY <1>3, <2>3 DEF VerdictKnown
      <3>3. StoreIsSafe(d)' <=> safe
        BY <1>3, <2>1, <2>3 DEF StoreIsSafe
      <3> QED BY <3>1, <3>2, <3>3 DEF MakesSafe
    <2> HIDE DEF plain, value
    <2>5. PICK r : r = [b \in Changed(Ins(d).bytes, safe) |-> byte_safety[b]]
      OBVIOUS
    <2>6. r \in Records /\ DOMAIN r = Changed(Ins(d).bytes, safe) /\ \A b \in DOMAIN r : r[b] = byte_safety[b]
      <3>1. Changed(Ins(d).bytes, safe) \in SUBSET Bytes
        BY <1>2 DEF Changed
      <3>2. r \in [Changed(Ins(d).bytes, safe) -> ByteStates]
        BY <1>3, <2>5, <3>1 DEF Maps
      <3> QED BY <2>5, <3>1, <3>2 DEF Records
    <2>7. undo_log' = Append(undo_log, r)
      BY <2>2, <2>5 DEF Logged
    <2>8. /\ undo_log' \in Seq(Records) /\ Len(undo_log') = Len(undo_log) + 1
          /\ undo_log'[Len(undo_log) + 1] = r /\ \A k \in 1 .. Len(undo_log) : undo_log'[k] = undo_log[k]
      BY <1>3, <2>6, <2>7
    <2>9. byte_safety' \in Maps
          /\ \A b \in Bytes : b \notin Changed(Ins(d).bytes, safe) => byte_safety'[b] = byte_safety[b]
      BY <1>2, <1>3, <2>2, StoreEffect
    <2>10. TypeInv'
      BY <1>2, <1>3, <2>2, <2>8, <2>9 DEF TypeInv
    <2>11. LogInv'
      BY <1>2, <1>3, <1>5, <2>8, PushedLog
    <2>12. VerdictInv'
      BY <1>6, <2>3, <2>4
    <2>13. LevelOK(n, byte_safety) => LevelOK(n + 1, byte_safety)'
      BY <1>2, <1>3, <1>8, <2>2, <2>3, <2>4, KnownLevel
    <2>14. MapsInv'
      <3>1. Len(undo_log) < Len(undo_log') /\ Len(undo_log') \in Nat
        BY <1>5, <2>8
      <3>2. \A b \in Bytes :
               byte_safety[b] = IF Len(undo_log) < Len(undo_log') /\ b \in DOMAIN undo_log'[Len(undo_log) + 1]
                                THEN undo_log'[Len(undo_log) + 1][b] ELSE byte_safety'[b]
        BY <2>6, <2>8, <2>9, <3>1
      <3> QED BY <1>2, <1>3, <2>3, <2>8, <2>9, <2>13, <3>1, <3>2, PushedMaps
    <2> QED BY <1>4, <2>10, <2>11, <2>12, <2>14 DEF WalkInv
  <1> QED BY <1>7, <1>8

-----------------------------------------------------------------------------
\* Up again

LEMMA RolledBackMap ==
    ASSUME byte_safety \in Maps, undo_log \in Seq(Records), NEW c \in Nat, c <= Len(undo_log), Len(undo_log) <= c + 1
    PROVE  RolledBack(c) = Undone(byte_safety, c, Len(undo_log)) /\ RolledBack(c) \in Maps
  <1>1. PICK e : e = Len(undo_log)
    OBVIOUS
  <1>2. e \in Nat /\ (e = c \/ e = c + 1)
    BY <1>1
  <1>3. ASSUME NEW b \in Bytes
        PROVE  RolledBack(c)[b] = Undone(byte_safety, c, e)[b] /\ RolledBack(c)[b] \in ByteStates
    <2> DEFINE records == {k \in c + 1 .. Len(undo_log) : b \in DOMAIN undo_log[k]}
    <2>1. RolledBack(c)[b] = IF records = {} THEN byte_safety[b] ELSE undo_log[Min(records)][b]
      BY DEF RolledBack
    <2>2. byte_safety[b] \in ByteStates
      BY DEF Maps
    <2>3. CASE e = c + 1 /\ b \in DOMAIN undo_log[c + 1]
      <3>1. c + 1 .. Len(undo_log) = {c + 1}
        BY <1>1, <1>2, <2>3
      <3>2. records = {c + 1}
        BY <2>3, <3>1
      <3>3. Min({c + 1}) = c + 1
        BY DEF Min
      <3>4. undo_log[c + 1] \in Records
        <4>1. c + 1 \in 1 .. Len(undo_log)
          BY <1>1, <1>2, <2>3
        <4> QED BY <4>1
      <3>5. undo_log[c + 1][b] \in ByteStates
        BY <2>3, <3>4 DEF Records
      <3>6. RolledBack(c)[b] = undo_log[c + 1][b]
        BY <2>1, <3>2, <3>3
      <3>7. Undone(byte_safety, c, e)[b] = undo_log[c + 1][b]
        BY <2>3 DEF Undone
      <3> QED BY <3>5, <3>6, <3>7
    <2>4. CASE ~(e = c + 1 /\ b \in DOMAIN undo_log[c + 1])
      <3>1. records = {}
        BY <1>1, <1>2, <2>4
      <3>2. RolledBack(c)[b] = byte_safety[b]
        BY <2>1, <3>1
      <3>3. Undone(byte_safety, c, e)[b] = byte_safety[b]
        BY <1>2, <2>4 DEF Undone
      <3> QED BY <2>2, <3>2, <3>3
    <2> QED BY <2>3, <2>4
  <1>4. RolledBack(c) = [b \in Bytes |-> RolledBack(c)[b]]
    BY DEF RolledBack
  <1>5. Undone(byte_safety, c, e) = [b \in Bytes |-> Undone(byte_safety, c, e)[b]]
    BY DEF Undone
  <1>6. RolledBack(c) = Undone(byte_safety, c, e)
    BY <1>3, <1>4, <1>5
  <1>7. RolledBack(c) \in Maps
    BY <1>3, <1>4 DEF Maps
  <1> QED BY <1>1, <1>6, <1>7

LEMMA BacktrackStep == WalkInv /\ Backtrack => WalkInv'
  <1> SUFFICES ASSUME WalkInv, Backtrack PROVE WalkInv'
    OBVIOUS
  <1>1. PICK n, c : n = Len(stack) /\ c = stack[n].checkpoint
    OBVIOUS
  <1>2. /\ phase = "memory" /\ stack # <<>> /\ stack \in Seq(Frames) /\ undo_log \in Seq(Records)
        /\ byte_safety \in Maps /\ func \in Functions /\ mssa = Analyses(func) /\ root \in Nat
        /\ BranchInv /\ LogInv /\ VerdictInv /\ MapsInv /\ UNCHANGED <<func, mssa, phase, root, value_safety>>
        /\ stack' = Front(stack) /\ byte_safety' = RolledBack(c) /\ undo_log' = SubSeq(undo_log, 1, c)
        /\ active_generation' = stack[n].previous_generation
        /\ default_byte_safety' = stack[n].previous_default
    BY <1>1 DEF WalkInv, TypeInv, Backtrack, Top
  <1>3. n \in Nat /\ n >= 1 /\ n \in 1 .. n
    BY <1>1, <1>2
  <1>4. /\ stack[n] \in Frames /\ c \in Nat /\ stack[n].previous_generation \in Memory
        /\ stack[n].previous_default \in BOOLEAN
    <2>1. stack[n] \in Frames
      BY <1>1, <1>2, <1>3
    <2> QED BY <1>1, <2>1 DEF Frames
  <1>5. c <= Len(undo_log) /\ Len(undo_log) <= c + 1 /\ Len(undo_log) \in Nat
    <2>1. LogLength(n) = Len(undo_log)
      BY <1>1 DEF LogLength
    <2> QED BY <1>1, <1>2, <1>3, <2>1 DEF LogInv
  <1>6. byte_safety' = Undone(byte_safety, c, Len(undo_log)) /\ byte_safety' \in Maps
    BY <1>2, <1>4, <1>5, RolledBackMap
  <1>7. /\ undo_log' \in Seq(Records) /\ Len(undo_log') = c
        /\ \A k \in 1 .. c : undo_log'[k] = undo_log[k]
    BY <1>2, <1>4, <1>5
  <1>8. /\ stack' \in Seq(Frames) /\ Len(stack') = n - 1
        /\ \A k \in 1 .. n - 1 : stack'[k] = stack[k]
    BY <1>1, <1>2, <1>3 DEF Front
  <1>9. TypeInv'
    BY <1>2, <1>4, <1>6, <1>7, <1>8 DEF TypeInv
  <1>10. SUFFICES ASSUME stack' # <<>> PROVE BranchInv' /\ LogInv' /\ VerdictInv' /\ MapsInv'
    BY <1>9 DEF WalkInv
  <1>11. PICK m : m = n - 1
    OBVIOUS
  <1>12. /\ m \in Nat /\ m >= 1 /\ n = m + 1 /\ Len(stack') = m
         /\ \A k \in 1 .. m : k \in 1 .. n /\ stack'[k] = stack[k]
    <2>1. Len(stack') # 0
      BY <1>8, <1>10
    <2> QED BY <1>3, <1>8, <1>11, <2>1
  <1>13. \A j \in 1 .. m :
            /\ Generation(j)' = Generation(j) /\ Default(j)' = Default(j) /\ LogLength(j)' = LogLength(j)
    <2>1. /\ Generation(m)' = Generation(m) /\ Default(m)' = Default(m) /\ LogLength(m)' = LogLength(m)
      BY <1>1, <1>2, <1>7, <1>12 DEF Generation, Default, LogLength
    <2>2. ASSUME NEW j \in 1 .. m, j # m
          PROVE  Generation(j)' = Generation(j) /\ Default(j)' = Default(j) /\ LogLength(j)' = LogLength(j)
      <3>1. j # n /\ j + 1 \in 1 .. m
        BY <1>12, <2>2, Upward
      <3> QED BY <1>1, <1>12, <2>2, <3>1 DEF Generation, Default, LogLength
    <2> QED BY <2>1, <2>2
  <1>14. BranchInv'
    <2>1. \A k \in 1 .. m : k > 1 => k - 1 \in 1 .. m
      BY <1>12
    <2>2. ASSUME NEW k \in 1 .. m
          PROVE  /\ stack'[k].access \in DOMAIN mssa.children
                 /\ k = 1 <=> stack'[k].access[2] = 0
                 /\ k > 1 => mssa.access[stack'[k].access] = stack'[k - 1].access
      BY <1>1, <1>2, <1>12, <2>1, SMTT(30) DEF BranchInv
    <2>3. \A j, k \in 1 .. m : stack'[j].access = stack'[k].access => j = k
      BY <1>1, <1>2, <1>12, SMTT(30) DEF BranchInv
    <2> QED BY <1>2, <1>12, <2>2, <2>3 DEF BranchInv
  <1>15. LogInv'
    <2>1. ASSUME NEW j \in 1 .. m
          PROVE  /\ LogLength(j)' <= stack'[j].checkpoint + 1
                 /\ \A i \in 1 .. j : stack'[i].checkpoint <= LogLength(j)' /\ LogLength(i)' <= LogLength(j)'
      <3>1. \A i \in 1 .. j : i \in 1 .. m
        BY <1>12, Inward
      <3> QED BY <1>1, <1>2, <1>12, <1>13, <3>1 DEF LogInv
    <2> QED BY <1>12, <2>1 DEF LogInv
  <1>16. Grown
    BY <1>2 DEF Grown
  <1>17. VerdictInv'
    <2>1. ASSUME NEW k \in 1 .. m PROVE KnownStore(stack[k].access)' => VerdictKnown(stack[k].access)'
      <3>1. PICK x : x = stack[k].access /\ x = stack'[k].access
        BY <1>12
      <3>2. KnownStore(x) => VerdictKnown(x)
        BY <1>1, <1>2, <1>12, <3>1 DEF VerdictInv
      <3>3. KnownStore(x)' => VerdictKnown(x)'
        BY <1>2, <1>16, <3>2, VerdictStays
      <3> QED BY <3>1, <3>3 DEF KnownStore, VerdictKnown
    <2> QED BY <1>12, <2>1 DEF VerdictInv
  <1>18. MapsInv'
    <2>1. PICK h \in [1 .. n -> Maps] :
             /\ h[n] = byte_safety
             /\ \A j \in 1 .. n : LevelOK(j, h[j])
             /\ \A j \in 1 .. n - 1 : h[j] = Undone(h[j + 1], LogLength(j), LogLength(j + 1))
      BY <1>1, <1>2 DEF MapsInv
    <2>2. PICK g : g = [j \in 1 .. m |-> h[j]]
      OBVIOUS
    <2>3. g \in [1 .. m -> Maps] /\ \A j \in 1 .. m : g[j] = h[j]
      BY <1>12, <2>1, <2>2
    <2>4. g[m] = byte_safety'
      <3>1. m \in 1 .. m /\ m \in 1 .. n - 1 /\ m + 1 = n
        BY <1>3, <1>11, <1>12
      <3>2. h[m] = Undone(h[n], LogLength(m), LogLength(n))
        BY <2>1, <3>1
      <3>3. LogLength(m) = c /\ LogLength(n) = Len(undo_log)
        BY <1>1, <1>12 DEF LogLength
      <3> QED BY <1>6, <2>1, <2>3, <3>1, <3>2, <3>3
    <2>5. ASSUME NEW j \in 1 .. m PROVE LevelOK(j, g[j])'
      <3>1. PICK x : x = h[j] /\ x = g[j]
        BY <2>3
      <3>2. \A i \in 1 .. j : stack'[i].access = stack[i].access
        BY <1>12, Inward
      <3>3. j \in Nat /\ j <= Len(stack) /\ Len(stack) \in Nat
        BY <1>1, <1>3, <1>12
      <3>4. LevelOK(j, x)
        BY <1>12, <2>1, <3>1
      <3>5. LevelOK(j, x)'
        BY <1>2, <1>13, <1>16, <3>2, <3>3, <3>4, LevelKept
      <3> QED BY <3>1, <3>5
    <2>6. ASSUME NEW j \in 1 .. m - 1 PROVE g[j] = Undone(g[j + 1], LogLength(j), LogLength(j + 1))'
      <3>1. /\ j \in 1 .. m /\ j + 1 \in 1 .. m /\ j \in 1 .. n - 1 /\ j + 1 \in 1 .. n /\ m \in 1 .. n
            /\ j + 1 # n /\ (j + 1) + 1 \in 1 .. n
        BY <1>12
      <3>2. PICK x, a, e : /\ x = g[j + 1] /\ x = h[j + 1]
                           /\ a = LogLength(j) /\ e = LogLength(j + 1)
                           /\ a = LogLength(j)' /\ e = LogLength(j + 1)'
        BY <1>13, <2>3, <3>1
      <3>3. g[j] = Undone(x, a, e)
        BY <2>1, <2>3, <3>1, <3>2
      <3>4. a \in Nat /\ e \in Nat /\ e <= c
        <4>1. stack[j + 1] \in Frames /\ stack[(j + 1) + 1] \in Frames
          BY <1>1, <1>2, <3>1
        <4>2. a = stack[j + 1].checkpoint /\ e = stack[(j + 1) + 1].checkpoint
          <5>1. j # Len(stack) /\ j + 1 # Len(stack)
            BY <1>1, <1>12, <3>1
          <5>2. LogLength(j) = stack[j + 1].checkpoint
            BY <5>1 DEF LogLength
          <5>3. LogLength(j + 1) = stack[(j + 1) + 1].checkpoint
            BY <5>1 DEF LogLength
          <5> QED BY <3>2, <5>2, <5>3
        <4>3. a \in Nat /\ e \in Nat
          BY <4>1, <4>2 DEF Frames
        <4>4. LogLength(m) = c
          BY <1>1, <1>12 DEF LogLength
        <4>5. j + 1 \in 1 .. m
          BY <3>1
        <4>6. e <= LogLength(m)
          BY <1>1, <1>2, <3>1, <3>2, <4>5 DEF LogInv
        <4> QED BY <4>3, <4>4, <4>6
      <3>5. a < e => a + 1 \in 1 .. c
        BY <1>4, <3>4
      <3>6. Undone(x, a, e)' = Undone(x, a, e)
        BY <1>7, <3>5 DEF Undone
      <3>7. Undone(x, a, e)' = Undone(g[j + 1], LogLength(j), LogLength(j + 1))'
        BY <3>2 DEF Undone
      <3> QED BY <3>3, <3>6, <3>7
    <2>7. g \in [1 .. Len(stack') -> Maps] /\ g[Len(stack')] = byte_safety'
      BY <1>12, <2>3, <2>4
    <2>8. \A j \in 1 .. Len(stack') : LevelOK(j, g[j])'
      BY <1>12, <2>5
    <2>9. \A j \in 1 .. Len(stack') - 1 : g[j] = Undone(g[j + 1], LogLength(j), LogLength(j + 1))'
      BY <1>12, <2>6
    <2> QED BY <2>7, <2>8, <2>9 DEF MapsInv
  <1> QED BY <1>14, <1>15, <1>17, <1>18

-----------------------------------------------------------------------------
\* The rest of the pass, and an execution, leave the walk behind

LEMMA OtherStep ==
    WalkInv /\ (ReplaceLoads \/ Propagate \/ EraseDead \/ Call \/ RunInstruction \/ RunBranch) => WalkInv'
  <1> SUFFICES ASSUME WalkInv, ReplaceLoads \/ Propagate \/ EraseDead \/ Call \/ RunInstruction \/ RunBranch
               PROVE  WalkInv'
    OBVIOUS
  <1>1. phase' # "memory" /\ UNCHANGED <<func, mssa, root>>
    BY DEF ReplaceLoads, Propagate, EraseDead, Call, RunInstruction, RunBranch, walkVars
  <1> QED BY <1>1 DEF WalkInv, TypeInv

LEMMA StutterStep == WalkInv /\ UNCHANGED vars => WalkInv'
  <1> SUFFICES ASSUME WalkInv, UNCHANGED vars PROVE WalkInv'
    OBVIOUS
  <1>1. UNCHANGED <<func, mssa, phase, root, stack, byte_safety, undo_log, active_generation,
                    default_byte_safety, value_safety>>
    BY DEF vars, walkVars
  <1>2. TypeInv'
    BY <1>1 DEF WalkInv, TypeInv
  <1>3. SUFFICES ASSUME phase = "memory", stack # <<>> PROVE BranchInv' /\ LogInv' /\ VerdictInv' /\ MapsInv'
    BY <1>1, <1>2 DEF WalkInv
  <1>4. BranchInv /\ LogInv /\ VerdictInv /\ MapsInv /\ Len(stack) \in Nat /\ Grown
    BY <1>1, <1>3 DEF WalkInv, TypeInv, Grown
  <1>5. BranchInv'
    BY <1>1, <1>4 DEF BranchInv
  <1>6. LogInv'
    BY <1>1, <1>4 DEF LogInv, LogLength
  <1>7. VerdictInv'
    BY <1>1, <1>4 DEF VerdictInv, KnownStore, VerdictKnown, Ins
  <1>8. MapsInv'
    <2>1. ASSUME NEW j \in 1 .. Len(stack), NEW h, LevelOK(j, h) PROVE LevelOK(j, h)'
      <3>1. Generation(j)' = Generation(j) /\ Default(j)' = Default(j)
        BY <1>1 DEF Generation, Default
      <3>2. j \in Nat /\ j <= Len(stack)
        BY <1>4
      <3> QED BY <1>1, <1>4, <2>1, <3>1, <3>2, LevelKept
    <2>2. PICK h \in [1 .. Len(stack) -> Maps] :
             /\ h[Len(stack)] = byte_safety
             /\ \A j \in 1 .. Len(stack) : LevelOK(j, h[j])
             /\ \A j \in 1 .. Len(stack) - 1 : h[j] = Undone(h[j + 1], LogLength(j), LogLength(j + 1))
      BY <1>4 DEF MapsInv
    <2>3. \A j \in 1 .. Len(stack) - 1 : h[j] = Undone(h[j + 1], LogLength(j), LogLength(j + 1))'
      BY <1>1, <2>2, ZenonT(30) DEF Undone, LogLength
    <2>4. \A j \in 1 .. Len(stack) : LevelOK(j, h[j])'
      BY <2>1, <2>2
    <2>5. h \in [1 .. Len(stack') -> Maps] /\ h[Len(stack')] = byte_safety'
      BY <1>1, <2>2
    <2>6. /\ \A j \in 1 .. Len(stack') : LevelOK(j, h[j])'
          /\ \A j \in 1 .. Len(stack') - 1 : h[j] = Undone(h[j + 1], LogLength(j), LogLength(j + 1))'
      BY <1>1, <2>3, <2>4
    <2> QED BY <2>5, <2>6 DEF MapsInv
  <1> QED BY <1>5, <1>6, <1>7, <1>8

\* The walk's invariant holds throughout.
THEOREM WalkCorrect == Spec => []WalkInv
  <1>1. WalkInv /\ [Next]_vars => WalkInv'
    BY RootStep, EnterStep, DescendStep, BacktrackStep, OtherStep, StutterStep DEF Next, Pass
  <1> QED BY <1>1, WalkInit, PTL DEF Spec

\* A state of the walk shows no trace of the siblings visited before.
LEMMA StateWithoutTrace == WalkInv => SiblingsLeaveNoTrace
  <1> SUFFICES ASSUME WalkInv, phase = "memory", stack # <<>>
               PROVE  /\ \A k \in 2 .. Len(stack) : mssa.access[stack[k].access] = stack[k - 1].access
                      /\ \A b \in Bytes :
                            CurrentSafety(b) <=>
                               \E k \in 1 .. Len(stack) :
                                  /\ Settles(stack[k].access, b) /\ MakesSafe(stack[k].access)
                                  /\ \A j \in k + 1 .. Len(stack) : ~Settles(stack[j].access, b)
    BY DEF SiblingsLeaveNoTrace
  <1>1. PICK n : n = Len(stack)
    OBVIOUS
  <1>2. n \in Nat /\ n >= 1 /\ BranchInv /\ MapsInv
    BY <1>1 DEF WalkInv, TypeInv
  <1>3. \A k \in 2 .. n : k \in 1 .. n /\ k > 1
    BY <1>2
  <1>4. PICK h \in [1 .. n -> Maps] : h[n] = byte_safety /\ \A j \in 1 .. n : LevelOK(j, h[j])
    BY <1>1, <1>2 DEF MapsInv
  <1>5. LevelOK(n, byte_safety)
    <2>1. n \in 1 .. n
      BY <1>2
    <2> QED BY <1>4, <2>1
  <1>6. Generation(n) = active_generation /\ Default(n) = default_byte_safety
    BY <1>1 DEF Generation, Default
  <1>7. \A b \in Bytes : CurrentSafety(b) <=> SafeUpTo(n, b)
    BY <1>5, <1>6 DEF LevelOK, CurrentSafety
  <1> QED BY <1>1, <1>2, <1>3, <1>7 DEF BranchInv, SafeUpTo

\* Whatever part of the definition tree was visited before, the one map of byte safety that
\* concretize_memory_loads edits and repairs shows the writes of the current branch and no others,
\* for every function and any set of bytes.
THEOREM NoTrace == Spec => []SiblingsLeaveNoTrace
  <1> QED BY StateWithoutTrace, WalkCorrect, PTL
=============================================================================
