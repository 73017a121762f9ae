------------------------ MODULE StateCleanup_proofs ------------------------
(***************************************************************************)
(* Proofs about passes::state_cleanup, for every function it is given:     *)
(* what an erased store may lose, and what a store that is kept has ahead. *)
(***************************************************************************)
EXTENDS StateCleanup, WellFoundedInduction, TLAPS

\* A set of natural numbers that is not empty has a least element.
LEMMA LeastNumber ==
    ASSUME NEW T \in SUBSET Nat, T # {}
    PROVE  \E x \in T : \A y \in T : x <= y
<1>1. IsWellFoundedOn(OpToRel(<, Nat), Nat)
  BY NatLessThanWellFounded
<1>2. PICK x \in T : \A y \in T : ~(<<y, x>> \in OpToRel(<, Nat))
  BY <1>1, WFMin
<1>3. \A y \in T : ~(y < x)
  BY <1>2 DEF OpToRel
<1> QED
  BY <1>3

-----------------------------------------------------------------------------
(* The function the pass was given, and the paths through it. *)

Given ==
    /\ original.code \in Seq(Seq(Operations))
    /\ original.succ \in Seq(Seq(Nat))
    /\ original.code # <<>>
    /\ Len(original.succ) = Len(original.code)
    /\ \A b \in DOMAIN original.code :
           /\ original.code[b] \in Seq(Operations)
           /\ original.succ[b] \in Seq(Nat)
           /\ \A n \in DOMAIN original.succ[b] : original.succ[b][n] \in DOMAIN original.code

\* What the pass is given has the shape the frontend produces.
LEMMA GivenShape == ASSUME original \in Functions PROVE Given
  BY FunctionsGiven DEF Given

\* A point of the function is a block and a position in it.
LEMMA PointsShape ==
    ASSUME Given, NEW p \in Points
    PROVE  /\ p = <<p[1], p[2]>>
           /\ p[1] \in DOMAIN original.code
           /\ p[2] \in 1 .. Len(original.code[p[1]]) + 1
           /\ Len(original.code[p[1]]) \in Nat
  BY DEF Points, Given

\* Every block and position of it make a point.
LEMMA PointOf ==
    ASSUME Given, NEW b \in DOMAIN original.code, NEW i \in 1 .. Len(original.code[b]) + 1
    PROVE  <<b, i>> \in Points
  BY DEF Points, Given

\* An operation of the function, at its point.
LEMMA OperationAt ==
    ASSUME Given, NEW b \in DOMAIN original.code, NEW i \in 1 .. Len(original.code[b])
    PROVE  /\ At(<<b, i>>) = original.code[b][i]
           /\ original.code[b][i] \in Operations
           /\ After(<<b, i>>) = {<<b, i + 1>>}
<1>1. original.code[b] \in Seq(Operations) /\ Len(original.code[b]) \in Nat
  BY DEF Given
<1>2. original.code[b][i] \in Operations
  BY <1>1
<1>3. i <= Len(original.code[b])
  BY <1>1
<1> QED
  BY <1>2, <1>3 DEF At, After

\* Behind a block's last operation are its successors' first points.
LEMMA AfterBlock ==
    ASSUME Given, NEW b \in DOMAIN original.code
    PROVE  After(<<b, Len(original.code[b]) + 1>>) =
               {<<original.succ[b][n], 1>> : n \in DOMAIN original.succ[b]}
<1>1. Len(original.code[b]) \in Nat
  BY DEF Given
<1>2. ~(Len(original.code[b]) + 1 <= Len(original.code[b]))
  BY <1>1
<1> QED
  BY <1>2 DEF After

\* What is behind a point is a point.
LEMMA AfterPoints ==
    ASSUME Given, NEW p \in Points
    PROVE  After(p) \subseteq Points
<1> DEFINE b == p[1]
<1>1. p = <<b, p[2]>> /\ b \in DOMAIN original.code /\ p[2] \in 1 .. Len(original.code[b]) + 1
      /\ Len(original.code[b]) \in Nat
  BY PointsShape
<1>2. CASE p[2] = Len(original.code[b]) + 1
  <2>1. SUFFICES ASSUME NEW n \in DOMAIN original.succ[b]
                 PROVE  <<original.succ[b][n], 1>> \in Points
    BY <1>1, <1>2, AfterBlock
  <2>2. original.succ[b][n] \in DOMAIN original.code
    BY <1>1 DEF Given
  <2>3. Len(original.code[original.succ[b][n]]) \in Nat
    BY <2>2 DEF Given
  <2> QED
    BY <2>2, <2>3, PointOf
<1>3. CASE p[2] # Len(original.code[b]) + 1
  <2>1. p[2] \in 1 .. Len(original.code[b])
    BY <1>1, <1>3
  <2>2. After(p) = {<<b, p[2] + 1>>}
    BY <1>1, <2>1, OperationAt
  <2>3. p[2] + 1 \in 1 .. Len(original.code[b]) + 1
    BY <1>1, <2>1
  <2> QED
    BY <1>1, <2>2, <2>3, PointOf
<1> QED
  BY <1>2, <1>3

\* Paths from a point go on behind it, and behind every point they reach.
LEMMA ReachedGoesOn ==
    ASSUME Given, NEW p \in Points
    PROVE  /\ After(p) \subseteq Reached(p, {})
           /\ \A q \in Reached(p, {}) : q \in Points /\ After(q) \subseteq Reached(p, {})
<1>1. After(p) \subseteq Points
  BY AfterPoints
<1>2. ASSUME NEW q \in Reached(p, {})
      PROVE  q \in Points /\ After(q) \subseteq Reached(p, {})
  <2>1. q \in Points
    BY DEF Reached
  <2>2. After(q) \subseteq Points
    BY <2>1, AfterPoints
  <2> QED
    BY <2>1, <2>2 DEF Reached
<1> QED
  BY <1>1, <1>2 DEF Reached

\* A path that enters a block reaches every later position of it.
LEMMA ReachedInBlock ==
    ASSUME Given, NEW p \in Points, NEW b \in DOMAIN original.code,
           NEW i \in 1 .. Len(original.code[b]) + 1, <<b, i>> \in Reached(p, {}),
           NEW k \in i .. Len(original.code[b]) + 1
    PROVE  <<b, k>> \in Reached(p, {})
<1> DEFINE L == Len(original.code[b])
           T == {m \in Nat : i <= m /\ m <= L + 1 /\ <<b, m>> \notin Reached(p, {})}
<1>0. L \in Nat
  BY DEF Given
<1> SUFFICES ASSUME <<b, k>> \notin Reached(p, {}) PROVE FALSE
  OBVIOUS
<1>1. k \in Nat /\ i <= k /\ k <= L + 1
  BY <1>0
<1>2. PICK x \in T : \A y \in T : x <= y
  <2>1. k \in T /\ T \in SUBSET Nat
    BY <1>1
  <2> QED
    BY <2>1, LeastNumber
<1>3. x # i
  BY <1>2
<1>4. x - 1 \in Nat /\ i <= x - 1 /\ x - 1 <= L + 1 /\ ~(x <= x - 1)
  BY <1>0, <1>2, <1>3
<1>5. <<b, x - 1>> \in Reached(p, {})
  BY <1>2, <1>4
<1>6. x - 1 \in 1 .. L
  BY <1>0, <1>2, <1>4
<1>7. After(<<b, x - 1>>) = {<<b, (x - 1) + 1>>}
  BY <1>6, OperationAt
<1>8. (x - 1) + 1 = x
  BY <1>0, <1>2
<1> QED
  BY <1>2, <1>5, <1>7, <1>8, ReachedGoesOn

-----------------------------------------------------------------------------
(* What a walk finds out about the store at p. *)

\* where the walk begins in block b
Start(p, b) == IF b = p[1] THEN p[2] + 1 ELSE 1

\* in block b the walk meets a store that matches before any load that does
Covered(p, b) ==
    \A k \in Start(p, b) .. Len(original.code[b]) :
        original.code[b][k].kind = "load" /\ SamePlace(original.code[b][k], At(p)) =>
            \E j \in Start(p, b) .. k - 1 :
                original.code[b][j].kind = "store" /\ SamePlace(original.code[b][j], At(p))

\* the blocks control can reach, and the store's own, are all covered
Unseen(p) ==
    \E V \in SUBSET DOMAIN original.code :
        /\ p[1] \in V
        /\ \A b \in V : \A n \in DOMAIN original.succ[b] : original.succ[b][n] \in V
        /\ \A b \in V : Covered(p, b)

\* a load that matches lies ahead
Seen(p) == \E q \in Reached(p, {}) : At(q).kind = "load" /\ SamePlace(At(q), At(p))

\* A load that sees a byte of a store judged unseen is ahead of it in its own
\* block, does not match it, or is hidden from the walk.
LEMMA UnseenLoses ==
    ASSUME Given, NEW p \in Points, Candidate(At(p)), Unseen(p),
           NEW c, NEW q \in ReadersOf(p, c), SamePlace(At(q), At(p))
    PROVE  LoopCarried(p, q) \/ Hidden(p, q, c)
<1>1. PICK V \in SUBSET DOMAIN original.code :
           /\ p[1] \in V
           /\ \A b \in V : \A n \in DOMAIN original.succ[b] : original.succ[b][n] \in V
           /\ \A b \in V : Covered(p, b)
  BY DEF Unseen
<1> DEFINE L(b) == Len(original.code[b])
           S == {r \in Points : /\ r[1] \in V
                                /\ \A j \in Start(p, r[1]) .. r[2] - 1 : <<r[1], j>> \notin Overwrites(c)}
<1>2. /\ p = <<p[1], p[2]>> /\ p[1] \in DOMAIN original.code
      /\ p[2] \in 1 .. L(p[1]) + 1 /\ L(p[1]) \in Nat
  BY PointsShape
<1>3. p[2] \in 1 .. L(p[1])
  <2>1. At(p) # Gap
    BY DEF Candidate, Gap
  <2> QED
    BY <2>1, <1>2 DEF At
<1>4. \A b \in DOMAIN original.code : Start(p, b) \in Nat /\ Start(p, b) >= 1
  BY <1>2, <1>3 DEF Start
<1>5. After(p) \subseteq S
  <2>1. After(p) = {<<p[1], p[2] + 1>>}
    BY <1>2, <1>3, OperationAt
  <2>2. <<p[1], p[2] + 1>> \in Points
    BY <2>1, AfterPoints
  <2>3. Start(p, p[1]) = p[2] + 1
    BY DEF Start
  <2>4. Start(p, p[1]) .. (p[2] + 1) - 1 = {}
    BY <1>2, <1>3, <2>3
  <2> QED
    BY <1>1, <2>1, <2>2, <2>4
<1>6. ASSUME NEW r \in S, r \notin Overwrites(c)
      PROVE  After(r) \subseteq S
  <2>1. /\ r = <<r[1], r[2]>> /\ r[1] \in DOMAIN original.code /\ r[1] \in V
        /\ r[2] \in 1 .. L(r[1]) + 1 /\ L(r[1]) \in Nat
    BY PointsShape
  <2>2. After(r) \subseteq Points
    BY AfterPoints
  <2>3. CASE r[2] = L(r[1]) + 1
    <3>1. SUFFICES ASSUME NEW n \in DOMAIN original.succ[r[1]]
                   PROVE  <<original.succ[r[1]][n], 1>> \in S
      BY <2>1, <2>3, AfterBlock
    <3>2. <<original.succ[r[1]][n], 1>> \in Points
      BY <2>1, <2>2, <2>3, AfterBlock
    <3>3. original.succ[r[1]][n] \in V
      BY <1>1, <2>1
    <3>4. Start(p, original.succ[r[1]][n]) .. 1 - 1 = {}
      BY <1>4, <3>3
    <3> QED
      BY <3>2, <3>3, <3>4
  <2>4. CASE r[2] # L(r[1]) + 1
    <3>1. r[2] \in 1 .. L(r[1])
      BY <2>1, <2>4
    <3>2. After(r) = {<<r[1], r[2] + 1>>}
      BY <2>1, <3>1, OperationAt
    <3>3. \A j \in Start(p, r[1]) .. (r[2] + 1) - 1 : <<r[1], j>> \notin Overwrites(c)
      <4>1. SUFFICES ASSUME NEW j \in Start(p, r[1]) .. (r[2] + 1) - 1
                     PROVE  <<r[1], j>> \notin Overwrites(c)
        OBVIOUS
      <4>2. j = r[2] \/ j \in Start(p, r[1]) .. r[2] - 1
        BY <1>4, <2>1, <3>1
      <4> QED
        BY <4>2, <1>6, <2>1
    <3>4. <<r[1], r[2] + 1>> \in Points
      BY <2>2, <3>2
    <3> QED
      BY <2>1, <3>2, <3>3, <3>4
  <2> QED
    BY <2>3, <2>4
<1>7. q \in S
  <2>1. S \in SUBSET Points
    OBVIOUS
  <2> HIDE DEF S
  <2>2. q \in Reached(p, Overwrites(c))
    BY DEF ReadersOf
  <2>3. \A r \in S \ Overwrites(c) : After(r) \subseteq S
    BY <1>6
  <2> QED
    BY <1>5, <2>1, <2>2, <2>3 DEF Reached
<1>8. /\ q = <<q[1], q[2]>> /\ q[1] \in DOMAIN original.code /\ q[1] \in V
      /\ q[2] \in 1 .. L(q[1]) + 1 /\ L(q[1]) \in Nat
  BY <1>7, PointsShape
<1>9. q[2] \in 1 .. L(q[1])
  <2>1. At(q) # Gap
    BY DEF ReadersOf, Gap
  <2> QED
    BY <2>1, <1>8 DEF At
<1>10. /\ At(q) = original.code[q[1]][q[2]]
       /\ At(q).kind = "load" /\ Touches(At(q), "state", c)
       /\ SamePlace(original.code[q[1]][q[2]], At(p))
  BY <1>8, <1>9, OperationAt DEF ReadersOf
<1>11. CASE q[2] < Start(p, q[1])
  <2>1. q[1] = p[1] /\ q[2] < p[2] + 1
    BY <1>11, <1>9 DEF Start
  <2>2. q[2] # p[2]
    BY <2>1, <1>2, <1>8, <1>10 DEF Candidate
  <2> QED
    BY <2>1, <2>2, <1>2, <1>8 DEF LoopCarried
<1>12. CASE ~(q[2] < Start(p, q[1]))
  <2>1. q[2] \in Start(p, q[1]) .. L(q[1])
    BY <1>12, <1>4, <1>8, <1>9
  <2>2. PICK j \in Start(p, q[1]) .. q[2] - 1 :
            original.code[q[1]][j].kind = "store" /\ SamePlace(original.code[q[1]][j], At(p))
    BY <1>1, <1>8, <1>10, <2>1 DEF Covered
  <2>3. j \in 1 .. L(q[1]) /\ j \in 1 .. q[2] - 1 /\ j \in 1 .. L(q[1]) + 1
    BY <1>4, <1>8, <1>9
  <2>4. At(<<q[1], j>>) = original.code[q[1]][j]
    BY <2>3, <1>8, OperationAt
  <2>5. <<q[1], j>> \in Points /\ <<q[1], j>> \notin Overwrites(c)
    BY <1>7, <1>8, <2>3, PointOf
  <2>6. ~Touches(At(<<q[1], j>>), "state", c)
    BY <2>2, <2>4, <2>5 DEF Overwrites
  <2> QED
    BY <2>2, <2>3, <2>4, <2>6 DEF Hidden
<1> QED
  BY <1>11, <1>12

-----------------------------------------------------------------------------
(* The inductive invariant. *)

\* the store under examination
Here == <<block, it>>

\* func is the original with gaps where stores were erased
Edited ==
    /\ func \in [code : Seq(Seq(Operations \cup {Gap})), succ : Seq(Seq(Nat))]
    /\ func.succ = original.succ
    /\ Len(func.code) = Len(original.code)
    /\ \A b \in DOMAIN original.code :
           /\ Len(func.code[b]) = Len(original.code[b])
           /\ \A k \in 1 .. Len(original.code[b]) :
                  func.code[b][k] = IF <<b, k>> \in erased THEN Gap ELSE original.code[b][k]

\* where the pass stands
Places ==
    /\ original \in Functions
    /\ block \in 1 .. Len(original.code) + 1
    /\ it \in Nat
    /\ block <= Len(original.code) => it <= Len(original.code[block])
    /\ queue \in Seq(Points)
    /\ visited \in SUBSET DOMAIN original.code
    /\ alive \in BOOLEAN
    /\ phase = "search" => block <= Len(original.code) /\ it > 0 /\ Candidate(Code(block)[it])

\* the walk begins in the store's own block
Begun == block \in visited \/ (visited = {} /\ queue = << <<block, it + 1>> >>)

\* it enters a block that paths reach, and at its start
Enters(e) ==
    /\ e \in Reached(Here, {})
    /\ e[1] \in visited \/ e[2] = Start(Here, e[1])

\* block s is visited or queued
Followed(s) == s \in visited \/ \E m \in DOMAIN queue : queue[m][1] = s

\* what it has found out so far
Verdict == IF alive THEN Seen(Here) ELSE \A b \in visited : Covered(Here, b)

Walk ==
    phase = "search" =>
        /\ Begun
        /\ \A m \in DOMAIN queue : Enters(queue[m])
        /\ \A b \in visited : \A n \in DOMAIN original.succ[b] : Followed(original.succ[b][n])
        /\ Verdict

\* a store found dead, or erased, is unseen
Judged ==
    /\ \A k \in dead : /\ block <= Len(original.code)
                       /\ k \in 1 .. Len(original.code[block])
                       /\ Candidate(At(<<block, k>>))
                       /\ Unseen(<<block, k>>)
    /\ \A p \in erased : p \in Points /\ Candidate(At(p)) /\ Unseen(p)

\* a register store behind the pass is erased, about to be, or seen
Behind ==
    \A p \in Points : Candidate(At(p)) =>
        \/ p[1] > block
        \/ p[1] = block /\ p[2] <= it
        \/ p \in erased
        \/ p[1] = block /\ p[2] \in dead
        \/ Seen(p)

Inv == Edited /\ Places /\ Walk /\ Judged /\ Behind

\* An operation that is not a gap is the original's; a load is never erased.
LEMMA EditedCode ==
    ASSUME Given, Edited, Judged, NEW b \in DOMAIN original.code,
           NEW k \in 1 .. Len(original.code[b])
    PROVE  /\ func.code[b][k] # Gap => func.code[b][k] = original.code[b][k]
           /\ original.code[b][k].kind = "load" => func.code[b][k] = original.code[b][k]
<1>1. func.code[b][k] = IF <<b, k>> \in erased THEN Gap ELSE original.code[b][k]
  BY DEF Edited
<1>2. <<b, k>> \in erased => original.code[b][k].kind = "store"
  BY OperationAt DEF Judged, Candidate
<1> QED
  BY <1>1, <1>2

\* The block and the position under examination are the function's.
LEMMA Position ==
    ASSUME Given, Places, block <= Len(original.code)
    PROVE  /\ block \in DOMAIN original.code
           /\ Len(original.code[block]) \in Nat
           /\ it > 0 => it \in 1 .. Len(original.code[block])
<1>1. block \in DOMAIN original.code
  BY DEF Given, Places
<1>2. Len(original.code[block]) \in Nat
  BY <1>1 DEF Given
<1> QED
  BY <1>1, <1>2 DEF Places

\* The pass's own view of the store under examination.
LEMMA ExaminedStore ==
    ASSUME Given, Edited, Places, Judged, block <= Len(original.code), it > 0,
           Candidate(func.code[block][it])
    PROVE  /\ Here \in Points
           /\ At(Here) = func.code[block][it]
           /\ At(Here) = original.code[block][it]
           /\ block \in DOMAIN original.code
           /\ it \in 1 .. Len(original.code[block])
<1>1. block \in DOMAIN original.code
  BY Position
<1>2. it \in 1 .. Len(original.code[block])
  BY Position
<1>3. func.code[block][it] # Gap
  BY DEF Candidate, Gap
<1>4. func.code[block][it] = original.code[block][it]
  BY <1>1, <1>2, <1>3, EditedCode
<1> QED
  BY <1>1, <1>2, <1>4, OperationAt, PointOf DEF Here

\* The pass starts in it.
LEMMA InitInv == Init => Inv
<1> SUFFICES ASSUME Init PROVE Inv
  OBVIOUS
<1>1. original \in Functions /\ func = original /\ erased = {}
  BY DEF Init
<1>2. Given
  BY <1>1, GivenShape
<1>3. Edited
  <2>1. func \in [code : Seq(Seq(Operations)), succ : Seq(Seq(Nat))]
    BY <1>1, FunctionsGiven
  <2>2. Seq(Seq(Operations)) \subseteq Seq(Seq(Operations \cup {Gap}))
    <3>1. Seq(Operations) \subseteq Seq(Operations \cup {Gap})
      OBVIOUS
    <3> QED
      BY <3>1
  <2>3. func \in [code : Seq(Seq(Operations \cup {Gap})), succ : Seq(Seq(Nat))]
    BY <2>1, <2>2
  <2> QED
    BY <1>1, <2>3 DEF Edited
<1>4. Len(original.code) \in Nat /\ Len(original.code) > 0 /\ 1 \in DOMAIN original.code
  BY <1>2 DEF Given
<1>5. Len(original.code[1]) \in Nat
  BY <1>2, <1>4 DEF Given
<1>6. Places
  <2>1. block \in 1 .. Len(original.code) + 1 /\ it \in Nat /\ it = Len(original.code[block])
    BY <1>1, <1>4, <1>5 DEF Init
  <2>2. queue \in Seq(Points) /\ visited \in SUBSET DOMAIN original.code /\ phase # "search"
    BY DEF Init
  <2>3. alive \in BOOLEAN
    BY DEF Init
  <2>4. it <= Len(original.code[block])
    BY <2>1
  <2> QED
    BY <1>1, <2>1, <2>2, <2>3, <2>4 DEF Places
<1>7. Walk /\ Judged
  BY DEF Walk, Judged, Init
<1>8. Behind
  <2>1. SUFFICES ASSUME NEW p \in Points, Candidate(At(p))
                 PROVE  p[1] > block \/ (p[1] = block /\ p[2] <= it)
    BY DEF Behind
  <2>2. /\ p[1] \in DOMAIN original.code /\ p[2] \in 1 .. Len(original.code[p[1]]) + 1
        /\ Len(original.code[p[1]]) \in Nat
    BY <1>2, PointsShape
  <2>3. p[2] <= Len(original.code[p[1]])
    BY <2>1 DEF Candidate, At, Gap
  <2>4. p[1] \in Nat /\ (p[1] = 1 \/ p[1] > 1)
    BY <2>2, <1>2, SMTT(30) DEF Given
  <2>5. block = 1 /\ it = Len(original.code[1])
    BY <1>1 DEF Init
  <2> QED
    BY <2>3, <2>4, <2>5
<1> QED
  BY <1>3, <1>6, <1>7, <1>8 DEF Inv

\* What is said about the original does not change while it does not.
LEMMA OriginalKept ==
    ASSUME original' = original
    PROVE  /\ Points' = Points
           /\ \A p : /\ At(p)' = At(p)
                     /\ Unseen(p)' = Unseen(p)
                     /\ Seen(p)' = Seen(p)
                     /\ Reached(p, {})' = Reached(p, {})
                     /\ \A b : Covered(p, b)' = Covered(p, b)
<1>1. \A p : At(p)' = At(p) /\ After(p)' = After(p)
  BY DEF At, After
<1>2. Points' = Points
  BY DEF Points
<1>3. \A p, b : Start(p, b)' = Start(p, b)
  BY DEF Start
<1>4. \A p : \A b : Covered(p, b)' = Covered(p, b)
  BY <1>1, <1>3 DEF Covered
<1>5. \A p : Unseen(p)' = Unseen(p)
  BY <1>4 DEF Unseen
<1>6. \A p : Reached(p, {})' = Reached(p, {})
  BY <1>1, <1>2 DEF Reached
<1>7. ASSUME NEW p PROVE Seen(p)' = Seen(p)
  <2>1. \A q : (At(q).kind = "load" /\ SamePlace(At(q), At(p)))' =
               (At(q).kind = "load" /\ SamePlace(At(q), At(p)))
    BY <1>1 DEF SamePlace
  <2>2. Reached(p, {})' = Reached(p, {})
    BY <1>6
  <2> QED
    BY <2>1, <2>2, Zenon DEF Seen
<1> QED
  BY <1>1, <1>2, <1>4, <1>5, <1>6, <1>7

-----------------------------------------------------------------------------
(* The steps of the pass. *)

\* What a step that leaves the function alone keeps.
LEMMA EditedKept ==
    ASSUME Edited, UNCHANGED <<func, original, erased>>
    PROVE  Edited'
  BY DEF Edited

\* Skip keeps the invariant: the operation behind it is no register store, or
\* it was one that is erased.
LEMMA SkipInv == Inv /\ Skip => Inv'
<1> SUFFICES ASSUME Inv, Skip PROVE Inv'
  OBVIOUS
<1> USE DEF Inv
<1>1. Given
  BY GivenShape DEF Places
<1>2. UNCHANGED <<func, block, dead, queue, visited, alive, phase, original, erased>>
      /\ phase = "scan" /\ it' = it - 1 /\ it > 0 /\ block <= Len(func.code)
  BY DEF Skip
<1>3. block \in DOMAIN original.code /\ block <= Len(original.code)
      /\ Len(original.code[block]) \in Nat /\ it \in 1 .. Len(original.code[block])
  <2>1. block <= Len(original.code)
    BY <1>2 DEF Edited
  <2> QED
    BY <1>1, <1>2, <2>1, Position
<1>4. Edited'
  BY <1>2, EditedKept
<1>5. Points' = Points /\ \A p : At(p)' = At(p) /\ Unseen(p)' = Unseen(p) /\ Seen(p)' = Seen(p)
  BY <1>2, OriginalKept
<1>6. Places'
  <2>1. it' \in Nat /\ it' <= Len(original.code[block])
    BY <1>2, <1>3 DEF Places
  <2> QED
    BY <1>2, <1>5, <2>1 DEF Places
<1>7. Walk'
  BY <1>2 DEF Walk
<1>8. Judged'
  BY <1>2, <1>5 DEF Judged
<1>9. Behind'
  <2>1. SUFFICES ASSUME NEW p \in Points, Candidate(At(p)), p[1] = block, p[2] = it
                 PROVE  p \in erased
    <3>1. \A p \in Points : p[2] \in Nat
      BY <1>1, PointsShape
    <3>2. \A p \in Points : p[2] <= it => p[2] = it \/ p[2] <= it'
      BY <1>2, <1>3, <3>1
    <3> QED
      BY <1>2, <1>5, <3>2 DEF Behind
  <2>2. p = <<block, it>>
    BY <2>1, <1>1, PointsShape
  <2>3. At(p) = original.code[block][it]
    BY <2>2, <1>1, <1>3, OperationAt
  <2>4. func.code[block][it] # original.code[block][it]
    BY <2>1, <2>3 DEF Skip, Code
  <2> QED
    BY <1>3, <2>2, <2>4 DEF Edited
<1> QED
  BY <1>4, <1>6, <1>7, <1>8, <1>9

\* StartSearch keeps the invariant: the walk begins right behind the store.
LEMMA StartSearchInv == Inv /\ StartSearch => Inv'
<1> SUFFICES ASSUME Inv, StartSearch PROVE Inv'
  OBVIOUS
<1> USE DEF Inv
<1>1. Given
  BY GivenShape DEF Places
<1>2. /\ UNCHANGED <<func, block, it, dead, original, erased>>
      /\ queue' = << <<block, it + 1>> >> /\ visited' = {} /\ alive' = FALSE /\ phase' = "search"
      /\ it > 0 /\ block <= Len(func.code) /\ Candidate(func.code[block][it])
  BY DEF StartSearch, Code
<1>3. block <= Len(original.code)
  BY <1>2 DEF Edited
<1>4. /\ Here \in Points /\ At(Here) = func.code[block][it] /\ block \in DOMAIN original.code
      /\ it \in 1 .. Len(original.code[block])
  BY <1>1, <1>2, <1>3, ExaminedStore
<1>5. Edited'
  BY <1>2, EditedKept
<1>6. /\ Points' = Points
      /\ \A p : /\ At(p)' = At(p) /\ Unseen(p)' = Unseen(p) /\ Seen(p)' = Seen(p)
                /\ Reached(p, {})' = Reached(p, {})
  BY <1>2, OriginalKept
<1>7. <<block, it + 1>> \in Reached(Here, {}) /\ <<block, it + 1>> \in Points
  <2>1. After(Here) = {<<block, it + 1>>}
    BY <1>1, <1>4, OperationAt DEF Here
  <2> QED
    BY <1>1, <1>4, <2>1, ReachedGoesOn
<1>8. Here' = Here
  BY <1>2 DEF Here
<1>9. Places'
  <2>1. queue' \in Seq(Points')
    BY <1>2, <1>6, <1>7
  <2>2. visited' \in SUBSET DOMAIN original.code' /\ alive' \in BOOLEAN
    BY <1>2
  <2> QED
    BY <1>2, <1>3, <2>1, <2>2 DEF Places, Code
<1>10. Walk'
  <2>1. DOMAIN queue' = {1} /\ queue'[1] = <<block, it + 1>>
    BY <1>2
  <2>2. PICK h : h = Here /\ h = Here'
    BY <1>8
  <2>3. Reached(Here, {})' = Reached(h, {})'
    BY <2>2
  <2>4. queue'[1] \in Reached(Here, {})'
    BY <1>6, <1>7, <2>1, <2>2, <2>3
  <2>5. Start(Here', queue'[1][1]) = it + 1
    BY <2>1, <1>8 DEF Start, Here
  <2>6. \A m \in DOMAIN queue' : Enters(queue[m])'
    <3>1. queue'[1][2] = Start(Here', queue'[1][1])
      BY <2>1, <2>5
    <3>2. Enters(queue[1])'
      BY <2>4, <3>1 DEF Enters
    <3> QED
      BY <2>1, <3>2
  <2>7. Begun' /\ Verdict'
    BY <1>2 DEF Begun, Verdict
  <2> QED
    BY <1>2, <2>6, <2>7 DEF Walk
<1>11. Judged'
  BY <1>2, <1>6 DEF Judged
<1>12. Behind'
  BY <1>2, <1>6 DEF Behind
<1> QED
  BY <1>5, <1>9, <1>10, <1>11, <1>12

\* Judge keeps the invariant: a walk that is over has visited a closed set.
LEMMA JudgeInv == Inv /\ Judge => Inv'
<1> SUFFICES ASSUME Inv, Judge PROVE Inv'
  OBVIOUS
<1> USE DEF Inv
<1>1. Given
  BY GivenShape DEF Places
<1>2. /\ UNCHANGED <<func, block, queue, visited, alive, original, erased>>
      /\ phase = "search" /\ queue = <<>> /\ it' = it - 1 /\ phase' = "scan"
      /\ dead' = IF alive THEN dead ELSE dead \cup {it}
  BY DEF Judge
<1>3. /\ block <= Len(original.code) /\ it > 0 /\ it \in Nat /\ Candidate(At(Here))
      /\ block \in DOMAIN original.code /\ it \in 1 .. Len(original.code[block])
      /\ Len(original.code[block]) \in Nat
  <2>1. block <= Len(original.code) /\ it > 0 /\ it \in Nat /\ Candidate(func.code[block][it])
    BY <1>2 DEF Places, Code
  <2>2. At(Here) = func.code[block][it]
    BY <1>1, <2>1, ExaminedStore
  <2> QED
    BY <1>1, <2>1, <2>2, Position
<1>4. Edited'
  BY <1>2, EditedKept
<1>5. Points' = Points /\ \A p : At(p)' = At(p) /\ Unseen(p)' = Unseen(p) /\ Seen(p)' = Seen(p)
  BY <1>2, OriginalKept
<1>6. IF alive THEN Seen(Here) ELSE Unseen(Here)
  <2>1. CASE alive
    BY <2>1, <1>2 DEF Walk, Verdict
  <2>2. CASE ~alive
    <3>1. block \in visited /\ visited \in SUBSET DOMAIN original.code
      BY <1>2 DEF Walk, Begun, Places
    <3>2. \A b \in visited : \A n \in DOMAIN original.succ[b] : original.succ[b][n] \in visited
      BY <1>2 DEF Walk, Followed
    <3>3. \A b \in visited : Covered(Here, b)
      BY <1>2, <2>2 DEF Walk, Verdict
    <3>4. Here[1] = block
      BY DEF Here
    <3> QED
      BY <2>2, <3>1, <3>2, <3>3, <3>4 DEF Unseen
  <2> QED
    BY <2>1, <2>2
<1>7. Places'
  <2>1. it' \in Nat /\ it' <= Len(original.code[block])
    BY <1>2, <1>3 DEF Places
  <2> QED
    BY <1>2, <1>5, <2>1 DEF Places
<1>8. Walk'
  BY <1>2 DEF Walk
<1>9. Judged'
  <2>1. \A k \in dead' : k \in dead \/ (~alive /\ k = it)
    BY <1>2
  <2>2. ASSUME NEW k \in dead'
        PROVE  /\ block <= Len(original.code) /\ k \in 1 .. Len(original.code[block])
               /\ Candidate(At(<<block, k>>)) /\ Unseen(<<block, k>>)
    BY <2>1, <1>3, <1>6 DEF Judged, Here
  <2>3. \A k \in dead' : (Candidate(At(<<block, k>>)) /\ Unseen(<<block, k>>))'
    <3>1. PICK b : b = block /\ b = block'
      BY <1>2
    <3> QED
      BY <3>1, <2>2, <1>5
  <2>4. \A p \in erased : p \in Points /\ Candidate(At(p)) /\ Unseen(p)
    BY DEF Judged
  <2> QED
    BY <1>2, <1>5, <2>2, <2>3, <2>4 DEF Judged
<1>10. Behind'
  <2>1. SUFFICES ASSUME NEW p \in Points, p[1] = block, p[2] = it
                 PROVE  p[2] \in dead' \/ Seen(p)
    <3>1. \A p \in Points : p[2] \in Nat
      BY <1>1, PointsShape
    <3>2. \A p \in Points : p[2] <= it => p[2] = it \/ p[2] <= it'
      BY <1>2, <1>3, <3>1
    <3>3. dead \subseteq dead'
      BY <1>2
    <3> QED
      BY <1>2, <1>5, <3>2, <3>3 DEF Behind
  <2>2. p = Here
    BY <2>1, <1>1, PointsShape DEF Here
  <2> QED
    BY <1>2, <1>6, <2>1, <2>2
<1> QED
  BY <1>4, <1>7, <1>8, <1>9, <1>10

\* Taking the head off a queue.
LEMMA QueueTail ==
    ASSUME NEW S, NEW q \in Seq(S), q # <<>>
    PROVE  /\ Tail(q) \in Seq(S)
           /\ \A m \in DOMAIN Tail(q) : \E k \in DOMAIN q : Tail(q)[m] = q[k]
           /\ \A m \in DOMAIN q : m = 1 \/ \E k \in DOMAIN Tail(q) : Tail(q)[k] = q[m]
<1>1. Len(q) \in Nat /\ Len(q) > 0 /\ DOMAIN q = 1 .. Len(q)
  OBVIOUS
<1>2. /\ Tail(q) \in Seq(S) /\ DOMAIN Tail(q) = 1 .. Len(q) - 1
      /\ \A m \in 1 .. Len(q) - 1 : Tail(q)[m] = q[m + 1]
  OBVIOUS
<1>3. ASSUME NEW m \in DOMAIN Tail(q) PROVE \E k \in DOMAIN q : Tail(q)[m] = q[k]
  <2>1. m + 1 \in DOMAIN q /\ Tail(q)[m] = q[m + 1]
    BY <1>1, <1>2
  <2> QED
    BY <2>1
<1>4. ASSUME NEW m \in DOMAIN q, m # 1 PROVE \E k \in DOMAIN Tail(q) : Tail(q)[k] = q[m]
  <2>1. m - 1 \in 1 .. Len(q) - 1 /\ (m - 1) + 1 = m
    BY <1>1, <1>4
  <2>2. m - 1 \in DOMAIN Tail(q) /\ Tail(q)[m - 1] = q[m]
    BY <1>2, <2>1
  <2> QED
    BY <2>2
<1> QED
  BY <1>2, <1>3, <1>4

\* A function on 1 .. n is a sequence.
LEMMA FunctionSequence ==
    ASSUME NEW S, NEW n \in Nat, NEW t \in [1 .. n -> S]
    PROVE  t \in Seq(S)
  OBVIOUS

\* r has the members of q and of t
Joined(q, t, r) ==
    /\ \A m \in DOMAIN r : (\E k \in DOMAIN q : r[m] = q[k]) \/ (\E k \in DOMAIN t : r[m] = t[k])
    /\ \A m \in DOMAIN q : \E k \in DOMAIN r : r[k] = q[m]
    /\ \A m \in DOMAIN t : \E k \in DOMAIN r : r[k] = t[m]

\* Appending to it.
LEMMA QueueAppend ==
    ASSUME NEW S, NEW q \in Seq(S), NEW t \in Seq(S), NEW r, r = q \o t
    PROVE  r \in Seq(S) /\ Joined(q, t, r)
<1> DEFINE K == Len(q)
<1>1. K \in Nat /\ Len(t) \in Nat /\ DOMAIN q = 1 .. K /\ DOMAIN t = 1 .. Len(t)
  OBVIOUS
<1>2. /\ r \in Seq(S) /\ DOMAIN r = 1 .. K + Len(t)
      /\ \A m \in 1 .. K : r[m] = q[m]
      /\ \A m \in K + 1 .. K + Len(t) : r[m] = t[m - K]
  BY <1>1
<1> HIDE DEF K
<1>3. ASSUME NEW m \in DOMAIN r
      PROVE  (\E k \in DOMAIN q : r[m] = q[k]) \/ (\E k \in DOMAIN t : r[m] = t[k])
  <2>1. CASE m <= K
    BY <1>1, <1>2, <2>1
  <2>2. CASE ~(m <= K)
    <3>1. m \in K + 1 .. K + Len(t) /\ m - K \in DOMAIN t
      BY <1>1, <1>2, <2>2
    <3> QED
      BY <1>2, <3>1
  <2> QED
    BY <2>1, <2>2
<1>4. ASSUME NEW m \in DOMAIN q PROVE \E k \in DOMAIN r : r[k] = q[m]
  <2>1. m \in DOMAIN r /\ r[m] = q[m]
    BY <1>1, <1>2
  <2> QED
    BY <2>1
<1>5. ASSUME NEW m \in DOMAIN t PROVE \E k \in DOMAIN r : r[k] = t[m]
  <2>1. K + m \in K + 1 .. K + Len(t) /\ (K + m) - K = m /\ K + m \in DOMAIN r
    BY <1>1, <1>2
  <2> QED
    BY <2>1, <1>2
<1> QED
  BY <1>2, <1>3, <1>4, <1>5 DEF Joined

\* r has the members of q but for the first, and those of t
Moved(q, t, r) ==
    /\ \A m \in DOMAIN r : (\E k \in DOMAIN q : r[m] = q[k]) \/ (\E k \in DOMAIN t : r[m] = t[k])
    /\ \A m \in DOMAIN q : m = 1 \/ \E k \in DOMAIN r : r[k] = q[m]
    /\ \A m \in DOMAIN t : \E k \in DOMAIN r : r[k] = t[m]

\* A queue u without its first member, joined with t.
LEMMA JoinedMoved ==
    ASSUME NEW q, NEW t, NEW r, NEW u, Joined(u, t, r),
           \A m \in DOMAIN u : \E k \in DOMAIN q : u[m] = q[k],
           \A m \in DOMAIN q : m = 1 \/ \E k \in DOMAIN u : u[k] = q[m]
    PROVE  Moved(q, t, r)
<1>1. ASSUME NEW m \in DOMAIN r
      PROVE  (\E k \in DOMAIN q : r[m] = q[k]) \/ (\E k \in DOMAIN t : r[m] = t[k])
  <2>1. CASE \E k \in DOMAIN u : r[m] = u[k]
    <3>1. PICK k \in DOMAIN u : r[m] = u[k]
      BY <2>1
    <3>2. PICK j \in DOMAIN q : u[k] = q[j]
      OBVIOUS
    <3> QED
      BY <3>1, <3>2
  <2> QED
    BY <2>1 DEF Joined
<1>2. ASSUME NEW m \in DOMAIN q, m # 1 PROVE \E k \in DOMAIN r : r[k] = q[m]
  <2>1. PICK k \in DOMAIN u : u[k] = q[m]
    BY <1>2
  <2>2. PICK j \in DOMAIN r : r[j] = u[k]
    BY DEF Joined
  <2> QED
    BY <2>1, <2>2
<1> QED
  BY <1>1, <1>2, Zenon DEF Joined, Moved

\* Both, as one round of the walk does.
LEMMA QueueMoves ==
    ASSUME NEW S, NEW q \in Seq(S), q # <<>>, NEW t \in Seq(S), NEW r, r = Tail(q) \o t
    PROVE  r \in Seq(S) /\ Moved(q, t, r)
<1>1. PICK u : u = Tail(q)
  OBVIOUS
<1>2. /\ u \in Seq(S)
      /\ \A m \in DOMAIN u : \E k \in DOMAIN q : u[m] = q[k]
      /\ \A m \in DOMAIN q : m = 1 \/ \E k \in DOMAIN u : u[k] = q[m]
  BY <1>1, QueueTail
<1>3. r = u \o t
  BY <1>1
<1>4. r \in Seq(S) /\ Joined(u, t, r)
  BY <1>2, <1>3, QueueAppend
<1> QED
  BY <1>2, <1>4, JoinedMoved

\* When the first operation that touches the place is no load, the block is
\* covered.
LEMMA CoveredBlock ==
    ASSUME Given, Edited, Judged, NEW p \in Points, At(p) \in Operations,
           NEW b \in DOMAIN original.code, Start(p, b) \in Nat, Start(p, b) >= 1,
           \A k \in FirstTouch(b, Start(p, b), At(p)) : func.code[b][k].kind # "load"
    PROVE  Covered(p, b)
<1> DEFINE L == Len(original.code[b])
<1>1. L \in Nat /\ Len(func.code[b]) = L
  BY DEF Given, Edited
<1>2. SUFFICES ASSUME NEW k \in Start(p, b) .. L, original.code[b][k].kind = "load",
                      SamePlace(original.code[b][k], At(p))
               PROVE  \E j \in Start(p, b) .. k - 1 :
                          original.code[b][j].kind = "store" /\ SamePlace(original.code[b][j], At(p))
  BY DEF Covered
<1> DEFINE T == {m \in Nat : m \in Start(p, b) .. L /\ SamePlace(func.code[b][m], At(p))}
<1>3. k \in 1 .. L /\ k \in Nat
  BY <1>1, <1>2
<1>4. func.code[b][k] = original.code[b][k]
  BY <1>2, <1>3, EditedCode
<1>5. PICK x \in T : \A y \in T : x <= y
  <2>1. k \in T /\ T \in SUBSET Nat
    BY <1>2, <1>3, <1>4
  <2> QED
    BY <2>1, LeastNumber
<1>6. x \in FirstTouch(b, Start(p, b), At(p))
  <2>1. x \in Start(p, b) .. L /\ SamePlace(func.code[b][x], At(p))
    BY <1>5
  <2>2. ASSUME NEW j \in Start(p, b) .. x - 1 PROVE ~SamePlace(func.code[b][j], At(p))
    <3>1. j \in Nat /\ j \in Start(p, b) .. L /\ ~(x <= j)
      BY <1>1, <2>1
    <3>2. j \notin T
      BY <1>5, <3>1
    <3> QED
      BY <3>1, <3>2
  <2> QED
    BY <1>1, <2>1, <2>2 DEF FirstTouch, Code
<1>7. x \in 1 .. L /\ SamePlace(func.code[b][x], At(p))
  BY <1>1, <1>5
<1>8. func.code[b][x] # Gap
  <2>1. At(p).off \in Nat
    BY DEF Operations
  <2> QED
    BY <1>7, <2>1 DEF Gap, SamePlace
<1>9. func.code[b][x] = original.code[b][x] /\ original.code[b][x] \in Operations
  BY <1>7, <1>8, EditedCode, OperationAt
<1>10. original.code[b][x].kind = "store"
  BY <1>6, <1>9 DEF Operations
<1>11. x <= k /\ x # k
  BY <1>2, <1>3, <1>4, <1>5, <1>10
<1>12. x \in Start(p, b) .. k - 1
  BY <1>3, <1>5, <1>11
<1> QED
  BY <1>7, <1>9, <1>10, <1>12

\* VisitBlock keeps the invariant: the block is covered or the store is seen,
\* and what the block leads to is queued.
LEMMA VisitBlockInv == Inv /\ VisitBlock => Inv'
<1> SUFFICES ASSUME Inv, VisitBlock PROVE Inv'
  OBVIOUS
<1> USE DEF Inv
<1> DEFINE b == queue[1][1]
           i == queue[1][2]
           t == [n \in DOMAIN original.succ[b] |-> <<original.succ[b][n], 1>>]
<1>1. Given
  BY GivenShape DEF Places
<1>2. /\ UNCHANGED <<func, block, it, dead, phase, original, erased>>
      /\ phase = "search" /\ queue # <<>> /\ queue \in Seq(Points) /\ 1 \in DOMAIN queue
      /\ Head(queue) = queue[1]
  BY DEF VisitBlock, Places
<1>3. /\ block <= Len(original.code) /\ it > 0 /\ it \in Nat /\ Candidate(func.code[block][it])
  BY <1>2 DEF Places, Code
<1>4. /\ Here \in Points /\ At(Here) = func.code[block][it] /\ At(Here) \in Operations
      /\ block \in DOMAIN original.code /\ it \in 1 .. Len(original.code[block])
  BY <1>1, <1>3, ExaminedStore, OperationAt
<1>5. /\ queue[1] = <<b, i>> /\ b \in DOMAIN original.code
      /\ i \in 1 .. Len(original.code[b]) + 1 /\ Len(original.code[b]) \in Nat
      /\ queue[1] \in Reached(Here, {})
      /\ b \in visited \/ i = Start(Here, b)
  <2>1. queue[1] \in Points /\ Enters(queue[1])
    BY <1>2 DEF Walk
  <2> QED
    BY <1>1, <2>1, PointsShape DEF Enters
<1>6. Edited'
  BY <1>2, EditedKept
<1>7. /\ Points' = Points
      /\ \A p : /\ At(p)' = At(p) /\ Unseen(p)' = Unseen(p) /\ Seen(p)' = Seen(p)
                /\ Reached(p, {})' = Reached(p, {})
                /\ \A c : Covered(p, c)' = Covered(p, c)
  BY <1>2, OriginalKept
<1>8. Judged'
  BY <1>2, <1>7 DEF Judged
<1>9. Behind'
  BY <1>2, <1>7 DEF Behind
<1>10. PICK h : h = Here /\ h = Here'
  BY <1>2 DEF Here
<1>11. /\ Reached(Here, {})' = Reached(Here, {})
       /\ Seen(Here)' = Seen(Here)
       /\ \A c : Covered(Here, c)' = Covered(Here, c)
  <2>1. /\ Reached(Here, {})' = Reached(h, {})'
        /\ Seen(Here)' = Seen(h)'
        /\ \A c : Covered(Here, c)' = Covered(h, c)'
    BY <1>10
  <2> QED
    BY <1>7, <1>10, <2>1
<1>12. \A e : e \in Reached(Here, {}) /\ (e[1] \in visited' \/ e[2] = Start(Here, e[1]))
              => Enters(e)'
  <2>1. \A c : Start(Here', c) = Start(Here, c)
    BY <1>10
  <2> QED
    BY <1>11, <2>1 DEF Enters
<1>13. CASE b \in visited
  <2>1. queue' = Tail(queue) /\ visited' = visited /\ alive' = alive
    BY <1>2, <1>13 DEF VisitBlock
  <2>2. /\ queue' \in Seq(Points)
        /\ \A m \in DOMAIN queue' : \E k \in DOMAIN queue : queue'[m] = queue[k]
        /\ \A m \in DOMAIN queue : m = 1 \/ \E k \in DOMAIN queue' : queue'[k] = queue[m]
    BY <1>2, <2>1, QueueTail
  <2>3. Places'
    BY <1>2, <1>7, <2>1, <2>2 DEF Places, Code
  <2>4. Begun'
    BY <1>2, <1>13, <2>1 DEF Walk, Begun
  <2>5. ASSUME NEW m \in DOMAIN queue' PROVE Enters(queue[m])'
    <3>1. PICK k \in DOMAIN queue : queue'[m] = queue[k]
      BY <2>2
    <3>2. Enters(queue[k])
      BY <1>2 DEF Walk
    <3>3. PICK e : e = queue'[m] /\ e = queue[k]
      BY <3>1
    <3>4. Enters(e)'
      BY <1>12, <2>1, <3>2, <3>3 DEF Enters
    <3> QED
      BY <3>3, <3>4
  <2>6. ASSUME NEW c \in visited, NEW n \in DOMAIN original.succ[c]
        PROVE  Followed(original.succ[c][n])'
    <3>1. Followed(original.succ[c][n])
      BY <1>2 DEF Walk
    <3>2. CASE original.succ[c][n] \in visited
      BY <1>2, <2>1, <3>2 DEF Followed
    <3>3. CASE original.succ[c][n] \notin visited
      <4>1. PICK m \in DOMAIN queue : queue[m][1] = original.succ[c][n]
        BY <3>1, <3>3 DEF Followed
      <4>2. m # 1
        BY <4>1, <3>3, <1>13
      <4> QED
        BY <1>2, <4>1, <4>2, <2>2 DEF Followed
    <3> QED
      BY <3>2, <3>3
  <2>7. Verdict'
    BY <1>2, <1>11, <2>1 DEF Walk, Verdict
  <2>8. Walk'
    BY <1>2, <2>1, <2>4, <2>5, <2>6, <2>7 DEF Walk
  <2> QED
    BY <1>6, <1>8, <1>9, <2>3, <2>8
<1>14. CASE b \notin visited
  <2>1. /\ visited' = visited \cup {b}
        /\ alive' = (alive \/ \E k \in FirstTouch(b, i, At(Here)) : func.code[b][k].kind = "load")
        /\ queue' = Tail(queue) \o t
    BY <1>2, <1>4, <1>14 DEF VisitBlock, Code, Edited
  <2>2. i = Start(Here, b)
    BY <1>5, <1>14
  <2>3. block \in visited'
    <3>1. Begun
      BY <1>2 DEF Walk
    <3>2. CASE block \in visited
      BY <2>1, <3>2
    <3>3. CASE queue = << <<block, it + 1>> >>
      <4>1. b = block
        BY <3>3
      <4> QED BY <2>1, <4>1
    <3> QED BY <3>1, <3>2, <3>3 DEF Begun
  <2>4. /\ t \in Seq(Points) /\ DOMAIN t = DOMAIN original.succ[b]
        /\ \A n \in DOMAIN t : t[n] \in Reached(Here, {}) /\ t[n] = <<original.succ[b][n], 1>>
    <3>1. Len(original.code[b]) + 1 \in i .. Len(original.code[b]) + 1
      BY <1>5
    <3>2. <<b, Len(original.code[b]) + 1>> \in Reached(Here, {})
      BY <1>1, <1>4, <1>5, <3>1, ReachedInBlock
    <3>3. \A n \in DOMAIN original.succ[b] :
              <<original.succ[b][n], 1>> \in Reached(Here, {}) \cap Points
      BY <1>1, <1>4, <1>5, <3>2, ReachedGoesOn, AfterBlock
    <3>4. original.succ[b] \in Seq(Nat)
      BY <1>1, <1>5 DEF Given
    <3>5. DOMAIN t = DOMAIN original.succ[b]
          /\ \A n \in DOMAIN t : t[n] = <<original.succ[b][n], 1>>
      OBVIOUS
    <3>6. DOMAIN t = 1 .. Len(original.succ[b]) /\ Len(original.succ[b]) \in Nat
      BY <3>4
    <3>7. \A n \in DOMAIN t : t[n] \in Points /\ t[n] \in Reached(Here, {})
      BY <3>3, <3>5
    <3>8. t \in [1 .. Len(original.succ[b]) -> Points]
      BY <3>6, <3>7
    <3> HIDE DEF t
    <3> QED
      BY <3>5, <3>6, <3>7, <3>8, FunctionSequence
  <2> HIDE DEF t
  <2>5. /\ queue' \in Seq(Points)
        /\ \A m \in DOMAIN queue' : \/ \E k \in DOMAIN queue : queue'[m] = queue[k]
                                    \/ \E n \in DOMAIN t : queue'[m] = t[n]
        /\ \A m \in DOMAIN queue : m = 1 \/ \E k \in DOMAIN queue' : queue'[k] = queue[m]
        /\ \A n \in DOMAIN t : \E m \in DOMAIN queue' : queue'[m] = t[n]
    <3>1. queue' \in Seq(Points) /\ Moved(queue, t, queue')
      BY <1>2, <2>1, <2>4, QueueMoves
    <3> QED
      BY <3>1 DEF Moved
  <2> HIDE DEF b, i
  <2>6. Places'
    <3>1. alive' \in BOOLEAN
      BY <2>1
    <3>2. visited' \in SUBSET DOMAIN original.code
      BY <1>5, <2>1 DEF Places
    <3> QED
      BY <1>2, <1>7, <2>5, <3>1, <3>2 DEF Places, Code
  <2>7. ASSUME NEW m \in DOMAIN queue' PROVE Enters(queue[m])'
    <3>1. CASE \E k \in DOMAIN queue : queue'[m] = queue[k]
      <4>1. PICK k \in DOMAIN queue : queue'[m] = queue[k]
        BY <3>1
      <4>2. Enters(queue[k])
        BY <1>2 DEF Walk
      <4>3. PICK e : e = queue'[m] /\ e = queue[k]
        BY <4>1
      <4>4. Enters(e)'
        BY <1>12, <2>1, <4>2, <4>3 DEF Enters
      <4> QED
        BY <4>3, <4>4
    <3>2. CASE \E n \in DOMAIN t : queue'[m] = t[n]
      <4>1. PICK n \in DOMAIN t : queue'[m] = t[n]
        BY <3>2
      <4>2. PICK e : e = queue'[m] /\ e = t[n]
        BY <4>1
      <4>3. e \in Reached(Here, {}) /\ e = <<original.succ[b][n], 1>>
        BY <4>2, <2>4
      <4>4. e[1] \in visited' \/ e[2] = Start(Here, e[1])
        BY <2>3, <4>3 DEF Start, Here
      <4>5. Enters(e)'
        BY <1>12, <4>3, <4>4
      <4> QED
        BY <4>2, <4>5
    <3> QED
      BY <2>5, <3>1, <3>2
  <2>8. ASSUME NEW c \in visited', NEW n \in DOMAIN original.succ[c]
        PROVE  Followed(original.succ[c][n])'
    <3>1. CASE c = b
      <4>1. n \in DOMAIN t /\ t[n] = <<original.succ[c][n], 1>>
        BY <3>1, <2>4
      <4>2. PICK m \in DOMAIN queue' : queue'[m] = t[n]
        BY <4>1, <2>5
      <4>3. queue'[m][1] = original.succ[c][n]
        BY <4>1, <4>2
      <4> QED
        BY <1>2, <4>3 DEF Followed
    <3>2. CASE c # b /\ original.succ[c][n] \in visited
      BY <1>2, <3>2, <2>1 DEF Followed
    <3>3. CASE c # b /\ original.succ[c][n] \notin visited
      <4>1. Followed(original.succ[c][n])
        BY <3>3, <1>2, <2>1 DEF Walk
      <4>2. PICK m \in DOMAIN queue : queue[m][1] = original.succ[c][n]
        BY <3>3, <4>1 DEF Followed
      <4>3. CASE m = 1
        BY <1>2, <4>2, <4>3, <2>1 DEF b, Followed
      <4>4. CASE m # 1
        BY <1>2, <4>2, <4>4, <2>5 DEF Followed
      <4> QED
        BY <4>3, <4>4
    <3> QED
      BY <3>1, <3>2, <3>3
  <2>9. ASSUME alive' PROVE Seen(Here)
    <3>1. CASE alive
      BY <3>1, <1>2 DEF Walk, Verdict
    <3>2. CASE ~alive
      <4>1. PICK k \in FirstTouch(b, i, At(Here)) : func.code[b][k].kind = "load"
        BY <2>1, <2>9, <3>2
      <4>2. Len(func.code[b]) = Len(original.code[b])
        BY <1>5 DEF Edited
      <4>3. k \in i .. Len(original.code[b]) /\ SamePlace(func.code[b][k], At(Here))
        BY <4>2 DEF FirstTouch, Code
      <4>4. k \in 1 .. Len(original.code[b]) /\ k \in i .. Len(original.code[b]) + 1
        BY <1>5, <4>3
      <4>5. func.code[b][k] = original.code[b][k]
        <5>1. func.code[b][k] # Gap
          BY <4>1 DEF Gap
        <5> QED
          BY <1>1, <1>5, <4>4, <5>1, EditedCode
      <4>6. At(<<b, k>>) = func.code[b][k]
        BY <1>1, <1>5, <4>4, <4>5, OperationAt
      <4>7. <<b, k>> \in Reached(Here, {})
        BY <1>1, <1>4, <1>5, <4>4, ReachedInBlock
      <4> QED
        BY <4>1, <4>3, <4>6, <4>7 DEF Seen
    <3> QED
      BY <3>1, <3>2
  <2>10. ASSUME ~alive' PROVE \A c \in visited' : Covered(Here, c)
    <3>1. ~alive /\ \A k \in FirstTouch(b, i, At(Here)) : func.code[b][k].kind # "load"
      BY <2>1, <2>10
    <3>2. Covered(Here, b)
      <4>1. Start(Here, b) \in Nat /\ Start(Here, b) >= 1
        BY <2>2, <1>5
      <4> QED
        BY <1>1, <1>4, <1>5, <2>2, <3>1, <4>1, CoveredBlock
    <3> QED
      BY <1>2, <2>1, <3>1, <3>2 DEF Walk, Verdict
  <2>11. Verdict'
    BY <1>11, <2>9, <2>10 DEF Verdict
  <2>12. Begun'
    BY <1>2, <2>3 DEF Begun
  <2>13. Walk'
    BY <1>2, <2>7, <2>8, <2>11, <2>12 DEF Walk
  <2> QED
    BY <1>6, <1>8, <1>9, <2>6, <2>13
<1> QED
  BY <1>13, <1>14

\* EraseDead keeps the invariant: the gaps it makes are stores found dead.
LEMMA EraseDeadInv == Inv /\ EraseDead => Inv'
<1> SUFFICES ASSUME Inv, EraseDead PROVE Inv'
  OBVIOUS
<1> USE DEF Inv
<1>1. Given
  BY GivenShape DEF Places
<1>2. /\ UNCHANGED <<queue, visited, alive, phase, original>>
      /\ phase = "scan" /\ block <= Len(func.code) /\ it = 0
      /\ erased' = erased \cup {<<block, k>> : k \in dead}
      /\ dead' = {} /\ block' = block + 1
      /\ it' = IF block < Len(func.code) THEN Len(func.code[block + 1]) ELSE 0
  BY DEF EraseDead
<1>3. /\ Len(func.code) = Len(original.code) /\ Len(original.code) \in Nat
      /\ block \in DOMAIN original.code /\ Len(original.code[block]) \in Nat
      /\ block \in Nat /\ block >= 1 /\ block <= Len(original.code)
      /\ DOMAIN original.code = 1 .. Len(original.code)
  <2>1. Len(func.code) = Len(original.code) /\ Len(original.code) \in Nat
        /\ DOMAIN original.code = 1 .. Len(original.code)
    BY <1>1 DEF Edited, Given
  <2>2. block \in Nat /\ block >= 1 /\ block <= Len(original.code)
    BY <1>2, <2>1 DEF Places
  <2> QED
    BY <1>1, <2>1, <2>2, Position
<1>4. Points' = Points /\ \A p : At(p)' = At(p) /\ Unseen(p)' = Unseen(p) /\ Seen(p)' = Seen(p)
  BY <1>2, OriginalKept
<1>5. Edited'
  <2> DEFINE G(s) == [k \in DOMAIN s |-> IF k \in dead THEN Gap ELSE s[k]]
             Ops == Operations \cup {Gap}
  <2>1. func \in [code : Seq(Seq(Ops)), succ : Seq(Seq(Nat))]
    BY DEF Edited
  <2>2. func.code \in Seq(Seq(Ops)) /\ block \in DOMAIN func.code /\ func.code[block] \in Seq(Ops)
    BY <1>3, <2>1
  <2>3. func' = [func EXCEPT !.code = [func.code EXCEPT ![block] = G(func.code[block])]]
    BY DEF EraseDead
  <2>4. ASSUME NEW s \in Seq(Ops)
        PROVE  G(s) \in Seq(Ops) /\ Len(G(s)) = Len(s)
               /\ \A k \in DOMAIN s : G(s)[k] = IF k \in dead THEN Gap ELSE s[k]
    <3>1. Gap \in Ops
      OBVIOUS
    <3>2. \A k \in DOMAIN s : s[k] \in Ops
      OBVIOUS
    <3> HIDE DEF Ops
    <3>3. DOMAIN s = 1 .. Len(s) /\ Len(s) \in Nat
      OBVIOUS
    <3>4. G(s) \in [1 .. Len(s) -> Ops]
      BY <3>1, <3>2, <3>3
    <3>5. G(s) \in Seq(Ops)
      BY <3>3, <3>4, FunctionSequence
    <3> QED
      BY <3>3, <3>4, <3>5
  <2> HIDE DEF G, Ops
  <2>5. /\ func'.code = [func.code EXCEPT ![block] = G(func.code[block])]
        /\ func'.succ = func.succ
        /\ func' = [code |-> func'.code, succ |-> func'.succ]
    BY <2>1, <2>3
  <2>6. /\ func'.code \in Seq(Seq(Ops)) /\ Len(func'.code) = Len(func.code)
        /\ func'.code[block] = G(func.code[block])
        /\ \A b \in DOMAIN func.code : b # block => func'.code[b] = func.code[b]
    BY <2>2, <2>4, <2>5
  <2>7. func' \in [code : Seq(Seq(Ops)), succ : Seq(Seq(Nat))]
    BY <2>1, <2>5, <2>6
  <2>8. ASSUME NEW b \in DOMAIN original.code
        PROVE  /\ Len(func'.code[b]) = Len(original.code[b])
               /\ \A k \in 1 .. Len(original.code[b]) :
                      func'.code[b][k] = IF <<b, k>> \in erased' THEN Gap ELSE original.code[b][k]
    <3>1. /\ Len(func.code[b]) = Len(original.code[b])
          /\ \A k \in 1 .. Len(original.code[b]) :
                 func.code[b][k] = IF <<b, k>> \in erased THEN Gap ELSE original.code[b][k]
      BY DEF Edited
    <3>2. b \in DOMAIN func.code
      BY <1>3, <2>2
    <3>3. CASE b # block
      <4>1. func'.code[b] = func.code[b]
        BY <2>6, <3>2, <3>3
      <4>2. \A k : <<b, k>> \in erased' <=> <<b, k>> \in erased
        BY <1>2, <3>3
      <4> QED
        BY <3>1, <4>1, <4>2
    <3>4. CASE b = block
      <4>1. /\ Len(func'.code[b]) = Len(func.code[b])
            /\ \A k \in DOMAIN func.code[b] :
                   func'.code[b][k] = IF k \in dead THEN Gap ELSE func.code[b][k]
        BY <2>2, <2>4, <2>6, <3>4
      <4>2. \A k : <<b, k>> \in erased' <=> <<b, k>> \in erased \/ k \in dead
        BY <1>2, <3>4
      <4>3. DOMAIN func.code[b] = 1 .. Len(original.code[b])
        BY <2>2, <3>1, <3>4
      <4> QED
        BY <3>1, <4>1, <4>2, <4>3
    <3> QED
      BY <3>3, <3>4
  <2>9. func'.succ = original'.succ /\ Len(func'.code) = Len(original'.code)
    BY <1>2, <1>3, <2>5, <2>6 DEF Edited
  <2> QED
    BY <1>2, <2>7, <2>8, <2>9 DEF Edited, Ops
<1>6. /\ it' \in Nat
      /\ block' <= Len(original.code) => it' = Len(original.code[block'])
  <2>1. CASE block < Len(original.code)
    <3>1. block + 1 \in DOMAIN original.code
      BY <1>3, <2>1
    <3>2. Len(func.code[block + 1]) = Len(original.code[block + 1])
          /\ Len(original.code[block + 1]) \in Nat
      BY <1>1, <3>1 DEF Edited, Given
    <3> QED
      BY <1>2, <1>3, <2>1, <3>2
  <2>2. CASE ~(block < Len(original.code))
    BY <1>2, <1>3, <2>2
  <2> QED
    BY <2>1, <2>2
<1>7. Places'
  <2>1. block' \in 1 .. Len(original.code) + 1
    BY <1>2, <1>3
  <2>2. block' <= Len(original.code) => it' <= Len(original.code[block'])
    BY <1>6
  <2> QED
    BY <1>2, <1>4, <1>6, <2>1, <2>2 DEF Places
<1>8. Walk'
  BY <1>2 DEF Walk
<1>9. Judged'
  <2>1. ASSUME NEW p \in erased' PROVE p \in Points /\ Candidate(At(p)) /\ Unseen(p)
    <3>1. CASE p \in erased
      BY <3>1 DEF Judged
    <3>2. CASE p \notin erased
      <4>1. PICK k \in dead : p = <<block, k>>
        BY <1>2, <3>2
      <4>2. k \in 1 .. Len(original.code[block]) /\ Candidate(At(p)) /\ Unseen(p)
        BY <4>1 DEF Judged
      <4>3. k \in 1 .. Len(original.code[block]) + 1
        BY <1>3, <4>2
      <4> QED
        BY <1>1, <1>3, <4>1, <4>2, <4>3, PointOf
    <3> QED
      BY <3>1, <3>2
  <2> QED
    BY <1>2, <1>4, <2>1 DEF Judged
<1>10. Behind'
  <2>1. SUFFICES ASSUME NEW p \in Points, Candidate(At(p))
                 PROVE  \/ p[1] > block'
                        \/ p[1] = block' /\ p[2] <= it'
                        \/ p \in erased'
                        \/ Seen(p)
    BY <1>4 DEF Behind
  <2>2. /\ p = <<p[1], p[2]>> /\ p[1] \in DOMAIN original.code
        /\ p[2] \in 1 .. Len(original.code[p[1]]) + 1 /\ Len(original.code[p[1]]) \in Nat
    BY <1>1, PointsShape
  <2>3. p[2] <= Len(original.code[p[1]])
    BY <2>1 DEF Candidate, At, Gap
  <2>4. CASE p[1] > block
    <3>1. p[1] > block' \/ p[1] = block'
      BY <1>2, <1>3, <2>2, <2>4
    <3>2. p[1] = block' => it' = Len(original.code[p[1]])
      BY <1>3, <1>6, <2>2
    <3> QED
      BY <2>3, <3>1, <3>2
  <2>5. CASE p[1] = block /\ p[2] \in dead
    BY <1>2, <2>2, <2>5
  <2>6. CASE p \in erased \/ Seen(p)
    BY <1>2, <2>6
  <2>7. ~(p[1] = block /\ p[2] <= it)
    BY <1>2, <2>2
  <2> QED
    BY <2>1, <2>4, <2>5, <2>6, <2>7 DEF Behind
<1> QED
  BY <1>5, <1>7, <1>8, <1>9, <1>10

\* A step that changes nothing keeps the invariant.
LEMMA StutterInv == Inv /\ UNCHANGED vars => Inv'
<1> SUFFICES ASSUME Inv, UNCHANGED vars PROVE Inv'
  OBVIOUS
<1> USE DEF Inv, vars
<1>1. /\ Points' = Points
      /\ \A p : /\ At(p)' = At(p) /\ Unseen(p)' = Unseen(p) /\ Seen(p)' = Seen(p)
                /\ Reached(p, {})' = Reached(p, {})
                /\ \A c : Covered(p, c)' = Covered(p, c)
  BY OriginalKept
<1>2. Edited'
  BY EditedKept
<1>3. Places'
  BY <1>1 DEF Places, Code
<1>4. Judged'
  BY <1>1 DEF Judged
<1>5. Behind'
  BY <1>1 DEF Behind
<1>6. PICK h : h = Here /\ h = Here'
  BY DEF Here
<1>7. /\ Reached(Here, {})' = Reached(Here, {})
      /\ Seen(Here)' = Seen(Here)
      /\ \A c : Covered(Here, c)' = Covered(Here, c)
  <2>1. /\ Reached(Here, {})' = Reached(h, {})'
        /\ Seen(Here)' = Seen(h)'
        /\ \A c : Covered(Here, c)' = Covered(h, c)'
    BY <1>6
  <2> QED
    BY <1>1, <1>6, <2>1
<1>8. Verdict' = Verdict /\ Begun' = Begun
  BY <1>7 DEF Verdict, Begun
<1>9. \A e : Enters(e)' = Enters(e)
  <2>1. \A c : Start(Here', c) = Start(Here, c)
    BY <1>6
  <2> QED
    BY <1>7, <2>1 DEF Enters
<1>10. \A s : Followed(s)' = Followed(s)
  BY DEF Followed
<1>11. Walk'
  <2>1. CASE phase = "search"
    <3>1. \A m \in DOMAIN queue : Enters(queue[m])'
      <4>1. SUFFICES ASSUME NEW m \in DOMAIN queue PROVE Enters(queue[m])'
        OBVIOUS
      <4>2. PICK e : e = queue[m] /\ e = queue'[m]
        OBVIOUS
      <4>3. Enters(e)'
        BY <1>9, <2>1, <4>2 DEF Walk
      <4> QED
        BY <4>2, <4>3
    <3>2. \A b \in visited : \A n \in DOMAIN original.succ[b] : Followed(original.succ[b][n])'
      <4>1. SUFFICES ASSUME NEW b \in visited, NEW n \in DOMAIN original.succ[b]
                     PROVE  Followed(original.succ[b][n])'
        OBVIOUS
      <4>2. Followed(original.succ[b][n])
        BY <2>1 DEF Walk
      <4> QED
        BY <4>2 DEF Followed
    <3> QED
      BY <1>8, <2>1, <3>1, <3>2 DEF Walk
  <2>2. CASE phase # "search"
    BY <2>2 DEF Walk
  <2> QED
    BY <2>1, <2>2
<1> QED
  BY <1>2, <1>3, <1>4, <1>5, <1>11

\* The pass is always in the invariant.
LEMMA InvHolds == Spec => []Inv
<1>1. Inv /\ [Next]_vars => Inv'
  BY SkipInv, StartSearchInv, VisitBlockInv, JudgeInv, EraseDeadInv, StutterInv DEF Next
<1> QED
  BY InitInv, <1>1, PTL DEF Spec

-----------------------------------------------------------------------------
(* The theorems. *)

(* Whatever function the pass is given, a byte of a register store that it  *)
(* erased is missed by a load in three ways only: ahead of the store in its *)
(* own block, which takes a loop; through a pointer that the pass does not  *)
(* match with the store's; or behind a store that it does match and that    *)
(* leaves the byte as it is, where the walk of state_cleanup::run leaves    *)
(* the block.                                                               *)
THEOREM LossesExplained == Spec => []LostBytesExplained
<1>1. Inv => LostBytesExplained
  <2> SUFFICES ASSUME Inv, NEW p \in erased, NEW c \in Span(At(p)), NEW q \in ReadersOf(p, c),
                      SamePlace(At(q), At(p))
               PROVE  LoopCarried(p, q) \/ Hidden(p, q, c)
    BY DEF LostBytesExplained
  <2>1. Given
    BY GivenShape DEF Inv, Places
  <2>2. p \in Points /\ Candidate(At(p)) /\ Unseen(p)
    BY DEF Inv, Judged
  <2> QED
    BY <2>1, <2>2, UnseenLoses
<1> QED
  BY InvHolds, <1>1, PTL

(* Whatever function the pass is given, a register store it leaves standing *)
(* has a load that matches it ahead: no store that the walk of              *)
(* state_cleanup::run cannot tell from a dead one is kept.                  *)
THEOREM KeptStoresSeen == Spec => []UnreadStoresErased
<1>1. Inv => UnreadStoresErased
  <2> SUFFICES ASSUME Inv, Finished, NEW p \in Points, p \notin erased, Candidate(At(p))
               PROVE  Seen(p)
    BY DEF UnreadStoresErased, Seen
  <2>1. Given
    BY GivenShape DEF Inv, Places
  <2>2. block > Len(original.code)
    BY DEF Inv, Finished, Edited
  <2>3. p[1] \in 1 .. Len(original.code) /\ Len(original.code) \in Nat /\ block \in Nat
    <3>1. p[1] \in DOMAIN original.code
      BY <2>1, PointsShape
    <3>2. Len(original.code) \in Nat /\ DOMAIN original.code = 1 .. Len(original.code)
      BY <2>1 DEF Given
    <3>3. block \in Nat
      BY <3>2 DEF Inv, Places
    <3> QED
      BY <3>1, <3>2, <3>3
  <2>4. ~(p[1] > block) /\ p[1] # block
    BY <2>2, <2>3
  <2> QED
    BY <2>4 DEF Inv, Behind
<1> QED
  BY InvHolds, <1>1, PTL

=============================================================================
