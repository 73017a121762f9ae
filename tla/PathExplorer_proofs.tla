------------------------ MODULE PathExplorer_proofs ------------------------
(* Proofs about PathExplorer, for every function, every option and every   *)
(* answer of the solver: the lifter's state keeps its types and no basic   *)
(* block dangles, every path has a block of its own, no block is given a   *)
(* second terminator and no address is lifted twice.                       *)
EXTENDS PathExplorer, SequenceTheorems, TLAPS

-----------------------------------------------------------------------------
\* The inductive invariant: TypeOK with the shape of every record

\* a term that is_concrete() calls a literal value has one value
HonestTerms == {t \in Terms : t.lit => Unvarying(t.den)}

BlockMaps(n) == UNION {[K -> 1..n] : K \in SUBSET Nat}

Contexts(n) ==
    [PC : Nat, VPC : Words, VJMP : BOOLEAN, PATH : BlockMaps(n), cons : SUBSET Models,
     reg : [Regs -> HonestTerms], mem : [Words -> HonestTerms]]

Beliefs == [reg : [Regs -> HonestTerms], mem : [Words -> HonestTerms], cons : SUBSET Models]

AccessRecords ==
    [kind : {"none", "constant", "throw", "inttoptr", "select"}, addrs : SUBSET Words, first : Words]

Ends(n) ==
    [kind : {"open", "ret", "unreachable"}]
    \cup [kind : {"br"}, to : 1..n]
    \cup [kind : {"cond"}, reg : Regs, val : Words, yes : 1..n, no : 1..n]

BlockCode == Instructions \cup {Nop, Keep}

BlockRecords(n) ==
    [at : Nat, ins : BlockCode, acc : AccessRecords, end : Ends(n), belief : Beliefs]

SavedPaths(n) == [ctx : Contexts(n), bb : 1..n]

TypeInv ==
    /\ job \in Jobs
    /\ phase \in {"lift", "done", "aborted", "run", "returned"}
    /\ blocks \in Seq(BlockRecords(Len(blocks)))
    /\ ip \in 1..Len(blocks)
    /\ ctx \in Contexts(Len(blocks))
    /\ stack \in Seq(SavedPaths(Len(blocks)))
    /\ CFG \in BlockMaps(Len(blocks))
    /\ VCFG \in BlockMaps(Len(blocks))

-----------------------------------------------------------------------------
\* Facts about the operators

(* The fields an instruction has are those its operation reads (Machine). *)
LEMMA InstructionFields ==
    ASSUME NEW ins \in Instructions
    PROVE  /\ ins.op \in {"set", "inc", "bit", "obf", "load", "store", "cmov", "jz", "jmp",
                          "jmpr", "dispatch", "ret", "bad", "unsupported"}
           /\ ins.op \in ComputeOps \cup {"load", "cmov"} => ins.dst \in Regs
           /\ ins.op \in {"set", "cmov"} => ins.imm \in Words
           /\ ins.op \in {"load", "store"} => ins.addr \in Regs
           /\ ins.op = "store" => ins.src \in Regs
           /\ ins.op \in {"cmov", "jz", "jmpr", "dispatch"} => ins.cond \in Regs
           /\ ins.op \in {"jz", "jmp"} => ins.to \in Nat
  BY DEF Instructions, ComputeOps

(* What is fetched is an instruction: outside the function it is Bad. *)
LEMMA FetchType ==
    ASSUME NEW j \in Jobs, NEW pc
    PROVE  Fetch(j.code, pc) \in Instructions
  <1>1. j.code \in Seq(Instructions)
    BY ExplorerConstants
  <1>2. Bad \in Instructions
    BY DEF Bad, Instructions
  <1> QED BY <1>1, <1>2 DEF Fetch

(* There is an assignment of the symbols, and the constants are words. *)
LEMMA ModelFacts ==
    /\ Models # {}
    /\ 0 \in Words /\ 1 \in Words
    /\ Words \subseteq Nat
    /\ \A m \in Models : m[1] \in Words /\ m[2] \in Words
  <1>1. 0 \in Words /\ 1 \in Words /\ Words \subseteq Nat
    BY MachineConstants DEF Words
  <1>2. PICK i \in Inputs : TRUE
    BY MachineConstants
  <1>3. <<i, 0>> \in Models
    BY <1>2 DEF Models
  <1>4. \A m \in Models : m[1] \in Inputs /\ m[2] \in {0, 1}
    BY DEF Models
  <1> QED BY <1>1, <1>3, <1>4, MachineConstants

(* A literal, the argument and a fresh symbol are terms. *)
LEMMA LeafTerms ==
    /\ \A w \in Words : Literal(w) \in HonestTerms
    /\ Argument \in HonestTerms
    /\ Fresh \in HonestTerms
  BY ModelFacts DEF Literal, Argument, Fresh, HonestTerms, Terms, Unvarying

(* Whatever simplify() leaves of a denotation is a term with it. *)
LEMMA SimplifiedType ==
    ASSUME NEW den \in [Models -> Words], NEW folded \in BOOLEAN, NEW t \in Simplified(den, folded)
    PROVE  t \in HonestTerms /\ t.den = den /\ (folded => t.lit)
  BY DEF Simplified, HonestTerms, Terms

(* The solutions of a term are words. *)
LEMMA SolutionsType ==
    ASSUME NEW t \in HonestTerms, NEW cons \in SUBSET Models
    PROVE  Solutions(t, cons) \subseteq Words
  BY DEF Solutions, HonestTerms, Terms

LEMMA SimplifyUnderType ==
    ASSUME NEW t \in HonestTerms, NEW cons \in SUBSET Models, NEW u \in SimplifyUnder(t, cons)
    PROVE  u \in HonestTerms
  BY SolutionsType, LeafTerms DEF SimplifyUnder

LEMMA PossibleValuesType ==
    ASSUME NEW t \in HonestTerms, NEW cons \in SUBSET Models, NEW q \in PossibleValues(t, cons)
    PROVE  q.vals \subseteq Words /\ q.vals \subseteq Solutions(t, cons)
  BY SolutionsType DEF PossibleValues

NoThrow == {"constant", "inttoptr", "select"}

(* Every access value_to_pointer builds is well formed. *)
LEMMA PointersType ==
    ASSUME NEW t \in HonestTerms, NEW cons \in SUBSET Models, NEW a \in Pointers(t, cons)
    PROVE  a \in AccessRecords /\ (a = Throw \/ a.kind \in NoThrow)
  <1>1. Solutions(t, cons) \subseteq Words /\ 0 \in Words
    BY SolutionsType, ModelFacts
  <1>2. \A w \in Words : Constant(w) \in AccessRecords /\ Constant(w).kind = "constant"
    BY DEF Constant, AccessRecords
  <1>3. Throw \in AccessRecords
    BY ModelFacts DEF Throw, AccessRecords
  <1>4. /\ [NoAccess EXCEPT !.kind = "inttoptr"] \in AccessRecords
        /\ [NoAccess EXCEPT !.kind = "inttoptr"].kind = "inttoptr"
    BY ModelFacts DEF NoAccess, AccessRecords
  <1> HIDE DEF Constant, Throw, NoAccess, AccessRecords
  <1> QED BY <1>1, <1>2, <1>3, <1>4 DEF Pointers, NoThrow

(* So is every access of read_memory_intrinsic and write_memory_intrinsic. *)
LEMMA AccessesType ==
    ASSUME NEW t \in HonestTerms, NEW cons \in SUBSET Models, NEW a \in Accesses(t, cons)
    PROVE  a \in AccessRecords /\ (a = Throw \/ a.kind \in NoThrow)
  <1>1. \A w \in Words : Constant(w) \in AccessRecords /\ Constant(w).kind = "constant"
    BY DEF Constant, AccessRecords
  <1>2. CASE t.lit
    BY <1>1, <1>2, SolutionsType DEF Accesses, NoThrow
  <1>3. CASE ~t.lit
    <2>1. PICK q \in PossibleValues(t, cons) :
            a \in CASE Cardinality(q.vals) = 1 -> {Constant(w) : w \in q.vals}
                   [] Cardinality(q.vals) > 1 /\ q.complete ->
                         {[kind |-> "select", addrs |-> q.vals, first |-> w] : w \in q.vals}
                   [] OTHER -> Pointers(t, cons)
      BY <1>3 DEF Accesses
    <2>2. q.vals \subseteq Words
      BY PossibleValuesType
    <2>3. \/ \E w \in q.vals : a = Constant(w)
          \/ \E w \in q.vals : a = [kind |-> "select", addrs |-> q.vals, first |-> w]
          \/ a \in Pointers(t, cons)
      BY <2>1
    <2>4. CASE \E w \in q.vals : a = Constant(w)
      BY <1>1, <2>2, <2>4 DEF NoThrow
    <2>5. CASE \E w \in q.vals : a = [kind |-> "select", addrs |-> q.vals, first |-> w]
      BY <2>2, <2>5 DEF AccessRecords, NoThrow
    <2>6. CASE a \in Pointers(t, cons)
      BY <2>6, PointersType
    <2> QED BY <2>3, <2>4, <2>5, <2>6
  <1> QED BY <1>2, <1>3

(* A load leaves a term in its register. *)
LEMMA LoadedType ==
    ASSUME NEW n \in Nat, NEW c \in Contexts(n), NEW r \in Regs,
           NEW a \in AccessRecords, a.kind \in NoThrow, NEW t \in Loaded(c, r, a)
    PROVE  t \in HonestTerms
  <1>1. c.reg \in [Regs -> HonestTerms] /\ c.mem \in [Words -> HonestTerms]
    BY DEF Contexts
  <1>2. a.first \in Words /\ a.addrs \subseteq Words
    BY DEF AccessRecords
  <1>3. CASE a.kind = "constant"
    BY <1>1, <1>2, <1>3 DEF Loaded
  <1>4. CASE a.kind = "inttoptr"
    BY <1>4, LeafTerms DEF Loaded
  <1>5. CASE a.kind = "select"
    <2> DEFINE W(m) == IF c.reg[r].den[m] \in a.addrs THEN c.reg[r].den[m] ELSE a.first
               den == [m \in Models |-> c.mem[W(m)].den[m]]
    <2>1. \A m \in Models : W(m) \in Words
      BY <1>2
    <2>2. \A w \in Words, m \in Models : c.mem[w].den[m] \in Words
      BY <1>1 DEF HonestTerms, Terms
    <2>3. den \in [Models -> Words]
      BY <2>1, <2>2
    <2>4. t \in Simplified(den, FALSE)
      BY <1>5 DEF Loaded
    <2> QED BY <2>3, <2>4, SimplifiedType
  <1> QED BY <1>3, <1>4, <1>5 DEF NoThrow

(* A store leaves a memory of terms. *)
LEMMA StoredType ==
    ASSUME NEW n \in Nat, NEW c \in Contexts(n), NEW r \in Regs, NEW t \in HonestTerms,
           NEW a \in AccessRecords, a.kind \in NoThrow, NEW mem \in Stored(c, r, a, t)
    PROVE  mem \in [Words -> HonestTerms]
  <1>1. c.reg \in [Regs -> HonestTerms] /\ c.mem \in [Words -> HonestTerms]
    BY DEF Contexts
  <1>2. a.first \in Words /\ a.addrs \subseteq Words
    BY DEF AccessRecords
  <1>3. CASE a.kind = "constant"
    BY <1>1, <1>2, <1>3 DEF Stored
  <1>4. CASE a.kind = "inttoptr"
    BY <1>1, <1>4 DEF Stored
  <1>5. CASE a.kind = "select"
    <2> DEFINE Written(w) == [m \in Models |-> IF c.reg[r].den[m] = w THEN t.den[m]
                                               ELSE c.mem[w].den[m]]
               Folding == {w \in a.addrs : Unvarying(Written(w))}
    <2>1. PICK lits \in SUBSET Folding :
            mem = [w \in Words |-> IF w \in a.addrs THEN [den |-> Written(w), lit |-> w \in lits]
                                  ELSE c.mem[w]]
      BY <1>5 DEF Stored
    <2>2. \A w \in Words, m \in Models : c.mem[w].den[m] \in Words /\ t.den[m] \in Words
      BY <1>1 DEF HonestTerms, Terms
    <2>3. \A w \in Words : Written(w) \in [Models -> Words]
      BY <2>2
    <2>4. \A w \in a.addrs : (w \in lits) \in BOOLEAN /\ (w \in lits => Unvarying(Written(w)))
      BY <2>1
    <2> HIDE DEF Written
    <2>5. \A w \in a.addrs : [den |-> Written(w), lit |-> w \in lits] \in HonestTerms
      BY <1>2, <2>3, <2>4 DEF HonestTerms, Terms
    <2> QED BY <1>1, <1>2, <2>1, <2>5
  <1> QED BY <1>3, <1>4, <1>5 DEF NoThrow

-----------------------------------------------------------------------------
\* The state grows: a larger function only adds to what a record may name

LEMMA Growing ==
    ASSUME NEW n \in Nat, NEW k \in Nat, n <= k
    PROVE  /\ BlockMaps(n) \subseteq BlockMaps(k)
           /\ Contexts(n) \subseteq Contexts(k)
           /\ Ends(n) \subseteq Ends(k)
           /\ BlockRecords(n) \subseteq BlockRecords(k)
           /\ SavedPaths(n) \subseteq SavedPaths(k)
  <1>1. 1..n \subseteq 1..k
    OBVIOUS
  <1>2. BlockMaps(n) \subseteq BlockMaps(k)
    <2> SUFFICES ASSUME NEW K \in SUBSET Nat, NEW f \in [K -> 1..n]
                 PROVE  f \in [K -> 1..k]
      BY DEF BlockMaps
    <2> QED BY <1>1
  <1>3. Contexts(n) \subseteq Contexts(k)
    BY <1>2 DEF Contexts
  <1>4. Ends(n) \subseteq Ends(k)
    BY <1>1 DEF Ends
  <1>5. BlockRecords(n) \subseteq BlockRecords(k)
    BY <1>4 DEF BlockRecords
  <1>6. SavedPaths(n) \subseteq SavedPaths(k)
    BY <1>1, <1>3 DEF SavedPaths
  <1> QED BY <1>2, <1>3, <1>4, <1>5, <1>6

(* The maps of CFG recovery. *)
LEMMA BlockMapFacts ==
    ASSUME NEW n \in Nat, NEW f \in BlockMaps(n)
    PROVE  DOMAIN f \subseteq Nat /\ \A x \in DOMAIN f : f[x] \in 1..n
  BY DEF BlockMaps

LEMMA EmptyMap == <<>> \in BlockMaps(1) /\ DOMAIN <<>> = {}
  <1>1. <<>> \in [{} -> 1..1]
    OBVIOUS
  <1>2. {} \in SUBSET Nat
    OBVIOUS
  <1> QED BY <1>1, <1>2 DEF BlockMaps

LEMMA BindType ==
    ASSUME NEW n \in Nat, NEW f \in BlockMaps(n), NEW x \in Nat, NEW b \in 1..(n + 1)
    PROVE  /\ Bind(f, x, b) \in BlockMaps(n + 1)
           /\ TryBind(f, x, b) \in BlockMaps(n + 1)
  <1>1. DOMAIN f \subseteq Nat /\ \A y \in DOMAIN f : f[y] \in 1..n
    BY BlockMapFacts
  <1>2. DOMAIN f \cup {x} \in SUBSET Nat
    BY <1>1
  <1>3. Bind(f, x, b) \in [DOMAIN f \cup {x} -> 1..(n + 1)]
    BY <1>1 DEF Bind
  <1>4. Bind(f, x, b) \in BlockMaps(n + 1)
    BY <1>2, <1>3 DEF BlockMaps
  <1>5. f \in BlockMaps(n + 1)
    BY Growing
  <1> QED BY <1>4, <1>5 DEF TryBind

-----------------------------------------------------------------------------
\* Basic blocks

LEMMA EndFacts ==
    ASSUME NEW n \in Nat
    PROVE  /\ Open \in Ends(n) /\ ReturnState \in Ends(n) /\ Unreachable \in Ends(n)
           /\ \A b \in 1..n : Br(b) \in Ends(n) /\ Br(b) # Open
           /\ \A r \in Regs, w \in Words, y, z \in 1..n :
                 CondBr(r, w, y, z) \in Ends(n) /\ CondBr(r, w, y, z) # Open
           /\ ReturnState # Open /\ Unreachable # Open
           /\ \A e \in Ends(n) : Successors(e) \subseteq 1..n
  <1>1. /\ Open \in Ends(n) /\ ReturnState \in Ends(n) /\ Unreachable \in Ends(n)
        /\ ReturnState # Open /\ Unreachable # Open
    BY DEF Open, ReturnState, Unreachable, Ends
  <1>2. \A b \in 1..n : Br(b) \in Ends(n) /\ Br(b) # Open
    <2> TAKE b \in 1..n
    <2>1. Br(b).kind = "br" /\ Open.kind = "open"
      BY DEF Br, Open
    <2> QED BY <2>1 DEF Br, Ends
  <1>3. \A r \in Regs, w \in Words, y, z \in 1..n :
          CondBr(r, w, y, z) \in Ends(n) /\ CondBr(r, w, y, z) # Open
    <2> TAKE r \in Regs, w \in Words, y, z \in 1..n
    <2>1. CondBr(r, w, y, z).kind = "cond" /\ Open.kind = "open"
      BY DEF CondBr, Open
    <2> QED BY <2>1 DEF CondBr, Ends
  <1>4. \A e \in Ends(n) : Successors(e) \subseteq 1..n
    <2> TAKE e \in Ends(n)
    <2>1. CASE e \in [kind : {"open", "ret", "unreachable"}]
      BY <2>1 DEF Successors
    <2>2. CASE e \in [kind : {"br"}, to : 1..n]
      BY <2>2 DEF Successors
    <2>3. CASE e \in [kind : {"cond"}, reg : Regs, val : Words, yes : 1..n, no : 1..n]
      BY <2>3 DEF Successors
    <2> QED BY <2>1, <2>2, <2>3 DEF Ends
  <1> QED BY <1>1, <1>2, <1>3, <1>4

LEMMA BlockType ==
    ASSUME NEW n \in Nat, NEW k \in Nat, NEW c \in Contexts(k),
           NEW pc \in Nat, NEW ins \in BlockCode, NEW acc \in AccessRecords
    PROVE  Block(pc, ins, acc, Belief(c)) \in BlockRecords(n)
  <1>1. Belief(c) \in Beliefs
    BY DEF Belief, Beliefs, Contexts
  <1>2. Open \in Ends(n)
    BY EndFacts
  <1> QED BY <1>1, <1>2 DEF Block, BlockRecords

LEMMA NoAccessType == NoAccess \in AccessRecords
  BY ModelFacts DEF NoAccess, AccessRecords

(* Closing a block changes its terminator and nothing else. *)
LEMMA CloseFacts ==
    ASSUME NEW n \in Nat, NEW s \in Seq(BlockRecords(n)), NEW i \in 1..Len(s), NEW e \in Ends(n)
    PROVE  /\ [s EXCEPT ![i].end = e] \in Seq(BlockRecords(n))
           /\ Len([s EXCEPT ![i].end = e]) = Len(s)
           /\ \A j \in 1..Len(s) : [s EXCEPT ![i].end = e][j] =
                 IF j = i THEN [s[i] EXCEPT !.end = e] ELSE s[j]
           /\ [s[i] EXCEPT !.end = e].end = e
           /\ [s[i] EXCEPT !.end = e].at = s[i].at
           /\ [s[i] EXCEPT !.end = e].ins = s[i].ins
           /\ [s[i] EXCEPT !.end = e].acc = s[i].acc
           /\ [s[i] EXCEPT !.end = e].belief = s[i].belief
  <1>1. s[i] \in BlockRecords(n)
    BY ElementOfSeq
  <1>2. /\ [s[i] EXCEPT !.end = e] \in BlockRecords(n)
        /\ [s[i] EXCEPT !.end = e].end = e
        /\ [s[i] EXCEPT !.end = e].at = s[i].at
        /\ [s[i] EXCEPT !.end = e].ins = s[i].ins
        /\ [s[i] EXCEPT !.end = e].acc = s[i].acc
        /\ [s[i] EXCEPT !.end = e].belief = s[i].belief
    BY <1>1 DEF BlockRecords
  <1>3. [s EXCEPT ![i].end = e] = [s EXCEPT ![i] = [s[i] EXCEPT !.end = e]]
    OBVIOUS
  <1> HIDE DEF BlockRecords
  <1> QED BY <1>2, <1>3, ExceptSeq

(* lift_instruction adds one block, entered from the insert point. *)
LEMMA LiftedFacts ==
    ASSUME TypeInv, NEW ins \in BlockCode, NEW acc \in AccessRecords
    PROVE  /\ New \in Nat /\ New = Len(blocks) + 1
           /\ Lifted(ins, acc) \in Seq(BlockRecords(New))
           /\ Len(Lifted(ins, acc)) = New
           /\ Lifted(ins, acc)[New] = Block(ctx.PC, ins, acc, Belief(ctx))
           /\ \A j \in 1..Len(blocks) : Lifted(ins, acc)[j] =
                 IF j = ip THEN [blocks[ip] EXCEPT !.end = Br(New)] ELSE blocks[j]
  <1>1. Len(blocks) \in Nat /\ ip \in 1..Len(blocks) /\ blocks \in Seq(BlockRecords(Len(blocks)))
    BY DEF TypeInv
  <1>2. New \in Nat /\ New = Len(blocks) + 1 /\ New \in 1..New
    BY <1>1 DEF New
  <1>3. blocks \in Seq(BlockRecords(New)) /\ ctx \in Contexts(Len(blocks)) /\ ctx.PC \in Nat
    <2>1. ctx \in Contexts(Len(blocks)) /\ ctx.PC \in Nat
      BY DEF TypeInv, Contexts
    <2>2. BlockRecords(Len(blocks)) \subseteq BlockRecords(New)
      BY <1>1, <1>2, Growing
    <2> QED BY <1>1, <2>1, <2>2, SeqMonotonic
  <1>4. Br(New) \in Ends(New)
    BY <1>2, EndFacts
  <1>5. Block(ctx.PC, ins, acc, Belief(ctx)) \in BlockRecords(New)
    BY <1>1, <1>2, <1>3, BlockType
  <1> DEFINE s == [blocks EXCEPT ![ip].end = Br(New)]
  <1>6. /\ s \in Seq(BlockRecords(New))
        /\ Len(s) = Len(blocks)
        /\ \A j \in 1..Len(blocks) : s[j] =
              IF j = ip THEN [blocks[ip] EXCEPT !.end = Br(New)] ELSE blocks[j]
    BY <1>1, <1>2, <1>3, <1>4, CloseFacts
  <1> HIDE DEF s, New
  <1>7. /\ Append(s, Block(ctx.PC, ins, acc, Belief(ctx))) \in Seq(BlockRecords(New))
        /\ Len(Append(s, Block(ctx.PC, ins, acc, Belief(ctx)))) = Len(s) + 1
        /\ \A j \in 1..Len(s) : Append(s, Block(ctx.PC, ins, acc, Belief(ctx)))[j] = s[j]
        /\ Append(s, Block(ctx.PC, ins, acc, Belief(ctx)))[Len(s) + 1]
              = Block(ctx.PC, ins, acc, Belief(ctx))
    BY <1>5, <1>6, AppendProperties
  <1>8. Lifted(ins, acc) = Append(s, Block(ctx.PC, ins, acc, Belief(ctx)))
    BY DEF Lifted, s
  <1> QED BY <1>2, <1>6, <1>7, <1>8

\* branching and handle_conditional_moves: the new block ends in a branch to
\* two more, one for each side
ForkedBlocks(ins, r, w, yes, no) ==
    [Lifted(ins, NoAccess) EXCEPT ![New].end = CondBr(r, w, New + 1, New + 2)] \o <<yes, no>>

IsFork(f, ins, r, w, yes, no) ==
    /\ f \in Seq(BlockRecords(New + 2))
    /\ Len(f) = New + 2
    /\ \A j \in 1..Len(blocks) : f[j] =
          IF j = ip THEN [blocks[ip] EXCEPT !.end = Br(New)] ELSE blocks[j]
    /\ f[New] = [Block(ctx.PC, ins, NoAccess, Belief(ctx)) EXCEPT
                    !.end = CondBr(r, w, New + 1, New + 2)]
    /\ f[New + 1] = yes
    /\ f[New + 2] = no

(* What a fork leaves of the function it is added to. *)
LEMMA ForkFacts ==
    ASSUME TypeInv, NEW ins \in BlockCode, NEW r \in Regs, NEW w \in Words,
           NEW yes \in BlockRecords(New + 2), NEW no \in BlockRecords(New + 2)
    PROVE  IsFork(ForkedBlocks(ins, r, w, yes, no), ins, r, w, yes, no)
  <1> DEFINE L == Lifted(ins, NoAccess)
             e == CondBr(r, w, New + 1, New + 2)
             s == [L EXCEPT ![New].end = e]
  <1>1. /\ New \in Nat /\ New = Len(blocks) + 1
        /\ L \in Seq(BlockRecords(New))
        /\ Len(L) = New
        /\ L[New] = Block(ctx.PC, ins, NoAccess, Belief(ctx))
        /\ \A j \in 1..Len(blocks) : L[j] =
              IF j = ip THEN [blocks[ip] EXCEPT !.end = Br(New)] ELSE blocks[j]
    BY LiftedFacts, NoAccessType
  <1>2. Len(blocks) \in Nat
    BY DEF TypeInv
  <1> HIDE DEF L, New
  <1>3. L \in Seq(BlockRecords(New + 2))
    <2>1. BlockRecords(New) \subseteq BlockRecords(New + 2)
      BY <1>1, Growing
    <2> QED BY <1>1, <2>1, SeqMonotonic
  <1>4. e \in Ends(New + 2)
    <2>1. New + 2 \in Nat /\ New + 1 \in 1..(New + 2) /\ New + 2 \in 1..(New + 2)
      BY <1>1
    <2> QED BY <2>1, EndFacts
  <1> HIDE DEF e
  <1>5. /\ s \in Seq(BlockRecords(New + 2))
        /\ Len(s) = New
        /\ \A j \in 1..New : s[j] = IF j = New THEN [L[New] EXCEPT !.end = e] ELSE L[j]
    BY <1>1, <1>3, <1>4, CloseFacts
  <1> HIDE DEF s
  <1>6. <<yes, no>> \in Seq(BlockRecords(New + 2)) /\ Len(<<yes, no>>) = 2
    OBVIOUS
  <1>7. /\ s \o <<yes, no>> \in Seq(BlockRecords(New + 2))
        /\ Len(s \o <<yes, no>>) = New + 2
        /\ \A i \in 1..(New + 2) : (s \o <<yes, no>>)[i] =
               IF i <= New THEN s[i] ELSE <<yes, no>>[i - New]
    BY <1>5, <1>6, ConcatProperties
  <1>8. ForkedBlocks(ins, r, w, yes, no) = s \o <<yes, no>>
    BY DEF ForkedBlocks, s, e, L
  <1>9. \A j \in 1..Len(blocks) : (s \o <<yes, no>>)[j] = L[j]
    BY <1>1, <1>2, <1>5, <1>7
  <1>10. (s \o <<yes, no>>)[New] = [L[New] EXCEPT !.end = e]
    BY <1>1, <1>2, <1>5, <1>7
  <1>11. (s \o <<yes, no>>)[New + 1] = yes /\ (s \o <<yes, no>>)[New + 2] = no
    BY <1>1, <1>2, <1>7
  <1> QED BY <1>1, <1>7, <1>8, <1>9, <1>10, <1>11 DEF e, IsFork

-----------------------------------------------------------------------------
\* Contexts

(* What the path's own context keeps when its block is saved: CFG_recovery  *)
(* touches VJMP and PATH only.                                              *)
LEMMA SavedFacts ==
    ASSUME TypeInv
    PROVE  /\ Saved \in Contexts(New)
           /\ Saved.PC = ctx.PC /\ Saved.cons = ctx.cons
           /\ Saved.reg = ctx.reg /\ Saved.mem = ctx.mem
  <1>1. /\ Len(blocks) \in Nat /\ New \in Nat /\ New = Len(blocks) + 1 /\ New \in 1..New
        /\ ctx \in Contexts(Len(blocks))
    BY DEF TypeInv, New
  <1>2. ctx.PATH \in BlockMaps(Len(blocks)) /\ ctx.PC \in Nat /\ ctx.VPC \in Nat
    BY <1>1, ModelFacts DEF Contexts
  <1> HIDE DEF New
  <1>3. Path \in BlockMaps(New)
    <2>1. /\ ctx.PATH \in BlockMaps(New)
          /\ Bind(ctx.PATH, ctx.PC, New) \in BlockMaps(New)
          /\ TryBind(ctx.PATH, ctx.VPC, New) \in BlockMaps(New)
      <3> DEFINE n == Len(blocks)
      <3>1. n \in Nat /\ New = n + 1 /\ n <= New /\ New \in 1..(n + 1) /\ ctx.PATH \in BlockMaps(n)
        BY <1>1, <1>2
      <3> HIDE DEF n
      <3>2. ctx.PATH \in BlockMaps(New)
        BY <1>1, <3>1, Growing
      <3>3. Bind(ctx.PATH, ctx.PC, New) \in BlockMaps(n + 1)
        BY <1>2, <3>1, BindType
      <3>4. TryBind(ctx.PATH, ctx.VPC, New) \in BlockMaps(n + 1)
        BY <1>2, <3>1, BindType
      <3> QED BY <3>1, <3>2, <3>3, <3>4
    <2>2. Mode \in {"symbolic", "cfg", "vcfg"} /\ JoinPolicy \in {"merge", "specialize"}
      BY ExplorerConstants DEF TypeInv, Mode, JoinPolicy
    <2> QED BY <2>1, <2>2 DEF Path
  <1>4. ctx \in Contexts(New)
    BY <1>1, Growing
  <1>5. /\ Looked \in Contexts(New)
        /\ Looked.PC = ctx.PC /\ Looked.cons = ctx.cons
        /\ Looked.reg = ctx.reg /\ Looked.mem = ctx.mem
    BY <1>4 DEF Looked, Contexts
  <1> QED BY <1>3, <1>5 DEF Saved, Contexts

(* The updates of a context. *)
LEMMA ContextUpdates ==
    ASSUME NEW n \in Nat, NEW c \in Contexts(n), NEW pc \in Nat, NEW r \in Regs,
           NEW t \in HonestTerms, NEW mem \in [Words -> HonestTerms],
           NEW reg \in [Regs -> HonestTerms], NEW vpc \in Words, NEW cons \in SUBSET Models
    PROVE  /\ [c EXCEPT !.PC = pc] \in Contexts(n)
           /\ [c EXCEPT !.PC = pc, !.reg[r] = t] \in Contexts(n)
           /\ [c EXCEPT !.PC = pc, !.mem = mem] \in Contexts(n)
           /\ [c EXCEPT !.PC = pc, !.VPC = vpc, !.VJMP = TRUE] \in Contexts(n)
           /\ [c EXCEPT !.cons = cons, !.PC = pc] \in Contexts(n)
           /\ [c EXCEPT !.cons = cons, !.PC = pc, !.reg = reg] \in Contexts(n)
  BY DEF Contexts

(* An undecided branch or move is a term of its own. *)
LEMMA ConditionsType ==
    ASSUME TypeInv, NEW r \in Regs, NEW w \in Words, NEW cond \in Conditions(r, w)
    PROVE  /\ cond \in HonestTerms
           /\ True(cond) = {m \in Models : ctx.reg[r].den[m] = w}
           /\ ctx.reg[r].lit => cond.lit
  <1> DEFINE den == [m \in Models |-> IF ctx.reg[r].den[m] = w THEN 1 ELSE 0]
  <1>1. ctx.reg[r] \in HonestTerms
    BY DEF TypeInv, Contexts
  <1>2. ctx.reg[r].lit \in BOOLEAN
    BY <1>1 DEF HonestTerms, Terms
  <1>3. den \in [Models -> Words]
    BY ModelFacts
  <1>4. cond \in Simplified(den, ctx.reg[r].lit)
    BY DEF Conditions
  <1>5. cond \in HonestTerms /\ cond.den = den /\ (ctx.reg[r].lit => cond.lit)
    BY <1>2, <1>3, <1>4, SimplifiedType
  <1> QED BY <1>5 DEF True

IsSolved(d, c, ms, pc) ==
    /\ d.PC = pc /\ d.cons = c.cons \cap ms /\ d.mem = c.mem
    /\ \A r \in Regs : d.reg[r] \in SimplifyUnder(c.reg[r], d.cons)

(* The contexts solve_cpu_context leaves: the constraint is added, and every *)
(* register is its old term or the one value it can still have.             *)
LEMMA SolvedFacts ==
    ASSUME NEW n \in Nat, NEW c \in Contexts(n), NEW ms \in SUBSET Models, NEW pc \in Nat,
           NEW d \in Solved(c, ms, pc)
    PROVE  d \in Contexts(n) /\ IsSolved(d, c, ms, pc)
  <1> DEFINE cons == c.cons \cap ms
             Values(r) == SimplifyUnder(c.reg[r], cons)
  <1>1. PICK f \in [Regs -> UNION {Values(r) : r \in Regs}] :
           /\ \A r \in Regs : f[r] \in Values(r)
           /\ d = [c EXCEPT !.cons = cons, !.PC = pc, !.reg = f]
    BY DEF Solved
  <1>2. c.reg \in [Regs -> HonestTerms] /\ cons \in SUBSET Models
    BY DEF Contexts
  <1>3. \A r \in Regs : f[r] \in HonestTerms
    BY <1>1, <1>2, SimplifyUnderType
  <1>4. f \in [Regs -> HonestTerms]
    BY <1>1, <1>3
  <1>5. d \in Contexts(n) /\ d.PC = pc /\ d.cons = cons /\ d.mem = c.mem /\ d.reg = f
    BY <1>1, <1>2, <1>4 DEF Contexts
  <1> QED BY <1>1, <1>5 DEF IsSolved

-----------------------------------------------------------------------------
\* The ways an iteration of cpu::run changes the function and the paths

ClosesPath(e) ==
    blocks' = [blocks EXCEPT ![ip].end = e] /\ ExploreOtherPaths /\ UNCHANGED <<CFG, VCFG>>

LeavesPath == UNCHANGED <<blocks, CFG, VCFG>> /\ ExploreOtherPaths

FailsInBlock(ins) ==
    blocks' = [Lifted(ins, NoAccess) EXCEPT ![New].end = Unreachable] /\ ExploreOtherPaths

ExtendsPath(ins, acc, c) == blocks' = Lifted(ins, acc) /\ Continue(c, New) /\ UNCHANGED stack

CutsPath(ins) == blocks' = Lifted(ins, NoAccess) /\ ExploreOtherPaths

Throws(ins, acc) == blocks' = Lifted(ins, acc) /\ Abort

ForksPath(ins, r, w, yes, no, c, d) ==
    /\ blocks' = ForkedBlocks(ins, r, w, yes, no)
    /\ stack' = Append(stack, [ctx |-> d, bb |-> New + 2])
    /\ Continue(c, New + 1)

Shape ==
    \/ \E e \in Ends(Len(blocks)) : e # Open /\ ClosesPath(e)
    \/ LeavesPath
    \/ \E ins \in BlockCode : FailsInBlock(ins) \/ CutsPath(ins)
    \/ \E ins \in BlockCode, acc \in AccessRecords : Throws(ins, acc)
    \/ \E ins \in BlockCode, acc \in AccessRecords, c \in Contexts(New) : ExtendsPath(ins, acc, c)
    \/ \E ins \in BlockCode, r \in Regs, w \in Words, c, d \in Contexts(New),
          yes, no \in BlockRecords(New + 2) :
          yes.end = Open /\ no.end = Open /\ ForksPath(ins, r, w, yes, no, c, d)

Maps == UNCHANGED <<CFG, VCFG>> \/ (~Known /\ SaveBlock)

(* The instruction at the program counter, and what is known of the context. *)
LEMMA HereFacts ==
    ASSUME TypeInv
    PROVE  /\ Here \in Instructions /\ Here \in BlockCode
           /\ ctx.PC \in Nat /\ ctx.PC + 1 \in Nat
           /\ ctx.reg \in [Regs -> HonestTerms] /\ ctx.mem \in [Words -> HonestTerms]
           /\ ctx.cons \in SUBSET Models
           /\ New \in Nat /\ New = Len(blocks) + 1 /\ Len(blocks) \in Nat
           /\ ctx \in Contexts(Len(blocks))
  <1>1. Here \in Instructions
    BY FetchType DEF TypeInv, Here, prog
  <1>2. ctx \in Contexts(Len(blocks)) /\ Len(blocks) \in Nat
    BY DEF TypeInv
  <1> QED BY <1>1, <1>2 DEF BlockCode, Contexts, New

LEMMA CodeFacts ==
    /\ Nop \in BlockCode /\ Keep \in BlockCode
    /\ \A r \in Regs, w \in Words : Set(r, w) \in BlockCode
  BY DEF BlockCode, Instructions, Set

(* branching decides the jump or forks. *)
LEMMA BranchingShape ==
    ASSUME TypeInv, NEW r \in Regs, NEW w \in Words, NEW yes \in Nat, NEW no \in Nat,
           Branching(r, w, yes, no)
    PROVE  Shape
  <1> USE HereFacts, SavedFacts
  <1>1. PICK cond \in Conditions(r, w) :
          IF OpaqueSolving /\ cond.lit
          THEN /\ Continue([Saved EXCEPT !.cons = @ \cap IF True(cond) # {} THEN True(cond)
                                                        ELSE Models \ True(cond),
                                        !.PC = IF True(cond) # {} THEN yes ELSE no], New)
               /\ blocks' = Lifted(Here, NoAccess)
               /\ UNCHANGED stack
          ELSE \E fall \in Solved(Saved, Models \ True(cond), no),
                  jump \in Solved(Saved, True(cond), yes) :
                  /\ blocks' = [Lifted(Here, NoAccess) EXCEPT
                                   ![New].end = CondBr(r, w, New + 1, New + 2)]
                               \o << Block(yes, Nop, NoAccess, Belief(jump)),
                                     Block(no, Nop, NoAccess, Belief(fall)) >>
                  /\ stack' = Append(stack, [ctx |-> fall, bb |-> New + 2])
                  /\ Continue(jump, New + 1)
    BY DEF Branching
  <1>2. True(cond) \in SUBSET Models
    BY DEF True
  <1>3. CASE OpaqueSolving /\ cond.lit
    <2> DEFINE cons == Saved.cons \cap IF True(cond) # {} THEN True(cond) ELSE Models \ True(cond)
               pc == IF True(cond) # {} THEN yes ELSE no
    <2>1. cons \in SUBSET Models /\ pc \in Nat
      BY <1>2
    <2> HIDE DEF cons, pc
    <2>2. [Saved EXCEPT !.cons = cons, !.PC = pc] \in Contexts(New)
      BY <2>1 DEF Contexts
    <2>3. ExtendsPath(Here, NoAccess, [Saved EXCEPT !.cons = cons, !.PC = pc])
      BY <1>1, <1>3 DEF ExtendsPath, cons, pc
    <2> QED BY <2>2, <2>3, NoAccessType DEF Shape
  <1>4. CASE ~(OpaqueSolving /\ cond.lit)
    <2>1. PICK fall \in Solved(Saved, Models \ True(cond), no),
               jump \in Solved(Saved, True(cond), yes) :
            ForksPath(Here, r, w, Block(yes, Nop, NoAccess, Belief(jump)),
                      Block(no, Nop, NoAccess, Belief(fall)), jump, fall)
      BY <1>1, <1>4 DEF ForksPath, ForkedBlocks
    <2>2. fall \in Contexts(New) /\ jump \in Contexts(New)
      BY <1>2, SolvedFacts
    <2>3. /\ Block(yes, Nop, NoAccess, Belief(jump)) \in BlockRecords(New + 2)
          /\ Block(no, Nop, NoAccess, Belief(fall)) \in BlockRecords(New + 2)
      BY <2>2, BlockType, CodeFacts, NoAccessType
    <2>4. /\ Block(yes, Nop, NoAccess, Belief(jump)).end = Open
          /\ Block(no, Nop, NoAccess, Belief(fall)).end = Open
      BY DEF Block
    <2> QED BY <2>1, <2>2, <2>3, <2>4 DEF Shape
  <1> QED BY <1>3, <1>4

(* CFG_recovery only ever answers with a block of the function. *)
LEMMA KnownBlock ==
    ASSUME TypeInv, Known
    PROVE  Index[1][Index[2]] \in 1..Len(blocks)
  <1>1. /\ CFG \in BlockMaps(Len(blocks)) /\ VCFG \in BlockMaps(Len(blocks))
        /\ ctx.PATH \in BlockMaps(Len(blocks)) /\ Len(blocks) \in Nat
    BY DEF TypeInv, Contexts
  <1>2. \A f \in BlockMaps(Len(blocks)) : \A k \in DOMAIN f : f[k] \in 1..Len(blocks)
    BY <1>1, BlockMapFacts
  <1>3. \/ Index = <<ctx.PATH, ctx.VPC>> \/ Index = <<CFG, ctx.PC>> \/ Index = <<VCFG, ctx.VPC>>
        \/ Index = << <<>>, 0>>
    BY DEF Index
  <1>4. Index # << <<>>, 0>>
    BY EmptyMap DEF Known
  <1> QED BY <1>1, <1>2, <1>3, <1>4 DEF Known

(* An instruction that only computes puts a term into its register. *)
LEMMA ComputedType ==
    ASSUME NEW ins \in Instructions, ins.op \in ComputeOps, NEW w \in Words
    PROVE  Computed(ins, w) \in Words
  <1>1. ins.op = "set" => ins.imm \in Words
    BY InstructionFields
  <1>2. CASE ins.op = "set"
    BY <1>1, <1>2 DEF Computed
  <1>3. CASE ins.op = "inc"
    <2>1. (w + 1) % WordCount \in Words
      BY MachineConstants DEF Words
    <2> QED BY <1>3, <2>1 DEF Computed
  <1>4. CASE ins.op = "bit"
    <2>1. w % 2 \in Words
      BY MachineConstants DEF Words
    <2> QED BY <1>4, <2>1 DEF Computed
  <1>5. CASE ins.op = "obf"
    BY <1>5, ModelFacts DEF Computed
  <1> QED BY <1>2, <1>3, <1>4, <1>5 DEF ComputeOps

LEMMA ComputationShape ==
    ASSUME TypeInv, LiftComputation
    PROVE  Shape
  <1> USE HereFacts, SavedFacts
  <1> DEFINE old == ctx.reg[Here.dst]
             den == [m \in Models |-> Computed(Here, old.den[m])]
  <1>1. Here.op \in ComputeOps /\ Here.dst \in Regs
    BY InstructionFields DEF LiftComputation, Reading
  <1>2. old \in HonestTerms
    BY <1>1
  <1>3. den \in [Models -> Words] /\ (Here.op = "set" \/ old.lit) \in BOOLEAN
    BY <1>1, <1>2, ComputedType DEF HonestTerms, Terms
  <1>4. PICK new \in Simplified(den, Here.op = "set" \/ old.lit) :
          Continue([Saved EXCEPT !.PC = @ + 1, !.reg[Here.dst] = new], New)
    BY DEF LiftComputation
  <1> HIDE DEF den, old
  <1>5. new \in HonestTerms
    BY <1>3, <1>4, SimplifiedType
  <1>6. [Saved EXCEPT !.PC = @ + 1, !.reg[Here.dst] = new] \in Contexts(New)
    BY <1>1, <1>5 DEF Contexts
  <1>7. ExtendsPath(Here, NoAccess, [Saved EXCEPT !.PC = @ + 1, !.reg[Here.dst] = new])
    BY <1>4 DEF ExtendsPath, LiftComputation
  <1> QED BY <1>6, <1>7, NoAccessType DEF Shape

LEMMA MemoryAccessShape ==
    ASSUME TypeInv, LiftMemoryAccess
    PROVE  Shape
  <1> USE HereFacts, SavedFacts
  <1>1. /\ Here.op \in {"load", "store"} /\ Here.addr \in Regs
        /\ (Here.op = "load" => Here.dst \in Regs) /\ (Here.op = "store" => Here.src \in Regs)
    BY InstructionFields DEF LiftMemoryAccess, Reading
  <1>2. PICK acc \in Accesses(ctx.reg[Here.addr], ctx.cons) :
          /\ blocks' = Lifted(Here, acc)
          /\ \/ acc = Throw /\ Abort
             \/ /\ acc # Throw
                /\ UNCHANGED stack
                /\ \/ /\ Here.op = "load"
                      /\ \E new \in Loaded(ctx, Here.addr, acc) :
                            Continue([Saved EXCEPT !.PC = @ + 1, !.reg[Here.dst] = new], New)
                   \/ /\ Here.op = "store"
                      /\ \E new \in Stored(ctx, Here.addr, acc, ctx.reg[Here.src]) :
                            Continue([Saved EXCEPT !.PC = @ + 1, !.mem = new], New)
    BY DEF LiftMemoryAccess
  <1>3. acc \in AccessRecords /\ (acc = Throw \/ acc.kind \in NoThrow)
    BY <1>1, AccessesType
  <1>4. CASE acc = Throw /\ Abort
    BY <1>2, <1>3, <1>4 DEF Shape, Throws
  <1>5. CASE acc # Throw /\ Here.op = "load"
    <2>1. PICK new \in Loaded(ctx, Here.addr, acc) :
            Continue([Saved EXCEPT !.PC = @ + 1, !.reg[Here.dst] = new], New)
      BY <1>2, <1>5
    <2>2. new \in HonestTerms
      BY <1>1, <1>3, <1>5, LoadedType
    <2>3. [Saved EXCEPT !.PC = @ + 1, !.reg[Here.dst] = new] \in Contexts(New)
      BY <1>1, <1>5, <2>2 DEF Contexts
    <2>4. ExtendsPath(Here, acc, [Saved EXCEPT !.PC = @ + 1, !.reg[Here.dst] = new])
      BY <1>2, <1>5, <2>1 DEF ExtendsPath
    <2> QED BY <1>3, <2>3, <2>4 DEF Shape
  <1>6. CASE acc # Throw /\ Here.op = "store"
    <2>1. PICK new \in Stored(ctx, Here.addr, acc, ctx.reg[Here.src]) :
            Continue([Saved EXCEPT !.PC = @ + 1, !.mem = new], New)
      BY <1>2, <1>6
    <2>2. new \in [Words -> HonestTerms]
      BY <1>1, <1>3, <1>6, StoredType
    <2>3. [Saved EXCEPT !.PC = @ + 1, !.mem = new] \in Contexts(New)
      BY <2>2 DEF Contexts
    <2>4. ExtendsPath(Here, acc, [Saved EXCEPT !.PC = @ + 1, !.mem = new])
      BY <1>2, <1>6, <2>1 DEF ExtendsPath
    <2> QED BY <1>3, <2>3, <2>4 DEF Shape
  <1> QED BY <1>1, <1>2, <1>4, <1>5, <1>6

LEMMA SelectShape ==
    ASSUME TypeInv, LiftSelect
    PROVE  Shape
  <1> USE HereFacts, SavedFacts
  <1>1. Here.op = "cmov" /\ Here.dst \in Regs /\ Here.cond \in Regs /\ Here.imm \in Words
    BY InstructionFields DEF LiftSelect, Reading
  <1>2. PICK cond \in Conditions(Here.cond, 0) :
          \E new \in Simplified([m \in Models |-> IF m \in True(cond) THEN Here.imm
                                                 ELSE ctx.reg[Here.dst].den[m]],
                                cond.lit /\ (ctx.reg[Here.dst].lit \/ True(cond) = Models)) :
             Continue([Saved EXCEPT !.PC = @ + 1, !.reg[Here.dst] = new], New)
    BY DEF LiftSelect
  <1> DEFINE den == [m \in Models |-> IF m \in True(cond) THEN Here.imm
                                     ELSE ctx.reg[Here.dst].den[m]]
             folded == cond.lit /\ (ctx.reg[Here.dst].lit \/ True(cond) = Models)
  <1>3. den \in [Models -> Words]
    BY <1>1 DEF HonestTerms, Terms
  <1>4. folded \in BOOLEAN
    OBVIOUS
  <1>5. PICK new \in Simplified(den, folded) :
          Continue([Saved EXCEPT !.PC = @ + 1, !.reg[Here.dst] = new], New)
    BY <1>2
  <1> HIDE DEF den, folded
  <1>6. new \in HonestTerms
    BY <1>3, <1>4, <1>5, SimplifiedType
  <1>7. [Saved EXCEPT !.PC = @ + 1, !.reg[Here.dst] = new] \in Contexts(New)
    BY <1>1, <1>6 DEF Contexts
  <1>8. ExtendsPath(Here, NoAccess, [Saved EXCEPT !.PC = @ + 1, !.reg[Here.dst] = new])
    BY <1>5 DEF ExtendsPath, LiftSelect
  <1> QED BY <1>7, <1>8, NoAccessType DEF Shape

LEMMA MoveContexts ==
    ASSUME TypeInv, Here.op = "cmov"
    PROVE  /\ Moved(Saved) \in Contexts(New) /\ Kept(Saved) \in Contexts(New)
           /\ Set(Here.dst, Here.imm) \in BlockCode
  <1> USE HereFacts, SavedFacts
  <1>1. Here.dst \in Regs /\ Here.imm \in Words
    BY InstructionFields
  <1>2. Literal(Here.imm) \in HonestTerms
    BY <1>1, LeafTerms
  <1> QED BY <1>1, <1>2, CodeFacts DEF Moved, Kept, Contexts

LEMMA ConditionalMoveShape ==
    ASSUME TypeInv, LiftConditionalMove
    PROVE  Shape
  <1> USE HereFacts, SavedFacts
  <1> DEFINE move == Set(Here.dst, Here.imm)
             yes == Block(ctx.PC, move, NoAccess, Belief(ctx))
             no == Block(ctx.PC, Keep, NoAccess, Belief(ctx))
  <1>1. Here.op = "cmov" /\ Here.cond \in Regs
    BY InstructionFields DEF LiftConditionalMove, Reading
  <1>2. PICK cond \in Conditions(Here.cond, 0) :
          IF OpaqueSolving /\ Mode # "vcfg" /\ cond.lit
          THEN /\ blocks' = Lifted(IF True(cond) # {} THEN move ELSE Keep, NoAccess)
               /\ Continue(IF True(cond) # {} THEN Moved(Saved) ELSE Kept(Saved), New)
               /\ UNCHANGED stack
          ELSE ForksPath(Nop, Here.cond, 0, yes, no, Moved(Saved), Kept(Saved))
    BY DEF LiftConditionalMove, ForksPath, ForkedBlocks
  <1>3. Moved(Saved) \in Contexts(New) /\ Kept(Saved) \in Contexts(New) /\ move \in BlockCode
    BY <1>1, MoveContexts
  <1> HIDE DEF move
  <1>4. yes \in BlockRecords(New + 2) /\ no \in BlockRecords(New + 2)
    BY <1>3, BlockType, CodeFacts, NoAccessType
  <1>5. yes.end = Open /\ no.end = Open
    BY DEF Block
  <1> HIDE DEF yes, no
  <1>6. CASE OpaqueSolving /\ Mode # "vcfg" /\ cond.lit
    <2>1. ExtendsPath(IF True(cond) # {} THEN move ELSE Keep, NoAccess,
                      IF True(cond) # {} THEN Moved(Saved) ELSE Kept(Saved))
      BY <1>2, <1>6 DEF ExtendsPath
    <2>2. (IF True(cond) # {} THEN move ELSE Keep) \in BlockCode
      BY <1>3, CodeFacts
    <2>3. (IF True(cond) # {} THEN Moved(Saved) ELSE Kept(Saved)) \in Contexts(New)
      BY <1>3
    <2> QED BY <2>1, <2>2, <2>3, NoAccessType DEF Shape
  <1>7. CASE ~(OpaqueSolving /\ Mode # "vcfg" /\ cond.lit)
    <2>1. ForksPath(Nop, Here.cond, 0, yes, no, Moved(Saved), Kept(Saved))
      BY <1>2, <1>7
    <2> QED BY <1>1, <1>3, <1>4, <1>5, <2>1, CodeFacts, ModelFacts DEF Shape
  <1> QED BY <1>6, <1>7

LEMMA DirectJumpShape ==
    ASSUME TypeInv, LiftDirectJump
    PROVE  Shape
  <1> USE HereFacts, SavedFacts
  <1>1. Here.to \in Nat
    BY InstructionFields DEF LiftDirectJump, Reading
  <1>2. [Saved EXCEPT !.PC = Here.to] \in Contexts(New)
    BY <1>1 DEF Contexts
  <1>3. ExtendsPath(Here, NoAccess, [Saved EXCEPT !.PC = Here.to])
    BY DEF ExtendsPath, LiftDirectJump
  <1> QED BY <1>2, <1>3, NoAccessType DEF Shape

LEMMA ConditionalJumpShape ==
    ASSUME TypeInv, LiftConditionalJump
    PROVE  Shape
  <1>1. Here.to \in Nat /\ Here.cond \in Regs /\ ctx.PC + 1 \in Nat
    BY HereFacts, InstructionFields DEF LiftConditionalJump, Reading
  <1>2. Branching(Here.cond, 0, Here.to, ctx.PC + 1)
    BY DEF LiftConditionalJump
  <1> QED BY <1>1, <1>2, ModelFacts, BranchingShape

(* The target of an indirect jump is a term; one that is a literal has a value. *)
LEMMA TargetType ==
    ASSUME TypeInv, Here.op \in IndirectOps
    PROVE  /\ Target \in HonestTerms
           /\ (CHOOSE w \in Solutions(Target, Models) : TRUE) \in Words
           /\ (CHOOSE w \in Solutions(ctx.reg["v"], Models) : TRUE) \in Words
           /\ Here.op # "ret" => Here.cond \in Regs /\ Target = ctx.reg[Here.cond]
  <1>1. Here.op # "ret" => Here.cond \in Regs
    BY HereFacts, InstructionFields DEF IndirectOps
  <1>2. Target \in HonestTerms
    BY <1>1, HereFacts, LeafTerms, ModelFacts DEF Target
  <1>3. ctx.reg["v"] \in HonestTerms
    BY HereFacts DEF Regs
  <1>4. \A t \in HonestTerms : Solutions(t, Models) # {} /\ Solutions(t, Models) \subseteq Words
    BY SolutionsType, ModelFacts DEF Solutions
  <1> QED BY <1>1, <1>2, <1>3, <1>4 DEF Target

LEMMA ConcreteJumpShape ==
    ASSUME TypeInv, LiftConcreteJump
    PROVE  Shape
  <1> USE HereFacts, SavedFacts
  <1> DEFINE pc == CHOOSE w \in Solutions(Target, Models) : TRUE
             vpc == CHOOSE w \in Solutions(ctx.reg["v"], Models) : TRUE
  <1>1. Here.op \in IndirectOps /\ blocks' = Lifted(Here, NoAccess)
    BY DEF LiftConcreteJump, Reading
  <1>2. \/ Continue([Saved EXCEPT !.PC = pc], New) /\ UNCHANGED stack
        \/ Continue([Saved EXCEPT !.PC = pc, !.VPC = vpc, !.VJMP = TRUE], New) /\ UNCHANGED stack
        \/ Abort
    BY DEF LiftConcreteJump
  <1>3. pc \in Words /\ vpc \in Words /\ pc \in Nat
    BY <1>1, TargetType, ModelFacts
  <1> HIDE DEF pc, vpc
  <1>4. CASE Continue([Saved EXCEPT !.PC = pc], New) /\ UNCHANGED stack
    <2>1. [Saved EXCEPT !.PC = pc] \in Contexts(New)
      BY <1>3 DEF Contexts
    <2> QED BY <1>1, <1>4, <2>1, NoAccessType DEF Shape, ExtendsPath
  <1>5. CASE Continue([Saved EXCEPT !.PC = pc, !.VPC = vpc, !.VJMP = TRUE], New) /\ UNCHANGED stack
    <2>1. [Saved EXCEPT !.PC = pc, !.VPC = vpc, !.VJMP = TRUE] \in Contexts(New)
      BY <1>3 DEF Contexts
    <2> QED BY <1>1, <1>5, <2>1, NoAccessType DEF Shape, ExtendsPath
  <1>6. CASE Abort
    BY <1>1, <1>6, NoAccessType DEF Shape, Throws
  <1> QED BY <1>2, <1>4, <1>5, <1>6

LEMMA SymbolicJumpShape ==
    ASSUME TypeInv, LiftSymbolicJump
    PROVE  Shape
  <1> USE HereFacts, SavedFacts
  <1>1. Here.op \in IndirectOps /\ ~Target.lit
    BY DEF LiftSymbolicJump, Reading
  <1>2. /\ Target \in HonestTerms
        /\ Here.op # "ret"
        /\ Here.cond \in Regs
    <2>1. Here.op # "ret"
      BY <1>1 DEF Target, Literal
    <2> QED BY <1>1, <2>1, TargetType
  <1>3. PICK q \in PossibleValues(Target, ctx.cons) :
          \/ /\ \E w \in q.vals : Continue([Saved EXCEPT !.PC = w], New)
             /\ blocks' = Lifted(Here, NoAccess)
             /\ UNCHANGED stack
          \/ \E front, back \in q.vals : Branching(Here.cond, front, front, back)
          \/ blocks' = Lifted(Here, NoAccess) /\ ExploreOtherPaths
    BY DEF LiftSymbolicJump
  <1>4. q.vals \subseteq Words /\ q.vals \subseteq Nat
    BY <1>2, PossibleValuesType, ModelFacts
  <1>5. CASE /\ \E w \in q.vals : Continue([Saved EXCEPT !.PC = w], New)
             /\ blocks' = Lifted(Here, NoAccess)
             /\ UNCHANGED stack
    <2>1. PICK w \in q.vals : Continue([Saved EXCEPT !.PC = w], New)
      BY <1>5
    <2>2. [Saved EXCEPT !.PC = w] \in Contexts(New)
      BY <1>4, <2>1 DEF Contexts
    <2> QED BY <1>5, <2>1, <2>2, NoAccessType DEF Shape, ExtendsPath
  <1>6. CASE \E front, back \in q.vals : Branching(Here.cond, front, front, back)
    BY <1>2, <1>4, <1>6, BranchingShape
  <1>7. CASE blocks' = Lifted(Here, NoAccess) /\ ExploreOtherPaths
    BY <1>7 DEF Shape, CutsPath
  <1> QED BY <1>3, <1>5, <1>6, <1>7

(* Every iteration of the loop has one of the shapes. *)
LEMMA StepShapes ==
    ASSUME TypeInv, Lift
    PROVE  phase = "lift" /\ Shape /\ Maps
  <1>1. CASE FunctionEnded
    <2>1. ReturnState \in Ends(Len(blocks)) /\ ReturnState # Open
      BY HereFacts, EndFacts
    <2> QED BY <1>1, <2>1 DEF FunctionEnded, Shape, ClosesPath, Maps
  <1>2. CASE EdgeRebuilt
    <2>1. /\ Br(Index[1][Index[2]]) \in Ends(Len(blocks))
          /\ Br(Index[1][Index[2]]) # Open
      BY <1>2, KnownBlock, HereFacts, EndFacts DEF EdgeRebuilt
    <2> QED BY <1>2, <2>1 DEF EdgeRebuilt, Shape, ClosesPath, Maps
  <1>3. CASE DecodeFails
    BY <1>3 DEF DecodeFails, Reading, Shape, LeavesPath, Maps
  <1>4. CASE LiftFails
    BY <1>4, HereFacts DEF LiftFails, Reading, Shape, FailsInBlock, Maps
  <1>5. CASE LiftComputation
    BY <1>5, ComputationShape DEF LiftComputation, Reading, Maps
  <1>6. CASE LiftMemoryAccess
    BY <1>6, MemoryAccessShape DEF LiftMemoryAccess, Reading, Maps
  <1>7. CASE LiftSelect
    BY <1>7, SelectShape DEF LiftSelect, Reading, Maps
  <1>8. CASE LiftConditionalMove
    BY <1>8, ConditionalMoveShape DEF LiftConditionalMove, Reading, Maps
  <1>9. CASE LiftDirectJump
    BY <1>9, DirectJumpShape DEF LiftDirectJump, Reading, Maps
  <1>10. CASE LiftConditionalJump
    BY <1>10, ConditionalJumpShape DEF LiftConditionalJump, Reading, Maps
  <1>11. CASE LiftConcreteJump
    BY <1>11, ConcreteJumpShape DEF LiftConcreteJump, Reading, Maps
  <1>12. CASE LiftSymbolicJump
    BY <1>12, SymbolicJumpShape DEF LiftSymbolicJump, Reading, Maps
  <1> QED BY <1>1, <1>2, <1>3, <1>4, <1>5, <1>6, <1>7, <1>8, <1>9, <1>10, <1>11, <1>12 DEF Lift

-----------------------------------------------------------------------------
\* Type correctness

(* explore_other_paths: the run ends, or the last saved path is taken up. *)
LEMMA ExploreFacts ==
    ASSUME NEW n \in Nat, stack \in Seq(SavedPaths(n)), ctx \in Contexts(n), ip \in 1..n,
           ExploreOtherPaths
    PROVE  /\ ctx' \in Contexts(n) /\ ip' \in 1..n /\ stack' \in Seq(SavedPaths(n))
           /\ UNCHANGED job
           /\ phase' = "done" \/ (UNCHANGED phase /\ Len(stack) \in 1..Len(stack)
                                 /\ ctx' = stack[Len(stack)].ctx /\ ip' = stack[Len(stack)].bb)
           /\ phase' = "done" => UNCHANGED <<ctx, ip, stack>> \/ UNCHANGED phase
           /\ Len(stack') <= Len(stack)
           /\ phase' # "done" => Len(stack') = Len(stack) - 1
           /\ \A i \in 1..Len(stack') : stack'[i] = stack[i]
  <1>1. CASE stack = <<>>
    BY <1>1 DEF ExploreOtherPaths
  <1>2. CASE stack # <<>>
    <2>1. Len(stack) \in Nat /\ Len(stack) \in 1..Len(stack)
      BY <1>2, EmptySeq
    <2>2. stack[Len(stack)] \in SavedPaths(n)
      BY <2>1, ElementOfSeq
    <2>3. /\ ctx' = stack[Len(stack)].ctx /\ ip' = stack[Len(stack)].bb
          /\ stack' = SubSeq(stack, 1, Len(stack) - 1)
          /\ UNCHANGED <<phase, job>>
      BY <1>2 DEF ExploreOtherPaths, Top
    <2>4. \A i \in 1..(Len(stack) - 1) : stack[i] \in SavedPaths(n)
      BY <2>1, ElementOfSeq
    <2>5. /\ stack' \in Seq(SavedPaths(n))
          /\ Len(stack') = Len(stack) - 1
          /\ \A i \in 1..(Len(stack) - 1) : stack'[i] = stack[i]
      <3> DEFINE k == Len(stack) - 1
      <3>1. k \in Int /\ k >= 0
        BY <2>1
      <3>2. /\ SubSeq(stack, 1, k) \in Seq(SavedPaths(n))
            /\ Len(SubSeq(stack, 1, k)) = IF 1 <= k THEN k - 1 + 1 ELSE 0
            /\ \A i \in 1..(k - 1 + 1) : SubSeq(stack, 1, k)[i] = stack[1 + i - 1]
        <4> HIDE DEF k
        <4>1. \A i \in 1..k : stack[i] \in SavedPaths(n)
          BY <2>4 DEF k
        <4> QED BY <3>1, <4>1, SubSeqProperties
      <3> DEFINE sub == SubSeq(stack, 1, k)
      <3> HIDE DEF sub, k
      <3>3. Len(sub) = IF 1 <= k THEN k - 1 + 1 ELSE 0
        BY <3>2 DEF sub
      <3>4. \A i \in 1..k : sub[i] = stack[i]
        <4> TAKE i \in 1..k
        <4>1. i \in 1..(k - 1 + 1) /\ 1 + i - 1 = i
          BY <3>1
        <4>2. \A j \in 1..(k - 1 + 1) : sub[j] = stack[1 + j - 1]
          BY <3>2 DEF sub
        <4> QED BY <4>1, <4>2
      <3>5. Len(sub) = k
        BY <3>1, <3>3
      <3>6. stack' = sub
        BY <2>3 DEF sub, k
      <3> QED BY <3>2, <3>4, <3>5, <3>6 DEF sub, k
    <2>6. ctx' \in Contexts(n) /\ ip' \in 1..n
      BY <2>2, <2>3 DEF SavedPaths
    <2> QED BY <2>1, <2>3, <2>5, <2>6
  <1> QED BY <1>1, <1>2

(* The maps of CFG recovery keep their types. *)
LEMMA MapsType ==
    ASSUME TypeInv, Maps, NEW k \in Nat, Len(blocks) <= k, UNCHANGED <<CFG, VCFG>> \/ New <= k
    PROVE  CFG' \in BlockMaps(k) /\ VCFG' \in BlockMaps(k)
  <1>1. /\ CFG \in BlockMaps(Len(blocks)) /\ VCFG \in BlockMaps(Len(blocks))
        /\ Len(blocks) \in Nat /\ New \in Nat /\ New = Len(blocks) + 1 /\ ctx.PC \in Nat
    BY HereFacts DEF TypeInv
  <1>2. ctx.VPC \in Nat
    BY HereFacts, ModelFacts DEF Contexts
  <1>3. CASE UNCHANGED <<CFG, VCFG>>
    BY <1>1, <1>3, Growing
  <1>4. CASE ~Known /\ SaveBlock /\ New <= k
    <2>1. New \in 1..(Len(blocks) + 1)
      BY <1>1
    <2> HIDE DEF New
    <2>2. /\ Bind(CFG, ctx.PC, New) \in BlockMaps(New)
          /\ TryBind(VCFG, ctx.VPC, New) \in BlockMaps(New)
      BY <1>1, <1>2, <2>1, BindType
    <2>3. CFG \in BlockMaps(New) /\ VCFG \in BlockMaps(New)
      BY <1>1, Growing
    <2>4. CFG' \in BlockMaps(New) /\ VCFG' \in BlockMaps(New)
      BY <1>4, <2>2, <2>3 DEF SaveBlock
    <2> QED BY <1>1, <1>4, <2>4, Growing
  <1> QED BY <1>3, <1>4 DEF Maps

(* TypeInv is kept by every iteration. *)
LEMMA TypeStep ==
    ASSUME TypeInv, Lift
    PROVE  TypeInv'
  <1>1. phase = "lift" /\ Shape /\ Maps
    BY StepShapes
  <1>2. /\ Len(blocks) \in Nat /\ New \in Nat /\ New = Len(blocks) + 1
        /\ blocks \in Seq(BlockRecords(Len(blocks)))
        /\ ip \in 1..Len(blocks) /\ ctx \in Contexts(Len(blocks))
        /\ stack \in Seq(SavedPaths(Len(blocks))) /\ job \in Jobs
    BY DEF TypeInv, New
  <1>3. \A k \in Nat : Len(blocks) <= k =>
           /\ ip \in 1..k /\ ctx \in Contexts(k) /\ stack \in Seq(SavedPaths(k))
    <2> TAKE k \in Nat
    <2> HAVE Len(blocks) <= k
    <2>1. SavedPaths(Len(blocks)) \subseteq SavedPaths(k)
      BY <1>2, Growing
    <2>2. stack \in Seq(SavedPaths(k))
      BY <1>2, <2>1, SeqMonotonic
    <2> QED BY <1>2, <2>2, Growing
  <1> DEFINE Typed(k) == /\ Len(blocks') = k /\ blocks' \in Seq(BlockRecords(k))
                         /\ ip' \in 1..k /\ ctx' \in Contexts(k) /\ stack' \in Seq(SavedPaths(k))
                         /\ job' \in Jobs /\ phase' \in {"lift", "done", "aborted"}
  <1> HIDE DEF New
  <1>4. ASSUME NEW k \in {Len(blocks), New}, Len(blocks') = k, blocks' \in Seq(BlockRecords(k)),
               ExploreOtherPaths
        PROVE  Typed(k)
    BY <1>1, <1>2, <1>3, <1>4, ExploreFacts
  <1>5. (Typed(Len(blocks)) /\ UNCHANGED <<CFG, VCFG>>) \/ Typed(New) \/ Typed(New + 2)
    <2>1. ASSUME NEW e \in Ends(Len(blocks)), ClosesPath(e)
          PROVE  Typed(Len(blocks)) /\ UNCHANGED <<CFG, VCFG>>
      <3>1. /\ [blocks EXCEPT ![ip].end = e] \in Seq(BlockRecords(Len(blocks)))
            /\ Len([blocks EXCEPT ![ip].end = e]) = Len(blocks)
        BY <1>2, CloseFacts
      <3> QED BY <1>4, <2>1, <3>1 DEF ClosesPath
    <2>2. CASE LeavesPath
      BY <1>2, <1>4, <2>2 DEF LeavesPath
    <2>3. ASSUME NEW ins \in BlockCode, FailsInBlock(ins)
          PROVE  Typed(New)
      <3>1. /\ Lifted(ins, NoAccess) \in Seq(BlockRecords(New))
            /\ Len(Lifted(ins, NoAccess)) = New
        BY LiftedFacts, NoAccessType
      <3>2. Unreachable \in Ends(New) /\ New \in 1..New
        BY <1>2, EndFacts
      <3> DEFINE L == Lifted(ins, NoAccess)
      <3> HIDE DEF L
      <3>3. /\ [L EXCEPT ![New].end = Unreachable] \in Seq(BlockRecords(New))
            /\ Len([L EXCEPT ![New].end = Unreachable]) = New
        <4>1. L \in Seq(BlockRecords(New)) /\ Len(L) = New /\ New \in 1..Len(L)
          BY <3>1, <3>2 DEF L
        <4> QED BY <1>2, <3>2, <4>1, CloseFacts, SMTT(30)
      <3>4. blocks' = [L EXCEPT ![New].end = Unreachable]
        BY <2>3 DEF FailsInBlock, L
      <3> QED BY <1>4, <2>3, <3>3, <3>4 DEF FailsInBlock
    <2>4. ASSUME NEW ins \in BlockCode, CutsPath(ins)
          PROVE  Typed(New)
      BY <1>4, <2>4, LiftedFacts, NoAccessType DEF CutsPath
    <2>5. ASSUME NEW ins \in BlockCode, NEW acc \in AccessRecords, Throws(ins, acc)
          PROVE  Typed(New)
      BY <1>2, <1>3, <2>5, LiftedFacts DEF Throws, Abort
    <2>6. ASSUME NEW ins \in BlockCode, NEW acc \in AccessRecords, NEW c \in Contexts(New),
                 ExtendsPath(ins, acc, c)
          PROVE  Typed(New)
      BY <1>1, <1>2, <1>3, <2>6, LiftedFacts DEF ExtendsPath, Continue
    <2>7. ASSUME NEW ins \in BlockCode, NEW r \in Regs, NEW w \in Words,
                 NEW c \in Contexts(New), NEW d \in Contexts(New),
                 NEW yes \in BlockRecords(New + 2), NEW no \in BlockRecords(New + 2),
                 ForksPath(ins, r, w, yes, no, c, d)
          PROVE  Typed(New + 2)
      <3>1. blocks' \in Seq(BlockRecords(New + 2)) /\ Len(blocks') = New + 2
        <4>1. IsFork(ForkedBlocks(ins, r, w, yes, no), ins, r, w, yes, no)
          BY ForkFacts
        <4> QED BY <2>7, <4>1 DEF ForksPath, IsFork
      <3>2. c \in Contexts(New + 2) /\ d \in Contexts(New + 2) /\ New + 2 \in Nat
        BY <1>2, Growing
      <3>3. /\ [ctx |-> d, bb |-> New + 2] \in SavedPaths(New + 2)
            /\ stack \in Seq(SavedPaths(New + 2))
        BY <1>2, <1>3, <3>2 DEF SavedPaths
      <3>4. stack' \in Seq(SavedPaths(New + 2))
        BY <2>7, <3>3, AppendProperties DEF ForksPath
      <3> QED BY <1>1, <1>2, <2>7, <3>1, <3>2, <3>4 DEF ForksPath, Continue
    <2> QED BY <1>1, <2>1, <2>2, <2>3, <2>4, <2>5, <2>6, <2>7 DEF Shape
  <1>6. CFG' \in BlockMaps(Len(blocks')) /\ VCFG' \in BlockMaps(Len(blocks'))
    <2>1. CASE Typed(New) \/ Typed(New + 2)
      BY <1>1, <1>2, <2>1, MapsType, SMTT(30)
    <2>2. CASE Typed(Len(blocks)) /\ UNCHANGED <<CFG, VCFG>>
      BY <1>1, <1>2, <2>2, MapsType
    <2> QED BY <1>5, <2>1, <2>2
  <1> QED BY <1>5, <1>6 DEF TypeInv

(* The lifter starts with the types of TypeInv. *)
LEMMA TypeInit ==
    ASSUME Init
    PROVE  TypeInv
  <1> USE DEF Init
  <1>1. InitialContext \in Contexts(1)
    <2>1. Literal(0) \in HonestTerms /\ Argument \in HonestTerms
      BY LeafTerms, ModelFacts
    <2>2. [r \in Regs |-> IF r = "x" THEN Argument ELSE Literal(0)] \in [Regs -> HonestTerms]
      BY <2>1
    <2>3. [a \in Words |-> Literal(0)] \in [Words -> HonestTerms]
      BY <2>1
    <2> QED BY <2>2, <2>3, ModelFacts, EmptyMap DEF InitialContext, Contexts
  <1>2. Block(1, Nop, NoAccess, Belief(InitialContext)) \in BlockRecords(1)
    BY <1>1, BlockType, CodeFacts, NoAccessType
  <1>3. /\ <<Block(1, Nop, NoAccess, Belief(InitialContext))>> \in Seq(BlockRecords(1))
        /\ Len(<<Block(1, Nop, NoAccess, Belief(InitialContext))>>) = 1
    BY <1>2
  <1>4. blocks \in Seq(BlockRecords(1)) /\ Len(blocks) = 1
    BY <1>3
  <1>5. stack \in Seq(SavedPaths(1)) /\ CFG \in BlockMaps(1) /\ VCFG \in BlockMaps(1)
    BY EmptySeq, EmptyMap
  <1> QED BY <1>1, <1>4, <1>5 DEF TypeInv

(* TypeInv says more than TypeOK. *)
LEMMA TypeImplied ==
    ASSUME TypeInv
    PROVE  TypeOK
  <1>1. /\ Len(blocks) \in Nat /\ Blocks = 1..Len(blocks)
        /\ blocks \in Seq(BlockRecords(Len(blocks)))
    BY DEF TypeInv, Blocks
  <1>2. \A f \in BlockMaps(Len(blocks)) : IsBlockMap(f)
    BY <1>1, BlockMapFacts DEF IsBlockMap
  <1>3. \A c \in Contexts(Len(blocks)) : IsContext(c)
    <2> SUFFICES ASSUME NEW c \in Contexts(Len(blocks))
                 PROVE  IsContext(c)
      OBVIOUS
    <2>1. c.reg \in [Regs -> HonestTerms] /\ c.mem \in [Words -> HonestTerms]
      BY DEF Contexts
    <2>2. c.reg \in [Regs -> Terms] /\ c.mem \in [Words -> Terms]
      BY <2>1 DEF HonestTerms
    <2> QED BY <1>2, <2>2 DEF IsContext, Contexts
  <1>4. \A b \in Blocks : Successors(blocks[b].end) \subseteq Blocks
    <2> TAKE b \in Blocks
    <2>1. blocks[b] \in BlockRecords(Len(blocks))
      BY <1>1, ElementOfSeq
    <2>2. blocks[b].end \in Ends(Len(blocks))
      BY <2>1 DEF BlockRecords
    <2> QED BY <1>1, <2>2, EndFacts
  <1>5. \A i \in DOMAIN stack : IsContext(stack[i].ctx) /\ stack[i].bb \in Blocks
    <2> TAKE i \in DOMAIN stack
    <2>1. stack[i] \in SavedPaths(Len(blocks))
      BY DEF TypeInv
    <2> QED BY <1>1, <1>3, <2>1 DEF SavedPaths
  <1> QED BY <1>1, <1>2, <1>3, <1>4, <1>5 DEF TypeInv, TypeOK

-----------------------------------------------------------------------------
\* Ownership of blocks

\* a step of the loop closes at most the block at its insert point
OnlyInsertPoint ==
    /\ Len(blocks) <= Len(blocks')
    /\ \A j \in 1..Len(blocks) :
          /\ j # ip => blocks'[j] = blocks[j]
          /\ blocks'[j].at = blocks[j].at /\ blocks'[j].ins = blocks[j].ins
          /\ blocks'[j].acc = blocks[j].acc /\ blocks'[j].belief = blocks[j].belief

LEMMA InsertPointStep ==
    ASSUME TypeInv, Lift
    PROVE  OnlyInsertPoint
  <1>1. Shape
    BY StepShapes
  <1>2. /\ Len(blocks) \in Nat /\ New \in Nat /\ New = Len(blocks) + 1 /\ ip \in 1..Len(blocks)
        /\ blocks \in Seq(BlockRecords(Len(blocks)))
    BY DEF TypeInv, New
  <1>3. blocks[ip] \in BlockRecords(Len(blocks))
    BY <1>2, ElementOfSeq
  <1>4. \A e : LET b == [blocks[ip] EXCEPT !.end = e]
               IN /\ b.at = blocks[ip].at /\ b.ins = blocks[ip].ins /\ b.acc = blocks[ip].acc
                  /\ b.belief = blocks[ip].belief
    BY <1>3 DEF BlockRecords
  <1> HIDE DEF New
  <1>5. ASSUME NEW e, Len(blocks) <= Len(blocks'),
               \A j \in 1..Len(blocks) : blocks'[j] =
                  IF j = ip THEN [blocks[ip] EXCEPT !.end = e] ELSE blocks[j]
        PROVE  OnlyInsertPoint
    BY <1>2, <1>4, <1>5 DEF OnlyInsertPoint
  <1>6. ASSUME NEW e \in Ends(Len(blocks)), ClosesPath(e)
        PROVE  OnlyInsertPoint
    <2>1. /\ Len([blocks EXCEPT ![ip].end = e]) = Len(blocks)
          /\ \A j \in 1..Len(blocks) : [blocks EXCEPT ![ip].end = e][j] =
                IF j = ip THEN [blocks[ip] EXCEPT !.end = e] ELSE blocks[j]
      BY <1>2, CloseFacts
    <2> QED BY <1>2, <1>5, <1>6, <2>1 DEF ClosesPath
  <1>7. CASE LeavesPath
    BY <1>2, <1>7 DEF LeavesPath, OnlyInsertPoint
  <1>8. ASSUME NEW ins \in BlockCode, NEW acc \in AccessRecords, blocks' = Lifted(ins, acc)
        PROVE  OnlyInsertPoint
    <2>1. /\ Len(blocks) <= Len(blocks')
          /\ \A j \in 1..Len(blocks) : blocks'[j] =
                IF j = ip THEN [blocks[ip] EXCEPT !.end = Br(New)] ELSE blocks[j]
      BY <1>2, <1>8, LiftedFacts
    <2> QED BY <1>5, <2>1
  <1>9. ASSUME NEW ins \in BlockCode, FailsInBlock(ins)
        PROVE  OnlyInsertPoint
    <2> DEFINE L == Lifted(ins, NoAccess)
    <2>1. /\ L \in Seq(BlockRecords(New)) /\ Len(L) = New
          /\ \A j \in 1..Len(blocks) : L[j] =
                IF j = ip THEN [blocks[ip] EXCEPT !.end = Br(New)] ELSE blocks[j]
      BY LiftedFacts, NoAccessType
    <2>2. blocks' = [L EXCEPT ![New].end = Unreachable]
      BY <1>9 DEF FailsInBlock
    <2> HIDE DEF L
    <2>3. Unreachable \in Ends(New) /\ New \in 1..Len(L)
      BY <1>2, <2>1, EndFacts
    <2>4. /\ Len([L EXCEPT ![New].end = Unreachable]) = New
          /\ \A j \in 1..New : [L EXCEPT ![New].end = Unreachable][j] =
                IF j = New THEN [L[New] EXCEPT !.end = Unreachable] ELSE L[j]
      BY <1>2, <2>1, <2>3, CloseFacts
    <2>5. \A j \in 1..Len(blocks) : j \in 1..New /\ j # New
      BY <1>2
    <2>6. /\ Len(blocks) <= Len(blocks')
          /\ \A j \in 1..Len(blocks) : blocks'[j] =
                IF j = ip THEN [blocks[ip] EXCEPT !.end = Br(New)] ELSE blocks[j]
      BY <1>2, <2>1, <2>2, <2>4, <2>5
    <2> QED BY <1>5, <2>6
  <1>10. ASSUME NEW ins \in BlockCode, NEW r \in Regs, NEW w \in Words,
                NEW c \in Contexts(New), NEW d \in Contexts(New),
                NEW yes \in BlockRecords(New + 2), NEW no \in BlockRecords(New + 2),
                ForksPath(ins, r, w, yes, no, c, d)
         PROVE  OnlyInsertPoint
    <2>1. IsFork(ForkedBlocks(ins, r, w, yes, no), ins, r, w, yes, no)
      BY ForkFacts
    <2>2. IsFork(blocks', ins, r, w, yes, no)
      BY <1>10, <2>1 DEF ForksPath
    <2>3. /\ Len(blocks) <= Len(blocks')
          /\ \A j \in 1..Len(blocks) : blocks'[j] =
                IF j = ip THEN [blocks[ip] EXCEPT !.end = Br(New)] ELSE blocks[j]
      BY <1>2, <2>2 DEF IsFork
    <2> QED BY <1>5, <2>3
  <1> QED BY <1>1, <1>6, <1>7, <1>8, <1>9, <1>10, NoAccessType
        DEF Shape, CutsPath, Throws, ExtendsPath

(* The blocks a step adds: the one it goes on with, and the one it saves. *)
LEMMA AddedBlocks ==
    ASSUME TypeInv, Lift
    PROVE  \/ ExploreOtherPaths
           \/ phase' = "aborted"
           \/ ip' > Len(blocks) /\ blocks'[ip'].end = Open /\ UNCHANGED stack
           \/ /\ ip' > Len(blocks) /\ blocks'[ip'].end = Open
              /\ \E p \in SavedPaths(Len(blocks')) :
                    /\ stack' = Append(stack, p)
                    /\ p.bb > Len(blocks) /\ p.bb # ip' /\ blocks'[p.bb].end = Open
  <1>1. Shape
    BY StepShapes
  <1>2. /\ Len(blocks) \in Nat /\ New \in Nat /\ New = Len(blocks) + 1 /\ New > Len(blocks)
    BY HereFacts
  <1> HIDE DEF New
  <1>3. CASE \/ \E e \in Ends(Len(blocks)) : e # Open /\ ClosesPath(e)
             \/ LeavesPath
             \/ \E ins \in BlockCode : FailsInBlock(ins) \/ CutsPath(ins)
    BY <1>3 DEF ClosesPath, LeavesPath, FailsInBlock, CutsPath
  <1>4. ASSUME NEW ins \in BlockCode, NEW acc \in AccessRecords, Throws(ins, acc)
        PROVE  phase' = "aborted"
    BY <1>4 DEF Throws, Abort
  <1>5. ASSUME NEW ins \in BlockCode, NEW acc \in AccessRecords, NEW c, ExtendsPath(ins, acc, c)
        PROVE  ip' > Len(blocks) /\ blocks'[ip'].end = Open /\ UNCHANGED stack
    <2>1. blocks'[New] = Block(ctx.PC, ins, acc, Belief(ctx))
      BY <1>5, LiftedFacts DEF ExtendsPath
    <2> QED BY <1>2, <1>5, <2>1 DEF ExtendsPath, Continue, Block
  <1>6. ASSUME NEW ins \in BlockCode, NEW r \in Regs, NEW w \in Words,
               NEW c \in Contexts(New), NEW d \in Contexts(New),
               NEW yes \in BlockRecords(New + 2), NEW no \in BlockRecords(New + 2),
               yes.end = Open, no.end = Open, ForksPath(ins, r, w, yes, no, c, d)
        PROVE  /\ ip' > Len(blocks) /\ blocks'[ip'].end = Open
               /\ \E p \in SavedPaths(Len(blocks')) :
                     /\ stack' = Append(stack, p)
                     /\ p.bb > Len(blocks) /\ p.bb # ip' /\ blocks'[p.bb].end = Open
    <2>1. IsFork(ForkedBlocks(ins, r, w, yes, no), ins, r, w, yes, no)
      BY ForkFacts
    <2>2. Len(blocks') = New + 2 /\ blocks'[New + 1] = yes /\ blocks'[New + 2] = no
      BY <1>6, <2>1 DEF ForksPath, IsFork
    <2>3. ip' = New + 1 /\ stack' = Append(stack, [ctx |-> d, bb |-> New + 2])
      BY <1>6 DEF ForksPath, Continue
    <2>4. d \in Contexts(New + 2) /\ New + 2 \in 1..(New + 2)
      BY <1>2, Growing
    <2>5. [ctx |-> d, bb |-> New + 2] \in SavedPaths(Len(blocks'))
      BY <2>2, <2>4 DEF SavedPaths
    <2> QED BY <1>2, <1>6, <2>2, <2>3, <2>5
  <1> QED BY <1>1, <1>3, <1>4, <1>5, <1>6 DEF Shape

LEMMA OwnStep ==
    ASSUME TypeInv, PathsHaveOwnBlocks, Lift
    PROVE  PathsHaveOwnBlocks'
  <1>1. phase = "lift" /\ TypeInv' /\ OnlyInsertPoint
    BY StepShapes, TypeStep, InsertPointStep
  <1>2. /\ Len(blocks) \in Nat /\ ip \in 1..Len(blocks) /\ ctx \in Contexts(Len(blocks))
        /\ stack \in Seq(SavedPaths(Len(blocks))) /\ Len(stack) \in Nat
        /\ DOMAIN stack = 1..Len(stack) /\ DOMAIN stack' = 1..Len(stack')
        /\ Len(stack') \in Nat
    BY <1>1 DEF TypeInv
  <1>3. \A i \in 1..Len(stack) : stack[i].bb \in 1..Len(blocks)
    <2> TAKE i \in 1..Len(stack)
    <2>1. stack[i] \in SavedPaths(Len(blocks))
      BY <1>2, ElementOfSeq
    <2> QED BY <2>1 DEF SavedPaths
  <1>4. /\ blocks[ip].end = Open
        /\ \A i \in 1..Len(stack) :
              /\ blocks[stack[i].bb].end = Open
              /\ stack[i].bb # ip
              /\ \A j \in 1..Len(stack) : i # j => stack[i].bb # stack[j].bb
    BY <1>1, <1>2 DEF PathsHaveOwnBlocks
  <1>5. \A i \in 1..Len(stack) : blocks'[stack[i].bb].end = Open
    BY <1>1, <1>3, <1>4 DEF OnlyInsertPoint
  <1>6. SUFFICES ASSUME phase' = "lift"
                 PROVE  /\ blocks'[ip'].end = Open
                        /\ \A i \in 1..Len(stack') :
                              /\ blocks'[stack'[i].bb].end = Open
                              /\ stack'[i].bb # ip'
                              /\ \A j \in 1..Len(stack') : i # j => stack'[i].bb # stack'[j].bb
    BY <1>2 DEF PathsHaveOwnBlocks
  <1>7. CASE ExploreOtherPaths
    <2>1. /\ Len(stack) \in 1..Len(stack) /\ ip' = stack[Len(stack)].bb
          /\ Len(stack') = Len(stack) - 1
          /\ \A i \in 1..Len(stack') : stack'[i] = stack[i]
      BY <1>2, <1>6, <1>7, ExploreFacts
    <2>2. \A i \in 1..Len(stack') : i \in 1..Len(stack) /\ i # Len(stack)
      <3> DEFINE k == Len(stack)  l == Len(stack')
      <3>1. k \in Nat /\ l = k - 1
        BY <1>2, <2>1
      <3> HIDE DEF k, l
      <3>2. \A i \in 1..l : i \in 1..k /\ i # k
        BY <3>1
      <3> QED BY <3>2 DEF k, l
    <2>3. blocks'[ip'].end = Open
      BY <1>5, <2>1
    <2>4. ASSUME NEW i \in 1..Len(stack')
          PROVE  /\ blocks'[stack'[i].bb].end = Open
                 /\ stack'[i].bb # ip'
                 /\ \A j \in 1..Len(stack') : i # j => stack'[i].bb # stack'[j].bb
      <3>1. i \in 1..Len(stack) /\ i # Len(stack) /\ stack'[i] = stack[i]
        BY <2>1, <2>2
      <3>2. stack'[i].bb # ip'
        BY <1>4, <2>1, <3>1
      <3>3. \A j \in 1..Len(stack') : i # j => stack'[i].bb # stack'[j].bb
        BY <1>4, <2>1, <2>2, <3>1
      <3> QED BY <1>5, <3>1, <3>2, <3>3
    <2> QED BY <2>3, <2>4
  <1>8. CASE ip' > Len(blocks) /\ blocks'[ip'].end = Open /\ UNCHANGED stack
    <2>1. \A i \in 1..Len(stack) : stack[i].bb # ip'
      BY <1>2, <1>3, <1>8
    <2> QED BY <1>4, <1>5, <1>8, <2>1
  <1>9. CASE /\ ip' > Len(blocks) /\ blocks'[ip'].end = Open
             /\ \E p \in SavedPaths(Len(blocks')) :
                   /\ stack' = Append(stack, p)
                   /\ p.bb > Len(blocks) /\ p.bb # ip' /\ blocks'[p.bb].end = Open
    <2>1. PICK p \in SavedPaths(Len(blocks')) :
             /\ stack' = Append(stack, p)
             /\ p.bb > Len(blocks) /\ p.bb # ip' /\ blocks'[p.bb].end = Open
      BY <1>9
    <2>2. stack \in Seq(SavedPaths(Len(blocks')))
      <3>1. SavedPaths(Len(blocks)) \subseteq SavedPaths(Len(blocks')) 
        BY <1>1, <1>2, Growing DEF OnlyInsertPoint, TypeInv
      <3> QED BY <1>2, <3>1, SeqMonotonic
    <2>3. /\ Len(stack') = Len(stack) + 1
          /\ \A i \in 1..Len(stack) : stack'[i] = stack[i]
          /\ stack'[Len(stack) + 1] = p
      BY <2>1, <2>2, AppendProperties
    <2>4. \A i \in 1..Len(stack) : stack[i].bb # ip' /\ stack[i].bb # p.bb
      BY <1>2, <1>3, <1>9, <2>1
    <2>5. \A i \in 1..Len(stack') : i \in 1..Len(stack) \/ i = Len(stack) + 1
      BY <1>2, <2>3
    <2> QED BY <1>4, <1>5, <1>9, <2>1, <2>3, <2>4, <2>5
  <1> QED BY <1>6, <1>7, <1>8, <1>9, AddedBlocks

\* TypeInv and PathsHaveOwnBlocks together are inductive
IInv == TypeInv /\ PathsHaveOwnBlocks

LEMMA IInvInit ==
    ASSUME Init
    PROVE  IInv
  <1>1. TypeInv
    BY TypeInit
  <1>2. ip = 1 /\ stack = <<>> /\ blocks[1] = Block(1, Nop, NoAccess, Belief(InitialContext))
    BY DEF Init
  <1>3. blocks[ip].end = Open /\ DOMAIN stack = {}
    BY <1>2, EmptyMap DEF Block
  <1> QED BY <1>1, <1>3 DEF IInv, PathsHaveOwnBlocks

LEMMA IInvStep ==
    ASSUME IInv, [Lift]_vars
    PROVE  IInv'
  <1>1. CASE Lift
    BY <1>1, TypeStep, OwnStep DEF IInv
  <1>2. CASE UNCHANGED vars
    <2>1. TypeInv'
      BY <1>2 DEF IInv, TypeInv, vars
    <2>2. PathsHaveOwnBlocks'
      BY <1>2 DEF IInv, PathsHaveOwnBlocks, vars
    <2> QED BY <2>1, <2>2 DEF IInv
  <1> QED BY <1>1, <1>2

LEMMA Inductive == Spec => []IInv
  <1>1. Init => IInv
    BY IInvInit
  <1>2. IInv /\ [Lift]_vars => IInv'
    BY IInvStep
  <1> QED BY <1>1, <1>2, PTL DEF Spec

(* The lifter's state keeps its types on every function, under all options   *)
(* and whatever the solver answers: no terminator, map entry or saved path   *)
(* ever names a block that is not in the function (cpu::run).                *)
THEOREM TypeCorrect == Spec => []TypeOK
  <1>1. IInv => TypeOK
    BY TypeImplied DEF IInv
  <1> QED BY <1>1, Inductive, PTL

(* The running path and the saved ones never share a block to append to      *)
(* (branching, handle_conditional_moves, the pops of cpu::run).              *)
THEOREM OwnBlocks == Spec => []PathsHaveOwnBlocks
  <1>1. IInv => PathsHaveOwnBlocks
    BY DEF IInv
  <1> QED BY <1>1, Inductive, PTL

-----------------------------------------------------------------------------
\* Action properties

LEMMA TerminatorStep ==
    ASSUME IInv, [Lift]_vars
    PROVE  \A b \in DOMAIN blocks : blocks[b].end # Open => blocks'[b].end = blocks[b].end
  <1>1. CASE UNCHANGED vars
    BY <1>1 DEF vars
  <1>2. CASE Lift
    <2>1. TypeInv /\ PathsHaveOwnBlocks
      BY DEF IInv
    <2>2. OnlyInsertPoint /\ blocks[ip].end = Open
      BY <1>2, <2>1, StepShapes, InsertPointStep DEF PathsHaveOwnBlocks
    <2>3. DOMAIN blocks = 1..Len(blocks)
      BY <2>1 DEF TypeInv
    <2> QED BY <2>2, <2>3 DEF OnlyInsertPoint
  <1> QED BY <1>1, <1>2

(* No basic block is given a second terminator: what is closed stays closed  *)
(* the same way, although blocks are left open and taken up again later.     *)
THEOREM ClosedBlocksStay == Spec => TerminatedOnce
  <1>1. IInv /\ [Lift]_vars =>
          \A b \in DOMAIN blocks : blocks[b].end # Open => blocks'[b].end = blocks[b].end
    BY TerminatorStep
  <1> QED BY <1>1, Inductive, PTL DEF Spec, TerminatedOnce

LEMMA MapStep ==
    ASSUME IInv, [Lift]_vars
    PROVE  /\ \A pc \in DOMAIN CFG : pc \in DOMAIN CFG' /\ CFG'[pc] = CFG[pc]
           /\ \A pc \in DOMAIN VCFG : pc \in DOMAIN VCFG' /\ VCFG'[pc] = VCFG[pc]
  <1>1. CASE UNCHANGED <<CFG, VCFG>>
    BY <1>1
  <1>2. CASE ~Known /\ SaveBlock
    <2>1. Mode = "cfg" /\ JoinPolicy = "merge" => ctx.PC \notin DOMAIN CFG
      BY <1>2 DEF Known, Index
    <2>2. ASSUME NEW f, NEW k, NEW b, k \notin DOMAIN f, NEW x \in DOMAIN f
          PROVE  x \in DOMAIN Bind(f, k, b) /\ Bind(f, k, b)[x] = f[x]
      BY <2>2 DEF Bind
    <2>3. \A pc \in DOMAIN CFG : pc \in DOMAIN CFG' /\ CFG'[pc] = CFG[pc]
      <3>1. CFG' = CFG \/ (ctx.PC \notin DOMAIN CFG /\ CFG' = Bind(CFG, ctx.PC, New))
        BY <1>2, <2>1 DEF SaveBlock
      <3> QED BY <2>2, <3>1
    <2>4. \A pc \in DOMAIN VCFG : pc \in DOMAIN VCFG' /\ VCFG'[pc] = VCFG[pc]
      <3>1. VCFG' = VCFG \/ (ctx.VPC \notin DOMAIN VCFG /\ VCFG' = Bind(VCFG, ctx.VPC, New))
        BY <1>2 DEF SaveBlock, TryBind
      <3> QED BY <2>2, <3>1
    <2> QED BY <2>3, <2>4
  <1> QED BY <1>1, <1>2, StepShapes DEF IInv, Maps, vars

(* An address that was lifted keeps its block: CFG_recovery is asked before  *)
(* lift_instruction adds an entry, so none is ever replaced.                 *)
THEOREM EntriesStay == Spec => LiftedOnce
  <1>1. IInv /\ [Lift]_vars =>
          /\ \A pc \in DOMAIN CFG : pc \in DOMAIN CFG' /\ CFG'[pc] = CFG[pc]
          /\ \A pc \in DOMAIN VCFG : pc \in DOMAIN VCFG' /\ VCFG'[pc] = VCFG[pc]
    BY MapStep
  <1> QED BY <1>1, Inductive, PTL DEF Spec, LiftedOnce
=============================================================================
