----------------------- MODULE LiftedExecution_proofs -----------------------
(* Proofs about LiftedExecution: what a path believes is true whenever its *)
(* blocks run, and the lifted function does what the original does, for    *)
(* every function and every argument.                                      *)
EXTENDS LiftedExecution, PathExplorer_proofs, FiniteSetTheorems

-----------------------------------------------------------------------------
\* Machine states, and the state a symbolic state stands for under one
\* assignment of the symbols

States == [reg : [Regs -> Words], mem : [Words -> Words]]

At(k, m) ==
    [reg |-> [r \in Regs |-> k.reg[r].den[m]], mem |-> [a \in Words |-> k.mem[a].den[m]]]

(* A context or a belief denotes a machine state. *)
LEMMA AtType ==
    ASSUME NEW k, k.reg \in [Regs -> HonestTerms], k.mem \in [Words -> HonestTerms],
           NEW m \in Models
    PROVE  /\ At(k, m) \in States
           /\ \A r \in Regs : At(k, m).reg[r] = k.reg[r].den[m] /\ k.reg[r].den[m] \in Words
           /\ \A a \in Words : At(k, m).mem[a] = k.mem[a].den[m] /\ k.mem[a].den[m] \in Words
  <1>1. \A t \in HonestTerms : t.den[m] \in Words
    BY DEF HonestTerms, Terms
  <1>2. \A r \in Regs : k.reg[r].den[m] \in Words
    BY <1>1
  <1>3. \A a \in Words : k.mem[a].den[m] \in Words
    BY <1>1
  <1> QED BY <1>2, <1>3 DEF At, States

(* Two symbolic states with the same values denote the same machine state. *)
LEMMA AtEqual ==
    ASSUME NEW k, NEW l, NEW m,
           \A r \in Regs : k.reg[r].den[m] = l.reg[r].den[m],
           \A a \in Words : k.mem[a].den[m] = l.mem[a].den[m]
    PROVE  At(k, m) = At(l, m)
  BY DEF At

WithReg(s, r, w) == [s EXCEPT !.reg[r] = w]

WithMem(s, f) == [s EXCEPT !.mem = f]

(* One register is assigned. *)
LEMMA AtRegister ==
    ASSUME NEW k, NEW l, NEW m, NEW q \in Regs, NEW w,
           At(k, m) \in States,
           \A r \in Regs : l.reg[r].den[m] = IF r = q THEN w ELSE At(k, m).reg[r],
           \A a \in Words : l.mem[a].den[m] = At(k, m).mem[a]
    PROVE  At(l, m) = WithReg(At(k, m), q, w)
  <1> DEFINE s == At(k, m)
             R == [s.reg EXCEPT ![q] = w]
  <1>1. [r \in Regs |-> l.reg[r].den[m]] = R
    BY DEF States
  <1>2. [a \in Words |-> l.mem[a].den[m]] = s.mem
    BY DEF States
  <1>3. At(l, m) = [reg |-> R, mem |-> s.mem]
    BY <1>1, <1>2 DEF At
  <1> HIDE DEF s
  <1>4. [s EXCEPT !.reg[q] = w] = [reg |-> R, mem |-> s.mem]
    BY DEF States, s
  <1> QED BY <1>3, <1>4 DEF s, WithReg

(* The memory is assigned. *)
LEMMA AtMemory ==
    ASSUME NEW k, NEW l, NEW m, NEW f,
           At(k, m) \in States,
           f = [a \in Words |-> l.mem[a].den[m]],
           \A r \in Regs : l.reg[r].den[m] = At(k, m).reg[r]
    PROVE  At(l, m) = WithMem(At(k, m), f)
  <1> DEFINE s == At(k, m)
  <1>1. [r \in Regs |-> l.reg[r].den[m]] = s.reg
    BY DEF States
  <1>2. At(l, m) = [reg |-> s.reg, mem |-> f]
    BY <1>1 DEF At
  <1> HIDE DEF s
  <1>3. [s EXCEPT !.mem = f] = [reg |-> s.reg, mem |-> f]
    BY DEF States, s
  <1> QED BY <1>2, <1>3 DEF s, WithMem

(* What an instruction does. *)
LEMMA EffectComputes ==
    ASSUME NEW ins, NEW s \in States, ins.op \in ComputeOps, ins.dst \in Regs
    PROVE  Effect(ins, s) = WithReg(s, ins.dst, Computed(ins, s.reg[ins.dst]))
  BY DEF Effect, ComputeOps, States, WithReg

LEMMA EffectMoves ==
    ASSUME NEW ins, NEW s \in States, ins.op = "cmov"
    PROVE  Effect(ins, s) = IF s.reg[ins.cond] = 0 THEN WithReg(s, ins.dst, ins.imm) ELSE s
  BY DEF Effect, ComputeOps, WithReg

LEMMA EffectNone ==
    ASSUME NEW ins, NEW s, ins.op \notin ComputeOps \cup {"load", "store", "cmov"}
    PROVE  Effect(ins, s) = s
  BY DEF Effect

LEMMA EffectLoads ==
    ASSUME NEW ins, NEW s, ins.op = "load"
    PROVE  Effect(ins, s) = WithReg(s, ins.dst, s.mem[s.reg[ins.addr]])
  BY DEF Effect, ComputeOps, WithReg

LEMMA EffectStores ==
    ASSUME NEW ins, NEW s \in States, ins.op = "store"
    PROVE  Effect(ins, s) = WithMem(s, [s.mem EXCEPT ![s.reg[ins.addr]] = s.reg[ins.src]])
  BY DEF Effect, ComputeOps, States, WithMem

(* Where an instruction continues. *)
LEMMA NextPCFacts ==
    ASSUME NEW ins, NEW s, NEW pc
    PROVE  /\ ins.op = "jz" => NextPC(ins, pc, s) = IF s.reg[ins.cond] = 0 THEN ins.to ELSE pc + 1
           /\ ins.op = "jmp" => NextPC(ins, pc, s) = ins.to
           /\ ins.op = "ret" => NextPC(ins, pc, s) = 0
           /\ ins.op \in {"jmpr", "dispatch"} => NextPC(ins, pc, s) = s.reg[ins.cond]
           /\ ins.op \notin {"jz", "jmp", "ret", "jmpr", "dispatch"} => NextPC(ins, pc, s) = pc + 1
  BY DEF NextPC

(* What a block does. *)
LEMMA RunPlain ==
    ASSUME NEW b, NEW s, b.ins.op \notin {"load", "store"}
    PROVE  Run(b, s) = Effect(b.ins, s)
  BY DEF Run

LEMMA RunLoads ==
    ASSUME NEW b, NEW s, b.ins.op = "load"
    PROVE  Run(b, s) = WithReg(s, b.ins.dst, s.mem[ReadAddr(b.acc, s.reg[b.ins.addr])])
  BY DEF Run, WithReg

LEMMA RunStores ==
    ASSUME NEW b, NEW s, b.ins.op = "store", NEW A,
           A = WrittenAddrs(b.acc, s.reg[b.ins.addr])
    PROVE  Run(b, s) = WithMem(s, [a \in Words |-> IF a \in A THEN s.reg[b.ins.src] ELSE s.mem[a]])
  BY DEF Run, WithMem

-----------------------------------------------------------------------------
\* The solver, when no query runs into its time limit

LEMMA WordSets == \A S \in SUBSET Words : IsFiniteSet(S)
  <1>1. 0 \in Int /\ WordCount - 1 \in Int
    BY MachineConstants
  <1>2. IsFiniteSet(Words)
    BY <1>1, FS_Interval DEF Words
  <1> QED BY <1>2, FS_Subset

(* A set of words with one element. *)
LEMMA OneWord ==
    ASSUME NEW S \in SUBSET Words, Cardinality(S) = 1, NEW w \in S
    PROVE  S = {w}
  <1>1. IsFiniteSet(S)
    BY WordSets
  <1>2. PICK v : S = {v}
    BY <1>1, FS_Singleton
  <1> QED BY <1>2

LEMMA Cardinalities ==
    /\ Cardinality({}) = 0
    /\ \A S \in SUBSET Words : Cardinality(S) \in Nat /\ (Cardinality(S) = 0 <=> S = {})
    /\ \A v, w \in Words : v # w => Cardinality({v, w}) = 2
    /\ \A S \in SUBSET Words : Cardinality(S) = 2 =>
          \A v, w \in S : v # w => S = {v, w}
  <1>1. \A S \in SUBSET Words : IsFiniteSet(S)
    BY WordSets
  <1>2. Cardinality({}) = 0
    BY FS_EmptySet
  <1>3. \A S \in SUBSET Words : Cardinality(S) \in Nat /\ (Cardinality(S) = 0 <=> S = {})
    BY <1>1, FS_CardinalityType, FS_EmptySet
  <1>4. \A v, w \in Words : v # w => Cardinality({v, w}) = 2
    <2> TAKE v, w \in Words
    <2> HAVE v # w
    <2>1. IsFiniteSet({v}) /\ Cardinality({v}) = 1
      BY FS_Singleton
    <2>2. Cardinality({v} \cup {w}) = 1 + 1
      BY <2>1, FS_AddElement
    <2>3. {v} \cup {w} = {v, w}
      OBVIOUS
    <2> QED BY <2>2, <2>3
  <1>5. \A S \in SUBSET Words : Cardinality(S) = 2 =>
          \A v, w \in S : v # w => S = {v, w}
    <2> TAKE S \in SUBSET Words
    <2> HAVE Cardinality(S) = 2
    <2> TAKE v, w \in S
    <2> HAVE v # w
    <2>1. IsFiniteSet(S) /\ {v, w} \subseteq S /\ Cardinality({v, w}) = 2
      BY <1>1, <1>4
    <2> QED BY <2>1, FS_Subset
  <1> QED BY <1>2, <1>3, <1>4, <1>5

(* possible_values returns all solutions unless it stops at its limit. *)
LEMMA AllValues ==
    ASSUME ~Timeouts, NEW t \in HonestTerms, NEW cons \in SUBSET Models,
           NEW q \in PossibleValues(t, cons)
    PROVE  /\ q.complete => q.vals = Solutions(t, cons)
           /\ q.vals = Solutions(t, cons) \/ Cardinality(q.vals) = SolverLimit
  <1>1. PICK s \in SUBSET Solutions(t, cons) :
          /\ q = [vals |-> s, complete |-> s = Solutions(t, cons)]
          /\ s = Solutions(t, cons) \/ Cardinality(s) = SolverLimit
    BY DEF PossibleValues
  <1> QED BY <1>1

(* simplify() keeps the value under every assignment that satisfies the constraints. *)
LEMMA SimplifyUnderSound ==
    ASSUME NEW t \in HonestTerms, NEW cons \in SUBSET Models, NEW u \in SimplifyUnder(t, cons),
           NEW m \in cons
    PROVE  u.den[m] = t.den[m]
  <1> DEFINE sols == Solutions(t, cons)
  <1>1. CASE u = t
    BY <1>1
  <1>2. CASE Cardinality(sols) = 1 /\ \E w \in sols : u = Literal(w)
    <2>1. PICK w \in sols : u = Literal(w)
      BY <1>2
    <2>2. sols = {w}
      BY <1>2, <2>1, OneWord, SolutionsType
    <2>3. t.den[m] = w
      BY <2>2 DEF Solutions
    <2> QED BY <2>1, <2>3 DEF Literal
  <1> QED BY <1>1, <1>2 DEF SimplifyUnder

\* acc covers every address that term t may be under the constraints
Covers(acc, t, cons) ==
    CASE acc.kind = "constant" -> acc.addrs = {acc.first} /\ \A m \in cons : t.den[m] = acc.first
      [] acc.kind = "select" -> \A m \in cons : t.den[m] \in acc.addrs
      [] acc.kind = "inttoptr" -> cons = {}
      [] OTHER -> FALSE

LEMMA ConstantCovers ==
    ASSUME NEW t, NEW cons, NEW w, \A m \in cons : t.den[m] = w
    PROVE  Covers(Constant(w), t, cons)
  <1>1. Constant(w).kind = "constant" /\ Constant(w).addrs = {w} /\ Constant(w).first = w
    BY DEF Constant
  <1> QED BY <1>1, Zenon DEF Covers

LEMMA PointersSound ==
    ASSUME ~Timeouts, NEW t \in HonestTerms, NEW cons \in SUBSET Models, NEW a \in Pointers(t, cons)
    PROVE  a = Throw \/ Covers(a, t, cons)
  <1> DEFINE sols == Solutions(t, cons)
             ptr == [NoAccess EXCEPT !.kind = "inttoptr"]
  <1>1. CASE Cardinality(sols) = 1
    <2>1. PICK w \in sols : a = Constant(w)
      BY <1>1 DEF Pointers
    <2>2. sols = {w}
      BY <1>1, <2>1, OneWord, SolutionsType
    <2>3. \A m \in cons : t.den[m] = w
      BY <2>2 DEF Solutions
    <2> QED BY <2>1, <2>3, ConstantCovers
  <1>2. CASE Cardinality(sols) # 1
    <2>1. PICK q \in PossibleValues(t, cons) : a = IF q.vals = {} THEN ptr ELSE Throw
      BY <1>2 DEF Pointers
    <2>2. CASE q.vals # {}
      BY <2>1, <2>2
    <2>3. CASE q.vals = {}
      <3>1. sols = {}
        BY <2>3, AllValues, Cardinalities, ExplorerConstants
      <3>2. cons = {}
        BY <3>1 DEF Solutions
      <3>3. ptr.kind = "inttoptr"
        BY DEF NoAccess
      <3>4. a = ptr
        BY <2>1, <2>3
      <3> HIDE DEF ptr
      <3> QED BY <3>2, <3>3, <3>4, Zenon DEF Covers
    <2> QED BY <2>2, <2>3
  <1> QED BY <1>1, <1>2

(* The addresses baked into an access are all there are (value_to_pointer). *)
LEMMA AccessesSound ==
    ASSUME ~Timeouts, NEW t \in HonestTerms, NEW cons \in SUBSET Models, NEW a \in Accesses(t, cons)
    PROVE  a = Throw \/ Covers(a, t, cons)
  <1>1. CASE t.lit
    <2>1. PICK w \in Solutions(t, Models) : a = Constant(w)
      BY <1>1 DEF Accesses
    <2>2. \A m \in cons : t.den[m] = w
      BY <1>1, <2>1 DEF Solutions, HonestTerms, Unvarying
    <2> QED BY <2>1, <2>2, ConstantCovers
  <1>2. CASE ~t.lit
    <2>1. PICK q \in PossibleValues(t, cons) :
            a \in CASE Cardinality(q.vals) = 1 -> {Constant(w) : w \in q.vals}
                   [] Cardinality(q.vals) > 1 /\ q.complete ->
                         {[kind |-> "select", addrs |-> q.vals, first |-> w] : w \in q.vals}
                   [] OTHER -> Pointers(t, cons)
      BY <1>2 DEF Accesses
    <2>2. \/ Cardinality(q.vals) = 1 /\ \E w \in q.vals : a = Constant(w)
          \/ q.complete /\ \E w \in q.vals : a = [kind |-> "select", addrs |-> q.vals, first |-> w]
          \/ a \in Pointers(t, cons)
      BY <2>1
    <2>3. CASE Cardinality(q.vals) = 1 /\ \E w \in q.vals : a = Constant(w)
      <3>1. PICK w \in q.vals : a = Constant(w)
        BY <2>3
      <3>2. q.vals = Solutions(t, cons)
        BY <2>3, AllValues, ExplorerConstants
      <3>3. q.vals = {w}
        BY <2>3, <3>1, PossibleValuesType, OneWord
      <3>4. \A m \in cons : t.den[m] = w
        BY <3>2, <3>3 DEF Solutions
      <3> QED BY <3>1, <3>4, ConstantCovers
    <2>4. CASE q.complete /\ \E w \in q.vals : a = [kind |-> "select", addrs |-> q.vals, first |-> w]
      <3>1. a.kind = "select" /\ a.addrs = q.vals
        BY <2>4
      <3>2. \A m \in cons : t.den[m] \in a.addrs
        BY <2>4, <3>1, AllValues DEF Solutions
      <3> QED BY <3>1, <3>2, Zenon DEF Covers
    <2>5. CASE a \in Pointers(t, cons)
      BY <2>5, PointersSound
    <2> QED BY <2>2, <2>3, <2>4, <2>5
  <1> QED BY <1>1, <1>2

-----------------------------------------------------------------------------
\* Memory operands

\* the baked addresses of acc are right when the address is w
Hits(acc, w) ==
    \/ acc.kind = "inttoptr"
    \/ acc.kind = "constant" /\ acc.addrs = {w}
    \/ acc.kind = "select" /\ w \in acc.addrs

LEMMA CoversHits ==
    ASSUME NEW acc, NEW t, NEW cons, Covers(acc, t, cons), NEW m \in cons
    PROVE  Hits(acc, t.den[m]) /\ acc.kind \in {"constant", "select"}
  <1>1. acc.kind = "constant" => acc.addrs = {acc.first} /\ t.den[m] = acc.first
    BY Zenon DEF Covers
  <1>2. acc.kind = "select" => t.den[m] \in acc.addrs
    BY Zenon DEF Covers
  <1>3. acc.kind \in {"constant", "select"}
    <2>1. acc.kind \in {"constant", "select", "inttoptr"}
      BY Zenon DEF Covers
    <2>2. acc.kind # "inttoptr"
      BY Zenon DEF Covers
    <2> QED BY <2>1, <2>2
  <1> QED BY <1>1, <1>2, <1>3 DEF Hits

(* A block's load or store is the instruction's where its addresses are right. *)
LEMMA MemoryRun ==
    ASSUME NEW b, b.ins.op \in {"load", "store"}, b.ins.addr \in Regs,
           b.ins.op = "load" => b.ins.dst \in Regs, b.ins.op = "store" => b.ins.src \in Regs,
           NEW s \in States, Hits(b.acc, s.reg[b.ins.addr])
    PROVE  Run(b, s) = Effect(b.ins, s)
  <1> DEFINE w == s.reg[b.ins.addr]
  <1>1. w \in Words
    BY DEF States
  <1> HIDE DEF w
  <1>2. CASE b.ins.op = "load"
    <2>1. ReadAddr(b.acc, w) = w
      BY DEF ReadAddr, Hits, w
    <2> QED BY <1>2, <2>1, RunLoads, EffectLoads DEF w
  <1>3. CASE b.ins.op = "store"
    <2>1. WrittenAddrs(b.acc, w) = {w}
      <3>1. CASE b.acc.kind = "inttoptr"
        BY <3>1 DEF WrittenAddrs
      <3>2. CASE b.acc.kind = "constant" /\ b.acc.addrs = {w}
        BY <3>2 DEF WrittenAddrs
      <3>3. CASE b.acc.kind = "select" /\ w \in b.acc.addrs
        <4>1. WrittenAddrs(b.acc, w) = b.acc.addrs \cap {w}
          BY <3>3 DEF WrittenAddrs
        <4> QED BY <3>3, <4>1
      <3> QED BY <3>1, <3>2, <3>3 DEF Hits, w
    <2> DEFINE A == WrittenAddrs(b.acc, w)
               f == [a \in Words |-> IF a \in A THEN s.reg[b.ins.src] ELSE s.mem[a]]
    <2>2. f = [s.mem EXCEPT ![w] = s.reg[b.ins.src]]
      BY <1>1, <2>1 DEF States
    <2>3. Run(b, s) = WithMem(s, f)
      BY <1>3, RunStores DEF w
    <2> HIDE DEF f
    <2>4. Effect(b.ins, s) = WithMem(s, [s.mem EXCEPT ![w] = s.reg[b.ins.src]])
      BY <1>3, EffectStores DEF w
    <2> QED BY <2>2, <2>3, <2>4
  <1> QED BY <1>2, <1>3

LEMMA SimplifiedDen ==
    ASSUME NEW den, NEW folded, NEW t \in Simplified(den, folded)
    PROVE  t.den = den
  BY DEF Simplified

(* The term a load leaves is the word at the address. *)
LEMMA LoadedSound ==
    ASSUME NEW n \in Nat, NEW c \in Contexts(n), NEW r \in Regs,
           NEW a \in AccessRecords, NEW t \in Loaded(c, r, a),
           Covers(a, c.reg[r], c.cons), NEW m \in c.cons
    PROVE  t.den[m] = c.mem[c.reg[r].den[m]].den[m]
  <1>1. Hits(a, c.reg[r].den[m]) /\ a.kind \in {"constant", "select"}
    BY CoversHits
  <1>2. c.reg \in [Regs -> HonestTerms] /\ c.mem \in [Words -> HonestTerms] /\ m \in Models
    BY DEF Contexts
  <1>3. a.first \in Words /\ a.addrs \subseteq Words
    BY DEF AccessRecords
  <1>4. CASE a.kind = "constant"
    <2>1. c.reg[r].den[m] = a.first
      BY <1>4, Zenon DEF Covers
    <2>2. t = c.mem[a.first]
      BY <1>4 DEF Loaded
    <2> QED BY <2>1, <2>2
  <1>5. CASE a.kind = "select"
    <2> DEFINE W(k) == IF c.reg[r].den[k] \in a.addrs THEN c.reg[r].den[k] ELSE a.first
               den == [k \in Models |-> c.mem[W(k)].den[k]]
    <2>1. t \in Simplified(den, FALSE)
      BY <1>5 DEF Loaded
    <2>2. t.den = den
      BY <2>1, SimplifiedDen
    <2>3. c.reg[r].den[m] \in a.addrs
      BY <1>1, <1>5 DEF Hits
    <2> QED BY <1>2, <2>2, <2>3
  <1> QED BY <1>1, <1>4, <1>5

(* The memory a store leaves is the old one but for the word at the address. *)
LEMMA StoredSound ==
    ASSUME NEW n \in Nat, NEW c \in Contexts(n), NEW r \in Regs, NEW t,
           NEW a \in AccessRecords, NEW mem \in Stored(c, r, a, t),
           Covers(a, c.reg[r], c.cons), NEW m \in c.cons, NEW w \in Words
    PROVE  mem[w].den[m] = IF w = c.reg[r].den[m] THEN t.den[m] ELSE c.mem[w].den[m]
  <1>1. Hits(a, c.reg[r].den[m]) /\ a.kind \in {"constant", "select"}
    BY CoversHits
  <1>2. c.reg \in [Regs -> HonestTerms] /\ c.mem \in [Words -> HonestTerms] /\ m \in Models
    BY DEF Contexts
  <1>3. a.first \in Words /\ a.addrs \subseteq Words
    BY DEF AccessRecords
  <1>4. CASE a.kind = "constant"
    <2>1. c.reg[r].den[m] = a.first
      BY <1>4, Zenon DEF Covers
    <2>2. mem = [c.mem EXCEPT ![a.first] = t]
      BY <1>4 DEF Stored
    <2> QED BY <1>2, <1>3, <2>1, <2>2
  <1>5. CASE a.kind = "select"
    <2> DEFINE Written(v) == [k \in Models |-> IF c.reg[r].den[k] = v THEN t.den[k]
                                               ELSE c.mem[v].den[k]]
               Folding == {v \in a.addrs : Unvarying(Written(v))}
    <2>1. PICK lits \in SUBSET Folding :
            mem = [v \in Words |-> IF v \in a.addrs THEN [den |-> Written(v), lit |-> v \in lits]
                                  ELSE c.mem[v]]
      BY <1>5 DEF Stored
    <2>2. c.reg[r].den[m] \in a.addrs
      BY <1>1, <1>5 DEF Hits
    <2>3. \A v : Written(v)[m] = IF c.reg[r].den[m] = v THEN t.den[m] ELSE c.mem[v].den[m]
      BY <1>2
    <2> HIDE DEF Written, Folding
    <2>4. CASE w \in a.addrs
      <3>1. mem[w] = [den |-> Written(w), lit |-> w \in lits]
        BY <2>1, <2>4
      <3>2. mem[w].den = Written(w)
        BY <3>1
      <3> QED BY <2>3, <3>2
    <2>5. CASE w \notin a.addrs
      <3>1. mem[w] = c.mem[w]
        BY <2>1, <2>5
      <3> QED BY <2>2, <2>5, <3>1
    <2> QED BY <2>4, <2>5
  <1> QED BY <1>1, <1>4, <1>5

-----------------------------------------------------------------------------
\* What is right about a block of the function with code p

\* a conditional move that was decided, or that its branch has decided
Moves(p, b) == b.ins.op \in {"set", "keep"} /\ Fetch(p, b.at).op = "cmov"

MoveRight(p, b, s) == Moves(p, b) => (s.reg[Fetch(p, b.at).cond] = 0 <=> b.ins.op = "set")

Decided(p, b) == \A m \in b.belief.cons : MoveRight(p, b, At(b.belief, m))

\* Specialised, for code p
Special(p, b) ==
    \/ b.acc.kind \in {"constant", "select"}
    \/ b.ins.op \in {"jmpr", "dispatch"}
    \/ b.ins.op = "jz" /\ b.end.kind # "cond"
    \/ Moves(p, b)

\* the states for which a block has to do what the original does
Eligible(p, b) ==
    IF Special(p, b) THEN {At(b.belief, m) : m \in b.belief.cons} ELSE States

\* where the original is after the block
NextAt(p, b, s) == IF b.ins = Nop THEN b.at ELSE NextPC(Fetch(p, b.at), b.at, s)

CodeRight(p, b) ==
    \A s \in Eligible(p, b) : MoveRight(p, b, s) =>
        IF b.ins = Nop THEN Run(b, s) = s
        ELSE /\ b.at # 0
             /\ Executable(Fetch(p, b.at))
             /\ Run(b, s) = Effect(Fetch(p, b.at), s)

GoesOnAt(p, b, pc) == \A s \in Eligible(p, b) : MoveRight(p, b, s) => NextAt(p, b, s) = pc

\* running block b makes symbolic state k true
Goes(b, k) == \A m \in b.belief.cons : m \in k.cons /\ Run(b, At(b.belief, m)) = At(k, m)

\* a path may go on with context c at the end of block b
PathRight(p, b, c) == Goes(b, c) /\ CodeRight(p, b) /\ GoesOnAt(p, b, c.PC)

\* where the conditional branch at the end of b leads
Side(b, s, yes, no) == IF s.reg[b.end.reg] = b.end.val THEN yes ELSE no

ForkRight(p, b, yes, no) ==
    /\ CodeRight(p, b)
    /\ \A s \in States : MoveRight(p, Side(b, s, yes, no), Run(b, s))
    /\ SolverLimit > 2 => \A s \in Eligible(p, b) : Side(b, s, yes, no).at = NextAt(p, b, s)

ForkSound(b, yes, no) ==
    \A m \in b.belief.cons :
        LET s == At(b.belief, m)
            k == Side(b, s, yes, no).belief
        IN m \in k.cons /\ Run(b, s) = At(k, m)

\* the edges that leave block i of the blocks bs
EdgeRight(p, bs, i) ==
    /\ bs[i].end.kind = "br" =>
          CodeRight(p, bs[i]) /\ GoesOnAt(p, bs[i], bs[bs[i].end.to].at) /\ Decided(p, bs[bs[i].end.to])
    /\ bs[i].end.kind = "cond" => ForkRight(p, bs[i], bs[bs[i].end.yes], bs[bs[i].end.no])
    /\ bs[i].end.kind = "ret" => CodeRight(p, bs[i]) /\ GoesOnAt(p, bs[i], 0)

EdgeSound(bs, i) ==
    /\ bs[i].end.kind = "br" => Goes(bs[i], bs[bs[i].end.to].belief)
    /\ bs[i].end.kind = "cond" => ForkSound(bs[i], bs[bs[i].end.yes], bs[bs[i].end.no])

\* lifting keeps: what is believed along a path, and where CFG_recovery finds it
Exact(j) == j.mode = "symbolic" \/ (j.mode = "cfg" /\ j.join = "merge")

PathsRight ==
    phase = "lift" =>
        /\ PathRight(prog, blocks[ip], ctx)
        /\ \A i \in 1..Len(stack) : PathRight(prog, blocks[stack[i].bb], stack[i].ctx)

KnownRight ==
    \A pc \in DOMAIN CFG : blocks[CFG[pc]].at = pc /\ Decided(prog, blocks[CFG[pc]])

EntryRight ==
    blocks[1].at = 1 /\ blocks[1].ins = Nop /\ blocks[1].belief = Belief(InitialContext)

LiftInv ==
    /\ PathsRight /\ KnownRight /\ EntryRight
    /\ Exact(job) => \A i \in 1..Len(blocks) : EdgeRight(prog, blocks, i)
    /\ Mode = "symbolic" => \A i \in 1..Len(blocks) : EdgeSound(blocks, i)

-----------------------------------------------------------------------------
\* One block and the path that goes on after it

NewBlock(ins, acc) == Block(ctx.PC, ins, acc, Belief(ctx))

LEMMA NewBlockFacts ==
    ASSUME NEW ins, NEW acc
    PROVE  /\ NewBlock(ins, acc).at = ctx.PC /\ NewBlock(ins, acc).ins = ins
           /\ NewBlock(ins, acc).acc = acc /\ NewBlock(ins, acc).end = Open
           /\ NewBlock(ins, acc).end.kind = "open"
           /\ NewBlock(ins, acc).belief.cons = ctx.cons
           /\ \A m : At(NewBlock(ins, acc).belief, m) = At(ctx, m)
  BY DEF NewBlock, Block, Belief, Open, At

(* The instruction at the program counter is lifted as it is, and continues  *)
(* where the original continues.                                             *)
LEMMA Straight ==
    ASSUME TypeInv, NEW acc, NEW c,
           ctx.PC # 0, Executable(Here),
           acc.kind \in {"constant", "select", "inttoptr"} \/ Here.op \notin {"load", "store"},
           \A m \in ctx.cons : m \in c.cons /\ Effect(Here, At(ctx, m)) = At(c, m),
           Here.op \in {"load", "store"} => Covers(acc, ctx.reg[Here.addr], ctx.cons),
           Here.op \in {"jz", "jmpr", "dispatch"} =>
               \A m \in ctx.cons : NextPC(Here, ctx.PC, At(ctx, m)) = c.PC,
           Here.op \notin {"jz", "jmpr", "dispatch"} =>
               \A s \in States : NextPC(Here, ctx.PC, s) = c.PC
    PROVE  PathRight(prog, NewBlock(Here, acc), c) /\ Decided(prog, NewBlock(Here, acc))
  <1> DEFINE b == NewBlock(Here, acc)
  <1>1. /\ b.at = ctx.PC /\ b.ins = Here /\ b.acc = acc /\ b.end = Open /\ b.end.kind = "open"
        /\ b.belief.cons = ctx.cons /\ \A m : At(b.belief, m) = At(ctx, m)
    BY NewBlockFacts
  <1>2. /\ Fetch(prog, b.at) = Here /\ Here \in Instructions /\ Here # Nop
        /\ (Here.op \in {"load", "store"} => Here.addr \in Regs)
        /\ (Here.op = "load" => Here.dst \in Regs) /\ (Here.op = "store" => Here.src \in Regs)
    <2>1. Here \in Instructions
      BY HereFacts
    <2>2. Nop.op = "nop"
      BY DEF Nop
    <2> QED BY <1>1, <2>1, <2>2, InstructionFields DEF Here
  <1> HIDE DEF b
  <1>3. \A m \in ctx.cons : /\ m \in Models /\ At(ctx, m) \in States
                            /\ \A r \in Regs : At(ctx, m).reg[r] = ctx.reg[r].den[m]
    BY HereFacts, AtType
  <1>4. ~Moves(prog, b)
    BY <1>1, <1>2 DEF Moves
  <1>5. \A s \in States : Run(b, s) = Effect(Here, s) \/
            (Here.op \in {"load", "store"} /\ ~Hits(acc, s.reg[Here.addr]))
    <2> TAKE s \in States
    <2>1. CASE Here.op \in {"load", "store"}
      BY <1>1, <1>2, <2>1, MemoryRun
    <2>2. CASE Here.op \notin {"load", "store"}
      BY <1>1, <2>2, RunPlain
    <2> QED BY <2>1, <2>2
  <1>6. \A m \in ctx.cons : Run(b, At(ctx, m)) = Effect(Here, At(ctx, m))
    <2> TAKE m \in ctx.cons
    <2>1. Here.op \in {"load", "store"} => Hits(acc, At(ctx, m).reg[Here.addr])
      BY <1>2, <1>3, CoversHits
    <2> QED BY <1>3, <1>5, <2>1
  <1>7. Special(prog, b) \/ \A s \in States : Run(b, s) = Effect(Here, s)
    BY <1>1, <1>5 DEF Special, Hits
  <1>8. \A s \in Eligible(prog, b) : Run(b, s) = Effect(Here, s)
    BY <1>1, <1>6, <1>7 DEF Eligible
  <1>9. \A s \in Eligible(prog, b) : NextPC(Here, ctx.PC, s) = c.PC
    <2>1. CASE Here.op \in {"jz", "jmpr", "dispatch"}
      <3>1. Special(prog, b)
        BY <1>1, <2>1 DEF Special
      <3> QED BY <1>1, <2>1, <3>1 DEF Eligible
    <2>2. CASE Here.op \notin {"jz", "jmpr", "dispatch"}
      BY <1>1, <1>3, <2>2 DEF Eligible
    <2> QED BY <2>1, <2>2
  <1>10. CodeRight(prog, b)
    BY <1>1, <1>2, <1>8 DEF CodeRight
  <1>11. GoesOnAt(prog, b, c.PC)
    BY <1>1, <1>2, <1>9 DEF GoesOnAt, NextAt
  <1>12. Goes(b, c)
    BY <1>1, <1>6 DEF Goes
  <1>13. Decided(prog, b)
    BY <1>4 DEF Decided, MoveRight
  <1> QED BY <1>10, <1>11, <1>12, <1>13 DEF PathRight, b

(* A block without an instruction of its own, at the head of a branch's side. *)
LEMMA NopBlock ==
    ASSUME NEW p, NEW n \in Nat, NEW c \in Contexts(n), NEW b,
           b = Block(c.PC, Nop, NoAccess, Belief(c))
    PROVE  PathRight(p, b, c) /\ \A s : MoveRight(p, b, s)
  <1>1. /\ b.at = c.PC /\ b.ins = Nop /\ b.ins.op = "nop" /\ b.acc.kind = "none"
        /\ b.belief.cons = c.cons
        /\ \A m : At(b.belief, m) = At(c, m)
    BY DEF Block, Belief, NoAccess, Nop, At
  <1>2. \A s \in States : Run(b, s) = s
    BY <1>1, RunPlain, EffectNone DEF ComputeOps
  <1>3. ~Moves(p, b)
    BY <1>1 DEF Moves
  <1>4. Eligible(p, b) = States
    BY <1>1, <1>3 DEF Eligible, Special
  <1>5. \A m \in c.cons : At(c, m) \in States
    BY AtType DEF Contexts
  <1>6. Goes(b, c)
    BY <1>1, <1>2, <1>5 DEF Goes
  <1>7. CodeRight(p, b)
    BY <1>1, <1>2, <1>4 DEF CodeRight
  <1>8. GoesOnAt(p, b, c.PC)
    BY <1>1 DEF GoesOnAt, NextAt
  <1> QED BY <1>3, <1>6, <1>7, <1>8 DEF PathRight, MoveRight

\* the new block, ending in a conditional branch
ForkBlock(ins, r, w) ==
    [NewBlock(ins, NoAccess) EXCEPT !.end = CondBr(r, w, New + 1, New + 2)]

LEMMA ForkBlockFacts ==
    ASSUME NEW ins, NEW r, NEW w
    PROVE  LET b == ForkBlock(ins, r, w)
           IN /\ b.at = ctx.PC /\ b.ins = ins /\ b.acc.kind = "none"
              /\ b.end = CondBr(r, w, New + 1, New + 2)
              /\ b.end.kind = "cond" /\ b.end.reg = r /\ b.end.val = w
              /\ b.end.yes = New + 1 /\ b.end.no = New + 2
              /\ b.belief.cons = ctx.cons
              /\ \A m : At(b.belief, m) = At(ctx, m)
  BY DEF ForkBlock, NewBlock, Block, Belief, NoAccess, CondBr, At

ForkOK(ins, r, w, yes, no, c, d) ==
    /\ Decided(prog, ForkBlock(ins, r, w))
    /\ ForkRight(prog, ForkBlock(ins, r, w), yes, no)
    /\ ForkSound(ForkBlock(ins, r, w), yes, no)
    /\ PathRight(prog, yes, c)
    /\ PathRight(prog, no, d)

ExtendOK(ins, acc, c) ==
    PathRight(prog, NewBlock(ins, acc), c) /\ Decided(prog, NewBlock(ins, acc))

\* the ways an iteration of cpu::run changes function and paths, and what is
\* right about it
StepRight ==
    \/ ctx.PC = 0 /\ ClosesPath(ReturnState)
    \/ Known /\ ClosesPath(Br(Index[1][Index[2]]))
    \/ LeavesPath
    \/ \E ins \in BlockCode :
          Decided(prog, NewBlock(ins, NoAccess)) /\ (FailsInBlock(ins) \/ CutsPath(ins))
    \/ \E ins \in BlockCode, acc \in AccessRecords :
          Decided(prog, NewBlock(ins, acc)) /\ Throws(ins, acc)
    \/ \E ins \in BlockCode, acc \in AccessRecords : \E c :
          ExtendOK(ins, acc, c) /\ ExtendsPath(ins, acc, c)
    \/ \E ins \in BlockCode, r \in Regs, w \in Words, yes, no \in BlockRecords(New + 2) : \E c, d :
          /\ yes.end = Open /\ no.end = Open
          /\ ForkOK(ins, r, w, yes, no, c, d)
          /\ ForksPath(ins, r, w, yes, no, c, d)

(* An instruction that is lifted as it is never is a decided move. *)
LEMMA HereDecided ==
    ASSUME TypeInv, NEW acc
    PROVE  Decided(prog, NewBlock(Here, acc))
  <1>1. NewBlock(Here, acc).ins = Here /\ NewBlock(Here, acc).at = ctx.PC
    BY NewBlockFacts
  <1>2. Here.op # "keep" /\ (Here.op = "set" => Here.op # "cmov")
    BY HereFacts, InstructionFields
  <1> QED BY <1>1, <1>2 DEF Decided, MoveRight, Moves, Here

(* The values of the running path's context. *)
LEMMA CtxValues ==
    ASSUME TypeInv, NEW m \in ctx.cons
    PROVE  /\ m \in Models
           /\ At(ctx, m) \in States
           /\ \A r \in Regs : At(ctx, m).reg[r] = ctx.reg[r].den[m] /\ ctx.reg[r].den[m] \in Words
           /\ \A a \in Words : At(ctx, m).mem[a] = ctx.mem[a].den[m] /\ ctx.mem[a].den[m] \in Words
  BY HereFacts, AtType

\* the path's context with another program counter and one register assigned
Assigned(pc, r, t) == [Saved EXCEPT !.PC = pc, !.reg[r] = t]

(* A context that differs in one register. *)
LEMMA RegisterStep ==
    ASSUME TypeInv, NEW q \in Regs, NEW t \in HonestTerms, NEW pc
    PROVE  /\ Assigned(pc, q, t).PC = pc
           /\ \A m \in ctx.cons : /\ m \in Assigned(pc, q, t).cons
                                  /\ At(Assigned(pc, q, t), m) = WithReg(At(ctx, m), q, t.den[m])
  <1> DEFINE c == Assigned(pc, q, t)
  <1>1. /\ c.PC = pc /\ c.cons = ctx.cons /\ c.mem = ctx.mem
        /\ c.reg = [ctx.reg EXCEPT ![q] = t]
    BY SavedFacts DEF Contexts, Assigned
  <1> HIDE DEF c
  <1> SUFFICES ASSUME NEW m \in ctx.cons
               PROVE  m \in c.cons /\ At(c, m) = WithReg(At(ctx, m), q, t.den[m])
    BY <1>1 DEF c
  <1>2. ctx.reg \in [Regs -> HonestTerms] /\ ctx.mem \in [Words -> HonestTerms]
    BY HereFacts
  <1>3. \A r \in Regs : c.reg[r].den[m] = IF r = q THEN t.den[m] ELSE At(ctx, m).reg[r]
    BY <1>1, <1>2, CtxValues
  <1>4. \A a \in Words : c.mem[a].den[m] = At(ctx, m).mem[a]
    BY <1>1, CtxValues
  <1>5. At(c, m) = WithReg(At(ctx, m), q, t.den[m])
    BY <1>3, <1>4, CtxValues, AtRegister
  <1> QED BY <1>1, <1>5

(* A context with the same registers and memory. *)
LEMMA SameStep ==
    ASSUME TypeInv, NEW c, c.reg = ctx.reg, c.mem = ctx.mem, NEW m
    PROVE  At(c, m) = At(ctx, m)
  BY DEF At

LEMMA ComputationRight ==
    ASSUME TypeInv, LiftComputation
    PROVE  StepRight
  <1> DEFINE old == ctx.reg[Here.dst]
             den == [m \in Models |-> Computed(Here, old.den[m])]
  <1>1. Here.op \in ComputeOps /\ Here.dst \in Regs /\ ctx.PC # 0 /\ Here \in BlockCode
    BY HereFacts, InstructionFields DEF LiftComputation, Reading
  <1>2. old \in HonestTerms
    BY <1>1, HereFacts
  <1>3. den \in [Models -> Words] /\ (Here.op = "set" \/ old.lit) \in BOOLEAN
    BY <1>1, <1>2, HereFacts, ComputedType DEF HonestTerms, Terms
  <1>4. PICK new \in Simplified(den, Here.op = "set" \/ old.lit) :
          Continue([Saved EXCEPT !.PC = @ + 1, !.reg[Here.dst] = new], New)
    BY DEF LiftComputation
  <1>5. new \in HonestTerms /\ new.den = den
    <2> HIDE DEF den, old
    <2> QED BY <1>3, <1>4, SimplifiedType
  <1> DEFINE c == Assigned(ctx.PC + 1, Here.dst, new)
  <1>6. ExtendsPath(Here, NoAccess, c)
    BY <1>4, SavedFacts DEF ExtendsPath, LiftComputation, Assigned
  <1>7. c.PC = ctx.PC + 1
    BY <1>1, <1>5, RegisterStep
  <1>8. ASSUME NEW m \in ctx.cons
        PROVE  m \in c.cons /\ Effect(Here, At(ctx, m)) = At(c, m)
    <2>1. m \in c.cons /\ At(c, m) = WithReg(At(ctx, m), Here.dst, new.den[m])
      BY <1>1, <1>5, RegisterStep
    <2>2. new.den[m] = Computed(Here, At(ctx, m).reg[Here.dst])
      BY <1>1, <1>5, CtxValues
    <2> QED BY <1>1, <2>1, <2>2, CtxValues, EffectComputes
  <1> HIDE DEF c
  <1>9. /\ Executable(Here) /\ Here.op \notin {"load", "store", "jz", "jmpr", "dispatch"}
        /\ \A s \in States : NextPC(Here, ctx.PC, s) = c.PC
    BY <1>1, <1>7, NextPCFacts DEF Executable, ComputeOps
  <1>10. ExtendOK(Here, NoAccess, c)
    BY <1>1, <1>8, <1>9, Straight DEF ExtendOK
  <1> QED BY <1>1, <1>6, <1>10, NoAccessType DEF StepRight

LEMMA MemoryAccessRight ==
    ASSUME TypeInv, ~Timeouts, LiftMemoryAccess
    PROVE  StepRight
  <1>1. /\ Here.op \in {"load", "store"} /\ Here.addr \in Regs
        /\ (Here.op = "load" => Here.dst \in Regs) /\ (Here.op = "store" => Here.src \in Regs)
        /\ ctx.PC # 0 /\ Here \in BlockCode
    BY HereFacts, InstructionFields DEF LiftMemoryAccess, Reading
  <1>2. PICK acc \in Accesses(ctx.reg[Here.addr], ctx.cons) :
          /\ blocks' = Lifted(Here, acc)
          /\ \/ acc = Throw /\ Abort
             \/ /\ acc # Throw
                /\ UNCHANGED stack
                /\ \/ /\ Here.op = "load"
                      /\ \E new \in Loaded(ctx, Here.addr, acc) :
                            Continue([Saved EXCEPT !.PC = @ + 1, !.reg[Here.dst] = new], New)
                   \/ /\ Here.op = "store"
                      /\ \E new \in Stored(ctx, Here.addr, acc, ctx.reg[Here.src]) :
                            Continue([Saved EXCEPT !.PC = @ + 1, !.mem = new], New)
    BY DEF LiftMemoryAccess
  <1>3. /\ acc \in AccessRecords /\ (acc = Throw \/ acc.kind \in NoThrow)
        /\ acc = Throw \/ Covers(acc, ctx.reg[Here.addr], ctx.cons)
    BY <1>1, HereFacts, AccessesType, AccessesSound
  <1>4. CASE acc = Throw /\ Abort
    BY <1>1, <1>2, <1>3, <1>4, HereDecided DEF StepRight, Throws
  <1>5. ASSUME acc # Throw, NEW c, c.PC = ctx.PC + 1, ExtendsPath(Here, acc, c),
               \A m \in ctx.cons : m \in c.cons /\ Effect(Here, At(ctx, m)) = At(c, m)
        PROVE  StepRight
    <2>1. /\ Executable(Here) /\ Here.op \notin {"jz", "jmpr", "dispatch"}
          /\ \A s \in States : NextPC(Here, ctx.PC, s) = c.PC
      BY <1>1, <1>5, NextPCFacts DEF Executable
    <2>2. acc.kind \in {"constant", "select", "inttoptr"}
      BY <1>3, <1>5 DEF NoThrow
    <2>3. Covers(acc, ctx.reg[Here.addr], ctx.cons)
      BY <1>3, <1>5
    <2>4. ExtendOK(Here, acc, c)
      BY <1>1, <1>5, <2>1, <2>2, <2>3, Straight DEF ExtendOK
    <2> QED BY <1>1, <1>3, <1>5, <2>4 DEF StepRight
  <1>6. CASE acc # Throw /\ Here.op = "load"
    <2>1. PICK new \in Loaded(ctx, Here.addr, acc) :
            Continue([Saved EXCEPT !.PC = @ + 1, !.reg[Here.dst] = new], New)
      BY <1>2, <1>6
    <2>2. new \in HonestTerms
      BY <1>1, <1>3, <1>6, HereFacts, LoadedType
    <2> DEFINE c == Assigned(ctx.PC + 1, Here.dst, new)
    <2>3. ExtendsPath(Here, acc, c)
      BY <1>2, <1>6, <2>1, SavedFacts DEF ExtendsPath, Assigned
    <2>4. c.PC = ctx.PC + 1
      BY <1>1, <1>6, <2>2, RegisterStep
    <2>5. ASSUME NEW m \in ctx.cons
          PROVE  m \in c.cons /\ Effect(Here, At(ctx, m)) = At(c, m)
      <3>1. m \in c.cons /\ At(c, m) = WithReg(At(ctx, m), Here.dst, new.den[m])
        BY <1>1, <1>6, <2>2, RegisterStep
      <3>2. new.den[m] = ctx.mem[ctx.reg[Here.addr].den[m]].den[m]
        BY <1>1, <1>3, <1>6, HereFacts, LoadedSound
      <3>3. new.den[m] = At(ctx, m).mem[At(ctx, m).reg[Here.addr]]
        BY <1>1, <3>2, CtxValues, ZenonT(30)
      <3> QED BY <1>6, <3>1, <3>3, EffectLoads
    <2> HIDE DEF c
    <2> QED BY <1>5, <1>6, <2>3, <2>4, <2>5
  <1>7. CASE acc # Throw /\ Here.op = "store"
    <2>1. PICK new \in Stored(ctx, Here.addr, acc, ctx.reg[Here.src]) :
            Continue([Saved EXCEPT !.PC = @ + 1, !.mem = new], New)
      BY <1>2, <1>7
    <2> DEFINE c == [Saved EXCEPT !.PC = @ + 1, !.mem = new]
    <2>2. c.PC = ctx.PC + 1 /\ c.cons = ctx.cons /\ c.reg = ctx.reg /\ c.mem = new
      BY SavedFacts DEF Contexts
    <2>3. ExtendsPath(Here, acc, c)
      BY <1>2, <1>7, <2>1 DEF ExtendsPath
    <2> HIDE DEF c
    <2>4. ASSUME NEW m \in ctx.cons
          PROVE  Effect(Here, At(ctx, m)) = At(c, m)
      <3> DEFINE s == At(ctx, m)
                 w == s.reg[Here.addr]
                 f == [s.mem EXCEPT ![w] = s.reg[Here.src]]
      <3>1. /\ s \in States /\ w = ctx.reg[Here.addr].den[m] /\ w \in Words
            /\ s.reg[Here.src] = ctx.reg[Here.src].den[m]
            /\ \A a \in Words : s.mem[a] = ctx.mem[a].den[m]
            /\ \A r \in Regs : s.reg[r] = ctx.reg[r].den[m]
        BY <1>1, <1>7, CtxValues
      <3>2. \A a \in Words : new[a].den[m] =
               IF a = ctx.reg[Here.addr].den[m] THEN ctx.reg[Here.src].den[m] ELSE ctx.mem[a].den[m]
        BY <1>1, <1>3, <1>7, HereFacts, StoredSound
      <3> HIDE DEF s
      <3>3. f = [a \in Words |-> c.mem[a].den[m]]
        BY <2>2, <3>1, <3>2 DEF States
      <3>4. \A r \in Regs : c.reg[r].den[m] = s.reg[r]
        BY <2>2, <3>1
      <3>5. At(c, m) = WithMem(s, f)
        <4> HIDE DEF f
        <4> QED BY <3>1, <3>3, <3>4, AtMemory DEF s
      <3> QED BY <1>7, <3>1, <3>5, EffectStores DEF s
    <2> QED BY <1>5, <1>7, <2>2, <2>3, <2>4
  <1> QED BY <1>1, <1>2, <1>4, <1>6, <1>7

LEMMA SelectRight ==
    ASSUME TypeInv, LiftSelect
    PROVE  StepRight
  <1>1. /\ Here.op = "cmov" /\ Here.dst \in Regs /\ Here.cond \in Regs /\ Here.imm \in Words
        /\ ctx.PC # 0 /\ Here \in BlockCode
    BY HereFacts, InstructionFields DEF LiftSelect, Reading
  <1>2. PICK cond \in Conditions(Here.cond, 0) :
          \E new \in Simplified([m \in Models |-> IF m \in True(cond) THEN Here.imm
                                                 ELSE ctx.reg[Here.dst].den[m]],
                                cond.lit /\ (ctx.reg[Here.dst].lit \/ True(cond) = Models)) :
             Continue([Saved EXCEPT !.PC = @ + 1, !.reg[Here.dst] = new], New)
    BY DEF LiftSelect
  <1> DEFINE den == [m \in Models |-> IF m \in True(cond) THEN Here.imm
                                     ELSE ctx.reg[Here.dst].den[m]]
             folded == cond.lit /\ (ctx.reg[Here.dst].lit \/ True(cond) = Models)
  <1>3. den \in [Models -> Words] /\ folded \in BOOLEAN
    BY <1>1, HereFacts DEF HonestTerms, Terms
  <1>4. PICK new \in Simplified(den, folded) :
          Continue([Saved EXCEPT !.PC = @ + 1, !.reg[Here.dst] = new], New)
    BY <1>2
  <1>5. new \in HonestTerms /\ new.den = den
    <2> HIDE DEF den, folded
    <2> QED BY <1>3, <1>4, SimplifiedType
  <1> DEFINE c == Assigned(ctx.PC + 1, Here.dst, new)
  <1>6. ExtendsPath(Here, NoAccess, c)
    BY <1>4, SavedFacts DEF ExtendsPath, LiftSelect, Assigned
  <1>7. c.PC = ctx.PC + 1
    BY <1>1, <1>5, RegisterStep
  <1>8. ASSUME NEW m \in ctx.cons
        PROVE  m \in c.cons /\ Effect(Here, At(ctx, m)) = At(c, m)
    <2> DEFINE s == At(ctx, m)
    <2>1. m \in c.cons /\ At(c, m) = WithReg(s, Here.dst, new.den[m])
      BY <1>1, <1>5, RegisterStep
    <2>2. /\ m \in Models /\ s \in States
          /\ s.reg[Here.cond] = ctx.reg[Here.cond].den[m]
          /\ s.reg[Here.dst] = ctx.reg[Here.dst].den[m]
      BY <1>1, CtxValues
    <2>3. m \in True(cond) <=> s.reg[Here.cond] = 0
      BY <1>1, <2>2, ModelFacts, ConditionsType
    <2>4. new.den[m] = IF s.reg[Here.cond] = 0 THEN Here.imm ELSE s.reg[Here.dst]
      BY <1>5, <2>2, <2>3
    <2> HIDE DEF s
    <2>5. WithReg(s, Here.dst, s.reg[Here.dst]) = s
      BY <1>1, <2>2 DEF WithReg, States
    <2> HIDE DEF c
    <2> QED BY <1>1, <2>1, <2>2, <2>4, <2>5, EffectMoves DEF s
  <1> HIDE DEF c
  <1>9. /\ Executable(Here) /\ Here.op \notin {"load", "store", "jz", "jmpr", "dispatch"}
        /\ \A s \in States : NextPC(Here, ctx.PC, s) = c.PC
    BY <1>1, <1>7, NextPCFacts DEF Executable
  <1>10. ExtendOK(Here, NoAccess, c)
    BY <1>1, <1>8, <1>9, Straight DEF ExtendOK
  <1> QED BY <1>1, <1>6, <1>10, NoAccessType DEF StepRight

(* A jump changes neither registers nor memory. *)
LEMMA JumpRight ==
    ASSUME TypeInv, Here.op \in {"jmp", "ret", "jz", "jmpr", "dispatch"}, ctx.PC # 0,
           NEW c, ExtendsPath(Here, NoAccess, c),
           c.reg = ctx.reg, c.mem = ctx.mem, ctx.cons \subseteq c.cons,
           Here.op \in {"jmp", "ret"} => \A s \in States : NextPC(Here, ctx.PC, s) = c.PC,
           Here.op \in {"jz", "jmpr", "dispatch"} =>
               \A m \in ctx.cons : NextPC(Here, ctx.PC, At(ctx, m)) = c.PC
    PROVE  StepRight
  <1>1. Executable(Here) /\ Here.op \notin {"load", "store"} /\ Here \in BlockCode
    BY HereFacts DEF Executable
  <1>2. \A m \in ctx.cons : Effect(Here, At(ctx, m)) = At(c, m)
    <2> TAKE m \in ctx.cons
    <2>1. Effect(Here, At(ctx, m)) = At(ctx, m)
      BY EffectNone DEF ComputeOps
    <2> QED BY <2>1, SameStep
  <1>3. ExtendOK(Here, NoAccess, c)
    BY <1>1, <1>2, Straight DEF ExtendOK
  <1> QED BY <1>1, <1>3, NoAccessType DEF StepRight

LEMMA DirectJumpRight ==
    ASSUME TypeInv, LiftDirectJump
    PROVE  StepRight
  <1> DEFINE c == [Saved EXCEPT !.PC = Here.to]
  <1>1. Here.op = "jmp" /\ ctx.PC # 0 /\ ExtendsPath(Here, NoAccess, c)
    BY DEF LiftDirectJump, Reading, ExtendsPath
  <1>2. c.PC = Here.to /\ c.cons = ctx.cons /\ c.reg = ctx.reg /\ c.mem = ctx.mem
    BY SavedFacts DEF Contexts
  <1> HIDE DEF c
  <1>3. \A s \in States : NextPC(Here, ctx.PC, s) = c.PC
    BY <1>1, <1>2, NextPCFacts
  <1> QED BY <1>1, <1>2, <1>3, JumpRight

LEMMA ConcreteJumpRight ==
    ASSUME TypeInv, LiftConcreteJump
    PROVE  StepRight
  <1> DEFINE pc == CHOOSE w \in Solutions(Target, Models) : TRUE
             vpc == CHOOSE w \in Solutions(ctx.reg["v"], Models) : TRUE
  <1>1. Here.op \in IndirectOps /\ ctx.PC # 0 /\ Target.lit /\ blocks' = Lifted(Here, NoAccess)
    BY DEF LiftConcreteJump, Reading
  <1>2. \/ Continue([Saved EXCEPT !.PC = pc], New) /\ UNCHANGED stack
        \/ Continue([Saved EXCEPT !.PC = pc, !.VPC = vpc, !.VJMP = TRUE], New) /\ UNCHANGED stack
        \/ Abort
    BY DEF LiftConcreteJump
  <1>3. Solutions(Target, Models) # {} /\ Target \in HonestTerms
    BY <1>1, TargetType, ModelFacts DEF Solutions
  <1>4. \A m \in Models : Target.den[m] = pc
    <2>1. pc \in Solutions(Target, Models)
      BY <1>3
    <2> HIDE DEF pc
    <2> QED BY <1>1, <1>3, <2>1 DEF Solutions, HonestTerms, Unvarying
  <1>5. Here.op = "ret" => pc = 0
    BY <1>4, ModelFacts DEF Target, Literal
  <1>6. Here.op # "ret" => \A m \in ctx.cons : At(ctx, m).reg[Here.cond] = pc
    BY <1>1, <1>4, TargetType, CtxValues
  <1> HIDE DEF pc, vpc
  <1>7. /\ Here.op = "ret" => \A s \in States : NextPC(Here, ctx.PC, s) = pc
        /\ Here.op \in {"jmpr", "dispatch"} =>
              \A m \in ctx.cons : NextPC(Here, ctx.PC, At(ctx, m)) = pc
    BY <1>5, <1>6, NextPCFacts
  <1>8. ASSUME NEW c, c.PC = pc, c.reg = ctx.reg, c.mem = ctx.mem, c.cons = ctx.cons,
               Continue(c, New), UNCHANGED stack
        PROVE  StepRight
    BY <1>1, <1>7, <1>8, JumpRight DEF IndirectOps, ExtendsPath
  <1>9. CASE Continue([Saved EXCEPT !.PC = pc], New) /\ UNCHANGED stack
    <2> DEFINE c == [Saved EXCEPT !.PC = pc]
    <2>1. c.PC = pc /\ c.reg = ctx.reg /\ c.mem = ctx.mem /\ c.cons = ctx.cons
      BY SavedFacts DEF Contexts
    <2> HIDE DEF c
    <2>2. Continue(c, New)
      BY <1>9 DEF c
    <2> QED BY <1>8, <1>9, <2>1, <2>2
  <1>10. CASE Continue([Saved EXCEPT !.PC = pc, !.VPC = vpc, !.VJMP = TRUE], New) /\ UNCHANGED stack
    <2> DEFINE c == [Saved EXCEPT !.PC = pc, !.VPC = vpc, !.VJMP = TRUE]
    <2>1. c.PC = pc /\ c.reg = ctx.reg /\ c.mem = ctx.mem /\ c.cons = ctx.cons
      BY SavedFacts DEF Contexts
    <2> HIDE DEF c
    <2>2. Continue(c, New)
      BY <1>10 DEF c
    <2> QED BY <1>8, <1>10, <2>1, <2>2
  <1>11. CASE Abort
    BY <1>1, <1>11, HereFacts, HereDecided, NoAccessType DEF StepRight, Throws
  <1> QED BY <1>2, <1>9, <1>10, <1>11

(* handle_conditional_moves: a decided move, or both sides of one. *)
LEMMA MoveBlock ==
    ASSUME TypeInv, Here.op = "cmov", ctx.PC # 0, NEW moved \in BOOLEAN,
           NEW b, b = NewBlock(IF moved THEN Set(Here.dst, Here.imm) ELSE Keep, NoAccess),
           NEW c, c = IF moved THEN Moved(Saved) ELSE Kept(Saved)
    PROVE  /\ CodeRight(prog, b) /\ GoesOnAt(prog, b, c.PC) /\ Goes(b, c)
           /\ \A s : MoveRight(prog, b, s) <=> (s.reg[Here.cond] = 0 <=> moved)
  <1>1. Here.dst \in Regs /\ Here.imm \in Words /\ Here.cond \in Regs
    BY HereFacts, InstructionFields
  <1> DEFINE ins == IF moved THEN Set(Here.dst, Here.imm) ELSE Keep
  <1>2. /\ ins.op = IF moved THEN "set" ELSE "keep"
        /\ moved => ins.dst = Here.dst /\ ins.imm = Here.imm
    BY DEF Set, Keep
  <1>3. /\ b.at = ctx.PC /\ b.ins = ins /\ b.end.kind = "open"
        /\ b.belief.cons = ctx.cons /\ \A m : At(b.belief, m) = At(ctx, m)
    BY NewBlockFacts
  <1>4. b.ins # Nop /\ Fetch(prog, b.at) = Here
    BY <1>2, <1>3 DEF Nop, Here
  <1> HIDE DEF ins
  <1>5. \A s : MoveRight(prog, b, s) <=> (s.reg[Here.cond] = 0 <=> moved)
    BY <1>2, <1>3, <1>4 DEF MoveRight, Moves
  <1>6. Eligible(prog, b) = {At(ctx, m) : m \in ctx.cons}
    <2>1. Moves(prog, b)
      BY <1>2, <1>3, <1>4 DEF Moves
    <2> QED BY <1>3, <2>1 DEF Eligible, Special
  <1>7. \A s \in States : Run(b, s) = IF moved THEN WithReg(s, Here.dst, Here.imm) ELSE s
    <2> TAKE s \in States
    <2>1. Run(b, s) = Effect(ins, s)
      BY <1>2, <1>3, RunPlain
    <2>2. CASE moved
      <3>1. Effect(ins, s) = WithReg(s, Here.dst, Computed(ins, s.reg[Here.dst]))
        BY <1>1, <1>2, <2>2, EffectComputes DEF ComputeOps
      <3>2. Computed(ins, s.reg[Here.dst]) = Here.imm
        BY <1>2, <2>2 DEF Computed
      <3> QED BY <2>1, <2>2, <3>1, <3>2
    <2>3. CASE ~moved
      BY <1>2, <2>1, <2>3, EffectNone DEF ComputeOps
    <2> QED BY <2>2, <2>3
  <1>8. c.PC = ctx.PC + 1 /\ c.cons = ctx.cons /\ (~moved => c.reg = ctx.reg /\ c.mem = ctx.mem)
        /\ (moved => c = Assigned(ctx.PC + 1, Here.dst, Literal(Here.imm)))
    BY SavedFacts DEF Moved, Kept, Assigned, Contexts
  <1>9. \A s : s.reg[Here.cond] = 0 \/ s.reg[Here.cond] # 0
    OBVIOUS
  <1>10. \A m \in ctx.cons : MoveRight(prog, b, At(ctx, m)) =>
            Run(b, At(ctx, m)) = Effect(Here, At(ctx, m))
    <2> TAKE m \in ctx.cons
    <2>1. At(ctx, m) \in States
      BY CtxValues
    <2> QED BY <1>5, <1>7, <2>1, EffectMoves
  <1>11. CodeRight(prog, b)
    BY <1>3, <1>4, <1>6, <1>10 DEF CodeRight, Executable
  <1>12. GoesOnAt(prog, b, c.PC)
    BY <1>3, <1>4, <1>8, NextPCFacts DEF GoesOnAt, NextAt
  <1>13. \A m \in ctx.cons : Run(b, At(ctx, m)) = At(c, m)
    <2> TAKE m \in ctx.cons
    <2>1. At(ctx, m) \in States /\ m \in Models
      BY CtxValues
    <2>2. CASE moved
      <3>1. Literal(Here.imm) \in HonestTerms /\ Literal(Here.imm).den[m] = Here.imm
        BY <1>1, <2>1, LeafTerms DEF Literal
      <3>2. At(c, m) = WithReg(At(ctx, m), Here.dst, Here.imm)
        BY <1>1, <1>8, <2>2, <3>1, RegisterStep
      <3> QED BY <1>7, <2>1, <2>2, <3>2
    <2>3. CASE ~moved
      BY <1>7, <1>8, <2>1, <2>3, SameStep
    <2> QED BY <2>2, <2>3
  <1>14. Goes(b, c)
    BY <1>3, <1>8, <1>13 DEF Goes
  <1> QED BY <1>5, <1>11, <1>12, <1>14

LEMMA ConditionalMoveRight ==
    ASSUME TypeInv, LiftConditionalMove
    PROVE  StepRight
  <1> DEFINE move == Set(Here.dst, Here.imm)
             yes == NewBlock(move, NoAccess)
             no == NewBlock(Keep, NoAccess)
  <1>1. Here.op = "cmov" /\ Here.cond \in Regs /\ ctx.PC # 0 /\ 0 \in Words
    BY HereFacts, InstructionFields, ModelFacts DEF LiftConditionalMove, Reading
  <1>2. PICK cond \in Conditions(Here.cond, 0) :
          IF OpaqueSolving /\ Mode # "vcfg" /\ cond.lit
          THEN /\ blocks' = Lifted(IF True(cond) # {} THEN move ELSE Keep, NoAccess)
               /\ Continue(IF True(cond) # {} THEN Moved(Saved) ELSE Kept(Saved), New)
               /\ UNCHANGED stack
          ELSE ForksPath(Nop, Here.cond, 0, yes, no, Moved(Saved), Kept(Saved))
    BY DEF LiftConditionalMove, ForksPath, ForkedBlocks, NewBlock
  <1>3. move \in BlockCode /\ Keep \in BlockCode /\ Nop \in BlockCode
    BY <1>1, MoveContexts, CodeFacts
  <1>4. /\ CodeRight(prog, yes) /\ GoesOnAt(prog, yes, Moved(Saved).PC) /\ Goes(yes, Moved(Saved))
        /\ \A s : MoveRight(prog, yes, s) <=> s.reg[Here.cond] = 0
    BY <1>1, MoveBlock
  <1>5. /\ CodeRight(prog, no) /\ GoesOnAt(prog, no, Kept(Saved).PC) /\ Goes(no, Kept(Saved))
        /\ \A s : MoveRight(prog, no, s) <=> s.reg[Here.cond] # 0
    BY <1>1, MoveBlock
  <1>6. PathRight(prog, yes, Moved(Saved)) /\ PathRight(prog, no, Kept(Saved))
    BY <1>4, <1>5 DEF PathRight
  <1>7. /\ yes.at = ctx.PC /\ yes.end = Open /\ yes.belief.cons = ctx.cons
        /\ no.at = ctx.PC /\ no.end = Open /\ no.belief.cons = ctx.cons
        /\ \A m : At(yes.belief, m) = At(ctx, m) /\ At(no.belief, m) = At(ctx, m)
    BY NewBlockFacts
  <1>8. yes \in BlockRecords(New + 2) /\ no \in BlockRecords(New + 2)
    BY <1>3, HereFacts, BlockType, NoAccessType DEF NewBlock
  <1> HIDE DEF move, yes, no
  <1>9. CASE OpaqueSolving /\ Mode # "vcfg" /\ cond.lit
    <2> DEFINE moved == True(cond) # {}
               ins == IF moved THEN move ELSE Keep
               c == IF moved THEN Moved(Saved) ELSE Kept(Saved)
    <2>1. ExtendsPath(ins, NoAccess, c)
      BY <1>2, <1>9 DEF ExtendsPath
    <2>2. /\ True(cond) = {m \in Models : ctx.reg[Here.cond].den[m] = 0}
          /\ cond \in HonestTerms
      BY <1>1, ConditionsType
    <2>3. \A m \in ctx.cons : At(ctx, m).reg[Here.cond] = 0 <=> moved
      <3> TAKE m \in ctx.cons
      <3>1. m \in Models /\ At(ctx, m).reg[Here.cond] = ctx.reg[Here.cond].den[m]
        BY <1>1, CtxValues
      <3>2. moved => m \in True(cond)
        BY <1>9, <2>2, <3>1 DEF True, HonestTerms, Unvarying
      <3> QED BY <2>2, <3>1, <3>2
    <2>4. NewBlock(ins, NoAccess) = IF moved THEN yes ELSE no
      BY DEF yes, no
    <2>5. Decided(prog, NewBlock(ins, NoAccess))
      BY <1>4, <1>5, <1>7, <2>3, <2>4 DEF Decided
    <2>6. ExtendOK(ins, NoAccess, c)
      BY <1>6, <2>4, <2>5 DEF ExtendOK
    <2>7. ins \in BlockCode
      BY <1>3
    <2> HIDE DEF ins, c
    <2> QED BY <2>1, <2>6, <2>7, NoAccessType DEF StepRight
  <1>10. CASE ~(OpaqueSolving /\ Mode # "vcfg" /\ cond.lit)
    <2> DEFINE b == ForkBlock(Nop, Here.cond, 0)
    <2>1. ForksPath(Nop, Here.cond, 0, yes, no, Moved(Saved), Kept(Saved))
      BY <1>2, <1>10
    <2>2. /\ b.at = ctx.PC /\ b.ins = Nop /\ b.acc.kind = "none" /\ b.ins.op = "nop"
          /\ b.end.kind = "cond" /\ b.end.reg = Here.cond /\ b.end.val = 0
          /\ b.belief.cons = ctx.cons /\ \A m : At(b.belief, m) = At(ctx, m)
      BY ForkBlockFacts DEF Nop
    <2> HIDE DEF b
    <2>3. \A s \in States : Run(b, s) = s
      BY <2>2, RunPlain, EffectNone DEF ComputeOps
    <2>4. ~Moves(prog, b)
      BY <2>2 DEF Moves
    <2>5. Eligible(prog, b) = States
      BY <2>2, <2>4 DEF Eligible, Special
    <2>6. CodeRight(prog, b)
      BY <2>2, <2>3, <2>5 DEF CodeRight
    <2>7. \A s : Side(b, s, yes, no) = IF s.reg[Here.cond] = 0 THEN yes ELSE no
      BY <2>2 DEF Side
    <2>8. \A s \in States : MoveRight(prog, Side(b, s, yes, no), Run(b, s))
      BY <1>4, <1>5, <2>3, <2>7
    <2>9. \A s : Side(b, s, yes, no).at = NextAt(prog, b, s)
      BY <1>7, <2>2, <2>7 DEF NextAt
    <2>10. ForkRight(prog, b, yes, no)
      BY <2>6, <2>8, <2>9 DEF ForkRight
    <2>11. ForkSound(b, yes, no)
      BY <1>7, <2>2, <2>3, <2>7, CtxValues DEF ForkSound
    <2>12. Decided(prog, b)
      BY <2>4 DEF Decided, MoveRight
    <2>13. ForkOK(Nop, Here.cond, 0, yes, no, Moved(Saved), Kept(Saved))
      BY <1>6, <2>10, <2>11, <2>12 DEF ForkOK, b
    <2> QED BY <1>1, <1>3, <1>7, <1>8, <2>1, <2>13 DEF StepRight
  <1> QED BY <1>9, <1>10

(* A side of a branch: its constraint is added and the registers are solved. *)
LEMMA SolvedSound ==
    ASSUME TypeInv, NEW ms \in SUBSET Models, NEW pc \in Nat, NEW d \in Solved(Saved, ms, pc),
           NEW m \in ctx.cons, m \in ms
    PROVE  m \in d.cons /\ At(d, m) = At(ctx, m)
  <1>1. /\ d.cons = ctx.cons \cap ms /\ d.mem = ctx.mem
        /\ \A r \in Regs : d.reg[r] \in SimplifyUnder(ctx.reg[r], d.cons)
    <2>1. /\ New \in Nat /\ Saved \in Contexts(New)
          /\ Saved.cons = ctx.cons /\ Saved.reg = ctx.reg /\ Saved.mem = ctx.mem
      BY SavedFacts, HereFacts
    <2>2. /\ d.cons = Saved.cons \cap ms /\ d.mem = Saved.mem
          /\ \A r \in Regs : d.reg[r] \in SimplifyUnder(Saved.reg[r], d.cons)
      <3> HIDE DEF New
      <3>1. IsSolved(d, Saved, ms, pc)
        BY <2>1, SolvedFacts
      <3> QED BY <3>1 DEF IsSolved
    <2> QED BY <2>1, <2>2
  <1>2. m \in d.cons /\ d.cons \in SUBSET Models
    BY <1>1
  <1>3. \A r \in Regs : d.reg[r].den[m] = ctx.reg[r].den[m]
    BY <1>1, <1>2, HereFacts, SimplifyUnderSound
  <1> QED BY <1>1, <1>2, <1>3 DEF At

(* The block of an undecided branch (branching). *)
LEMMA BranchBlock ==
    ASSUME TypeInv, ctx.PC # 0, Here.op \in {"jz", "jmpr", "dispatch"},
           NEW r \in Regs, NEW w \in Words, NEW yes \in Nat, NEW no \in Nat,
           NEW jump \in Solved(Saved, {m \in Models : ctx.reg[r].den[m] = w}, yes),
           NEW fall \in Solved(Saved, {m \in Models : ctx.reg[r].den[m] # w}, no),
           Here.op = "jz" => \A s \in States :
              NextPC(Here, ctx.PC, s) = IF s.reg[r] = w THEN yes ELSE no,
           SolverLimit > 2 => \A m \in ctx.cons :
              NextPC(Here, ctx.PC, At(ctx, m)) = IF ctx.reg[r].den[m] = w THEN yes ELSE no
    PROVE  ForkOK(Here, r, w, Block(yes, Nop, NoAccess, Belief(jump)),
                  Block(no, Nop, NoAccess, Belief(fall)), jump, fall)
  <1> DEFINE b == ForkBlock(Here, r, w)
             y == Block(yes, Nop, NoAccess, Belief(jump))
             n == Block(no, Nop, NoAccess, Belief(fall))
             T == {m \in Models : ctx.reg[r].den[m] = w}
             F == {m \in Models : ctx.reg[r].den[m] # w}
  <1>1. /\ b.at = ctx.PC /\ b.ins = Here /\ b.acc.kind = "none"
        /\ b.end.kind = "cond" /\ b.end.reg = r /\ b.end.val = w
        /\ b.belief.cons = ctx.cons /\ \A m : At(b.belief, m) = At(ctx, m)
    BY ForkBlockFacts
  <1>2. Fetch(prog, b.at) = Here /\ Here # Nop /\ Executable(Here)
    BY <1>1 DEF Here, Nop, Executable
  <1>3. T \in SUBSET Models /\ F \in SUBSET Models
    OBVIOUS
  <1>4. /\ jump \in Contexts(New) /\ jump.PC = yes
        /\ fall \in Contexts(New) /\ fall.PC = no
    <2>1. New \in Nat /\ Saved \in Contexts(New)
      BY SavedFacts, HereFacts
    <2> HIDE DEF New
    <2>2. jump \in Contexts(New) /\ jump.PC = yes
      <3>1. jump \in Contexts(New) /\ IsSolved(jump, Saved, T, yes)
        BY <1>3, <2>1, SolvedFacts
      <3> QED BY <3>1 DEF IsSolved
    <2>3. fall \in Contexts(New) /\ fall.PC = no
      <3>1. fall \in Contexts(New) /\ IsSolved(fall, Saved, F, no)
        BY <1>3, <2>1, SolvedFacts
      <3> QED BY <3>1 DEF IsSolved
    <2> QED BY <2>2, <2>3
  <1>5. /\ PathRight(prog, y, jump) /\ PathRight(prog, n, fall)
        /\ \A s : MoveRight(prog, y, s) /\ MoveRight(prog, n, s)
    BY <1>4, HereFacts, NopBlock
  <1>6. /\ y.at = yes /\ n.at = no
        /\ y.belief.cons = jump.cons /\ n.belief.cons = fall.cons
        /\ \A m : At(y.belief, m) = At(jump, m) /\ At(n.belief, m) = At(fall, m)
    BY DEF Block, Belief, At
  <1> HIDE DEF b, y, n
  <1>7. ~Moves(prog, b)
    BY <1>1, <1>2 DEF Moves
  <1>8. \A s : Run(b, s) = s /\ Effect(Here, s) = s
    BY <1>1, RunPlain, EffectNone DEF ComputeOps
  <1>9. CodeRight(prog, b)
    BY <1>1, <1>2, <1>8 DEF CodeRight
  <1>10. \A s : Side(b, s, y, n) = IF s.reg[r] = w THEN y ELSE n
    BY <1>1 DEF Side
  <1>11. ASSUME NEW m \in ctx.cons
         PROVE  /\ m \in Models /\ At(ctx, m).reg[r] = ctx.reg[r].den[m]
                /\ m \in Side(b, At(ctx, m), y, n).belief.cons
                /\ At(Side(b, At(ctx, m), y, n).belief, m) = At(ctx, m)
    <2>1. m \in Models /\ At(ctx, m).reg[r] = ctx.reg[r].den[m]
      BY CtxValues
    <2>2. CASE ctx.reg[r].den[m] = w
      <3>1. m \in jump.cons /\ At(jump, m) = At(ctx, m)
        BY <1>3, <2>1, <2>2, SolvedSound
      <3> QED BY <1>6, <1>10, <2>1, <2>2, <3>1
    <2>3. CASE ctx.reg[r].den[m] # w
      <3>1. m \in fall.cons /\ At(fall, m) = At(ctx, m)
        BY <1>3, <2>1, <2>3, SolvedSound
      <3> QED BY <1>6, <1>10, <2>1, <2>3, <3>1
    <2> QED BY <2>1, <2>2, <2>3
  <1>12. ForkSound(b, y, n)
    BY <1>1, <1>8, <1>11 DEF ForkSound
  <1>13. SolverLimit > 2 => \A s \in Eligible(prog, b) : Side(b, s, y, n).at = NextAt(prog, b, s)
    <2> SUFFICES ASSUME SolverLimit > 2, NEW s \in Eligible(prog, b)
                 PROVE  Side(b, s, y, n).at = NextPC(Here, ctx.PC, s)
      BY <1>1, <1>2 DEF NextAt
    <2>1. CASE Here.op = "jz"
      <3>1. s \in States
        <4>1. ~Special(prog, b)
          BY <1>1, <1>7, <2>1 DEF Special
        <4> QED BY <4>1 DEF Eligible
      <3> QED BY <1>6, <1>10, <2>1, <3>1
    <2>2. CASE Here.op \in {"jmpr", "dispatch"}
      <3>1. PICK m \in ctx.cons : s = At(ctx, m)
        <4>1. Special(prog, b)
          BY <1>1, <2>2 DEF Special
        <4> QED BY <1>1, <4>1 DEF Eligible
      <3> QED BY <1>6, <1>10, <1>11, <3>1
    <2> QED BY <2>1, <2>2
  <1>14. ForkRight(prog, b, y, n)
    BY <1>5, <1>9, <1>10, <1>13 DEF ForkRight
  <1>15. Decided(prog, b)
    BY <1>7 DEF Decided, MoveRight
  <1> QED BY <1>5, <1>12, <1>14, <1>15 DEF ForkOK, b, y, n

LEMMA BranchingRight ==
    ASSUME TypeInv, ctx.PC # 0, Here.op \in {"jz", "jmpr", "dispatch"},
           NEW r \in Regs, NEW w \in Words, NEW yes \in Nat, NEW no \in Nat,
           Branching(r, w, yes, no),
           Here.op = "jz" => \A s \in States :
              NextPC(Here, ctx.PC, s) = IF s.reg[r] = w THEN yes ELSE no,
           Here.op # "jz" => \E m \in ctx.cons : ctx.reg[r].den[m] = w,
           \A m \in ctx.cons : ctx.reg[r].den[m] = w => NextPC(Here, ctx.PC, At(ctx, m)) = yes,
           SolverLimit > 2 => \A m \in ctx.cons :
              NextPC(Here, ctx.PC, At(ctx, m)) = IF ctx.reg[r].den[m] = w THEN yes ELSE no
    PROVE  StepRight
  <1>1. PICK cond \in Conditions(r, w) :
          IF OpaqueSolving /\ cond.lit
          THEN /\ Continue([Saved EXCEPT !.cons = @ \cap IF True(cond) # {} THEN True(cond)
                                                        ELSE Models \ True(cond),
                                        !.PC = IF True(cond) # {} THEN yes ELSE no], New)
               /\ blocks' = Lifted(Here, NoAccess)
               /\ UNCHANGED stack
          ELSE \E fall \in Solved(Saved, Models \ True(cond), no),
                  jump \in Solved(Saved, True(cond), yes) :
                  /\ blocks' = [Lifted(Here, NoAccess) EXCEPT
                                   ![New].end = CondBr(r, w, New + 1, New + 2)]
                               \o << Block(yes, Nop, NoAccess, Belief(jump)),
                                     Block(no, Nop, NoAccess, Belief(fall)) >>
                  /\ stack' = Append(stack, [ctx |-> fall, bb |-> New + 2])
                  /\ Continue(jump, New + 1)
    BY DEF Branching
  <1> DEFINE T == {m \in Models : ctx.reg[r].den[m] = w}
             F == {m \in Models : ctx.reg[r].den[m] # w}
  <1>2. True(cond) = T /\ Models \ True(cond) = F /\ cond \in HonestTerms
    BY ConditionsType
  <1>3. CASE OpaqueSolving /\ cond.lit
    <2>1. T = {} \/ T = Models
      <3>1. \A m, n \in Models : cond.den[m] = cond.den[n]
        BY <1>2, <1>3 DEF HonestTerms, Unvarying
      <3> QED BY <1>2, <3>1 DEF True
    <2> DEFINE pc == IF T # {} THEN yes ELSE no
               cons == Saved.cons \cap IF True(cond) # {} THEN True(cond) ELSE Models \ True(cond)
               c == [Saved EXCEPT !.cons = cons, !.PC = pc]
    <2>2. ExtendsPath(Here, NoAccess, c)
      BY <1>1, <1>2, <1>3 DEF ExtendsPath
    <2>3. cons = ctx.cons
      BY <1>2, <2>1, SavedFacts, HereFacts, ModelFacts
    <2> HIDE DEF cons, pc
    <2>4. c.reg = ctx.reg /\ c.mem = ctx.mem /\ c.cons = ctx.cons /\ c.PC = pc
      BY <2>3, SavedFacts DEF Contexts
    <2> HIDE DEF c
    <2>5. \A m \in ctx.cons : NextPC(Here, ctx.PC, At(ctx, m)) = c.PC
      <3> TAKE m \in ctx.cons
      <3>1. m \in Models /\ At(ctx, m).reg[r] = ctx.reg[r].den[m] /\ At(ctx, m) \in States
        BY CtxValues
      <3>2. CASE T # {}
        BY <2>1, <2>4, <3>1, <3>2 DEF pc
      <3>3. CASE T = {}
        <4>1. Here.op = "jz"
          BY <3>3, HereFacts
        <4>2. ctx.reg[r].den[m] # w
          BY <3>1, <3>3
        <4> QED BY <2>4, <3>1, <3>3, <4>1, <4>2 DEF pc
      <3> QED BY <3>2, <3>3
    <2> QED BY <2>2, <2>4, <2>5, JumpRight
  <1>4. CASE ~(OpaqueSolving /\ cond.lit)
    <2>1. PICK fall \in Solved(Saved, F, no), jump \in Solved(Saved, T, yes) :
            ForksPath(Here, r, w, Block(yes, Nop, NoAccess, Belief(jump)),
                      Block(no, Nop, NoAccess, Belief(fall)), jump, fall)
      BY <1>1, <1>2, <1>4 DEF ForksPath, ForkedBlocks
    <2>2. T \in SUBSET Models /\ F \in SUBSET Models
      OBVIOUS
    <2>3. fall \in Contexts(New) /\ jump \in Contexts(New)
      BY <2>2, HereFacts, SavedFacts, SolvedFacts
    <2> DEFINE y == Block(yes, Nop, NoAccess, Belief(jump))
               n == Block(no, Nop, NoAccess, Belief(fall))
    <2>4. y \in BlockRecords(New + 2) /\ n \in BlockRecords(New + 2)
      BY <2>3, HereFacts, BlockType, CodeFacts, NoAccessType
    <2>5. y.end = Open /\ n.end = Open
      BY DEF Block
    <2>6. ForkOK(Here, r, w, y, n, jump, fall)
      BY BranchBlock
    <2> HIDE DEF y, n
    <2>7. ForksPath(Here, r, w, y, n, jump, fall)
      BY <2>1 DEF y, n
    <2> QED BY <2>4, <2>5, <2>6, <2>7, HereFacts DEF StepRight
  <1> QED BY <1>3, <1>4

LEMMA ConditionalJumpRight ==
    ASSUME TypeInv, LiftConditionalJump
    PROVE  StepRight
  <1>1. /\ Here.op = "jz" /\ ctx.PC # 0
        /\ Here.to \in Nat /\ Here.cond \in Regs /\ ctx.PC + 1 \in Nat
    BY HereFacts, InstructionFields DEF LiftConditionalJump, Reading
  <1>2. Branching(Here.cond, 0, Here.to, ctx.PC + 1)
    BY DEF LiftConditionalJump
  <1>3. \A s : NextPC(Here, ctx.PC, s) = IF s.reg[Here.cond] = 0 THEN Here.to ELSE ctx.PC + 1
    BY <1>1, NextPCFacts
  <1>4. \A m \in ctx.cons : NextPC(Here, ctx.PC, At(ctx, m)) =
            IF ctx.reg[Here.cond].den[m] = 0 THEN Here.to ELSE ctx.PC + 1
    BY <1>1, <1>3, CtxValues
  <1> QED BY <1>1, <1>2, <1>3, <1>4, ModelFacts, BranchingRight, SMTT(30)

LEMMA SymbolicJumpRight ==
    ASSUME TypeInv, ~Timeouts, LiftSymbolicJump
    PROVE  StepRight
  <1>1. Here.op \in IndirectOps /\ ~Target.lit /\ ctx.PC # 0
    BY DEF LiftSymbolicJump, Reading
  <1>2. /\ Target \in HonestTerms
        /\ Here.op \in {"jmpr", "dispatch"}
        /\ Here.cond \in Regs /\ Target = ctx.reg[Here.cond]
    <2>1. Here.op # "ret"
      BY <1>1 DEF Target, Literal
    <2> QED BY <1>1, <2>1, TargetType DEF IndirectOps
  <1>3. PICK q \in PossibleValues(Target, ctx.cons) :
          \/ /\ Cardinality(q.vals) = 1
             /\ \E w \in q.vals : Continue([Saved EXCEPT !.PC = w], New)
             /\ blocks' = Lifted(Here, NoAccess)
             /\ UNCHANGED stack
          \/ /\ Cardinality(q.vals) = 2
             /\ \E front, back \in q.vals : front # back /\ Branching(Here.cond, front, front, back)
          \/ blocks' = Lifted(Here, NoAccess) /\ ExploreOtherPaths
    BY DEF LiftSymbolicJump
  <1>4. /\ q.vals \subseteq Words /\ q.vals \subseteq Nat /\ q.vals \subseteq Solutions(Target, ctx.cons)
        /\ q.vals = Solutions(Target, ctx.cons) \/ Cardinality(q.vals) = SolverLimit
    BY <1>2, HereFacts, PossibleValuesType, AllValues, ModelFacts
  <1>5. \A m \in ctx.cons : /\ NextPC(Here, ctx.PC, At(ctx, m)) = Target.den[m]
                            /\ Target.den[m] \in Solutions(Target, ctx.cons)
    BY <1>2, CtxValues, NextPCFacts DEF Solutions
  <1>6. CASE /\ Cardinality(q.vals) = 1
             /\ \E w \in q.vals : Continue([Saved EXCEPT !.PC = w], New)
             /\ blocks' = Lifted(Here, NoAccess)
             /\ UNCHANGED stack
    <2>1. PICK w \in q.vals : Continue([Saved EXCEPT !.PC = w], New)
      BY <1>6
    <2> DEFINE c == [Saved EXCEPT !.PC = w]
    <2>2. c.PC = w /\ c.reg = ctx.reg /\ c.mem = ctx.mem /\ c.cons = ctx.cons
      BY SavedFacts DEF Contexts
    <2>3. ExtendsPath(Here, NoAccess, c)
      BY <1>6, <2>1 DEF ExtendsPath
    <2> HIDE DEF c
    <2>4. q.vals = {w}
      BY <1>4, <1>6, OneWord
    <2>5. q.vals = Solutions(Target, ctx.cons)
      BY <1>4, <1>6, ExplorerConstants
    <2>6. \A m \in ctx.cons : NextPC(Here, ctx.PC, At(ctx, m)) = c.PC
      BY <1>5, <2>2, <2>4, <2>5
    <2> QED BY <1>1, <1>2, <2>2, <2>3, <2>6, JumpRight
  <1>7. CASE /\ Cardinality(q.vals) = 2
             /\ \E front, back \in q.vals : front # back /\ Branching(Here.cond, front, front, back)
    <2>1. PICK front, back \in q.vals : front # back /\ Branching(Here.cond, front, front, back)
      BY <1>7
    <2>2. q.vals = {front, back}
      BY <1>4, <1>7, <2>1, Cardinalities
    <2>3. \E m \in ctx.cons : ctx.reg[Here.cond].den[m] = front
      BY <1>2, <1>4 DEF Solutions
    <2>4. SolverLimit > 2 => q.vals = Solutions(Target, ctx.cons)
      BY <1>4, <1>7, ExplorerConstants
    <2>5. \A m \in ctx.cons : ctx.reg[Here.cond].den[m] = front =>
             NextPC(Here, ctx.PC, At(ctx, m)) = front
      BY <1>2, <1>5
    <2>6. SolverLimit > 2 => \A m \in ctx.cons : NextPC(Here, ctx.PC, At(ctx, m)) =
             IF ctx.reg[Here.cond].den[m] = front THEN front ELSE back
      BY <1>2, <1>5, <2>2, <2>4
    <2>7. front \in Words /\ front \in Nat /\ back \in Nat
      BY <1>4, <2>1
    <2> QED BY <1>1, <1>2, <2>1, <2>3, <2>5, <2>6, <2>7, BranchingRight
  <1>8. CASE blocks' = Lifted(Here, NoAccess) /\ ExploreOtherPaths
    BY <1>8, HereFacts, HereDecided DEF StepRight, CutsPath
  <1> QED BY <1>3, <1>6, <1>7, <1>8

(* Every iteration of the loop does what is right about it. *)
LEMMA StepsRight ==
    ASSUME TypeInv, ~Timeouts, Lift
    PROVE  StepRight
  <1>1. CASE FunctionEnded
    BY <1>1 DEF FunctionEnded, StepRight, ClosesPath
  <1>2. CASE EdgeRebuilt
    BY <1>2 DEF EdgeRebuilt, StepRight, ClosesPath
  <1>3. CASE DecodeFails
    BY <1>3 DEF DecodeFails, StepRight, LeavesPath
  <1>4. CASE LiftFails
    BY <1>4, HereFacts, HereDecided DEF LiftFails, StepRight, FailsInBlock
  <1>5. CASE LiftComputation \/ LiftMemoryAccess \/ LiftSelect \/ LiftConditionalMove
    BY <1>5, ComputationRight, MemoryAccessRight, SelectRight, ConditionalMoveRight
  <1>6. CASE LiftDirectJump \/ LiftConditionalJump \/ LiftConcreteJump \/ LiftSymbolicJump
    BY <1>6, DirectJumpRight, ConditionalJumpRight, ConcreteJumpRight, SymbolicJumpRight
  <1> QED BY <1>1, <1>2, <1>3, <1>4, <1>5, <1>6 DEF Lift

-----------------------------------------------------------------------------
\* What lifting keeps

\* the same block, but perhaps another terminator
SameCode(b, c) == b.at = c.at /\ b.ins = c.ins /\ b.acc = c.acc /\ b.belief = c.belief

LEMMA SameMoves ==
    ASSUME NEW p, NEW b, NEW c, SameCode(b, c)
    PROVE  /\ \A s : MoveRight(p, b, s) <=> MoveRight(p, c, s)
           /\ Decided(p, b) <=> Decided(p, c)
  BY DEF SameCode, MoveRight, Moves, Decided

LEMMA SameRight ==
    ASSUME NEW p, NEW b, NEW c, SameCode(b, c), b.end.kind # "cond", c.end.kind # "cond"
    PROVE  /\ CodeRight(p, b) <=> CodeRight(p, c)
           /\ \A pc : GoesOnAt(p, b, pc) <=> GoesOnAt(p, c, pc)
           /\ \A k : Goes(b, k) <=> Goes(c, k)
  <1>1. \A s : MoveRight(p, b, s) <=> MoveRight(p, c, s)
    BY SameMoves
  <1>2. Eligible(p, b) = Eligible(p, c)
    BY DEF Eligible, Special, Moves, SameCode
  <1>3. \A s : Run(b, s) = Run(c, s) /\ NextAt(p, b, s) = NextAt(p, c, s)
    BY DEF Run, NextAt, SameCode
  <1>4. b.ins = c.ins /\ b.at = c.at /\ b.belief = c.belief
    BY DEF SameCode
  <1> QED BY <1>1, <1>2, <1>3, <1>4 DEF CodeRight, GoesOnAt, Goes

(* The edges of a block that is not touched. *)
LEMMA OldEdges ==
    ASSUME NEW p, NEW bs, NEW cs, NEW i, cs[i] = bs[i],
           \A j \in Successors(bs[i].end) : SameCode(bs[j], cs[j])
    PROVE  /\ EdgeRight(p, bs, i) => EdgeRight(p, cs, i)
           /\ EdgeSound(bs, i) => EdgeSound(cs, i)
  <1> DEFINE e == bs[i].end
  <1>1. CASE e.kind = "br"
    <2>1. SameCode(bs[e.to], cs[e.to])
      BY <1>1 DEF Successors
    <2>2. Decided(p, bs[e.to]) <=> Decided(p, cs[e.to])
      BY <2>1, SameMoves
    <2>3. bs[e.to].at = cs[e.to].at /\ bs[e.to].belief = cs[e.to].belief
      BY <2>1 DEF SameCode
    <2> QED BY <1>1, <2>2, <2>3 DEF EdgeRight, EdgeSound
  <1>2. CASE e.kind = "cond"
    <2>1. SameCode(bs[e.yes], cs[e.yes]) /\ SameCode(bs[e.no], cs[e.no])
      BY <1>2 DEF Successors
    <2> DEFINE y == bs[e.yes]
               n == bs[e.no]
               y2 == cs[e.yes]
               n2 == cs[e.no]
               b == bs[i]
    <2>2. \A s : MoveRight(p, Side(b, s, y, n), Run(b, s)) <=> MoveRight(p, Side(b, s, y2, n2), Run(b, s))
      BY <2>1, SameMoves DEF Side
    <2>3. \A s : /\ Side(b, s, y, n).at = Side(b, s, y2, n2).at
                 /\ Side(b, s, y, n).belief = Side(b, s, y2, n2).belief
      BY <2>1 DEF Side, SameCode
    <2> HIDE DEF y, n, y2, n2, b
    <2>4. ForkRight(p, b, y, n) => ForkRight(p, b, y2, n2)
      BY <2>2, <2>3 DEF ForkRight
    <2>5. ForkSound(b, y, n) => ForkSound(b, y2, n2)
      BY <2>3 DEF ForkSound
    <2> QED BY <1>2, <2>4, <2>5 DEF EdgeRight, EdgeSound, y, n, y2, n2, b
  <1>3. CASE e.kind \notin {"br", "cond"}
    BY <1>3 DEF EdgeRight, EdgeSound
  <1> QED BY <1>1, <1>2, <1>3

(* A block without edges. *)
LEMMA NoEdges ==
    ASSUME NEW p, NEW bs, NEW i, bs[i].end \in {Open, Unreachable}
    PROVE  EdgeRight(p, bs, i) /\ EdgeSound(bs, i)
  <1>1. Open.kind = "open" /\ Unreachable.kind = "unreachable"
    BY DEF Open, Unreachable
  <1> QED BY <1>1 DEF EdgeRight, EdgeSound

(* The edge from the insert point into the block of the instruction. *)
LEMMA EnteredEdge ==
    ASSUME IInv, PathRight(prog, blocks[ip], ctx), blocks[ip].end = Open, NEW bs, NEW ins, NEW acc,
           bs[ip] = [blocks[ip] EXCEPT !.end = Br(New)],
           SameCode(bs[New], NewBlock(ins, acc)), Decided(prog, NewBlock(ins, acc))
    PROVE  EdgeRight(prog, bs, ip) /\ EdgeSound(bs, ip)
  <1> DEFINE b == blocks[ip]
             c == bs[ip]
             t == bs[New]
  <1>1. /\ b \in BlockRecords(Len(blocks)) /\ b.end.kind = "open"
    BY ElementOfSeq DEF IInv, TypeInv, Open
  <1>2. SameCode(c, b) /\ c.end = Br(New)
    BY <1>1 DEF SameCode, BlockRecords
  <1>3. c.end.kind = "br" /\ c.end.to = New
    BY <1>2 DEF Br
  <1>4. /\ t.at = ctx.PC /\ t.belief = Belief(ctx) /\ Decided(prog, t)
    <2>1. NewBlock(ins, acc).at = ctx.PC /\ NewBlock(ins, acc).belief = Belief(ctx)
      BY DEF NewBlock, Block
    <2> QED BY <2>1, SameMoves DEF SameCode
  <1> HIDE DEF b, c, t
  <1>5. CodeRight(prog, c) /\ GoesOnAt(prog, c, ctx.PC) /\ Goes(c, ctx)
    BY <1>1, <1>2, <1>3, SameRight DEF PathRight, b
  <1>6. Goes(c, Belief(ctx))
    BY <1>5 DEF Goes, Belief, At
  <1> QED BY <1>3, <1>4, <1>5, <1>6 DEF EdgeRight, EdgeSound, c, t

(* CFG_recovery finds nothing in symbolic mode, and in the merging CFG mode  *)
(* the block of the very address.                                           *)
LEMMA KnownFacts ==
    ASSUME Known
    PROVE  /\ Mode # "symbolic"
           /\ Exact(job) => Index = <<CFG, ctx.PC>> /\ ctx.PC \in DOMAIN CFG
  <1>1. Mode = "symbolic" => Index = << <<>>, 0>>
    BY DEF Index
  <1>2. Mode = "cfg" /\ JoinPolicy = "merge" => Index = <<CFG, ctx.PC>>
    BY DEF Index
  <1> QED BY <1>1, <1>2, EmptyMap DEF Known, Exact, Mode, JoinPolicy

\* the function has grown by the block of an instruction
Grows(ins, acc) ==
    /\ New \in 1..Len(blocks')
    /\ blocks'[ip] = [blocks[ip] EXCEPT !.end = Br(New)]
    /\ SameCode(blocks'[New], NewBlock(ins, acc))
    /\ Decided(prog, NewBlock(ins, acc))

\* what a step has to show, given that it touches no other old block
StepKeeps ==
    /\ UNCHANGED job
    /\ Exact(job) => \A i \in {ip} \cup ((Len(blocks) + 1)..Len(blocks')) : EdgeRight(prog, blocks', i)
    /\ Mode = "symbolic" => \A i \in {ip} \cup ((Len(blocks) + 1)..Len(blocks')) : EdgeSound(blocks', i)
    /\ UNCHANGED CFG \/ \E ins, acc : Grows(ins, acc)
    /\ phase' = "lift" => PathsRight'

LEMMA KeepsInv ==
    ASSUME IInv, LiftInv, Lift, StepKeeps
    PROVE  LiftInv'
  <1>1. TypeInv /\ TypeInv' /\ OnlyInsertPoint /\ phase = "lift" /\ Maps
    BY TypeStep, InsertPointStep, StepShapes DEF IInv
  <1>2. /\ Len(blocks) \in Nat /\ Len(blocks') \in Nat /\ ip \in 1..Len(blocks)
        /\ Len(blocks) <= Len(blocks')
        /\ blocks \in Seq(BlockRecords(Len(blocks)))
    BY <1>1 DEF TypeInv, OnlyInsertPoint
  <1>3. \A j \in 1..Len(blocks) : SameCode(blocks[j], blocks'[j])
    BY <1>1 DEF OnlyInsertPoint, SameCode
  <1>4. prog' = prog /\ Exact(job') = Exact(job) /\ Mode' = Mode
    BY DEF StepKeeps, prog, Exact, Mode
  <1>5. ASSUME NEW i \in 1..Len(blocks), i # ip
        PROVE  /\ EdgeRight(prog, blocks, i) => EdgeRight(prog, blocks', i)
               /\ EdgeSound(blocks, i) => EdgeSound(blocks', i)
    <2>1. blocks'[i] = blocks[i]
      BY <1>1, <1>5 DEF OnlyInsertPoint
    <2>2. blocks[i].end \in Ends(Len(blocks))
      <3>1. blocks[i] \in BlockRecords(Len(blocks))
        BY <1>2, ElementOfSeq
      <3> QED BY <3>1 DEF BlockRecords
    <2>3. \A j \in Successors(blocks[i].end) : SameCode(blocks[j], blocks'[j])
      BY <1>2, <1>3, <2>2, EndFacts
    <2> QED BY <2>1, <2>3, OldEdges
  <1>6. \A i \in 1..Len(blocks') :
           i \in {ip} \cup ((Len(blocks) + 1)..Len(blocks')) \/ (i \in 1..Len(blocks) /\ i # ip)
    BY <1>2
  <1>7. Exact(job) => \A i \in 1..Len(blocks') : EdgeRight(prog, blocks', i)
    BY <1>5, <1>6 DEF StepKeeps, LiftInv
  <1>8. Mode = "symbolic" => \A i \in 1..Len(blocks') : EdgeSound(blocks', i)
    BY <1>5, <1>6 DEF StepKeeps, LiftInv
  <1>9. EntryRight'
    <2>1. 1 \in 1..Len(blocks)
      BY <1>2
    <2> QED BY <1>3, <2>1 DEF LiftInv, EntryRight, SameCode
  <1>10. KnownRight'
    <2>1. \A pc \in DOMAIN CFG : CFG[pc] \in 1..Len(blocks)
      BY <1>1, <1>2, BlockMapFacts DEF TypeInv
    <2>2. \A pc \in DOMAIN CFG :
             blocks'[CFG[pc]].at = pc /\ Decided(prog, blocks'[CFG[pc]])
      <3> TAKE pc \in DOMAIN CFG
      <3>1. SameCode(blocks[CFG[pc]], blocks'[CFG[pc]])
        BY <1>3, <2>1
      <3>2. blocks[CFG[pc]].at = pc /\ Decided(prog, blocks[CFG[pc]])
        BY DEF LiftInv, KnownRight
      <3> QED BY <3>1, <3>2, SameMoves DEF SameCode
    <2>3. CASE UNCHANGED CFG
      BY <1>4, <2>2, <2>3 DEF KnownRight
    <2>4. CASE \E ins, acc : Grows(ins, acc)
      <3>1. PICK ins, acc : Grows(ins, acc)
        BY <2>4
      <3>2. blocks'[New].at = ctx.PC /\ Decided(prog, blocks'[New])
        BY <3>1, SameMoves, NewBlockFacts DEF Grows, SameCode
      <3>3. UNCHANGED CFG \/ CFG' = Bind(CFG, ctx.PC, New)
        BY <1>1 DEF Maps, SaveBlock
      <3>4. CASE CFG' = Bind(CFG, ctx.PC, New)
        <4>1. /\ DOMAIN CFG' = DOMAIN CFG \cup {ctx.PC}
              /\ \A pc \in DOMAIN CFG' : CFG'[pc] = IF pc = ctx.PC THEN New ELSE CFG[pc]
          BY <3>4 DEF Bind
        <4> QED BY <1>4, <2>2, <3>2, <4>1 DEF KnownRight
      <3> QED BY <1>4, <2>2, <3>3, <3>4 DEF KnownRight
    <2> QED BY <2>3, <2>4 DEF StepKeeps
  <1>11. PathsRight'
    BY DEF StepKeeps, PathsRight
  <1> QED BY <1>4, <1>7, <1>8, <1>9, <1>10, <1>11 DEF LiftInv

(* The paths that wait are not touched, and one of them may be taken up. *)
LEMMA OtherPaths ==
    ASSUME IInv, LiftInv, phase = "lift", OnlyInsertPoint, UNCHANGED job
    PROVE  /\ \A i \in 1..Len(stack) : PathRight(prog, blocks'[stack[i].bb], stack[i].ctx)
           /\ ExploreOtherPaths => PathsRight'
  <1>1. /\ Len(blocks) \in Nat /\ ip \in 1..Len(blocks) /\ ctx \in Contexts(Len(blocks))
        /\ stack \in Seq(SavedPaths(Len(blocks))) /\ Len(stack) \in Nat
        /\ DOMAIN stack = 1..Len(stack)
    BY DEF IInv, TypeInv
  <1>2. \A i \in 1..Len(stack) : blocks'[stack[i].bb] = blocks[stack[i].bb]
    <2> TAKE i \in 1..Len(stack)
    <2>1. stack[i] \in SavedPaths(Len(blocks))
      BY <1>1, ElementOfSeq
    <2>2. stack[i].bb \in 1..Len(blocks) /\ stack[i].bb # ip
      BY <1>1, <2>1 DEF IInv, PathsHaveOwnBlocks, SavedPaths
    <2> QED BY <2>2 DEF OnlyInsertPoint
  <1>3. \A i \in 1..Len(stack) : PathRight(prog, blocks'[stack[i].bb], stack[i].ctx)
    BY <1>2 DEF LiftInv, PathsRight
  <1>4. ASSUME ExploreOtherPaths, phase' = "lift"
        PROVE  PathsRight'
    <2>1. /\ Len(stack) \in 1..Len(stack)
          /\ ctx' = stack[Len(stack)].ctx /\ ip' = stack[Len(stack)].bb
          /\ Len(stack') = Len(stack) - 1
          /\ \A i \in 1..Len(stack') : stack'[i] = stack[i]
      BY <1>1, <1>4, ExploreFacts
    <2>2. \A i \in 1..Len(stack') : i \in 1..Len(stack)
      <3> DEFINE k == Len(stack)  l == Len(stack')
      <3>1. k \in Nat /\ l = k - 1
        BY <1>1, <2>1
      <3> HIDE DEF k, l
      <3>2. \A i \in 1..l : i \in 1..k
        BY <3>1
      <3> QED BY <3>2 DEF k, l
    <2>3. prog' = prog
      BY DEF prog
    <2>4. PathRight(prog, blocks'[ip'], ctx')
      BY <1>3, <2>1
    <2>5. \A i \in 1..Len(stack') : PathRight(prog, blocks'[stack'[i].bb], stack'[i].ctx)
      BY <1>3, <2>1, <2>2
    <2> QED BY <2>3, <2>4, <2>5 DEF PathsRight
  <1> QED BY <1>3, <1>4 DEF PathsRight

(* The path ends at the caller, or runs into a block that is there. *)
LEMMA CloseKeeps ==
    ASSUME IInv, LiftInv, Lift, NEW e \in {ReturnState, Br(Index[1][Index[2]])}, ClosesPath(e),
           e = ReturnState => ctx.PC = 0, e # ReturnState => Known
    PROVE  StepKeeps
  <1>1. TypeInv /\ OnlyInsertPoint /\ phase = "lift" /\ UNCHANGED job
    BY TypeStep, InsertPointStep, StepShapes DEF IInv, ClosesPath, ExploreOtherPaths
  <1>2. /\ Len(blocks) \in Nat /\ ip \in 1..Len(blocks)
        /\ blocks \in Seq(BlockRecords(Len(blocks)))
        /\ blocks[ip] \in BlockRecords(Len(blocks))
    BY <1>1, ElementOfSeq DEF TypeInv
  <1>3. e \in Ends(Len(blocks)) /\ ReturnState.kind = "ret"
        /\ (e # ReturnState => e.kind = "br" /\ e.to = Index[1][Index[2]])
    BY <1>1, <1>2, EndFacts, KnownBlock DEF ReturnState, Br
  <1>4. /\ Len(blocks') = Len(blocks)
        /\ blocks'[ip] = [blocks[ip] EXCEPT !.end = e]
    BY <1>2, <1>3, CloseFacts DEF ClosesPath
  <1>5. SameCode(blocks'[ip], blocks[ip]) /\ blocks'[ip].end = e
    BY <1>2, <1>4 DEF SameCode, BlockRecords
  <1>6. PathRight(prog, blocks[ip], ctx) /\ blocks[ip].end.kind = "open"
    BY <1>1 DEF LiftInv, PathsRight, IInv, PathsHaveOwnBlocks, Open
  <1>7. CodeRight(prog, blocks'[ip]) /\ GoesOnAt(prog, blocks'[ip], ctx.PC)
    <2>1. blocks'[ip].end.kind # "cond"
      BY <1>3, <1>5
    <2> QED BY <1>5, <1>6, <2>1, SameRight DEF PathRight
  <1>8. Exact(job) => EdgeRight(prog, blocks', ip)
    <2>1. CASE e = ReturnState
      BY <1>3, <1>5, <1>7, <2>1 DEF EdgeRight
    <2>2. CASE e # ReturnState /\ Exact(job)
      <3>1. e.to = CFG[ctx.PC] /\ ctx.PC \in DOMAIN CFG
        BY <1>3, <2>2, KnownFacts
      <3>2. e.to \in 1..Len(blocks)
        BY <1>1, <1>3, <2>2, KnownBlock
      <3>3. blocks[e.to].at = ctx.PC /\ Decided(prog, blocks[e.to])
        BY <3>1 DEF LiftInv, KnownRight
      <3>4. SameCode(blocks[e.to], blocks'[e.to])
        BY <1>1, <3>2 DEF OnlyInsertPoint, SameCode
      <3>5. blocks'[e.to].at = ctx.PC /\ Decided(prog, blocks'[e.to])
        BY <3>3, <3>4, SameMoves DEF SameCode
      <3> QED BY <1>3, <1>5, <1>7, <2>2, <3>5 DEF EdgeRight
    <2> QED BY <2>1, <2>2
  <1>9. Mode = "symbolic" => EdgeSound(blocks', ip)
    BY <1>3, <1>5, KnownFacts DEF EdgeSound
  <1>10. {ip} \cup ((Len(blocks) + 1)..Len(blocks')) = {ip}
    BY <1>2, <1>4
  <1>11. PathsRight' /\ UNCHANGED CFG
    BY <1>1, OtherPaths DEF ClosesPath
  <1> QED BY <1>1, <1>8, <1>9, <1>10, <1>11 DEF StepKeeps

(* One block more, and the path ends, throws or goes on. *)
LEMMA GrowKeeps ==
    ASSUME IInv, LiftInv, Lift, NEW ins, NEW acc, Grows(ins, acc), UNCHANGED job,
           \A i \in (Len(blocks) + 1)..Len(blocks') : EdgeRight(prog, blocks', i) /\ EdgeSound(blocks', i),
           phase' = "lift" => PathsRight'
    PROVE  StepKeeps
  <1>1. phase = "lift"
    BY StepShapes DEF IInv
  <1>2. PathRight(prog, blocks[ip], ctx) /\ blocks[ip].end = Open
    BY <1>1 DEF LiftInv, PathsRight, IInv, PathsHaveOwnBlocks
  <1>3. EdgeRight(prog, blocks', ip) /\ EdgeSound(blocks', ip)
    BY <1>2, EnteredEdge DEF Grows
  <1> QED BY <1>3 DEF StepKeeps

LEMMA GrownBlock ==
    ASSUME IInv, NEW ins \in BlockCode, NEW acc \in AccessRecords,
           blocks' = Lifted(ins, acc), Decided(prog, NewBlock(ins, acc))
    PROVE  /\ Grows(ins, acc) /\ blocks'[New] = NewBlock(ins, acc)
           /\ \A i \in (Len(blocks) + 1)..Len(blocks') : EdgeRight(prog, blocks', i) /\ EdgeSound(blocks', i)
  <1>1. /\ New \in Nat /\ New = Len(blocks) + 1 /\ Len(blocks') = New
        /\ Len(blocks) \in Nat /\ ip \in 1..Len(blocks)
        /\ blocks'[New] = NewBlock(ins, acc)
        /\ blocks'[ip] = [blocks[ip] EXCEPT !.end = Br(New)]
    BY LiftedFacts, HereFacts DEF IInv, TypeInv, NewBlock
  <1> HIDE DEF New
  <1>2. New \in 1..Len(blocks') /\ \A i \in (Len(blocks) + 1)..Len(blocks') : i = New
    BY <1>1
  <1>3. blocks'[New].end = Open
    BY <1>1, NewBlockFacts
  <1>4. EdgeRight(prog, blocks', New) /\ EdgeSound(blocks', New)
    BY <1>3, NoEdges
  <1> QED BY <1>1, <1>2, <1>4 DEF Grows, SameCode

LEMMA FailKeeps ==
    ASSUME IInv, LiftInv, Lift, NEW ins \in BlockCode, FailsInBlock(ins),
           Decided(prog, NewBlock(ins, NoAccess))
    PROVE  StepKeeps
  <1> DEFINE L == Lifted(ins, NoAccess)
  <1>1. /\ New \in Nat /\ New = Len(blocks) + 1 /\ Len(blocks) \in Nat /\ ip \in 1..Len(blocks)
        /\ L \in Seq(BlockRecords(New)) /\ Len(L) = New
        /\ L[New] = NewBlock(ins, NoAccess)
        /\ L[ip] = [blocks[ip] EXCEPT !.end = Br(New)]
    BY LiftedFacts, HereFacts, NoAccessType DEF IInv, TypeInv, NewBlock
  <1>2. blocks' = [L EXCEPT ![New].end = Unreachable] /\ UNCHANGED job
    BY DEF FailsInBlock, ExploreOtherPaths
  <1> HIDE DEF L, New
  <1>3. Unreachable \in Ends(New) /\ New \in 1..Len(L) /\ ip # New /\ ip \in 1..New
    BY <1>1, EndFacts
  <1>4. /\ Len(blocks') = New
        /\ \A j \in 1..New : blocks'[j] = IF j = New THEN [L[New] EXCEPT !.end = Unreachable] ELSE L[j]
        /\ [L[New] EXCEPT !.end = Unreachable].end = Unreachable
        /\ SameCode([L[New] EXCEPT !.end = Unreachable], L[New])
    BY <1>1, <1>2, <1>3, CloseFacts DEF SameCode
  <1>5. Grows(ins, NoAccess) /\ blocks'[New].end = Unreachable
    BY <1>1, <1>3, <1>4 DEF Grows
  <1>6. EdgeRight(prog, blocks', New) /\ EdgeSound(blocks', New)
    BY <1>5, NoEdges
  <1>7. \A i \in (Len(blocks) + 1)..Len(blocks') : i = New
    BY <1>1, <1>4
  <1>8. PathsRight'
    BY <1>2, OtherPaths, InsertPointStep, StepShapes DEF IInv, FailsInBlock
  <1> QED BY <1>2, <1>5, <1>6, <1>7, <1>8, GrowKeeps

LEMMA CutKeeps ==
    ASSUME IInv, LiftInv, Lift, NEW ins \in BlockCode, CutsPath(ins),
           Decided(prog, NewBlock(ins, NoAccess))
    PROVE  StepKeeps
  <1>1. blocks' = Lifted(ins, NoAccess) /\ UNCHANGED job
    BY DEF CutsPath, ExploreOtherPaths
  <1>2. PathsRight'
    BY <1>1, OtherPaths, InsertPointStep, StepShapes DEF IInv, CutsPath
  <1> QED BY <1>1, <1>2, GrownBlock, GrowKeeps, NoAccessType

LEMMA ThrowKeeps ==
    ASSUME IInv, LiftInv, Lift, NEW ins \in BlockCode, NEW acc \in AccessRecords, Throws(ins, acc),
           Decided(prog, NewBlock(ins, acc))
    PROVE  StepKeeps
  <1>1. blocks' = Lifted(ins, acc) /\ UNCHANGED job /\ phase' = "aborted"
    BY DEF Throws, Abort
  <1> QED BY <1>1, GrownBlock, GrowKeeps

LEMMA ExtendKeeps ==
    ASSUME IInv, LiftInv, Lift, NEW ins \in BlockCode, NEW acc \in AccessRecords, NEW c,
           ExtendsPath(ins, acc, c), ExtendOK(ins, acc, c)
    PROVE  StepKeeps
  <1>1. /\ blocks' = Lifted(ins, acc) /\ UNCHANGED <<job, stack>>
        /\ ctx' = c /\ ip' = New
    BY DEF ExtendsPath, Continue
  <1>2. PathRight(prog, NewBlock(ins, acc), c) /\ Decided(prog, NewBlock(ins, acc))
    BY DEF ExtendOK
  <1>3. /\ Grows(ins, acc) /\ blocks'[New] = NewBlock(ins, acc)
        /\ \A i \in (Len(blocks) + 1)..Len(blocks') : EdgeRight(prog, blocks', i) /\ EdgeSound(blocks', i)
    BY <1>1, <1>2, GrownBlock
  <1>4. \A i \in 1..Len(stack) : PathRight(prog, blocks'[stack[i].bb], stack[i].ctx)
    BY <1>1, OtherPaths, InsertPointStep, StepShapes DEF IInv
  <1>5. PathRight(prog, blocks'[ip'], ctx')
    BY <1>1, <1>2, <1>3
  <1>6. PathsRight'
    BY <1>1, <1>4, <1>5 DEF PathsRight, prog
  <1> QED BY <1>1, <1>3, <1>6, GrowKeeps

LEMMA ForkKeeps ==
    ASSUME IInv, LiftInv, Lift, NEW ins \in BlockCode, NEW r \in Regs, NEW w \in Words,
           NEW yes \in BlockRecords(New + 2), NEW no \in BlockRecords(New + 2), NEW c, NEW d,
           yes.end = Open, no.end = Open,
           ForkOK(ins, r, w, yes, no, c, d), ForksPath(ins, r, w, yes, no, c, d)
    PROVE  StepKeeps
  <1>1. /\ UNCHANGED job /\ ctx' = c /\ ip' = New + 1
        /\ stack' = Append(stack, [ctx |-> d, bb |-> New + 2])
    BY DEF ForksPath, Continue
  <1>2. IsFork(blocks', ins, r, w, yes, no)
    <2>1. IsFork(ForkedBlocks(ins, r, w, yes, no), ins, r, w, yes, no)
      BY ForkFacts DEF IInv
    <2> QED BY <2>1 DEF ForksPath
  <1> DEFINE b == ForkBlock(ins, r, w)
  <1>3. /\ New \in Nat /\ New = Len(blocks) + 1 /\ Len(blocks) \in Nat /\ ip \in 1..Len(blocks)
        /\ stack \in Seq(SavedPaths(Len(blocks))) /\ Len(stack) \in Nat
    BY HereFacts DEF IInv, TypeInv
  <1>4. /\ Len(blocks') = New + 2
        /\ blocks'[ip] = [blocks[ip] EXCEPT !.end = Br(New)]
        /\ blocks'[New] = b /\ blocks'[New + 1] = yes /\ blocks'[New + 2] = no
    BY <1>2, <1>3 DEF IsFork, ForkBlock, NewBlock
  <1>5. /\ b.end.kind = "cond" /\ b.end.yes = New + 1 /\ b.end.no = New + 2
        /\ SameCode(b, NewBlock(ins, NoAccess))
    <2>1. b.end.kind = "cond" /\ b.end.yes = New + 1 /\ b.end.no = New + 2
      BY ForkBlockFacts
    <2>2. SameCode(b, NewBlock(ins, NoAccess))
      BY DEF ForkBlock, NewBlock, Block, SameCode
    <2> QED BY <2>1, <2>2
  <1>6. /\ Decided(prog, b) /\ ForkRight(prog, b, yes, no) /\ ForkSound(b, yes, no)
        /\ PathRight(prog, yes, c) /\ PathRight(prog, no, d)
    BY DEF ForkOK
  <1> HIDE DEF b, New
  <1>7. New \in 1..Len(blocks') /\ \A i \in (Len(blocks) + 1)..Len(blocks') :
           i = New \/ i = New + 1 \/ i = New + 2
    BY <1>3, <1>4, SMTT(30)
  <1>8. Grows(ins, NoAccess)
    BY <1>4, <1>5, <1>6, <1>7, SameMoves DEF Grows
  <1>9. EdgeRight(prog, blocks', New) /\ EdgeSound(blocks', New)
    BY <1>4, <1>5, <1>6 DEF EdgeRight, EdgeSound
  <1>10. /\ EdgeRight(prog, blocks', New + 1) /\ EdgeSound(blocks', New + 1)
         /\ EdgeRight(prog, blocks', New + 2) /\ EdgeSound(blocks', New + 2)
    <2> DEFINE y == New + 1
               z == New + 2
    <2>1. blocks'[y].end \in {Open, Unreachable} /\ blocks'[z].end \in {Open, Unreachable}
      BY <1>4
    <2> HIDE DEF y, z
    <2>2. EdgeRight(prog, blocks', y) /\ EdgeSound(blocks', y)
      BY <2>1, NoEdges
    <2>3. EdgeRight(prog, blocks', z) /\ EdgeSound(blocks', z)
      BY <2>1, NoEdges
    <2> QED BY <2>2, <2>3 DEF y, z
  <1>11. \A i \in 1..Len(stack) : PathRight(prog, blocks'[stack[i].bb], stack[i].ctx)
    BY <1>1, OtherPaths, InsertPointStep, StepShapes DEF IInv
  <1>12. PathRight(prog, blocks'[ip'], ctx')
    BY <1>1, <1>4, <1>6
  <1>13. \A i \in 1..Len(stack') : PathRight(prog, blocks'[stack'[i].bb], stack'[i].ctx)
    <2> DEFINE q == [ctx |-> d, bb |-> New + 2]
               S == SavedPaths(Len(blocks)) \cup {q}
    <2>1. stack \in Seq(S) /\ q \in S
      BY <1>3, SeqMonotonic
    <2>2. q.ctx = d /\ q.bb = New + 2
      OBVIOUS
    <2> HIDE DEF q, S
    <2>3. stack' = Append(stack, q)
      BY <1>1 DEF q
    <2>4. /\ Len(stack') = Len(stack) + 1
          /\ \A i \in 1..Len(stack) : stack'[i] = stack[i]
          /\ stack'[Len(stack) + 1] = q
      BY <2>1, <2>3, AppendProperties
    <2>5. \A i \in 1..Len(stack') : i \in 1..Len(stack) \/ i = Len(stack) + 1
      BY <1>3, <2>4
    <2> QED BY <1>4, <1>6, <1>11, <2>2, <2>4, <2>5
  <1>14. PathsRight'
    BY <1>1, <1>12, <1>13 DEF PathsRight, prog
  <1>15. \A i \in (Len(blocks) + 1)..Len(blocks') : EdgeRight(prog, blocks', i) /\ EdgeSound(blocks', i)
    BY <1>7, <1>9, <1>10
  <1> QED BY <1>1, <1>8, <1>14, <1>15, GrowKeeps

LEMMA LeaveKeeps ==
    ASSUME IInv, LiftInv, Lift, LeavesPath
    PROVE  StepKeeps
  <1>1. UNCHANGED <<blocks, CFG, job>>
    BY DEF LeavesPath, ExploreOtherPaths
  <1>2. PathsRight'
    BY <1>1, OtherPaths, InsertPointStep, StepShapes DEF IInv, LeavesPath
  <1>3. Len(blocks) \in Nat /\ ip \in 1..Len(blocks)
    BY DEF IInv, TypeInv
  <1>4. {ip} \cup ((Len(blocks) + 1)..Len(blocks')) = {ip}
    BY <1>1, <1>3
  <1>5. /\ Exact(job) => EdgeRight(prog, blocks', ip)
        /\ Mode = "symbolic" => EdgeSound(blocks', ip)
    BY <1>1, <1>3 DEF LiftInv
  <1> QED BY <1>1, <1>2, <1>4, <1>5 DEF StepKeeps

(* Every iteration of the loop keeps LiftInv. *)
LEMMA LiftInvStep ==
    ASSUME IInv, ~Timeouts, LiftInv, Lift
    PROVE  LiftInv'
  <1>1. StepRight
    BY StepsRight DEF IInv
  <1>2. ReturnState # Br(Index[1][Index[2]])
    <2>1. ReturnState.kind = "ret" /\ Br(Index[1][Index[2]]).kind = "br"
      BY DEF ReturnState, Br
    <2> QED BY <2>1
  <1>3. StepKeeps
    <2>1. CASE ctx.PC = 0 /\ ClosesPath(ReturnState)
      BY <2>1, CloseKeeps
    <2>2. CASE Known /\ ClosesPath(Br(Index[1][Index[2]]))
      BY <1>2, <2>2, CloseKeeps
    <2>3. CASE LeavesPath
      BY <2>3, LeaveKeeps
    <2>4. CASE \E ins \in BlockCode :
                  Decided(prog, NewBlock(ins, NoAccess)) /\ (FailsInBlock(ins) \/ CutsPath(ins))
      BY <2>4, FailKeeps, CutKeeps
    <2>5. CASE \E ins \in BlockCode, acc \in AccessRecords :
                  Decided(prog, NewBlock(ins, acc)) /\ Throws(ins, acc)
      BY <2>5, ThrowKeeps
    <2>6. CASE \E ins \in BlockCode, acc \in AccessRecords : \E c :
                  ExtendOK(ins, acc, c) /\ ExtendsPath(ins, acc, c)
      BY <2>6, ExtendKeeps
    <2>7. CASE \E ins \in BlockCode, r \in Regs, w \in Words, yes, no \in BlockRecords(New + 2) :
                  \E c, d : /\ yes.end = Open /\ no.end = Open
                            /\ ForkOK(ins, r, w, yes, no, c, d)
                            /\ ForksPath(ins, r, w, yes, no, c, d)
      <3>1. PICK ins \in BlockCode, r \in Regs, w \in Words, yes, no \in BlockRecords(New + 2) :
                  \E c, d : /\ yes.end = Open /\ no.end = Open
                            /\ ForkOK(ins, r, w, yes, no, c, d)
                            /\ ForksPath(ins, r, w, yes, no, c, d)
        BY <2>7
      <3>2. PICK c, d : /\ yes.end = Open /\ no.end = Open
                        /\ ForkOK(ins, r, w, yes, no, c, d)
                        /\ ForksPath(ins, r, w, yes, no, c, d)
        BY <3>1
      <3> QED BY <3>1, <3>2, ForkKeeps
    <2> QED BY <1>1, <2>1, <2>2, <2>3, <2>4, <2>5, <2>6, <2>7 DEF StepRight
  <1> QED BY <1>3, KeepsInv

-----------------------------------------------------------------------------
\* Executing the lifted function

(* Before anything is lifted there is the empty entry block. *)
LEMMA LiftInvInit ==
    ASSUME Init
    PROVE  LiftInv
  <1> DEFINE b == Block(1, Nop, NoAccess, Belief(InitialContext))
  <1>1. TypeInv
    BY TypeInit
  <1>2. /\ ip = 1 /\ stack = <<>> /\ blocks = <<b>> /\ CFG = <<>> /\ ctx = InitialContext
    BY DEF Init
  <1>3. /\ blocks[1] = b /\ Len(blocks) = 1 /\ DOMAIN CFG = {} /\ 1..Len(stack) = {}
    BY <1>2, EmptyMap
  <1>4. ctx \in Contexts(1) /\ ctx.PC = 1
    BY <1>1, <1>2, <1>3 DEF TypeInv, InitialContext
  <1>5. PathRight(prog, b, ctx)
    <2>1. b = Block(ctx.PC, Nop, NoAccess, Belief(ctx))
      BY <1>2, <1>4
    <2> HIDE DEF b
    <2> QED BY <1>4, <2>1, NopBlock
  <1>6. b.end = Open /\ b.at = 1 /\ b.ins = Nop /\ b.belief = Belief(InitialContext)
    BY DEF Block
  <1> HIDE DEF b
  <1>7. PathsRight /\ KnownRight /\ EntryRight
    BY <1>2, <1>3, <1>5, <1>6 DEF PathsRight, KnownRight, EntryRight
  <1>8. EdgeRight(prog, blocks, 1) /\ EdgeSound(blocks, 1)
    BY <1>3, <1>6, NoEdges
  <1> QED BY <1>3, <1>7, <1>8 DEF LiftInv

(* Blocks map machine states to machine states. *)
LEMMA RunType ==
    ASSUME NEW n \in Nat, NEW b \in BlockRecords(n), NEW s \in States
    PROVE  Run(b, s) \in States
  <1>1. b.ins \in BlockCode /\ b.acc \in AccessRecords
    BY DEF BlockRecords
  <1>2. s.reg \in [Regs -> Words] /\ s.mem \in [Words -> Words]
    BY DEF States
  <1>3. ASSUME NEW r \in Regs, NEW w \in Words
        PROVE  WithReg(s, r, w) \in States
    BY DEF WithReg, States
  <1>4. CASE b.ins \in {Nop, Keep}
    <2>1. b.ins.op \notin ComputeOps \cup {"load", "store", "cmov"}
      BY <1>4 DEF Nop, Keep, ComputeOps
    <2> QED BY <2>1, RunPlain, EffectNone
  <1>5. CASE b.ins \in Instructions
    <2> DEFINE ins == b.ins
    <2>1. /\ ins.op \in ComputeOps \cup {"load", "cmov"} => ins.dst \in Regs
          /\ ins.op \in {"set", "cmov"} => ins.imm \in Words
          /\ ins.op \in {"load", "store"} => ins.addr \in Regs
          /\ ins.op = "store" => ins.src \in Regs
      BY <1>5, InstructionFields
    <2>2. CASE ins.op \in ComputeOps
      <3>1. Computed(ins, s.reg[ins.dst]) \in Words
        BY <1>2, <1>5, <2>1, <2>2, ComputedType
      <3>2. Run(b, s) = WithReg(s, ins.dst, Computed(ins, s.reg[ins.dst]))
        BY <2>1, <2>2, RunPlain, EffectComputes DEF ComputeOps
      <3> QED BY <1>3, <2>1, <2>2, <3>1, <3>2
    <2>3. CASE ins.op = "cmov"
      <3>1. Run(b, s) = IF s.reg[ins.cond] = 0 THEN WithReg(s, ins.dst, ins.imm) ELSE s
        BY <2>3, RunPlain, EffectMoves
      <3> QED BY <1>3, <2>1, <2>3, <3>1
    <2>4. CASE ins.op = "load"
      <3>1. ReadAddr(b.acc, s.reg[ins.addr]) \in Words
        BY <1>1, <1>2, <2>1, <2>4 DEF ReadAddr, AccessRecords
      <3>2. Run(b, s) = WithReg(s, ins.dst, s.mem[ReadAddr(b.acc, s.reg[ins.addr])])
        BY <2>4, RunLoads
      <3> QED BY <1>2, <1>3, <2>1, <2>4, <3>1, <3>2
    <2>5. CASE ins.op = "store"
      <3> DEFINE A == WrittenAddrs(b.acc, s.reg[ins.addr])
                 f == [a \in Words |-> IF a \in A THEN s.reg[ins.src] ELSE s.mem[a]]
      <3>1. Run(b, s) = WithMem(s, f)
        BY <2>5, RunStores
      <3> HIDE DEF A
      <3>2. f \in [Words -> Words]
        BY <1>2, <2>1, <2>5
      <3> HIDE DEF f
      <3> QED BY <3>1, <3>2 DEF WithMem, States
    <2>6. CASE ins.op \notin ComputeOps \cup {"load", "store", "cmov"}
      BY <2>6, RunPlain, EffectNone
    <2> QED BY <2>2, <2>3, <2>4, <2>5, <2>6
  <1> QED BY <1>1, <1>4, <1>5 DEF BlockCode

\* block b was lifted for state s, reached with argument i

LiftedFor(b, i, s) == \E m \in b.belief.cons : m[1] = i /\ At(b.belief, m) = s

(* What Believed says, with the values of the symbolic state taken together. *)
LEMMA BelievedState ==
    ASSUME NEW n \in Nat, NEW b \in BlockRecords(n), es \in States
    PROVE  Believed(b) <=> LiftedFor(b, input, es)
  <1>1. \A m \in b.belief.cons :
           /\ At(b.belief, m) \in States
           /\ \A r \in Regs : At(b.belief, m).reg[r] = b.belief.reg[r].den[m]
           /\ \A a \in Words : At(b.belief, m).mem[a] = b.belief.mem[a].den[m]
    BY AtType DEF BlockRecords, Beliefs
  <1>2. ASSUME NEW s \in States, NEW t \in States
        PROVE  s = t <=> (\A r \in Regs : s.reg[r] = t.reg[r]) /\ (\A a \in Words : s.mem[a] = t.mem[a])
    BY DEF States
  <1>3. \A m \in b.belief.cons :
           At(b.belief, m) = es <=> /\ \A r \in Regs : b.belief.reg[r].den[m] = es.reg[r]
                                    /\ \A a \in Words : b.belief.mem[a].den[m] = es.mem[a]
    BY <1>1, <1>2
  <1> QED BY <1>3 DEF Believed, LiftedFor

(* An iteration of the loop ends in the loop, after run, or in a throw. *)
LEMMA PhaseStep ==
    ASSUME TypeInv, Lift
    PROVE  phase = "lift" /\ phase' \in {"lift", "done", "aborted"} /\ UNCHANGED job
  <1>1. phase = "lift" /\ Shape
    BY StepShapes
  <1>2. /\ ExploreOtherPaths => phase' \in {phase, "done"} /\ UNCHANGED job
        /\ Abort => phase' = "aborted" /\ UNCHANGED job
        /\ \A c, b : Continue(c, b) => UNCHANGED <<phase, job>>
    BY DEF ExploreOtherPaths, Abort, Continue
  <1>3. ExploreOtherPaths \/ Abort \/ \E c, b : Continue(c, b)
    BY <1>1 DEF Shape, ClosesPath, LeavesPath, FailsInBlock, CutsPath, Throws, ExtendsPath, ForksPath
  <1> QED BY <1>1, <1>2, <1>3

\* What holds while the lifted function runs: the block to run decides its
\* conditional move as the machine would, if it was lifted for the state the
\* machine is in; and in symbolic exploration it always was.

Ready ==
    /\ bp \in 1..Len(blocks)
    /\ es \in States
    /\ Exact(job) /\ LiftedFor(blocks[bp], input, es) => MoveRight(prog, blocks[bp], es)
    /\ Mode = "symbolic" => LiftedFor(blocks[bp], input, es)

ExecInv ==
    /\ IInv /\ LiftInv
    /\ phase \in {"lift", "done", "aborted"} => es = Idle
    /\ phase = "run" => Ready

(* Running the function leaves it as it is. *)
LEMMA FrozenKeeps ==
    ASSUME IInv, LiftInv, phase' \in {"run", "returned"},
           UNCHANGED <<job, ctx, ip, stack, blocks, CFG, VCFG>>
    PROVE  IInv' /\ LiftInv'
  <1>1. TypeInv'
    BY DEF IInv, TypeInv
  <1>2. PathsHaveOwnBlocks' /\ PathsRight'
    BY DEF PathsHaveOwnBlocks, PathsRight
  <1>3. UNCHANGED <<prog, Mode>>
    BY DEF prog, Mode
  <1>4. KnownRight' /\ EntryRight'
    BY <1>3 DEF LiftInv, KnownRight, EntryRight
  <1> QED BY <1>1, <1>2, <1>3, <1>4 DEF IInv, LiftInv

(* The call enters the entry block in the state the lifter started from. *)
LEMMA EntryReady ==
    ASSUME ExecInv, NEW i \in Inputs
    PROVE  /\ 1 \in 1..Len(blocks)
           /\ InitialState(i) \in States
           /\ \A s : MoveRight(prog, blocks[1], s)
           /\ LiftedFor(blocks[1], i, InitialState(i))
           /\ blocks[1].at = 1
  <1>1. Len(blocks) \in Nat /\ ip \in 1..Len(blocks)
    BY DEF ExecInv, IInv, TypeInv
  <1>2. EntryRight
    BY DEF ExecInv, LiftInv
  <1>3. i \in Words /\ 0 \in Words
    BY MachineConstants, ModelFacts
  <1>4. InitialState(i) \in States
    BY <1>3 DEF InitialState, States
  <1>5. blocks[1].ins.op = "nop"
    BY <1>2 DEF EntryRight, Nop
  <1>6. \A s : MoveRight(prog, blocks[1], s)
    BY <1>5 DEF MoveRight, Moves
  <1>7. LiftedFor(blocks[1], i, InitialState(i))
    <2> DEFINE m == <<i, 0>>
               k == Belief(InitialContext)
    <2>1. m \in Models /\ m[1] = i
      BY DEF Models
    <2> HIDE DEF m
    <2>2. k.cons = Models
      BY DEF Belief, InitialContext
    <2>3. /\ \A r \in Regs : k.reg[r].den[m] = IF r = "x" THEN i ELSE 0
          /\ \A a \in Words : k.mem[a].den[m] = 0
      <3>1. Argument.den[m] = i /\ Literal(0).den[m] = 0
        BY <2>1 DEF Argument, Literal
      <3> QED BY <3>1 DEF Belief, InitialContext
    <2> HIDE DEF k
    <2>4. At(k, m) = InitialState(i)
      BY <2>3 DEF At, InitialState
    <2>5. blocks[1].belief = k
      BY <1>2 DEF EntryRight, k
    <2> QED BY <2>1, <2>2, <2>4, <2>5 DEF LiftedFor
  <1> QED BY <1>1, <1>2, <1>4, <1>6, <1>7 DEF EntryRight

(* The block that runs. *)
LEMMA RunningBlock ==
    ASSUME ExecInv, Ready
    PROVE  LET n == Len(blocks)
               b == blocks[bp]
           IN /\ n \in Nat /\ b \in BlockRecords(n) /\ Run(b, es) \in States
              /\ b.end.kind = "br" => b.end.to \in 1..n
              /\ b.end.kind = "cond" => b.end.yes \in 1..n /\ b.end.no \in 1..n
  <1> DEFINE n == Len(blocks)
             b == blocks[bp]
  <1>1. n \in Nat /\ blocks \in Seq(BlockRecords(n)) /\ bp \in 1..n
    BY DEF ExecInv, IInv, TypeInv, Ready
  <1>2. b \in BlockRecords(n)
    BY <1>1, ElementOfSeq
  <1> HIDE DEF n, b
  <1>3. Run(b, es) \in States
    BY <1>1, <1>2, RunType DEF Ready
  <1>4. b.end \in Ends(n)
    BY <1>2 DEF BlockRecords
  <1>5. /\ b.end.kind = "br" => b.end.to \in 1..n
        /\ b.end.kind = "cond" => b.end.yes \in 1..n /\ b.end.no \in 1..n
    BY <1>4 DEF Ends
  <1> QED BY <1>1, <1>2, <1>3, <1>5 DEF n, b

(* Where a block goes on, the next one is ready. *)
LEMMA RunKeepsReady ==
    ASSUME ExecInv, RunBlock, phase' = "run"
    PROVE  Ready'
  <1> DEFINE b == blocks[bp]
             c == blocks[bp']
             s == es
             t == Run(b, s)
  <1>1. /\ phase = "run" /\ es' = t /\ UNCHANGED <<job, blocks, input>> /\ Ready
    BY DEF RunBlock, ExecInv
  <1>2. \/ b.end.kind = "br" /\ bp' = b.end.to
        \/ b.end.kind = "cond" /\ bp' = IF s.reg[b.end.reg] = b.end.val THEN b.end.yes ELSE b.end.no
    BY <1>1 DEF RunBlock
  <1>3. t \in States /\ bp' \in 1..Len(blocks)
    BY <1>1, <1>2, RunningBlock
  <1>4. UNCHANGED <<prog, Mode>> /\ Exact(job') = Exact(job)
    BY <1>1 DEF prog, Mode
  <1>5. /\ Exact(job) => EdgeRight(prog, blocks, bp)
        /\ Mode = "symbolic" => EdgeSound(blocks, bp) /\ LiftedFor(b, input, s)
        /\ s \in States
    BY <1>1 DEF ExecInv, LiftInv, Ready
  <1>6. b.end.kind = "cond" => c = Side(b, s, blocks[b.end.yes], blocks[b.end.no])
    BY <1>2 DEF Side
  <1>7. ASSUME Exact(job), LiftedFor(c, input, t)
        PROVE  MoveRight(prog, c, t)
    <2>1. CASE b.end.kind = "br"
      <3>1. Decided(prog, c)
        BY <1>2, <1>5, <1>7, <2>1 DEF EdgeRight
      <3> HIDE DEF t, c
      <3> QED BY <1>7, <3>1 DEF Decided, LiftedFor
    <2>2. CASE b.end.kind = "cond"
      <3>1. ForkRight(prog, b, blocks[b.end.yes], blocks[b.end.no])
        BY <1>5, <1>7, <2>2 DEF EdgeRight
      <3> QED BY <1>5, <1>6, <2>2, <3>1 DEF ForkRight
    <2> QED BY <1>2, <2>1, <2>2
  <1>8. ASSUME Mode = "symbolic"
        PROVE  LiftedFor(c, input, t)
    <2>1. PICK m \in b.belief.cons : m[1] = input /\ At(b.belief, m) = s
      BY <1>5, <1>8 DEF LiftedFor
    <2>2. m \in c.belief.cons /\ t = At(c.belief, m)
      <3>1. CASE b.end.kind = "br"
        BY <1>2, <1>5, <1>8, <2>1, <3>1 DEF EdgeSound, Goes
      <3>2. CASE b.end.kind = "cond"
        <4>1. ForkSound(b, blocks[b.end.yes], blocks[b.end.no])
          BY <1>5, <1>8, <3>2 DEF EdgeSound
        <4> QED BY <1>6, <2>1, <3>2, <4>1 DEF ForkSound
      <3> QED BY <1>2, <3>1, <3>2
    <2> HIDE DEF t, c
    <2> QED BY <2>1, <2>2 DEF LiftedFor
  <1> HIDE DEF t
  <1>9. c = blocks'[bp']
    BY <1>1
  <1> HIDE DEF c
  <1> QED BY <1>1, <1>3, <1>4, <1>7, <1>8, <1>9 DEF Ready

LEMMA IInvExecStep ==
    ASSUME IInv, [ENext]_evars
    PROVE  IInv'
  <1>1. CASE Lift
    BY <1>1, IInvStep
  <1>2. CASE /\ phase' \in {"run", "returned"}
             /\ UNCHANGED <<job, ctx, ip, stack, blocks, CFG, VCFG>>
    <2>1. TypeInv'
      BY <1>2 DEF IInv, TypeInv
    <2> QED BY <1>2, <2>1 DEF IInv, PathsHaveOwnBlocks
  <1>3. CASE UNCHANGED vars
    BY <1>3, IInvStep
  <1>4. RunBlock => phase' \in {"run", "returned"} /\ UNCHANGED <<job, ctx, ip, stack, blocks, CFG, VCFG>>
    BY DEF RunBlock
  <1>5. \A i : CallLifted(i) => phase' \in {"run", "returned"}
                                /\ UNCHANGED <<job, ctx, ip, stack, blocks, CFG, VCFG>>
    BY DEF CallLifted
  <1> QED BY <1>1, <1>2, <1>3, <1>4, <1>5 DEF ENext, LiftStep, evars

LEMMA ExecInvInit ==
    ASSUME EInit
    PROVE  ExecInv
  <1>1. Init /\ phase = "lift" /\ es = Idle
    BY DEF EInit, Init
  <1> QED BY <1>1, IInvInit, LiftInvInit DEF ExecInv

LEMMA ExecInvStep ==
    ASSUME ExecInv, ~Timeouts, [ENext]_evars
    PROVE  ExecInv' /\ UNCHANGED job
  <1>1. IInv /\ LiftInv /\ TypeInv
    BY DEF ExecInv, IInv
  <1>2. CASE LiftStep
    <2>1. Lift /\ UNCHANGED es
      BY <1>2 DEF LiftStep
    <2>2. phase = "lift" /\ phase' \in {"lift", "done", "aborted"} /\ UNCHANGED job
      BY <1>1, <2>1, PhaseStep
    <2>3. IInv'
      BY <1>1, <2>1, IInvStep
    <2>4. LiftInv'
      BY <1>1, <2>1, LiftInvStep
    <2> QED BY <2>1, <2>2, <2>3, <2>4 DEF ExecInv
  <1>3. ASSUME NEW i \in Inputs, CallLifted(i)
        PROVE  ExecInv' /\ UNCHANGED job
    <2>1. /\ phase' = "run" /\ bp' = 1 /\ input' = i /\ es' = InitialState(i)
          /\ UNCHANGED <<job, ctx, ip, stack, blocks, CFG, VCFG>>
      BY <1>3 DEF CallLifted
    <2>2. IInv' /\ LiftInv'
      BY <1>1, <2>1, FrozenKeeps
    <2>3. UNCHANGED <<prog, Mode>> /\ blocks'[bp'] = blocks[1]
      BY <2>1 DEF prog, Mode
    <2>4. Ready'
      BY <2>1, <2>3, EntryReady DEF Ready
    <2> QED BY <2>1, <2>2, <2>4 DEF ExecInv
  <1>4. CASE RunBlock
    <2>1. /\ phase' \in {"run", "returned"}
          /\ UNCHANGED <<job, ctx, ip, stack, blocks, CFG, VCFG>>
      BY <1>4 DEF RunBlock
    <2>2. IInv' /\ LiftInv'
      BY <1>1, <2>1, FrozenKeeps
    <2> QED BY <1>4, <2>1, <2>2, RunKeepsReady DEF ExecInv
  <1>5. CASE UNCHANGED evars
    <2>1. UNCHANGED <<job, ctx, ip, stack, blocks, CFG, VCFG, phase, bp, input, es>>
      BY <1>5 DEF evars, vars
    <2>2. UNCHANGED <<prog, Mode>>
      BY <2>1 DEF prog, Mode
    <2>3. IInv'
      BY <1>1, <2>1, IInvStep DEF vars
    <2>4. LiftInv'
      <3>1. PathsRight' /\ KnownRight' /\ EntryRight'
        BY <1>1, <2>1, <2>2 DEF LiftInv, PathsRight, KnownRight, EntryRight
      <3> QED BY <1>1, <2>1, <2>2, <3>1 DEF LiftInv
    <2>5. Ready => Ready'
      BY <2>1, <2>2 DEF Ready
    <2> QED BY <2>1, <2>3, <2>4, <2>5 DEF ExecInv
  <1> QED BY <1>2, <1>3, <1>4, <1>5 DEF ENext

LEMMA SpecialisedBlock ==
    ASSUME NEW b
    PROVE  Specialised(b) <=> Special(prog, b)
  BY DEF Specialised, Special, Moves

(* The abstract program runs on the same machine. *)
LEMMA SameMachine ==
    /\ \A p, pc : Source!Fetch(p, pc) = Fetch(p, pc)
    /\ \A ins : Source!Executable(ins) <=> Executable(ins)
    /\ \A ins, s : Source!Effect(ins, s) = Effect(ins, s)
    /\ \A ins, pc, s : Source!NextPC(ins, pc, s) = NextPC(ins, pc, s)
    /\ \A i : Source!InitialState(i) = InitialState(i)
  <1>1. \A p, pc : Source!Fetch(p, pc) = Fetch(p, pc)
    BY DEF Source!Fetch, Fetch, Source!Bad, Bad
  <1>2. \A ins : Source!Executable(ins) <=> Executable(ins)
    BY DEF Source!Executable, Executable
  <1>3. \A ins, s : Source!Effect(ins, s) = Effect(ins, s)
    BY Zenon DEF Source!Effect, Effect, Source!Computed, Computed, Source!ComputeOps, ComputeOps
  <1>4. \A ins, pc, s : Source!NextPC(ins, pc, s) = NextPC(ins, pc, s)
    BY Zenon DEF Source!NextPC, NextPC
  <1>5. \A i : Source!InitialState(i) = InitialState(i)
    BY DEF Source!InitialState, InitialState, Source!Regs, Regs, Source!Words, Words
  <1> QED BY <1>1, <1>2, <1>3, <1>4, <1>5

(* A block does to the machine what its instruction does, and goes on where  *)
(* it goes on, unless it was specialised for another state.                  *)
LEMMA BlockFollows ==
    ASSUME ExecInv, SolverLimit > 2, Exact(job), RunBlock,
           Specialised(blocks[bp]) => Believed(blocks[bp])
    PROVE  [Source!SNext]_(Source!svars)
  <1> DEFINE b == blocks[bp]
             s == es
             next == NextAt(prog, b, s)
  <1>1. /\ phase = "run" /\ es' = Run(b, s) /\ UNCHANGED <<job, blocks>> /\ Ready
    BY DEF RunBlock, ExecInv
  <1>2. prog' = prog
    BY <1>1 DEF prog
  <1>3. Len(blocks) \in Nat /\ b \in BlockRecords(Len(blocks)) /\ bp \in 1..Len(blocks) /\ s \in States
    BY <1>1, RunningBlock DEF Ready
  <1>4. EdgeRight(prog, blocks, bp)
    BY <1>3 DEF ExecInv, LiftInv
  <1>5. Special(prog, b) => LiftedFor(b, input, s) /\ MoveRight(prog, b, s)
    <2>1. Special(prog, b) => LiftedFor(b, input, s)
      BY <1>3, SpecialisedBlock, BelievedState
    <2> QED BY <1>1, <2>1 DEF Ready
  <1>6. s \in Eligible(prog, b) /\ MoveRight(prog, b, s)
    <2>1. CASE Special(prog, b)
      BY <1>5, <2>1 DEF Eligible, LiftedFor
    <2>2. CASE ~Special(prog, b)
      BY <1>3, <2>2 DEF Eligible, Special, MoveRight
    <2> QED BY <2>1, <2>2
  <1>7. \/ b.end.kind = "br" /\ bp' = b.end.to /\ phase' = "run"
        \/ /\ b.end.kind = "cond" /\ phase' = "run"
           /\ bp' = IF s.reg[b.end.reg] = b.end.val THEN b.end.yes ELSE b.end.no
        \/ b.end.kind = "ret" /\ phase' = "returned"
    BY <1>1 DEF RunBlock
  <1>8. CodeRight(prog, b)
    BY <1>4, <1>7 DEF EdgeRight, ForkRight
  <1>9. Place = b.at
    BY <1>1, Zenon DEF Place
  <1>10. Place' = next
    <2>1. phase' = "run" => Place' = blocks'[bp'].at
      BY Zenon DEF Place
    <2>2. phase' = "returned" => Place' = 0
      <3>1. ASSUME phase' = "returned" PROVE phase' # "run"
        BY <3>1
      <3> QED BY <3>1, Zenon DEF Place
    <2>3. CASE b.end.kind = "br" /\ bp' = b.end.to /\ phase' = "run"
      <3>1. GoesOnAt(prog, b, blocks[b.end.to].at)
        BY <1>4, <2>3 DEF EdgeRight
      <3> QED BY <1>1, <1>6, <2>1, <2>3, <3>1 DEF GoesOnAt
    <2>4. CASE /\ b.end.kind = "cond" /\ phase' = "run"
               /\ bp' = IF s.reg[b.end.reg] = b.end.val THEN b.end.yes ELSE b.end.no
      <3> DEFINE yes == blocks[b.end.yes]
                 no == blocks[b.end.no]
      <3>1. ForkRight(prog, b, yes, no)
        BY <1>4, <2>4 DEF EdgeRight
      <3>2. Side(b, s, yes, no).at = next
        BY <1>6, <3>1 DEF ForkRight
      <3>3. blocks'[bp'] = Side(b, s, yes, no)
        BY <1>1, <2>4 DEF Side
      <3> QED BY <2>1, <2>4, <3>2, <3>3
    <2>5. CASE b.end.kind = "ret" /\ phase' = "returned"
      <3>1. GoesOnAt(prog, b, 0)
        BY <1>4, <2>5 DEF EdgeRight
      <3> QED BY <1>6, <2>2, <2>5, <3>1 DEF GoesOnAt
    <2> QED BY <1>7, <2>3, <2>4, <2>5
  <1>11. CASE b.ins = Nop
    <2>1. Place' = Place /\ es' = es
      BY <1>1, <1>6, <1>8, <1>9, <1>10, <1>11 DEF CodeRight, NextAt
    <2> QED BY <1>2, <2>1 DEF Source!svars
  <1>12. CASE b.ins # Nop
    <2>1. /\ b.at # 0 /\ Executable(Fetch(prog, b.at))
          /\ es' = Effect(Fetch(prog, b.at), s) /\ Place' = NextPC(Fetch(prog, b.at), b.at, s)
      BY <1>1, <1>6, <1>8, <1>10, <1>12 DEF CodeRight, NextAt
    <2>2. es # Source!NotCalled
      <3>1. "x" \in DOMAIN es.reg
        BY <1>3 DEF States, Regs
      <3>2. Source!NotCalled.reg = <<>>
        BY DEF Source!NotCalled
      <3> QED BY <3>1, <3>2, EmptyMap
    <2>3. Source!Execute
      BY <1>2, <1>9, <2>1, <2>2, SameMachine DEF Source!Execute
    <2> QED BY <2>3 DEF Source!SNext
  <1> QED BY <1>11, <1>12

(* Every step of the whole is a step of the original program, or none of its *)
(* steps, as long as no block runs that was specialised for another state.   *)
LEMMA FollowsStep ==
    ASSUME ExecInv, SolverLimit > 2, Exact(job), [ENext]_evars,
           phase = "run" /\ Specialised(blocks[bp]) => Believed(blocks[bp])
    PROVE  [Source!SNext]_(Source!svars)
  <1>1. CASE LiftStep
    <2>1. /\ phase = "lift" /\ phase' \in {"lift", "done", "aborted"} /\ UNCHANGED <<job, es>>
      BY <1>1, PhaseStep DEF LiftStep, ExecInv, IInv
    <2>2. phase \notin {"run", "returned"} /\ phase' \notin {"run", "returned"}
      BY <2>1
    <2>3. Place = 1 /\ Place' = 1
      BY <2>2, Zenon DEF Place
    <2> QED BY <2>1, <2>3 DEF Source!svars, prog
  <1>2. CASE RunBlock
    <2>1. phase = "run"
      BY <1>2 DEF RunBlock
    <2> QED BY <1>2, <2>1, BlockFollows
  <1>3. ASSUME NEW i \in Inputs, CallLifted(i)
        PROVE  [Source!SNext]_(Source!svars)
    <2>1. /\ phase = "done" /\ phase' = "run" /\ bp' = 1 /\ es' = InitialState(i)
          /\ UNCHANGED <<job, blocks>> /\ es = Idle
      BY <1>3 DEF CallLifted, ExecInv
    <2>2. phase \notin {"run", "returned"} /\ blocks'[bp'].at = 1
      BY <2>1, EntryReady
    <2>3. Place = 1
      BY <2>2, Zenon DEF Place
    <2>4. Place' = blocks'[bp'].at
      BY <2>1, Zenon DEF Place
    <2>5. Source!Call(i)
      BY <2>1, <2>2, <2>3, <2>4, SameMachine DEF Source!Call, Source!NotCalled, Idle, prog
    <2> QED BY <2>5 DEF Source!SNext
  <1>4. CASE UNCHANGED evars
    <2>1. UNCHANGED <<phase, blocks, bp, es, job>>
      BY <1>4 DEF evars, vars
    <2>2. UNCHANGED <<Place, prog>>
      BY <2>1 DEF Place, prog
    <2> QED BY <2>1, <2>2 DEF Source!svars
  <1> QED BY <1>1, <1>2, <1>3, <1>4 DEF ENext

-----------------------------------------------------------------------------
\* Where an execution cannot go on

\* path exploration will still come back to block i: in phase ph it stands at
\* block k and has the paths st to take up

Pending(ph, k, st, i) == ph = "lift" /\ (i = k \/ \E j \in 1..Len(st) : st[j].bb = i)

\* why a path was left in block b: the jump has too many targets or its path
\* cannot be taken, or what follows cannot be decoded

LeftOff(p, b) ==
    \/ /\ b.ins.op \in {"jmpr", "dispatch"}
       /\ b.belief.cons = {} \/ Cardinality(Solutions(b.belief.reg[b.ins.cond], b.belief.cons)) > 2
    \/ \E pc \in Nat : GoesOnAt(p, b, pc) /\ ~Executable(Fetch(p, pc))

WayOn(p, b, pending) ==
    /\ b.end.kind = "unreachable" => b.ins # Nop /\ ~Executable(Fetch(p, b.at))
    /\ b.end.kind = "open" => pending \/ LeftOff(p, b)

WaysOn ==
    phase # "aborted" =>
        \A i \in 1..Len(blocks) : WayOn(prog, blocks[i], Pending(phase, ip, stack, i))

PendingNext(i) == Pending(phase', ip', stack', i)

WayNext(i) == WayOn(prog, blocks'[i], PendingNext(i))

\* the steps that leave the running path, and why

Unresolved ==
    /\ Here.op \in {"jmpr", "dispatch"}
    /\ ctx.cons = {} \/ Cardinality(Solutions(ctx.reg[Here.cond], ctx.cons)) > 2

Leaving ==
    \/ \E e \in Ends(Len(blocks)) : e.kind \in {"br", "ret"} /\ ClosesPath(e)
    \/ ~Executable(Here) /\ LeavesPath
    \/ ~Executable(Here) /\ FailsInBlock(Here)
    \/ Unresolved /\ CutsPath(Here)

LEMMA AppendLonger ==
    ASSUME NEW S, NEW s \in Seq(S), NEW e
    PROVE  Len(s) \in Nat /\ Len(Append(s, e)) = Len(s) + 1
  <1>1. s \in Seq(S \cup {e}) /\ e \in S \cup {e}
    BY SeqMonotonic
  <1> QED BY <1>1, AppendProperties

(* A step that goes on with the running path takes no saved path up. *)
LEMMA GoingOn ==
    ASSUME TypeInv, phase = "lift", phase' # "done",
           phase' = "aborted" \/ UNCHANGED stack \/ (\E q : stack' = Append(stack, q))
    PROVE  ~ExploreOtherPaths
  <1>1. SUFFICES ASSUME ExploreOtherPaths PROVE FALSE
    OBVIOUS
  <1>2. /\ Len(blocks) \in Nat /\ stack \in Seq(SavedPaths(Len(blocks)))
        /\ ip \in 1..Len(blocks) /\ ctx \in Contexts(Len(blocks)) /\ Len(stack) \in Nat
    BY DEF TypeInv
  <1>3. UNCHANGED phase /\ Len(stack') = Len(stack) - 1
    BY <1>1, <1>2, ExploreFacts
  <1>4. \A q : Len(Append(stack, q)) = Len(stack) + 1
    BY <1>2, AppendLonger
  <1> QED BY <1>2, <1>3, <1>4

LEMMA BranchingGoesOn ==
    ASSUME NEW r, NEW w, NEW yes, NEW no, Branching(r, w, yes, no)
    PROVE  (\E c, b : Continue(c, b)) /\ (UNCHANGED stack \/ \E q : stack' = Append(stack, q))
  <1>2. ASSUME NEW c, NEW b, Continue(c, b), UNCHANGED stack
        PROVE  (\E k, j : Continue(k, j)) /\ (UNCHANGED stack \/ \E q : stack' = Append(stack, q))
    BY <1>2
  <1>3. ASSUME NEW c, NEW b, NEW q, Continue(c, b), stack' = Append(stack, q)
        PROVE  (\E k, j : Continue(k, j)) /\ (UNCHANGED stack \/ \E p : stack' = Append(stack, p))
    BY <1>3
  <1> QED BY <1>2, <1>3, Zenon DEF Branching

LEMMA UnresolvedJump ==
    ASSUME TypeInv, ~Timeouts, SolverLimit > 2, LiftSymbolicJump
    PROVE  ~ExploreOtherPaths \/ (Unresolved /\ CutsPath(Here))
  <1>1. Here.op \in IndirectOps /\ ~Target.lit /\ phase = "lift"
    BY DEF LiftSymbolicJump, Reading
  <1>2. /\ Target \in HonestTerms
        /\ Here.op \in {"jmpr", "dispatch"}
        /\ Here.cond \in Regs /\ Target = ctx.reg[Here.cond]
    <2>1. Here.op # "ret"
      BY <1>1 DEF Target, Literal
    <2> QED BY <1>1, <2>1, TargetType DEF IndirectOps
  <1>3. PICK q \in PossibleValues(Target, ctx.cons) :
          \/ (\E c : Continue(c, New)) /\ UNCHANGED stack
          \/ \E front, back \in q.vals : Branching(Here.cond, front, front, back)
          \/ Cardinality(q.vals) \notin {1, 2} /\ blocks' = Lifted(Here, NoAccess) /\ ExploreOtherPaths
    BY DEF LiftSymbolicJump
  <1>4. \A c, b : Continue(c, b) => UNCHANGED phase
    BY DEF Continue
  <1>5. \A front, back : Branching(Here.cond, front, front, back) =>
           (\E c, b : Continue(c, b)) /\ (UNCHANGED stack \/ \E p : stack' = Append(stack, p))
    BY BranchingGoesOn
  <1>6. CASE \/ (\E c : Continue(c, New)) /\ UNCHANGED stack
             \/ \E front, back \in q.vals : Branching(Here.cond, front, front, back)
    BY <1>1, <1>4, <1>5, <1>6, GoingOn
  <1>7. CASE Cardinality(q.vals) \notin {1, 2} /\ blocks' = Lifted(Here, NoAccess) /\ ExploreOtherPaths
    <2> DEFINE sols == Solutions(Target, ctx.cons)
    <2>1. /\ q.vals \in SUBSET Words /\ sols \in SUBSET Words
          /\ q.vals \subseteq sols
          /\ q.vals = sols \/ Cardinality(q.vals) = SolverLimit
      BY <1>2, HereFacts, PossibleValuesType, SolutionsType, AllValues
    <2>2. sols = {} => ctx.cons = {}
      BY DEF Solutions
    <2> HIDE DEF sols
    <2>3. IsFiniteSet(sols) /\ Cardinality(sols) \in Nat /\ Cardinality(q.vals) \in Nat
          /\ Cardinality(q.vals) <= Cardinality(sols)
          /\ (Cardinality(q.vals) = 0 <=> q.vals = {})
      BY <2>1, WordSets, FS_Subset, Cardinalities
    <2>4. sols = {} \/ Cardinality(sols) > 2
      BY <1>7, <2>1, <2>3, ExplorerConstants
    <2> QED BY <1>2, <1>7, <2>2, <2>4 DEF Unresolved, CutsPath, sols
  <1> QED BY <1>3, <1>6, <1>7

(* Why an iteration of the loop turns to another path. *)
LEMMA LeavingStep ==
    ASSUME TypeInv, ~Timeouts, SolverLimit > 2, Lift
    PROVE  ~ExploreOtherPaths \/ Leaving
  <1>1. phase = "lift" /\ Len(blocks) \in Nat
    BY StepShapes, HereFacts
  <1>2. CASE FunctionEnded
    <2>1. ReturnState \in Ends(Len(blocks)) /\ ReturnState.kind = "ret"
      BY <1>1, EndFacts DEF ReturnState
    <2> QED BY <1>2, <2>1 DEF FunctionEnded, Leaving, ClosesPath
  <1>3. CASE EdgeRebuilt
    <2>1. /\ Br(Index[1][Index[2]]) \in Ends(Len(blocks))
          /\ Br(Index[1][Index[2]]).kind = "br"
      BY <1>1, <1>3, KnownBlock, EndFacts DEF EdgeRebuilt, Br
    <2> QED BY <1>3, <2>1 DEF EdgeRebuilt, Leaving, ClosesPath
  <1>4. CASE DecodeFails
    BY <1>4 DEF DecodeFails, Reading, Executable, Leaving, LeavesPath
  <1>5. CASE LiftFails
    BY <1>5 DEF LiftFails, Reading, Executable, Leaving, FailsInBlock
  <1>6. CASE LiftSymbolicJump
    BY <1>6, UnresolvedJump DEF Leaving
  <1>7. \A c, b : Continue(c, b) => UNCHANGED phase
    BY DEF Continue
  <1>8. CASE LiftComputation
    BY <1>1, <1>7, <1>8, GoingOn DEF LiftComputation
  <1>9. CASE LiftMemoryAccess
    <2>1. phase' = "aborted" \/ ((\E c, b : Continue(c, b)) /\ UNCHANGED stack)
      BY <1>9 DEF LiftMemoryAccess, Abort
    <2> QED BY <1>1, <1>7, <2>1, GoingOn
  <1>10. CASE LiftSelect
    <2>1. (\E c, b : Continue(c, b)) /\ UNCHANGED stack
      BY <1>10 DEF LiftSelect
    <2> QED BY <1>1, <1>7, <2>1, GoingOn
  <1>11. CASE LiftConditionalMove
    <2>1. (\E c, b : Continue(c, b)) /\ (UNCHANGED stack \/ \E q : stack' = Append(stack, q))
      BY <1>11 DEF LiftConditionalMove
    <2> QED BY <1>1, <1>7, <2>1, GoingOn
  <1>12. CASE LiftDirectJump
    BY <1>1, <1>7, <1>12, GoingOn DEF LiftDirectJump
  <1>13. CASE LiftConditionalJump
    <2>1. (\E c, b : Continue(c, b)) /\ (UNCHANGED stack \/ \E q : stack' = Append(stack, q))
      BY <1>13, BranchingGoesOn DEF LiftConditionalJump
    <2> QED BY <1>1, <1>7, <2>1, GoingOn
  <1>14. CASE LiftConcreteJump
    <2>1. phase' = "aborted" \/ ((\E c, b : Continue(c, b)) /\ UNCHANGED stack)
      BY <1>14 DEF LiftConcreteJump, Abort
    <2> QED BY <1>1, <1>7, <2>1, GoingOn
  <1> QED BY <1>2, <1>3, <1>4, <1>5, <1>6, <1>8, <1>9, <1>10, <1>11, <1>12, <1>13, <1>14 DEF Lift

(* A saved path stays saved, or is the one that is taken up. *)
LEMMA StillPending ==
    ASSUME TypeInv, phase = "lift", ExploreOtherPaths, NEW j \in 1..Len(stack)
    PROVE  PendingNext(stack[j].bb)
  <1>1. /\ Len(blocks) \in Nat /\ stack \in Seq(SavedPaths(Len(blocks)))
        /\ ip \in 1..Len(blocks) /\ ctx \in Contexts(Len(blocks)) /\ Len(stack) \in Nat
    BY DEF TypeInv
  <1>2. stack # <<>>
    BY <1>1
  <1>3. phase' = "lift"
    BY <1>2 DEF ExploreOtherPaths
  <1>4. /\ ip' = stack[Len(stack)].bb /\ Len(stack') = Len(stack) - 1
        /\ \A i \in 1..Len(stack') : stack'[i] = stack[i]
    BY <1>1, <1>3, ExploreFacts
  <1>5. j = Len(stack) \/ j \in 1..Len(stack')
    BY <1>1, <1>4
  <1> QED BY <1>3, <1>4, <1>5 DEF PendingNext, Pending

(* No path is left without a reason. *)
LEMMA WaysStep ==
    ASSUME IInv, LiftInv, WaysOn, ~Timeouts, SolverLimit > 2, Lift
    PROVE  WaysOn'
  <1>1. /\ TypeInv /\ PathsHaveOwnBlocks /\ OnlyInsertPoint /\ Shape
        /\ phase = "lift" /\ phase' \in {"lift", "done", "aborted"} /\ UNCHANGED job
    BY InsertPointStep, PhaseStep, StepShapes DEF IInv
  <1>2. /\ Len(blocks) \in Nat /\ New \in Nat /\ New = Len(blocks) + 1 /\ ip \in 1..Len(blocks)
        /\ stack \in Seq(SavedPaths(Len(blocks))) /\ Len(stack) \in Nat
        /\ blocks \in Seq(BlockRecords(Len(blocks)))
    BY <1>1, HereFacts DEF TypeInv
  <1>3. prog' = prog /\ PathRight(prog, blocks[ip], ctx) /\ blocks[ip].end = Open
    BY <1>1 DEF prog, LiftInv, PathsRight, PathsHaveOwnBlocks
  <1>4. blocks[ip] \in BlockRecords(Len(blocks)) /\ ctx.PC \in Nat /\ Here \in BlockCode
        /\ Here \in Instructions
    BY <1>1, <1>2, ElementOfSeq, HereFacts
  <1>5. \A e : [blocks[ip] EXCEPT !.end = e].end = e
    BY <1>4 DEF BlockRecords
  <1>6. /\ Open.kind = "open" /\ Unreachable.kind = "unreachable" /\ Br(New).kind = "br"
    BY DEF Open, Unreachable, Br
  <1> HIDE DEF New
  <1>7. SUFFICES ASSUME phase' # "aborted" PROVE \A i \in 1..Len(blocks') : WayNext(i)
    BY <1>3 DEF WaysOn, WayNext, PendingNext
  <1>8. \A i \in 1..Len(blocks) : i # ip =>
           /\ blocks'[i] = blocks[i]
           /\ WayOn(prog, blocks[i], Pending(phase, ip, stack, i))
           /\ Pending(phase, ip, stack, i) => \E j \in 1..Len(stack) : stack[j].bb = i
    BY <1>1 DEF WaysOn, OnlyInsertPoint, Pending
  <1>9. ASSUME \A j \in 1..Len(stack) : PendingNext(stack[j].bb),
               WayNext(ip),
               \A i \in (Len(blocks) + 1)..Len(blocks') : WayNext(i)
        PROVE  \A i \in 1..Len(blocks') : WayNext(i)
    <2>1. ASSUME NEW i \in 1..Len(blocks), i # ip
          PROVE  WayNext(i)
      <3>1. Pending(phase, ip, stack, i) => PendingNext(i)
        BY <1>8, <1>9, <2>1
      <3> QED BY <1>3, <1>8, <2>1, <3>1 DEF WayNext, WayOn
    <2>2. \A i \in 1..Len(blocks') : i \in 1..Len(blocks) \/ i \in (Len(blocks) + 1)..Len(blocks')
      BY <1>1, <1>2 DEF OnlyInsertPoint
    <2> QED BY <1>9, <2>1, <2>2
  <1>10. CASE ExploreOtherPaths
    <2>1. \A j \in 1..Len(stack) : PendingNext(stack[j].bb)
      BY <1>1, <1>10, StillPending
    <2>2. Leaving
      BY <1>1, <1>10, LeavingStep
    <2>3. ASSUME NEW e \in Ends(Len(blocks)), e.kind \in {"br", "ret"}, ClosesPath(e)
          PROVE  \A i \in 1..Len(blocks') : WayNext(i)
      <3>1. Len(blocks') = Len(blocks) /\ blocks'[ip] = [blocks[ip] EXCEPT !.end = e]
        BY <1>2, <2>3, CloseFacts DEF ClosesPath
      <3>2. WayNext(ip)
        BY <1>5, <2>3, <3>1 DEF WayNext, WayOn
      <3>3. \A i \in (Len(blocks) + 1)..Len(blocks') : FALSE
        BY <1>2, <3>1
      <3> QED BY <1>9, <2>1, <3>2, <3>3
    <2>4. CASE ~Executable(Here) /\ LeavesPath
      <3>1. UNCHANGED blocks
        BY <2>4 DEF LeavesPath
      <3>2. LeftOff(prog, blocks[ip])
        BY <1>3, <1>4, <2>4 DEF LeftOff, PathRight, Here
      <3>3. WayNext(ip)
        BY <1>3, <1>6, <3>1, <3>2 DEF WayNext, WayOn
      <3>4. \A i \in (Len(blocks) + 1)..Len(blocks') : FALSE
        BY <1>2, <3>1
      <3> QED BY <1>9, <2>1, <3>3, <3>4
    <2> DEFINE L == Lifted(Here, NoAccess)
               b == Block(ctx.PC, Here, NoAccess, Belief(ctx))
    <2>5. /\ L \in Seq(BlockRecords(New)) /\ Len(L) = New /\ L[New] = b
          /\ L[ip] = [blocks[ip] EXCEPT !.end = Br(New)] /\ b \in BlockRecords(New)
      <3>1. /\ L \in Seq(BlockRecords(New)) /\ Len(L) = New /\ L[New] = b
            /\ L[ip] = [blocks[ip] EXCEPT !.end = Br(New)]
        BY <1>1, <1>2, <1>4, LiftedFacts, NoAccessType
      <3>2. L[New] \in BlockRecords(New)
        BY <1>2, <3>1, ElementOfSeq
      <3> QED BY <3>1, <3>2
    <2>6. /\ b.at = ctx.PC /\ b.ins = Here /\ b.end = Open
          /\ b.belief.cons = ctx.cons /\ b.belief.reg = ctx.reg
      BY DEF Block, Belief
    <2> HIDE DEF L, b
    <2>7. ASSUME Len(blocks') = New, WayNext(New),
                 blocks'[ip] = [blocks[ip] EXCEPT !.end = Br(New)]
          PROVE  \A i \in 1..Len(blocks') : WayNext(i)
      <3>1. WayNext(ip)
        BY <1>5, <1>6, <2>7 DEF WayNext, WayOn
      <3>2. \A i \in (Len(blocks) + 1)..Len(blocks') : i = New
        BY <1>2, <2>7
      <3> QED BY <1>9, <2>1, <2>7, <3>1, <3>2
    <2>8. CASE ~Executable(Here) /\ FailsInBlock(Here)
      <3>1. blocks' = [L EXCEPT ![New].end = Unreachable]
        BY <2>8 DEF FailsInBlock, L
      <3>2. Unreachable \in Ends(New) /\ New \in 1..Len(L) /\ ip \in 1..Len(L) /\ ip # New
        BY <1>2, <2>5, EndFacts
      <3>3. /\ Len(blocks') = New /\ blocks'[New] = [b EXCEPT !.end = Unreachable]
            /\ blocks'[ip] = L[ip]
        BY <1>2, <2>5, <3>1, <3>2, CloseFacts
      <3>4. blocks'[New].at = ctx.PC /\ blocks'[New].ins = Here /\ blocks'[New].end = Unreachable
        BY <2>5, <2>6, <3>3 DEF BlockRecords
      <3>5. Here # Nop
        <4>1. Here.op # "nop" /\ Nop.op = "nop"
          BY <1>4, InstructionFields DEF Nop
        <4> QED BY <4>1
      <3>6. WayNext(New)
        BY <1>3, <1>6, <2>8, <3>4, <3>5 DEF WayNext, WayOn, Here
      <3> QED BY <2>5, <2>7, <3>3, <3>6
    <2>9. CASE Unresolved /\ CutsPath(Here)
      <3>1. blocks' = L
        BY <2>9 DEF CutsPath, L
      <3>2. LeftOff(prog, b)
        BY <2>6, <2>9 DEF LeftOff, Unresolved
      <3>3. WayNext(New)
        BY <1>3, <1>6, <2>5, <2>6, <3>1, <3>2 DEF WayNext, WayOn
      <3> QED BY <2>5, <2>7, <3>1, <3>3
    <2> QED BY <2>2, <2>3, <2>4, <2>8, <2>9 DEF Leaving
  <1>11. ASSUME NEW ins \in BlockCode, NEW acc \in AccessRecords, NEW c, ExtendsPath(ins, acc, c)
         PROVE  \A i \in 1..Len(blocks') : WayNext(i)
    <2>1. /\ blocks' = Lifted(ins, acc) /\ ip' = New /\ UNCHANGED <<phase, stack>>
      BY <1>11 DEF ExtendsPath, Continue
    <2>2. /\ Len(blocks') = New /\ blocks'[New] = Block(ctx.PC, ins, acc, Belief(ctx))
          /\ blocks'[ip] = [blocks[ip] EXCEPT !.end = Br(New)]
      BY <1>1, <1>2, <2>1, LiftedFacts
    <2>3. blocks'[New].end = Open
      BY <2>2 DEF Block
    <2>4. PendingNext(New) /\ \A j \in 1..Len(stack) : PendingNext(stack[j].bb)
      BY <1>1, <2>1 DEF PendingNext, Pending
    <2>5. WayNext(ip)
      BY <1>5, <1>6, <2>2 DEF WayNext, WayOn
    <2>6. WayNext(New)
      BY <1>6, <2>3, <2>4 DEF WayNext, WayOn
    <2>7. \A i \in (Len(blocks) + 1)..Len(blocks') : i = New
      BY <1>2, <2>2
    <2> QED BY <1>9, <2>4, <2>5, <2>6, <2>7
  <1>12. ASSUME NEW ins \in BlockCode, NEW r \in Regs, NEW w \in Words,
                NEW c \in Contexts(New), NEW d \in Contexts(New),
                NEW yes \in BlockRecords(New + 2), NEW no \in BlockRecords(New + 2),
                yes.end = Open, no.end = Open, ForksPath(ins, r, w, yes, no, c, d)
         PROVE  \A i \in 1..Len(blocks') : WayNext(i)
    <2>1. IsFork(blocks', ins, r, w, yes, no)
      <3>1. IsFork(ForkedBlocks(ins, r, w, yes, no), ins, r, w, yes, no)
        BY <1>1, <1>12, ForkFacts
      <3> QED BY <1>12, <3>1 DEF ForksPath
    <2>2. /\ Len(blocks') = New + 2
          /\ blocks'[ip] = [blocks[ip] EXCEPT !.end = Br(New)]
          /\ blocks'[New] = ForkBlock(ins, r, w) /\ blocks'[New + 1] = yes /\ blocks'[New + 2] = no
      BY <1>2, <2>1 DEF IsFork, ForkBlock, NewBlock
    <2>3. blocks'[New].end.kind = "cond"
      BY <2>2, ForkBlockFacts
    <2> DEFINE q == [ctx |-> d, bb |-> New + 2]
               S == SavedPaths(Len(blocks)) \cup {q}
    <2>4. /\ ip' = New + 1 /\ UNCHANGED phase /\ stack' = Append(stack, q)
      BY <1>12 DEF ForksPath, Continue
    <2>5. stack \in Seq(S) /\ q \in S /\ q.bb = New + 2
      BY <1>2, SeqMonotonic
    <2> HIDE DEF q, S
    <2>6. /\ Len(stack') = Len(stack) + 1
          /\ \A j \in 1..Len(stack) : stack'[j] = stack[j]
          /\ stack'[Len(stack) + 1] = q
      BY <2>4, <2>5, AppendProperties
    <2>7. /\ Len(stack) + 1 \in 1..Len(stack')
          /\ \A j \in 1..Len(stack) : j \in 1..Len(stack')
      BY <1>2, <2>6
    <2>8. /\ PendingNext(New + 1) /\ PendingNext(New + 2)
          /\ \A j \in 1..Len(stack) : PendingNext(stack[j].bb)
      <3>1. phase' = "lift"
        BY <1>1, <2>4
      <3>2. PendingNext(New + 1)
        BY <2>4, <3>1 DEF PendingNext, Pending
      <3>3. PendingNext(New + 2)
        BY <2>5, <2>6, <2>7, <3>1 DEF PendingNext, Pending
      <3>4. \A j \in 1..Len(stack) : PendingNext(stack[j].bb)
        BY <2>6, <2>7, <3>1 DEF PendingNext, Pending
      <3> QED BY <3>2, <3>3, <3>4
    <2>9. WayNext(ip) /\ WayNext(New)
      BY <1>5, <1>6, <2>2, <2>3 DEF WayNext, WayOn
    <2>10. WayNext(New + 1) /\ WayNext(New + 2)
      BY <1>6, <1>12, <2>2, <2>8 DEF WayNext, WayOn
    <2>11. \A i \in (Len(blocks) + 1)..Len(blocks') : i = New \/ i = New + 1 \/ i = New + 2
      <3> DEFINE k == Len(blocks)
                 l == Len(blocks')
      <3>1. k \in Nat /\ New = k + 1 /\ l = New + 2
        BY <1>2, <2>2
      <3> HIDE DEF k, l
      <3>2. \A i \in (k + 1)..l : i = New \/ i = New + 1 \/ i = New + 2
        BY <3>1
      <3> QED BY <3>2 DEF k, l
    <2> QED BY <1>9, <2>8, <2>9, <2>10, <2>11
  <1>13. ExploreOtherPaths
         \/ (\E ins \in BlockCode, acc \in AccessRecords : \E c : ExtendsPath(ins, acc, c))
         \/ (\E ins \in BlockCode, r \in Regs, w \in Words, c, d \in Contexts(New),
                yes, no \in BlockRecords(New + 2) :
                yes.end = Open /\ no.end = Open /\ ForksPath(ins, r, w, yes, no, c, d))
    BY <1>1, <1>7 DEF Shape, ClosesPath, LeavesPath, FailsInBlock, CutsPath, Throws, Abort
  <1> QED BY <1>10, <1>11, <1>12, <1>13

-----------------------------------------------------------------------------
\* Theorems

\* no block runs that was specialised for another state

NothingStale == phase = "run" /\ Specialised(blocks[bp]) => Believed(blocks[bp])

(* Without solver timeouts everything the invariant says holds throughout,   *)
(* and the options stay as they were set.                                    *)
LEMMA ExecInductive ==
    ASSUME ~Timeouts
    PROVE  /\ ESpec => []ExecInv
           /\ ESpec /\ Exact(job) => []Exact(job)
           /\ ESpec /\ Mode = "symbolic" => [](Mode = "symbolic")
  <1>1. EInit => ExecInv
    BY ExecInvInit
  <1>2. ExecInv /\ [ENext]_evars => ExecInv' /\ (Exact(job) => Exact(job)') /\ (Mode = "symbolic" => (Mode = "symbolic")')
    BY ExecInvStep DEF Mode
  <1> QED BY <1>1, <1>2, PTL DEF ESpec

(* The symbolic state a block was lifted for is true whenever the block is   *)
(* executed, in symbolic exploration of every function, for every argument:  *)
(* path constraints, simplified registers, memory and snapshots never claim  *)
(* anything else than the machine would hold (emulator, solve_cpu_context,   *)
(* opaque_solver, explore_other_paths).                                      *)
THEOREM BeliefsTrue ==
    ASSUME ~Timeouts
    PROVE  ESpec => []BeliefsHold
  <1>1. ExecInv => BeliefsHold
    BY RunningBlock, BelievedState DEF ExecInv, Ready, BeliefsHold
  <1> QED BY <1>1, ExecInductive, PTL

(* In symbolic exploration and in CFG recovery that merges, a step of the    *)
(* lifted function is a step of the original unless its block was            *)
(* specialised for another state: no fork, join, rebuilt loop, resolved      *)
(* jump or decided move goes wrong in any other way (cpu::run, CFG_recovery, *)
(* branching, handle_conditional_moves, value_to_pointer).                   *)
THEOREM OnlyStaleDeviates ==
    ASSUME ~Timeouts, SolverLimit > 2
    PROVE  ESpec /\ Exact(job) => OnlyStaleCodeDeviates
  <1>1. ExecInv /\ Exact(job) /\ [ENext]_evars =>
          (phase = "run" => \/ [Source!SNext]_(Source!svars)
                            \/ Specialised(blocks[bp]) /\ ~Believed(blocks[bp]))
    BY FollowsStep
  <1> QED BY <1>1, ExecInductive, PTL DEF ESpec, OnlyStaleCodeDeviates

(* The lifted function refines the original program for every call on which  *)
(* CFG recovery runs no block that it specialised for another path.          *)
THEOREM FollowsUnlessStale ==
    ASSUME ~Timeouts, SolverLimit > 2
    PROVE  ESpec /\ Exact(job) /\ []NothingStale => FollowsProgram
  <1>1. EInit => Source!SInit
    <2>1. ASSUME EInit PROVE Source!SInit
      <3>1. phase = "lift" /\ es = Idle
        BY <2>1 DEF EInit, Init
      <3>2. phase \notin {"run", "returned"}
        BY <3>1
      <3>3. Place = 1
        BY <3>2, Zenon DEF Place
      <3> QED BY <3>1, <3>3 DEF Source!SInit, Source!NotCalled, Idle
    <2> QED BY <2>1
  <1>2. ExecInv /\ Exact(job) /\ NothingStale /\ [ENext]_evars => [Source!SNext]_(Source!svars)
    BY FollowsStep DEF NothingStale
  <1> QED BY <1>1, <1>2, ExecInductive, PTL DEF ESpec, FollowsProgram, Source!SSpec

(* Symbolic exploration is exact: whatever function was lifted, an execution *)
(* of vexa_lifted is, block by block, an execution of the original           *)
(* instructions on the same argument (cpu::run and everything it calls).     *)
THEOREM SymbolicFollows ==
    ASSUME ~Timeouts, SolverLimit > 2
    PROVE  ESpec /\ Mode = "symbolic" => FollowsProgram
  <1>1. Mode = "symbolic" => Exact(job)
    BY DEF Mode, Exact
  <1>2. Mode = "symbolic" /\ BeliefsHold => NothingStale
    BY DEF BeliefsHold, NothingStale
  <1> QED BY <1>1, <1>2, ExecInductive, BeliefsTrue, FollowsUnlessStale, PTL

LEMMA WaysExecStep ==
    ASSUME ExecInv, WaysOn, ~Timeouts, SolverLimit > 2, [ENext]_evars
    PROVE  WaysOn'
  <1>1. CASE Lift
    BY <1>1, WaysStep DEF ExecInv
  <1>2. CASE phase \in {"run", "done"} /\ phase' \in {"run", "returned"} /\ UNCHANGED <<job, blocks>>
    <2>1. \A i : ~Pending(phase, ip, stack, i)
      BY <1>2 DEF Pending
    <2> QED BY <1>2, <2>1 DEF WaysOn, WayOn, prog
  <1>3. CASE UNCHANGED vars
    BY <1>3 DEF WaysOn, prog, vars
  <1>4. RunBlock => phase \in {"run", "done"} /\ phase' \in {"run", "returned"} /\ UNCHANGED <<job, blocks>>
    BY DEF RunBlock
  <1>5. \A i : CallLifted(i) => /\ phase \in {"run", "done"} /\ phase' \in {"run", "returned"}
                                /\ UNCHANGED <<job, blocks>>
    BY DEF CallLifted
  <1> QED BY <1>1, <1>2, <1>3, <1>4, <1>5 DEF ENext, LiftStep, evars

LEMMA WaysInductive ==
    ASSUME ~Timeouts, SolverLimit > 2
    PROVE  ESpec => []WaysOn
  <1>1. EInit => WaysOn
    <2>1. ASSUME EInit PROVE WaysOn
      <3>1. Len(blocks) = 1 /\ ip = 1 /\ phase = "lift" /\ blocks[1].end = Open
        BY <2>1 DEF EInit, Init, Block
      <3>2. Pending(phase, ip, stack, 1) /\ Open.kind = "open"
        BY <3>1 DEF Pending, Open
      <3> QED BY <3>1, <3>2 DEF WaysOn, WayOn
    <2> QED BY <2>1
  <1>2. ExecInv /\ WaysOn /\ [ENext]_evars => WaysOn'
    BY WaysExecStep
  <1> QED BY <1>1, <1>2, ExecInductive, PTL DEF ESpec

LEMMA StuckReason ==
    ASSUME ExecInv, WaysOn, Exact(job), NothingStale, Stuck
    PROVE  OriginalStuck \/ ManyTargets
  <1> DEFINE b == blocks[bp]
             s == es
  <1>1. phase = "run" /\ b.end.kind \in {"open", "unreachable"} /\ Ready
    BY DEF Stuck, ExecInv
  <1>2. /\ Len(blocks) \in Nat /\ b \in BlockRecords(Len(blocks)) /\ bp \in 1..Len(blocks)
        /\ s \in States
    BY <1>1, RunningBlock DEF Ready
  <1>3. WayOn(prog, b, FALSE)
    <2>1. ~Pending(phase, ip, stack, bp)
      BY <1>1 DEF Pending
    <2> QED BY <1>1, <1>2, <2>1 DEF WaysOn, WayOn
  <1>4. Special(prog, b) => LiftedFor(b, input, s)
    BY <1>1, <1>2, SpecialisedBlock, BelievedState DEF NothingStale
  <1>5. s \in Eligible(prog, b) /\ MoveRight(prog, b, s)
    <2>1. CASE Special(prog, b)
      BY <1>1, <1>4, <2>1 DEF Eligible, LiftedFor, Ready
    <2>2. CASE ~Special(prog, b)
      BY <1>2, <2>2 DEF Eligible, Special, MoveRight
    <2> QED BY <2>1, <2>2
  <1>6. OriginalStuck <=> ~Executable(Fetch(prog, b.at)) \/ ~Executable(Fetch(prog, NextAt(prog, b, s)))
    BY DEF OriginalStuck, NextAt
  <1>7. CASE b.end.kind = "unreachable"
    BY <1>3, <1>6, <1>7 DEF WayOn
  <1>8. CASE b.end.kind = "open"
    <2>1. LeftOff(prog, b)
      BY <1>3, <1>8 DEF WayOn
    <2>2. CASE /\ b.ins.op \in {"jmpr", "dispatch"}
               /\ b.belief.cons = {} \/ Cardinality(Solutions(b.belief.reg[b.ins.cond], b.belief.cons)) > 2
      <3>1. b.belief.cons # {}
        BY <1>4, <2>2 DEF Special, LiftedFor
      <3> QED BY <2>2, <3>1 DEF ManyTargets
    <2>3. CASE \E pc \in Nat : GoesOnAt(prog, b, pc) /\ ~Executable(Fetch(prog, pc))
      BY <1>5, <1>6, <2>3 DEF GoesOnAt
    <2> QED BY <2>1, <2>2, <2>3 DEF LeftOff
  <1> QED BY <1>1, <1>7, <1>8

(* An execution of a function lifted by symbolic exploration only comes to   *)
(* a block without a way on where the original cannot go on either, or at an *)
(* indirect jump with more than two targets: no fork loses a side, and no    *)
(* path popped from unexplored_paths is forgotten (cpu::run, branching,      *)
(* explore_other_paths).                                                     *)
THEOREM OnlySwitchesCut ==
    ASSUME ~Timeouts, SolverLimit > 2
    PROVE  ESpec /\ Mode = "symbolic" => []OnlySwitchesCutPaths
  <1>1. Mode = "symbolic" => Exact(job)
    BY DEF Mode, Exact
  <1>2. Mode = "symbolic" /\ BeliefsHold => NothingStale
    BY DEF BeliefsHold, NothingStale
  <1>3. ExecInv /\ WaysOn /\ Exact(job) /\ NothingStale => OnlySwitchesCutPaths
    BY StuckReason DEF OnlySwitchesCutPaths
  <1> QED BY <1>1, <1>2, <1>3, ExecInductive, WaysInductive, BeliefsTrue, PTL

-----------------------------------------------------------------------------
\* Functions that CFG recovery cannot specialise: without memory operands and
\* computed jumps, lifted with opaque solving and forks at moves switched off

Plain(j) ==
    /\ Exact(j) /\ ~j.opaque /\ ~j.cmovs
    /\ \A pc \in DOMAIN j.code : j.code[pc].op \notin {"load", "store", "jmpr", "dispatch"}

NoneSpecial == Plain(job) => \A i \in 1..Len(blocks) : ~Special(prog, blocks[i])

LEMMA PlainBlock ==
    ASSUME NEW p, NEW b, b.acc = NoAccess,
           \/ b.ins = Nop
           \/ b.ins = Fetch(p, b.at) /\ b.ins.op \notin {"jmpr", "dispatch"}
                                     /\ (b.ins.op = "jz" => b.end.kind = "cond")
    PROVE  ~Special(p, b)
  <1>1. b.acc.kind = "none" /\ Nop.op = "nop"
    BY DEF NoAccess, Nop
  <1> QED BY <1>1 DEF Special, Moves

LEMMA PlainStep ==
    ASSUME IInv, NoneSpecial, Lift
    PROVE  NoneSpecial'
  <1>1. /\ TypeInv /\ PathsHaveOwnBlocks /\ OnlyInsertPoint /\ phase = "lift" /\ UNCHANGED job
    BY InsertPointStep, PhaseStep DEF IInv
  <1>2. SUFFICES ASSUME Plain(job)
                 PROVE  \A i \in 1..Len(blocks') : ~Special(prog, blocks'[i])
    BY <1>1 DEF NoneSpecial, prog
  <1>3. /\ Len(blocks) \in Nat /\ New \in Nat /\ New = Len(blocks) + 1 /\ ip \in 1..Len(blocks)
        /\ blocks \in Seq(BlockRecords(Len(blocks)))
    BY <1>1, HereFacts DEF TypeInv
  <1>4. Here.op \notin {"load", "store", "jmpr", "dispatch"} /\ ~OpaqueSolving /\ ~ForkAtCmovs
    BY <1>2 DEF Plain, Here, Fetch, Bad, prog, OpaqueSolving, ForkAtCmovs
  <1>5. Here \in BlockCode
    BY <1>1, HereFacts
  <1>6. \A i \in 1..Len(blocks) : ~Special(prog, blocks'[i])
    <2> TAKE i \in 1..Len(blocks)
    <2>1. ~Special(prog, blocks[i])
      BY <1>2 DEF NoneSpecial
    <2>2. CASE i # ip
      BY <1>1, <2>1, <2>2 DEF OnlyInsertPoint
    <2>3. CASE i = ip
      <3>1. blocks[ip].end.kind = "open"
        BY <1>1 DEF PathsHaveOwnBlocks, Open
      <3>2. /\ blocks'[ip].at = blocks[ip].at /\ blocks'[ip].ins = blocks[ip].ins
            /\ blocks'[ip].acc = blocks[ip].acc
        BY <1>1, <1>3 DEF OnlyInsertPoint
      <3> QED BY <2>1, <2>3, <3>1, <3>2 DEF Special, Moves
    <2> QED BY <2>2, <2>3
  <1>7. ASSUME \A i \in (Len(blocks) + 1)..Len(blocks') : ~Special(prog, blocks'[i])
        PROVE  \A i \in 1..Len(blocks') : ~Special(prog, blocks'[i])
    <2>1. \A i \in 1..Len(blocks') : i \in 1..Len(blocks) \/ i \in (Len(blocks) + 1)..Len(blocks')
      BY <1>1, <1>3 DEF OnlyInsertPoint
    <2> QED BY <1>6, <1>7, <2>1
  <1> HIDE DEF New
  <1>8. ASSUME Len(blocks') = Len(blocks)
        PROVE  \A i \in 1..Len(blocks') : ~Special(prog, blocks'[i])
    BY <1>3, <1>6, <1>8
  <1>9. ASSUME NEW e \in Ends(Len(blocks)), blocks' = [blocks EXCEPT ![ip].end = e]
        PROVE  \A i \in 1..Len(blocks') : ~Special(prog, blocks'[i])
    <2>1. Len(blocks') = Len(blocks)
      BY <1>3, <1>9, CloseFacts
    <2> QED BY <1>8, <2>1
  <1> DEFINE L == Lifted(Here, NoAccess)
             b == Block(ctx.PC, Here, NoAccess, Belief(ctx))
  <1>10. /\ L \in Seq(BlockRecords(New)) /\ Len(L) = New /\ L[New] = b
    BY <1>1, <1>3, <1>5, LiftedFacts, NoAccessType
  <1>11. b.at = ctx.PC /\ b.ins = Here /\ b.acc = NoAccess
    BY DEF Block
  <1>12. ASSUME blocks' = L, Here.op # "jz"
         PROVE  \A i \in 1..Len(blocks') : ~Special(prog, blocks'[i])
    <2>1. ~Special(prog, b)
      <3> HIDE DEF b
      <3> QED BY <1>4, <1>11, <1>12, PlainBlock DEF Here
    <2> HIDE DEF L, b
    <2>2. \A i \in (Len(blocks) + 1)..Len(blocks') : i = New
      BY <1>3, <1>10, <1>12
    <2> QED BY <1>7, <1>10, <1>12, <2>1, <2>2
  <1>13. CASE FunctionEnded
    BY <1>3, <1>9, <1>13, EndFacts DEF FunctionEnded
  <1>14. CASE EdgeRebuilt
    <2>1. Br(Index[1][Index[2]]) \in Ends(Len(blocks))
      BY <1>1, <1>3, <1>14, KnownBlock, EndFacts DEF EdgeRebuilt
    <2> QED BY <1>9, <1>14, <2>1 DEF EdgeRebuilt
  <1>15. CASE DecodeFails
    BY <1>8, <1>15 DEF DecodeFails
  <1>16. CASE LiftFails
    <2>1. Here.op = "unsupported" /\ blocks' = [L EXCEPT ![New].end = Unreachable]
      BY <1>16 DEF LiftFails, Reading
    <2>2. Unreachable \in Ends(New) /\ New \in 1..Len(L)
      BY <1>3, <1>10, EndFacts
    <2> HIDE DEF L, b
    <2>3. Len(blocks') = New /\ blocks'[New] = [b EXCEPT !.end = Unreachable]
      BY <1>3, <1>10, <2>1, <2>2, CloseFacts
    <2>4. [b EXCEPT !.end = Unreachable].at = b.at /\ [b EXCEPT !.end = Unreachable].ins = b.ins
          /\ [b EXCEPT !.end = Unreachable].acc = b.acc
      BY DEF b, Block
    <2>5. ~Special(prog, blocks'[New])
      BY <1>4, <1>11, <2>1, <2>3, <2>4, PlainBlock DEF Here
    <2>6. \A i \in (Len(blocks) + 1)..Len(blocks') : i = New
      BY <1>3, <2>3
    <2> QED BY <1>7, <2>5, <2>6
  <1>17. CASE LiftComputation
    BY <1>12, <1>17 DEF LiftComputation, Reading, ComputeOps
  <1>18. CASE LiftMemoryAccess
    BY <1>4, <1>18 DEF LiftMemoryAccess, Reading
  <1>19. CASE LiftSelect
    BY <1>12, <1>19 DEF LiftSelect, Reading
  <1>20. CASE LiftConditionalMove
    BY <1>4, <1>20 DEF LiftConditionalMove
  <1>21. CASE LiftDirectJump
    BY <1>12, <1>21 DEF LiftDirectJump, Reading
  <1>22. CASE LiftConditionalJump
    <2>1. Here.op = "jz" /\ Here.cond \in Regs /\ Here.to \in Nat
      BY <1>1, <1>22, HereFacts, InstructionFields DEF LiftConditionalJump, Reading
    <2>2. PICK jump, fall :
            blocks' = [L EXCEPT ![New].end = CondBr(Here.cond, 0, New + 1, New + 2)]
                      \o << Block(Here.to, Nop, NoAccess, Belief(jump)),
                            Block(ctx.PC + 1, Nop, NoAccess, Belief(fall)) >>
      BY <1>4, <1>22 DEF LiftConditionalJump, Branching
    <2> DEFINE yes == Block(Here.to, Nop, NoAccess, Belief(jump))
               no == Block(ctx.PC + 1, Nop, NoAccess, Belief(fall))
               e == CondBr(Here.cond, 0, New + 1, New + 2)
               c == [b EXCEPT !.end = e]
               S == {L[i] : i \in 1..New} \cup {c, yes, no}
               M == [L EXCEPT ![New].end = e]
    <2>3. /\ yes.acc = NoAccess /\ yes.ins = Nop /\ no.acc = NoAccess /\ no.ins = Nop
          /\ c.at = ctx.PC /\ c.ins = Here /\ c.acc = NoAccess /\ c.end.kind = "cond"
      BY DEF Block, CondBr
    <2> HIDE DEF L, b
    <2>4. /\ DOMAIN L = 1..New /\ New \in 1..New /\ M = [L EXCEPT ![New] = c]
      BY <1>3, <1>10 DEF M, c
    <2> HIDE DEF c, yes, no
    <2>5. M \in Seq(S) /\ Len(M) = New /\ M[New] = c
      <3>1. M \in [1..New -> S] /\ M[New] = c
        BY <2>4
      <3> QED BY <1>3, <3>1, SMTT(30)
    <2>6. <<yes, no>> \in Seq(S) /\ Len(<<yes, no>>) = 2 /\ <<yes, no>>[1] = yes /\ <<yes, no>>[2] = no
      OBVIOUS
    <2> HIDE DEF M, S, e
    <2>7. /\ Len(blocks') = New + 2 /\ blocks'[New] = c
          /\ blocks'[New + 1] = yes /\ blocks'[New + 2] = no
      <3>1. blocks' = M \o <<yes, no>>
        BY <2>2 DEF M, yes, no, e
      <3> QED BY <1>3, <2>5, <2>6, <3>1, ConcatProperties
    <2>8. ~Special(prog, c) /\ ~Special(prog, yes) /\ ~Special(prog, no)
      BY <1>4, <2>3, PlainBlock DEF Here
    <2>9. \A i \in (Len(blocks) + 1)..Len(blocks') : i = New \/ i = New + 1 \/ i = New + 2
      <3> DEFINE k == Len(blocks)
                 l == Len(blocks')
      <3>1. k \in Nat /\ New = k + 1 /\ l = New + 2
        BY <1>3, <2>7
      <3> HIDE DEF k, l
      <3>2. \A i \in (k + 1)..l : i = New \/ i = New + 1 \/ i = New + 2
        BY <3>1
      <3> QED BY <3>2 DEF k, l
    <2> QED BY <1>7, <2>7, <2>8, <2>9
  <1>23. CASE LiftConcreteJump
    BY <1>4, <1>12, <1>23 DEF LiftConcreteJump, Reading, IndirectOps
  <1>24. CASE LiftSymbolicJump
    <2>1. Here.op \in IndirectOps /\ ~Target.lit
      BY <1>24 DEF LiftSymbolicJump, Reading
    <2> QED BY <1>4, <2>1 DEF IndirectOps, Target, Literal
  <1> QED BY <1>13, <1>14, <1>15, <1>16, <1>17, <1>18, <1>19, <1>20, <1>21, <1>22, <1>23, <1>24 DEF Lift

LEMMA PlainInductive == ESpec /\ Plain(job) => [](Plain(job) /\ NoneSpecial)
  <1>1. EInit => IInv /\ NoneSpecial
    <2>1. ASSUME EInit PROVE IInv /\ NoneSpecial
      <3>1. IInv
        BY <2>1, IInvInit DEF EInit
      <3>2. Len(blocks) = 1 /\ blocks[1].ins = Nop /\ blocks[1].acc = NoAccess
        BY <2>1 DEF EInit, Init, Block
      <3>3. ~Special(prog, blocks[1])
        BY <3>2, PlainBlock
      <3> QED BY <3>1, <3>2, <3>3 DEF NoneSpecial
    <2> QED BY <2>1
  <1>2. IInv /\ NoneSpecial /\ [ENext]_evars => NoneSpecial' /\ UNCHANGED job
    <2>1. ASSUME IInv, NoneSpecial, Lift PROVE NoneSpecial' /\ UNCHANGED job
      BY <2>1, PlainStep, PhaseStep DEF IInv
    <2>2. ASSUME NoneSpecial, UNCHANGED <<job, blocks>> PROVE NoneSpecial' /\ UNCHANGED job
      BY <2>2 DEF NoneSpecial, prog
    <2>3. RunBlock \/ (\E i \in Inputs : CallLifted(i)) \/ UNCHANGED evars => UNCHANGED <<job, blocks>>
      BY DEF RunBlock, CallLifted, evars, vars
    <2> QED BY <2>1, <2>2, <2>3 DEF ENext, LiftStep
  <1>3. IInv /\ [ENext]_evars => IInv'
    BY IInvExecStep
  <1>4. UNCHANGED job => (Plain(job) => Plain(job)')
    OBVIOUS
  <1> QED BY <1>1, <1>2, <1>3, <1>4, PTL DEF ESpec

LEMMA PlainNotStale ==
    ASSUME ExecInv, Plain(job), NoneSpecial, phase = "run"
    PROVE  ~Specialised(blocks[bp])
  <1>1. bp \in 1..Len(blocks)
    BY DEF ExecInv, Ready
  <1> QED BY <1>1, SpecialisedBlock DEF NoneSpecial

(* CFG recovery is exact where there is nothing to specialise: the lifted    *)
(* function of a program without memory operands and computed jumps, with    *)
(* joins merged and loops closed by CFG_recovery, runs as the original does  *)
(* (cpu::run with OPAQUE_SOLVING and FORK_AT_CMOVS off).                     *)
THEOREM PlainFollows ==
    ASSUME ~Timeouts, SolverLimit > 2
    PROVE  ESpec /\ Plain(job) => FollowsProgram
  <1>1. Plain(job) => Exact(job)
    BY DEF Plain
  <1>2. ExecInv /\ Plain(job) /\ NoneSpecial => NothingStale
    BY PlainNotStale DEF NothingStale
  <1> QED BY <1>1, <1>2, ExecInductive, PlainInductive, FollowsUnlessStale, PTL

(* "Discovers the all execution paths in the function" (context.hpp) is true *)
(* of such programs: the lifted function only runs into a block without a    *)
(* way on where the original is stuck too, whatever was merged in between    *)
(* (CFG_recovery, branching, explore_other_paths).                           *)
THEOREM PlainDiscovers ==
    ASSUME ~Timeouts, SolverLimit > 2
    PROVE  ESpec /\ Plain(job) => []AllPathsDiscovered
  <1>1. ExecInv /\ WaysOn /\ Plain(job) /\ NoneSpecial => AllPathsDiscovered
    <2>1. ASSUME ExecInv, WaysOn, Plain(job), NoneSpecial, Stuck
          PROVE  OriginalStuck
      <3>1. phase = "run" /\ Exact(job)
        BY <2>1 DEF Stuck, Plain
      <3>2. ~Specialised(blocks[bp])
        BY <2>1, <3>1, PlainNotStale
      <3>3. NothingStale /\ ~ManyTargets
        BY <3>2 DEF NothingStale, Specialised, ManyTargets
      <3> QED BY <2>1, <3>1, <3>3, StuckReason
    <2> QED BY <2>1 DEF AllPathsDiscovered
  <1> QED BY <1>1, ExecInductive, WaysInductive, PlainInductive, PTL

(* Running the function changes nothing about it: the types, the open blocks *)
(* of the paths, and that terminators and map entries are never replaced,    *)
(* hold for the lifter and the executions of its result together.            *)
THEOREM WholeLife ==
    ESpec => []TypeOK /\ []PathsHaveOwnBlocks /\ TerminatedOnce /\ LiftedOnce
  <1>1. EInit => IInv
    BY IInvInit DEF EInit
  <1>2. IInv /\ [ENext]_evars => IInv'
    BY IInvExecStep
  <1>3. IInv => TypeOK /\ PathsHaveOwnBlocks
    BY TypeImplied DEF IInv
  <1>4. [ENext]_evars => [Lift]_vars \/ UNCHANGED <<blocks, CFG, VCFG>>
    BY DEF ENext, LiftStep, RunBlock, CallLifted, evars
  <1>5. IInv /\ [ENext]_evars =>
          /\ \A b \in DOMAIN blocks : blocks[b].end # Open => blocks'[b].end = blocks[b].end
          /\ \A pc \in DOMAIN CFG : pc \in DOMAIN CFG' /\ CFG'[pc] = CFG[pc]
          /\ \A pc \in DOMAIN VCFG : pc \in DOMAIN VCFG' /\ VCFG'[pc] = VCFG[pc]
    BY <1>4, TerminatorStep, MapStep
  <1> QED BY <1>1, <1>2, <1>3, <1>5, PTL DEF ESpec, TerminatedOnce, LiftedOnce
=============================================================================
