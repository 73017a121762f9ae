-------------------------- MODULE Optimizer_proofs --------------------------
(***************************************************************************)
(* Proofs about Optimizer: the pass manager (pass_manager.cpp) reaches a   *)
(* round in which no pass reports a change before optimize returns,        *)
(* whatever the passes do to the function, however often it is called and  *)
(* with any options.                                                       *)
(***************************************************************************)
EXTENDS Optimizer, FiniteSetTheorems, TLAPS

Passes == {"simplify_cfg_and_dce", "constant_propagation", "state2alloca", "Oz",
           "state_cleanup", "memory_scalarizer"}

Steps == [pass : Passes, did_run : BOOLEAN]

Entries == [pass : Passes, changed : BOOLEAN]

ManagerTypes ==
    /\ pipeline \in Seq(Steps)
    /\ ran \in Seq(Entries)
    /\ next \in 1 .. Len(pipeline) + 1
    /\ phase \in {"idle", "run"}
    /\ phase = "idle" => next = Len(pipeline) + 1

\* a pass occurs once in the pipeline
Distinct == \A j, k \in DOMAIN pipeline : pipeline[j].pass = pipeline[k].pass => j = k

\* the repeatable passes behind position k that this round has reached
Later(k) == {j \in RecursivePasses : j > k /\ j < next}

\* repeatable pass k ran in this round, without a change and in its turn
RanInTurn(k) ==
    LET i == Len(ran) - Cardinality(Later(k))
    IN i \in 1 .. Len(ran) /\ ran[i].pass = pipeline[k].pass /\ ~ran[i].changed

Round == \A k \in RecursivePasses : k < next => RanInTurn(k)

Once ==
    \A k \in DOMAIN pipeline \ RecursivePasses :
        Cardinality(RunsOf(pipeline[k].pass)) = IF pipeline[k].did_run THEN 1 ELSE 0

Done == \A k \in DOMAIN pipeline : k < next => pipeline[k].did_run

ManagerInv == ManagerTypes /\ Distinct /\ Round /\ Once /\ Done

-----------------------------------------------------------------------------
\* Sets of positions are finite.
LEMMA PositionsFinite ==
    ASSUME NEW S, NEW s \in Seq(S), NEW T \in SUBSET DOMAIN s
    PROVE  IsFiniteSet(T) /\ Cardinality(T) \in Nat
<1>1. IsFiniteSet(1 .. Len(s)) /\ DOMAIN s = 1 .. Len(s)
  BY FS_Interval
<1>2. IsFiniteSet(T)
  BY <1>1, FS_Subset
<1> QED
  BY <1>2, FS_CardinalityType

\* A function on an initial segment is a sequence.
LEMMA FunctionSequence ==
    ASSUME NEW S, NEW n \in Nat, NEW t \in [1 .. n -> S]
    PROVE  t \in Seq(S) /\ Len(t) = n
OBVIOUS

\* s lists elements of A, none of them twice
Lists(s, A) == s \in Seq(A) /\ \A j, k \in 1 .. Len(s) : s[j] = s[k] => j = k

\* Lists of different things, one behind the other.
LEMMA ListsJoined ==
    ASSUME NEW s, NEW t, NEW A, NEW B, Lists(s, A), Lists(t, B), A \cap B = {}
    PROVE  Lists(s \o t, A \cup B)
<1>1. /\ s \in Seq(A) /\ t \in Seq(B) /\ Len(s) \in Nat /\ Len(t) \in Nat
      /\ \A j, k \in 1 .. Len(s) : s[j] = s[k] => j = k
      /\ \A j, k \in 1 .. Len(t) : t[j] = t[k] => j = k
  BY DEF Lists
<1>2. s \in Seq(A \cup B) /\ t \in Seq(A \cup B)
  BY <1>1
<1>3. s \o t \in Seq(A \cup B) /\ Len(s \o t) = Len(s) + Len(t)
  BY <1>2
<1>4. ASSUME NEW j \in 1 .. Len(s) + Len(t)
      PROVE  /\ j <= Len(s) => j \in 1 .. Len(s) /\ (s \o t)[j] = s[j] /\ s[j] \in A
             /\ ~(j <= Len(s)) => /\ j - Len(s) \in 1 .. Len(t) /\ (s \o t)[j] = t[j - Len(s)]
                                  /\ t[j - Len(s)] \in B
  BY <1>1, <1>2
<1>5. ASSUME NEW j \in 1 .. Len(s) + Len(t), NEW k \in 1 .. Len(s) + Len(t), (s \o t)[j] = (s \o t)[k]
      PROVE  j = k
  <2>1. CASE j <= Len(s) /\ k <= Len(s)
    BY <1>1, <1>4, <1>5, <2>1
  <2>2. CASE j <= Len(s) /\ ~(k <= Len(s))
    BY <1>4, <1>5, <2>2
  <2>3. CASE ~(j <= Len(s)) /\ k <= Len(s)
    BY <1>4, <1>5, <2>3
  <2>4. CASE ~(j <= Len(s)) /\ ~(k <= Len(s))
    <3>1. j - Len(s) = k - Len(s)
      BY <1>1, <1>4, <1>5, <2>4
    <3> QED
      BY <1>1, <3>1
  <2> QED
    BY <2>1, <2>2, <2>3, <2>4
<1> QED
  BY <1>3, <1>5 DEF Lists

\* Whatever the options are, the chosen passes are different ones.
LEMMA ChosenDiffer == Lists(ChosenPasses, Passes)
<1> DEFINE p == Chosen("CONSTANT_PROPAGATION", "constant_propagation")
           c == Chosen("STATE_CLEANUP", "state_cleanup")
           A == {"simplify_cfg_and_dce"}
           B == {"constant_propagation"}
           C == {"state2alloca", "Oz"}
           D == {"state_cleanup"}
           E == {"memory_scalarizer"}
<1>1. ASSUME NEW x PROVE Lists(<<x>>, {x}) /\ Lists(<<>>, {x})
  BY DEF Lists
<1>2. Lists(p, B) /\ Lists(c, D)
  BY <1>1, Zenon DEF Chosen
<1>3. Lists(<<"state2alloca", "Oz">>, C)
  BY DEF Lists
<1>4. Lists(<<"simplify_cfg_and_dce">>, A) /\ Lists(<<"memory_scalarizer">>, E)
  BY <1>1
<1>5. A \cap B = {} /\ (A \cup B) \cap C = {} /\ (A \cup B \cup C) \cap D = {}
      /\ (A \cup B \cup C \cup D) \cap E = {} /\ A \cup B \cup C \cup D \cup E = Passes
  BY DEF Passes
<1> HIDE DEF p, c, A, B, C, D, E
<1>6. Lists(<<"simplify_cfg_and_dce">> \o p, A \cup B)
  BY <1>2, <1>4, <1>5, ListsJoined
<1>7. Lists(<<"simplify_cfg_and_dce">> \o p \o <<"state2alloca", "Oz">>, A \cup B \cup C)
  BY <1>3, <1>5, <1>6, ListsJoined
<1>8. Lists(<<"simplify_cfg_and_dce">> \o p \o <<"state2alloca", "Oz">> \o c, A \cup B \cup C \cup D)
  BY <1>2, <1>5, <1>7, ListsJoined
<1>9. Lists(<<"simplify_cfg_and_dce">> \o p \o <<"state2alloca", "Oz">> \o c \o <<"memory_scalarizer">>,
            A \cup B \cup C \cup D \cup E)
  BY <1>4, <1>5, <1>8, ListsJoined
<1>10. Lists(<<"simplify_cfg_and_dce">> \o p \o <<"state2alloca", "Oz">> \o c \o <<"memory_scalarizer">>,
             Passes)
  BY <1>5, <1>9
<1> QED
  BY <1>10 DEF ChosenPasses, p, c

\* A call of optimize.
LEMMA OptimizeStep ==
    ASSUME ManagerInv, Optimize
    PROVE  ManagerInv'
<1>1. PICK n, t : n = Len(ChosenPasses) /\ t = ChosenPasses
  OBVIOUS
<1>2. n \in Nat /\ DOMAIN t = 1 .. n /\ t \in [1 .. n -> Passes]
      /\ \A j, k \in 1 .. n : t[j] = t[k] => j = k
  BY <1>1, ChosenDiffer DEF Lists
<1>3. pipeline' = [k \in 1 .. n |-> [pass |-> t[k], did_run |-> FALSE]] /\ next' = 1 /\ phase' = "run"
      /\ ran' = <<>>
  BY <1>1, <1>2 DEF Optimize
<1>4. pipeline' \in [1 .. n -> Steps]
  BY <1>2, <1>3 DEF Steps
<1>5. pipeline' \in Seq(Steps) /\ Len(pipeline') = n
  BY <1>2, <1>4, FunctionSequence
<1>6. ManagerTypes'
  BY <1>2, <1>3, <1>5 DEF ManagerTypes
<1>7. Distinct'
  BY <1>2, <1>3 DEF Distinct
<1>8. Round' /\ Done'
  <2>1. DOMAIN pipeline' = 1 .. n
    BY <1>3
  <2>2. \A k \in 1 .. n : ~(k < 1)
    BY <1>2
  <2> QED
    BY <1>3, <2>1, <2>2 DEF Round, Done, RecursivePasses
<1>9. Once'
  <2>1. \A p : RunsOf(p)' = {}
    BY <1>3 DEF RunsOf
  <2>2. \A k \in DOMAIN pipeline' : pipeline'[k].did_run = FALSE
    BY <1>3
  <2>3. ASSUME NEW k \in DOMAIN pipeline'
        PROVE  Cardinality(RunsOf(pipeline[k].pass)') = IF pipeline'[k].did_run THEN 1 ELSE 0
    BY <2>1, <2>2, FS_EmptySet
  <2> QED
    BY <2>3 DEF Once
<1> QED
  BY <1>6, <1>7, <1>8, <1>9 DEF ManagerInv

\* A pass that is passed over.
LEMMA SkipStep ==
    ASSUME ManagerInv, SkipPass
    PROVE  ManagerInv'
<1>1. /\ phase = "run" /\ next <= Len(pipeline) /\ next' = next + 1
      /\ UNCHANGED <<pipeline, phase, ran>>
      /\ ~is_recursive(pipeline[next].pass) /\ pipeline[next].did_run
  BY DEF SkipPass, Skipped
<1>2. ManagerTypes /\ Distinct /\ Round /\ Once /\ Done
  BY DEF ManagerInv
<1>3. next \in Nat /\ DOMAIN pipeline = 1 .. Len(pipeline) /\ Len(pipeline) \in Nat
  BY <1>2 DEF ManagerTypes
<1>4. RecursivePasses' = RecursivePasses /\ next \notin RecursivePasses /\ RecursivePasses \subseteq Nat
  BY <1>1, <1>3 DEF RecursivePasses
<1>5. ManagerTypes'
  BY <1>1, <1>2, <1>3 DEF ManagerTypes
<1>6. Distinct' /\ Once'
  BY <1>1, <1>2, <1>4 DEF Distinct, Once, RunsOf
<1>7. Done'
  BY <1>1, <1>2, <1>3 DEF Done
<1>8. ASSUME NEW k \in RecursivePasses, k < next + 1 PROVE RanInTurn(k)'
  <2>1. k < next
    BY <1>3, <1>4, <1>8
  <2>2. \A j \in RecursivePasses : j < next + 1 <=> j < next
    BY <1>3, <1>4
  <2>3. Later(k)' = Later(k)
    BY <1>1, <1>4, <2>2 DEF Later
  <2>4. RanInTurn(k)
    BY <1>2, <2>1 DEF Round
  <2> QED
    BY <1>1, <2>3, <2>4 DEF RanInTurn
<1>9. Round'
  BY <1>1, <1>4, <1>8 DEF Round
<1> QED
  BY <1>5, <1>6, <1>7, <1>9 DEF ManagerInv

\* A pass that runs.  One that may not be repeated always reports a change.
LEMMA RunsStep ==
    ASSUME ManagerInv, NEW pass, NEW changed \in BOOLEAN, Runs(pass, changed),
           changed \/ is_recursive(pass)
    PROVE  ManagerInv'
<1>1. /\ phase = "run" /\ next <= Len(pipeline) /\ pipeline[next].pass = pass
      /\ ~(~is_recursive(pass) /\ pipeline[next].did_run)
      /\ pipeline' = [pipeline EXCEPT ![next].did_run = TRUE]
      /\ next' = IF changed THEN 1 ELSE next + 1
      /\ ran' = Append(ran, [pass |-> pass, changed |-> changed])
      /\ phase' = phase
  BY DEF Runs, Skipped
<1>2. ManagerTypes /\ Distinct /\ Round /\ Once /\ Done
  BY DEF ManagerInv
<1>3. /\ next \in Nat /\ next >= 1 /\ DOMAIN pipeline = 1 .. Len(pipeline) /\ Len(pipeline) \in Nat
      /\ next \in DOMAIN pipeline
      /\ pipeline \in Seq(Steps) /\ ran \in Seq(Entries) /\ Len(ran) \in Nat
      /\ DOMAIN ran = 1 .. Len(ran)
  BY <1>1, <1>2 DEF ManagerTypes
<1>4. /\ pipeline' \in Seq(Steps) /\ Len(pipeline') = Len(pipeline) /\ DOMAIN pipeline' = DOMAIN pipeline
      /\ \A k \in DOMAIN pipeline : /\ pipeline'[k].pass = pipeline[k].pass
                                    /\ pipeline'[k].did_run = (IF k = next THEN TRUE ELSE pipeline[k].did_run)
  <2>1. pipeline[next] \in Steps
    BY <1>3
  <2>2. PICK e : e = [pipeline[next] EXCEPT !.did_run = TRUE]
    OBVIOUS
  <2>3. e \in Steps /\ e.pass = pipeline[next].pass /\ e.did_run = TRUE
    BY <2>1, <2>2 DEF Steps
  <2>4. pipeline' = [pipeline EXCEPT ![next] = e]
    BY <1>1, <2>2
  <2>5. PICK n \in Nat : n = Len(pipeline)
    BY <1>3
  <2>6. pipeline \in [1 .. n -> Steps] /\ next \in 1 .. n /\ DOMAIN pipeline = 1 .. n
    BY <1>3, <2>5
  <2>7. pipeline' \in [1 .. n -> Steps]
    BY <2>3, <2>4, <2>6
  <2>8. pipeline' \in Seq(Steps) /\ Len(pipeline') = n
    BY <2>7, FunctionSequence
  <2>9. \A k \in 1 .. n : pipeline'[k] = IF k = next THEN e ELSE pipeline[k]
    BY <2>4, <2>6
  <2>10. \A k \in 1 .. n : /\ pipeline'[k].pass = pipeline[k].pass
                           /\ pipeline'[k].did_run = (IF k = next THEN TRUE ELSE pipeline[k].did_run)
    BY <2>3, <2>9
  <2>11. DOMAIN pipeline' = 1 .. n
    BY <2>7
  <2> QED
    BY <2>5, <2>6, <2>8, <2>10, <2>11
<1>5. [pass |-> pass, changed |-> changed] \in Entries
  <2>0. pipeline[next] \in Steps
    BY <1>3
  <2>1. pass \in Passes
    BY <1>1, <2>0 DEF Steps
  <2> QED
    BY <2>1 DEF Entries
<1>6. /\ ran' \in Seq(Entries) /\ Len(ran') = Len(ran) + 1
      /\ \A i \in 1 .. Len(ran) : ran'[i] = ran[i]
      /\ ran'[Len(ran) + 1] = [pass |-> pass, changed |-> changed]
      /\ DOMAIN ran' = 1 .. Len(ran) + 1
  BY <1>1, <1>3, <1>5
<1>7. RecursivePasses' = RecursivePasses /\ RecursivePasses \subseteq DOMAIN pipeline
  BY <1>4 DEF RecursivePasses
<1>8. ManagerTypes'
  BY <1>1, <1>3, <1>4, <1>6 DEF ManagerTypes
<1>9. Distinct'
  BY <1>2, <1>4 DEF Distinct
<1>10. Done'
  <2>1. CASE changed
    <3>1. next' = 1 /\ \A k \in DOMAIN pipeline : ~(k < 1)
      BY <1>1, <1>3, <2>1
    <3> QED
      BY <1>4, <3>1 DEF Done
  <2>2. CASE ~changed
    <3>1. next' = next + 1
      BY <1>1, <2>2
    <3>2. \A k \in DOMAIN pipeline : k < next + 1 => k < next \/ k = next
      BY <1>3
    <3> QED
      BY <1>2, <1>4, <3>1, <3>2 DEF Done
  <2> QED
    BY <2>1, <2>2
<1>11. Round'
  <2>1. CASE changed
    <3>1. next' = 1 /\ \A k \in RecursivePasses : ~(k < 1)
      BY <1>1, <1>3, <1>7, <2>1
    <3> QED
      BY <1>7, <3>1 DEF Round
  <2>2. CASE ~changed
    <3>1. next' = next + 1 /\ next \in RecursivePasses
      BY <1>1, <1>3, <2>2 DEF RecursivePasses
    <3>2. ASSUME NEW k \in RecursivePasses, k < next + 1 PROVE RanInTurn(k)'
      <4>0. k \in Nat /\ k \in DOMAIN pipeline
        BY <1>3, <1>7
      <4>1. CASE k = next
        <5>0. \A j \in RecursivePasses : ~(j > k /\ j < next + 1)
          <6>1. RecursivePasses \subseteq Nat /\ next \in Nat
            BY <1>3, <1>7
          <6> QED
            BY <4>1, <6>1
        <5>1. Later(k)' = {}
          BY <1>7, <3>1, <5>0 DEF Later
        <5>2. Cardinality(Later(k)') = 0
          BY <5>1, FS_EmptySet
        <5>3. (Len(ran) + 1) - 0 = Len(ran) + 1 /\ Len(ran) + 1 \in 1 .. Len(ran) + 1
          BY <1>3
        <5>4. ran'[Len(ran) + 1].pass = pipeline'[k].pass /\ ~ran'[Len(ran) + 1].changed
          <6>1. ran'[Len(ran) + 1].pass = pass /\ ran'[Len(ran) + 1].changed = changed
            BY <1>6
          <6>2. pipeline'[k].pass = pass
            BY <1>1, <1>4, <4>0, <4>1
          <6> QED
            BY <2>2, <6>1, <6>2
        <5> QED
          BY <1>6, <5>2, <5>3, <5>4 DEF RanInTurn
      <4>2. CASE k # next
        <5>1. k < next
          BY <1>3, <3>2, <4>0, <4>2
        <5>2. Later(k) \in SUBSET DOMAIN pipeline /\ next \notin Later(k)
          BY <1>3, <1>7 DEF Later
        <5>3. \A j \in RecursivePasses : (j > k /\ j < next + 1) <=> (j > k /\ j < next) \/ j = next
          BY <1>3, <1>7, <4>0, <5>1
        <5>4. Later(k)' = Later(k) \cup {next}
          BY <1>7, <3>1, <5>3 DEF Later
        <5>5. IsFiniteSet(Later(k)) /\ Cardinality(Later(k)) \in Nat
          BY <1>3, <5>2, PositionsFinite
        <5>6. Cardinality(Later(k)') = Cardinality(Later(k)) + 1
          BY <5>2, <5>4, <5>5, FS_AddElement
        <5>7. RanInTurn(k)
          BY <1>2, <5>1 DEF Round
        <5>8. PICK i : i = Len(ran) - Cardinality(Later(k))
          OBVIOUS
        <5>9. i \in 1 .. Len(ran) /\ ran[i].pass = pipeline[k].pass /\ ~ran[i].changed
          BY <5>7, <5>8 DEF RanInTurn
        <5>10. Len(ran') - Cardinality(Later(k)') = i /\ i \in 1 .. Len(ran')
          BY <1>3, <1>6, <5>5, <5>6, <5>8, <5>9
        <5>11. ran'[i].pass = pipeline'[k].pass /\ ~ran'[i].changed
          BY <1>4, <1>6, <4>0, <5>9
        <5> QED
          BY <5>10, <5>11 DEF RanInTurn
      <4> QED
        BY <4>1, <4>2
    <3> QED
      BY <1>7, <3>1, <3>2 DEF Round
  <2> QED
    BY <2>1, <2>2
<1>12. Once'
  <2>1. ASSUME NEW k \in DOMAIN pipeline \ RecursivePasses
        PROVE  Cardinality(RunsOf(pipeline[k].pass)') = IF pipeline'[k].did_run THEN 1 ELSE 0
    <3>0. PICK q : q = pipeline[k].pass
      OBVIOUS
    <3>1. IsFiniteSet(RunsOf(q)) /\ Cardinality(RunsOf(q)) \in Nat /\ RunsOf(q) \in SUBSET DOMAIN ran
      <4>1. RunsOf(q) \in SUBSET DOMAIN ran
        BY DEF RunsOf
      <4> QED
        BY <1>3, <4>1, PositionsFinite
    <3>2. Cardinality(RunsOf(q)) = IF pipeline[k].did_run THEN 1 ELSE 0
      BY <1>2, <3>0 DEF Once
    <3>3. CASE k = next
      <4>1. ~is_recursive(pass) /\ q = pass
        BY <1>1, <2>1, <3>0, <3>3 DEF RecursivePasses
      <4>2. ~pipeline[k].did_run /\ pipeline'[k].did_run = TRUE
        BY <1>1, <1>4, <3>3, <4>1
      <4>3. {i \in 1 .. Len(ran) + 1 : ran'[i].pass = q} = RunsOf(q) \cup {Len(ran) + 1}
        BY <1>3, <1>6, <4>1 DEF RunsOf
      <4>4. Len(ran) + 1 \notin RunsOf(q)
        BY <1>3, <3>1
      <4>5. Cardinality(RunsOf(q) \cup {Len(ran) + 1}) = 1
        <5>1. Cardinality(RunsOf(q)) = 0
          BY <3>2, <4>2
        <5>2. Cardinality(RunsOf(q) \cup {Len(ran) + 1}) = Cardinality(RunsOf(q)) + 1
          BY <3>1, <4>4, FS_AddElement
        <5> QED
          BY <5>1, <5>2
      <4>6. RunsOf(pipeline[k].pass)' = {i \in 1 .. Len(ran) + 1 : ran'[i].pass = q}
        BY <1>4, <1>6, <3>0, <3>3 DEF RunsOf
      <4> QED
        BY <4>2, <4>3, <4>5, <4>6
    <3>4. CASE k # next
      <4>1. q # pass
        BY <1>1, <1>2, <1>3, <3>0, <3>4 DEF Distinct
      <4>2. pipeline'[k].did_run = pipeline[k].did_run
        BY <1>4, <3>4
      <4>3. {i \in 1 .. Len(ran) + 1 : ran'[i].pass = q} = RunsOf(q)
        BY <1>3, <1>6, <4>1 DEF RunsOf
      <4>4. RunsOf(pipeline[k].pass)' = {i \in 1 .. Len(ran) + 1 : ran'[i].pass = q}
        BY <1>4, <1>6, <3>0 DEF RunsOf
      <4> QED
        BY <3>2, <4>2, <4>3, <4>4
    <3> QED
      BY <3>3, <3>4
  <2> QED
    BY <1>4, <1>7, <2>1 DEF Once
<1> QED
  BY <1>8, <1>9, <1>10, <1>11, <1>12 DEF ManagerInv

\* Steps that leave the pass manager alone.
LEMMA QuietStep ==
    ASSUME ManagerInv, UNCHANGED <<pipeline, next, ran>>, phase' \in {"idle", "run"},
           phase' = "idle" => next = Len(pipeline) + 1
    PROVE  ManagerInv'
<1>1. ManagerTypes /\ Distinct /\ Round /\ Once /\ Done
  BY DEF ManagerInv
<1>2. ManagerTypes'
  BY <1>1 DEF ManagerTypes
<1>3. RecursivePasses' = RecursivePasses
  BY DEF RecursivePasses
<1>4. Distinct' /\ Done'
  BY <1>1 DEF Distinct, Done
<1>5. Once'
  BY <1>1, <1>3 DEF Once, RunsOf
<1>6. \A k \in RecursivePasses : RanInTurn(k) => RanInTurn(k)'
  BY <1>3 DEF RanInTurn, Later
<1>7. Round'
  BY <1>1, <1>3, <1>6 DEF Round
<1> QED
  BY <1>2, <1>4, <1>5, <1>7 DEF ManagerInv

-----------------------------------------------------------------------------
\* The invariant of the pass manager holds throughout.
THEOREM ManagerCorrect == Spec => []ManagerInv
<1>1. Init => ManagerInv
  <2> SUFFICES ASSUME Init PROVE ManagerInv
    OBVIOUS
  <2>1. pipeline = <<>> /\ ran = <<>> /\ next = 1 /\ phase = "idle"
    BY DEF Init
  <2>2. DOMAIN pipeline = {} /\ RecursivePasses = {}
    BY <2>1 DEF RecursivePasses
  <2>3. ManagerTypes
    BY <2>1 DEF ManagerTypes
  <2> QED
    BY <2>2, <2>3 DEF ManagerInv, Distinct, Round, Once, Done
<1>2. ManagerInv /\ [Next]_vars => ManagerInv'
  <2> SUFFICES ASSUME ManagerInv, [Next]_vars PROVE ManagerInv'
    OBVIOUS
  <2>0. /\ phase \in {"idle", "run"} /\ next \in 1 .. Len(pipeline) + 1 /\ Len(pipeline) \in Nat
        /\ phase = "idle" => next = Len(pipeline) + 1
    BY DEF ManagerInv, ManagerTypes
  <2>1. CASE \E opt \in DOMAIN options, v \in {0, 1} : SetOption(opt, v)
    BY <2>0, <2>1, QuietStep DEF SetOption
  <2>2. CASE Optimize
    BY <2>2, OptimizeStep
  <2>3. CASE SkipPass
    BY <2>3, SkipStep
  <2>4. CASE Finish
    <3>1. next > Len(pipeline) /\ phase' = "idle" /\ UNCHANGED <<pipeline, next, ran>>
      BY <2>4 DEF Finish
    <3>2. next = Len(pipeline) + 1
      BY <2>0, <3>1
    <3> QED
      BY <3>1, <3>2, QuietStep
  <2>5. CASE RunPass
    <3>1. CASE SimplifyCfgAndDce
      BY <3>1, RunsStep DEF SimplifyCfgAndDce, is_recursive
    <3>2. CASE ConstantPropagation
      BY <3>2, RunsStep DEF ConstantPropagation
    <3>3. CASE State2Alloca
      BY <3>3, RunsStep DEF State2Alloca
    <3>4. CASE Oz
      BY <3>4, RunsStep DEF Oz, is_recursive
    <3>5. CASE StateCleanup
      <4>1. PICK changed \in BOOLEAN : Runs("state_cleanup", changed)
        BY <3>5 DEF StateCleanup
      <4> QED
        BY <4>1, RunsStep DEF is_recursive
    <3>6. CASE MemoryScalarizer
      BY <3>6, RunsStep DEF MemoryScalarizer
    <3> QED
      BY <2>5, <3>1, <3>2, <3>3, <3>4, <3>5, <3>6 DEF RunPass
  <2>6. CASE UNCHANGED vars
    BY <2>0, <2>6, QuietStep DEF vars
  <2> QED
    BY <2>1, <2>2, <2>3, <2>4, <2>5, <2>6 DEF Next
<1> QED
  BY <1>1, <1>2, PTL DEF Spec

\* When optimize returns, the last passes to run were the repeatable ones, all of them in their order
\* and without reporting a change (two of them never report one), and every other pass has run exactly
\* once: whatever the passes make of the function, for every function, every choice of options and any
\* number of calls.
THEOREM FixedPointReached == Spec => []OptimizedToTheEnd
<1>1. ManagerInv => OptimizedToTheEnd
  <2> SUFFICES ASSUME ManagerInv, Finished PROVE OptimizedToTheEnd
    BY DEF OptimizedToTheEnd
  <2>1. ManagerTypes /\ Round /\ Once /\ Done
    BY DEF ManagerInv
  <2>2. next = Len(pipeline) + 1 /\ Len(pipeline) \in Nat /\ DOMAIN pipeline = 1 .. Len(pipeline)
    BY <2>1 DEF ManagerTypes, Finished
  <2>3. \A k \in DOMAIN pipeline : k < next
    BY <2>2
  <2>4. RecursivePasses \subseteq DOMAIN pipeline
    BY DEF RecursivePasses
  <2>5. \A k \in RecursivePasses : Later(k) = {j \in RecursivePasses : j > k}
    BY <2>3, <2>4 DEF Later
  <2>6. \A k \in RecursivePasses : RanInTurn(k)
    BY <2>1, <2>3, <2>4 DEF Round
  <2>7. \A k \in DOMAIN pipeline : pipeline[k].did_run
    BY <2>1, <2>3 DEF Done
  <2>8. DOMAIN ran = 1 .. Len(ran)
    BY <2>1 DEF ManagerTypes
  <2>9. \A k \in DOMAIN pipeline \ RecursivePasses : Cardinality(RunsOf(pipeline[k].pass)) = 1
    BY <2>1, <2>7 DEF Once
  <2> QED
    BY <2>5, <2>6, <2>8, <2>9 DEF OptimizedToTheEnd, RanInTurn
<1> QED
  BY <1>1, ManagerCorrect, PTL
=============================================================================
