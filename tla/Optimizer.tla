------------------------------ MODULE Optimizer ------------------------------
(***************************************************************************)
(* engine::optimize: the pass manager (pass_manager.cpp), which runs its   *)
(* pipeline again from the start whenever a pass reports a change, and the *)
(* passes that move the registers out of the State structure and back:     *)
(* state2alloca, state_cleanup and memory_scalarizer.                      *)
(*                                                                         *)
(* Abstractions.  A function is the loads and stores of RegisterCode.  A   *)
(* pass is one step; state_cleanup's search and constant_propagation have  *)
(* modules of their own (StateCleanup, ConstantPropagation), and here the  *)
(* latter only reports its change.  LLVM's Oz keeps the meaning and either *)
(* removes nothing or all it can.  LOOP_REROLL is left at its default, 0.  *)
(***************************************************************************)
EXTENDS RegisterCode

CONSTANTS LiftedFunctions,  \* functions to optimize
          Registers,  \* remill's: [name, offset, size, parent], parent "" if none
          SlotOffset, \* the State offset 2080 ...
          SlotSize,   \* ... and the size of its i32
          ReturnReg,  \* name of the return register
          MaxCalls    \* bound on the calls of optimize

TopLevel == {r \in Registers : r.parent = ""}

Span(r) == r.offset .. r.offset + r.size - 1

ASSUME LayoutAssumption ==
    /\ \A r \in Registers : Span(r) \subseteq StateBytes
    /\ \A r, q \in TopLevel : r # q => Span(r) \cap Span(q) = {}
    /\ \A r \in Registers \ TopLevel :
          \E q \in Registers : q.name = r.parent /\ Span(r) \subseteq Span(q)
    /\ ReturnReg \in {r.name : r \in TopLevel}

\* LLVM's entry block has no predecessors
ASSUME EntryAssumption ==
    \A f \in LiftedFunctions : \A b \in DOMAIN f.succ : 1 \notin Range(f.succ[b])

VARIABLES options,   \* context->options
          func,      \* vexa_lifted, edited in place
          pipeline,  \* <<[pass, did_run], ...>>
          next,      \* position in the pipeline
          phase,     \* "idle" or "run"
          calls,     \* how often optimize was called
          original,  \* history: the function as it was lifted
          ran,       \* history: what ran in this call, <<[pass, changed], ...>>
          cleaned    \* history: what state_cleanup did, "nothing" yet, well or "badly"

vars == <<options, func, pipeline, next, phase, calls, original, ran, cleaned>>

Init ==
    /\ options = [STATE_CLEANUP |-> 1, CONSTANT_PROPAGATION |-> 1]
    /\ func \in LiftedFunctions
    /\ pipeline = <<>>
    /\ next = 1
    /\ phase = "idle"
    /\ calls = 0
    /\ original = func
    /\ ran = <<>>
    /\ cleaned = "nothing"

-----------------------------------------------------------------------------
(* state_cleanup, see StateCleanup.  It always runs right behind Oz, which   *)
(* gives every getelementptr with a constant offset the one shape i8, off.   *)

\* the pointer is a getelementptr; an alloca itself is none
IsGep(ptr) == ~IsAlloca(ptr.base) \/ ptr.off > 0

\* the pass takes I for an access to what store s writes
Matches(I, s) == Access(I) /\ IsGep(I.ptr) /\ I.ptr.off = s.ptr.off

LoadedFirst(code, s) ==
    \E k \in DOMAIN code :
        code[k].op = "load" /\ Matches(code[k], s) /\ \A j \in 1..k-1 : ~Matches(code[j], s)

\* the blocks that can be reached from block b, itself if it is in a cycle
Behind(f, b) ==
    LET ahead[n \in DOMAIN f.code] ==
            IF n = 1 THEN Range(f.succ[b])
            ELSE ahead[n-1] \cup UNION {Range(f.succ[a]) : a \in ahead[n-1]}
    IN ahead[Len(f.code)]

\* the store's own block is searched behind the store only
DeadStores(f, b) ==
    {k \in DOMAIN f.code[b] :
        LET s == f.code[b][k]
        IN /\ s.op = "store" /\ s.ptr.base = State
           /\ \A r \in TopLevel : r.name = ReturnReg => s.ptr.off # r.offset
           /\ ~LoadedFirst(SubSeq(f.code[b], k + 1, Len(f.code[b])), s)
           /\ \A a \in Behind(f, b) \ {b} : ~LoadedFirst(f.code[a], s)}

\* block after block; what is erased in one does not matter for the stores
\* of the others: what is behind a dead store there is no load that matches
Cleaned(f) ==
    [f EXCEPT !.code = [b \in DOMAIN @ |->
        LET dead == DeadStores(f, b)
        IN FlattenSeq([k \in DOMAIN @[b] |-> IF k \in dead THEN <<>> ELSE <<@[b][k]>>])]]

Cells(I) == {Cell(I.ptr, k) : k \in 1..I.size}

\* store k of block b is read in a way the pass cannot see, see StateCleanup:
\* around a loop, by a load that does not match, or behind a store that
\* matches and leaves a byte as it is
Misjudged(f, b, k) ==
    LET s == f.code[b][k]
        reads(I) == I.op = "load" /\ Cells(I) \cap Cells(s) # {}
        later == {f.code[b][j] : j \in k + 1 .. Len(f.code[b])}
                     \cup UNION {Range(f.code[a]) : a \in Behind(f, b) \ {b}}
    IN \/ b \in Behind(f, b) /\ \E j \in 1..k-1 : reads(f.code[b][j])
       \/ \E I \in later : reads(I) /\ ~Matches(I, s)
       \/ \E I, J \in later : /\ I.op = "store" /\ Matches(I, s) /\ ~(Cells(s) \subseteq Cells(I))
                              /\ reads(J)

CleanedBy(pass) ==
    IF pass # "state_cleanup" THEN cleaned
    ELSE IF cleaned = "badly" \/ \E b \in DOMAIN func.code : \E k \in DeadStores(func, b) : Misjudged(func, b, k)
    THEN "badly"
    ELSE "well"

-----------------------------------------------------------------------------
(* The pass manager *)

SetOption(opt, v) ==
    /\ phase = "idle" /\ calls = 0
    /\ options' = [options EXCEPT ![opt] = v]
    /\ UNCHANGED <<func, pipeline, next, phase, calls, original, ran, cleaned>>

Chosen(opt, pass) == IF options[opt] # 0 THEN <<pass>> ELSE <<>>

ChosenPasses ==
    <<"simplify_cfg_and_dce">> \o Chosen("CONSTANT_PROPAGATION", "constant_propagation")
    \o <<"state2alloca", "Oz">> \o Chosen("STATE_CLEANUP", "state_cleanup")
    \o <<"memory_scalarizer">>

\* engine::optimize up to manager.run: the pipeline is built anew
Optimize ==
    /\ phase = "idle" /\ calls < MaxCalls
    /\ pipeline' = [k \in DOMAIN ChosenPasses |-> [pass |-> ChosenPasses[k], did_run |-> FALSE]]
    /\ next' = 1
    /\ phase' = "run"
    /\ calls' = calls + 1
    /\ ran' = <<>>
    /\ UNCHANGED <<options, func, original, cleaned>>

is_recursive(pass) == pass \in {"simplify_cfg_and_dce", "Oz", "state_cleanup"}

Skipped == ~is_recursive(pipeline[next].pass) /\ pipeline[next].did_run

SkipPass ==
    /\ phase = "run" /\ next <= Len(pipeline)
    /\ Skipped
    /\ next' = next + 1
    /\ UNCHANGED <<options, func, pipeline, phase, calls, original, ran, cleaned>>

\* mutant: a change does not start the pipeline over
MutRuns(pass, changed) ==
    /\ phase = "run" /\ next <= Len(pipeline)
    /\ pipeline[next].pass = pass
    /\ ~Skipped
    /\ pipeline' = [pipeline EXCEPT ![next].did_run = TRUE]
    /\ next' = next + 1
    /\ ran' = Append(ran, [pass |-> pass, changed |-> changed])
    /\ cleaned' = CleanedBy(pass)
    /\ UNCHANGED <<options, phase, calls, original>>

\* mutant: did_run is not set
MutForgets(pass, changed) ==
    /\ phase = "run" /\ next <= Len(pipeline)
    /\ pipeline[next].pass = pass
    /\ ~Skipped
    /\ next' = IF changed THEN 1 ELSE next + 1
    /\ ran' = IF Len(ran) > 9 THEN ran ELSE Append(ran, [pass |-> pass, changed |-> changed])
    /\ cleaned' = CleanedBy(pass)
    /\ UNCHANGED <<options, pipeline, phase, calls, original>>

\* the pass at hand runs; a change starts the pipeline over
Runs(pass, changed) ==
    /\ phase = "run" /\ next <= Len(pipeline)
    /\ pipeline[next].pass = pass
    /\ ~Skipped
    /\ pipeline' = [pipeline EXCEPT ![next].did_run = TRUE]
    /\ next' = IF changed THEN 1 ELSE next + 1
    /\ ran' = Append(ran, [pass |-> pass, changed |-> changed])
    /\ cleaned' = CleanedBy(pass)
    /\ UNCHANGED <<options, phase, calls, original>>

\* the loop ends; reordering the blocks and stripping names change nothing here
Finish ==
    /\ phase = "run" /\ next > Len(pipeline)
    /\ phase' = "idle"
    /\ UNCHANGED <<options, func, pipeline, next, calls, original, ran, cleaned>>

-----------------------------------------------------------------------------
(* state2alloca *)

\* the register without parent that register r is a part of
Ancestor(r) ==
    LET top[q \in Registers] ==
            IF q.parent = "" THEN q
            ELSE top[CHOOSE p \in Registers : p.name = q.parent]
    IN top[r]

sub_to_parent(offset) == {Ancestor(r) : r \in {q \in Registers : q.offset = offset}}

offset_to_alloca == {SlotOffset} \cup {r.offset : r \in TopLevel}

\* the bytes that are loaded from State and stored back
AllocaSize(offset) ==
    IF \E r \in TopLevel : r.offset = offset
    THEN (CHOOSE r \in TopLevel : r.offset = offset).size
    ELSE SlotSize

\* mutant: a part of a register is addressed from the start of the alloca
MutToAlloca(ptr) ==
    IF ptr.base # State THEN ptr
    ELSE IF ptr.off \in offset_to_alloca THEN Pointer(Alloca(calls, ptr.off), 0, ptr.more)
    ELSE IF sub_to_parent(ptr.off) # {}
         THEN LET parent == CHOOSE r \in sub_to_parent(ptr.off) : TRUE
              IN Pointer(Alloca(calls, parent.offset), 0, ptr.more)
    ELSE ptr

\* mutant: parts of registers are left in State
MutWholeOnly(ptr) ==
    IF ptr.base # State \/ ptr.off \notin offset_to_alloca THEN ptr
    ELSE Pointer(Alloca(calls, ptr.off), 0, ptr.more)

\* a getelementptr of State with the offset of a register becomes its alloca;
\* one without stays as it is
ToAlloca(ptr) ==
    IF ptr.base # State THEN ptr
    ELSE IF ptr.off \in offset_to_alloca THEN Pointer(Alloca(calls, ptr.off), 0, ptr.more)
    ELSE IF sub_to_parent(ptr.off) # {}
         THEN LET parent == CHOOSE r \in sub_to_parent(ptr.off) : TRUE
              IN Pointer(Alloca(calls, parent.offset), ptr.off - parent.offset, ptr.more)
    ELSE ptr

\* copies between State and the allocas; b names the values of block b
Copied(b, toState) ==
    LET offsets == SetToSortSeq(offset_to_alloca, <)
        copy(o) == LET name == <<-calls, b, o>>
                       inState == Pointer(State, o, 0)
                       inAlloca == Pointer(Alloca(calls, o), 0, 0)
                       size == AllocaSize(o)
                   IN << LoadIns(name, IF toState THEN inAlloca ELSE inState, size),
                         StoreIns(name, 0, IF toState THEN inState ELSE inAlloca, size) >>
    IN FlattenSeq([k \in DOMAIN offsets |-> copy(offsets[k])])

State2Alloca ==
    /\ Runs("state2alloca", TRUE)
    /\ LET code(b) == IF b = 1 THEN func.entry \o func.code[1] ELSE func.code[b]
           moved(I) == IF Access(I) THEN [I EXCEPT !.ptr = ToAlloca(@)] ELSE I
       IN func' = [func EXCEPT
                     !.entry = Copied(0, FALSE),
                     !.code = [b \in DOMAIN @ |->
                         [k \in DOMAIN code(b) |-> moved(code(b)[k])]
                             \o (IF func.succ[b] = <<>> THEN Copied(b, TRUE) ELSE <<>>)]]

StateCleanup ==
    /\ Runs("state_cleanup", Cleaned(func) # func)
    /\ func' = Cleaned(func)

-----------------------------------------------------------------------------
(* memory_scalarizer *)

\* size_in_bytes is a uint8_t
ByteCount(I) == I.size % 256

Inner(ptr, i) == [ptr EXCEPT !.more = @ + i]

Scalarized(I) ==
    IF ~Access(I) \/ I.size <= 1 \/ ~IsAlloca(I.ptr.base) THEN <<I>>
    ELSE IF I.op = "store"
    THEN [i \in 1..ByteCount(I) |-> StoreIns(I.val, I.lo + i - 1, Inner(I.ptr, i - 1), 1)]
    ELSE [i \in 1..ByteCount(I) |-> LoadIns(Append(I.val, i), Inner(I.ptr, i - 1), 1)]
         \o <<JoinIns(I.val, [i \in 1..ByteCount(I) |-> Append(I.val, i)])>>

MemoryScalarizer ==
    /\ Runs("memory_scalarizer", TRUE)
    /\ LET bytewise(code) == FlattenSeq([k \in DOMAIN code |-> Scalarized(code[k])])
       IN func' = [func EXCEPT !.entry = bytewise(@),
                               !.code = [b \in DOMAIN @ |-> bytewise(@[b])]]

-----------------------------------------------------------------------------
(* The other passes *)

SimplifyCfgAndDce ==
    /\ Runs("simplify_cfg_and_dce", FALSE)
    /\ func' = WithoutDeadCode(func)

ConstantPropagation ==
    /\ Runs("constant_propagation", TRUE)
    /\ UNCHANGED func

Oz ==
    /\ Runs("Oz", FALSE)
    /\ \/ func' = MergedCode(func)
       \/ func' = Pruned(MergedCode(func))

RunPass == \/ SimplifyCfgAndDce \/ ConstantPropagation \/ State2Alloca
           \/ Oz \/ StateCleanup \/ MemoryScalarizer

Next ==
    \/ \E opt \in DOMAIN options, v \in {0, 1} : SetOption(opt, v)
    \/ Optimize \/ RunPass \/ SkipPass \/ Finish

\* optimize is one sequential call
Spec == Init /\ [][Next]_vars /\ WF_vars(RunPass \/ SkipPass \/ Finish)

-----------------------------------------------------------------------------
\* what a caller of the function may rely on: all of State and memory, or,
\* once state_cleanup has run, the return register and memory
Observed ==
    IF cleaned = "nothing" THEN Outside
    ELSE {c \in Outside : c[1] = Memory \/ \E r \in TopLevel : r.name = ReturnReg /\ c[2] \in Span(r)}

(* No pass, in no order the pass manager runs them, changes what the        *)
(* function does: on every path it leaves the same bytes in memory and      *)
(* State as the lifted function, in the return register alone once dead     *)
(* register stores are cleaned (state2alloca, memory_scalarizer and         *)
(* state_cleanup, a second optimize included), unless state_cleanup has     *)
(* erased a store that is read in one of the ways it cannot see             *)
(* (state_cleanup.cpp:50, 66, 80): it erases live stores then, and nothing  *)
(* is said of the function.                                                 *)
MeaningKept ==
    cleaned # "badly" =>
        LET before == Outcomes(original)
            after == Outcomes(func)
        IN \A p \in Paths(original) : \A c \in Observed : after[p][c] = before[p][c]

Finished == phase = "idle" /\ calls > 0

RecursivePasses == {k \in DOMAIN pipeline : is_recursive(pipeline[k].pass)}

\* the runs of a pass
RunsOf(pass) == {j \in DOMAIN ran : ran[j].pass = pass}

(* "If any pass changes something in the ir, start over" (pass_manager.cpp   *)
(* :73), where what counts is what a pass reports: when optimize returns,   *)
(* behind the last change a pass has reported every repeatable pass has run *)
(* once more, in their order and reporting none, so the change of           *)
(* memory_scalarizer is never the last step, and every other pass has run   *)
(* once only.  Oz and simplify_cfg_and_dce change the function as well but  *)
(* always report that they do not (24, 65): after them nothing starts over. *)
OptimizedToTheEnd ==
    Finished =>
        /\ \A k \in RecursivePasses :
              LET later == {j \in RecursivePasses : j > k}
                  i == Len(ran) - Cardinality(later)
              IN i \in DOMAIN ran /\ ran[i].pass = pipeline[k].pass /\ ~ran[i].changed
        /\ \A k \in DOMAIN pipeline \ RecursivePasses :
              Cardinality(RunsOf(pipeline[k].pass)) = 1

(* "Cleans every dead register stores except for return register": with     *)
(* STATE_CLEANUP the optimized function stores no other register into       *)
(* State, although state2alloca writes all of them back before every return.*)
OnlyReturnRegisterStored ==
    Finished /\ options.STATE_CLEANUP = 1 =>
        \A b \in DOMAIN func.code : \A k \in DOMAIN func.code[b] :
            LET I == func.code[b][k]
            IN I.op = "store" /\ I.ptr.base = State =>
                  \A r \in TopLevel : r.name # ReturnReg => I.ptr.off \notin Span(r)

(* A call of optimize returns: the pipeline is not started over for ever.   *)
OptimizeEnds == (phase = "run") ~> (phase = "idle")
=============================================================================
