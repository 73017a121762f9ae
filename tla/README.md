# A verification project for vexa

vexa lifts a function of an x86-64 program to LLVM IR by executing it symbolically: remill decodes and lifts one instruction at
a time, an emulator runs the lifted block over Bitwuzla terms, branches the solver cannot decide are forked, and the function
that comes out is simplified by a pipeline of passes and, if the user wants, compiled and patched into the binary. This
directory holds TLA+ modules that model it from mapping the binary to calling the patched function, TLC configurations that
check them on small instances, and TLAPS proofs.

1. [Inventory](#1-inventory) · 2. [Modules and the code they model](#2-modules-and-the-code-they-model) ·
3. [Runs](#3-runs) · 4. [Bounds](#4-bounds) · 5. [Fairness](#5-fairness) · 6. [Proofs](#6-proofs) ·
7. [Findings](#7-findings) · 8. [What is not modelled](#8-what-is-not-modelled) · 9. [Plan](#9-plan)

Source paths below are relative to the repository (`src/arch/arch.cpp`, `include/vexa/...`, `cli/cli.cpp`).

## 1. Inventory

| Component | State | Operations | Hard behaviour | What makes it correct |
|---|---|---|---|---|
| memory (`memory.cpp`, `memory.hpp`) | pages, each with an overlay storage behind a `shared_ptr`; `initial_memory` and `sealed` of the binary's page; snapshots holding the same `shared_ptr`s | `allocate`, `initialize`, `seal`, `write`, `read`, `take_snapshot`, `restore_snapshot` | storages shared by pages and any number of saved paths, copy-on-write by `unique()`; values stored as byte cells and put together again | a snapshot restores exactly what was saved; a read returns the bytes last written on this path |
| cpu: path exploration (`arch.cpp`) | registers, path constraints, PC, virtual PC, `PATH`, insert point, `unexplored_paths`, `CFG`, `VCFG` | `run`, `process_instruction`, `CFG_recovery`, `lift_instruction`, `handle_conditional_moves`, `branching`, `solve_cpu_context`, snapshots | a path is resumed long after it was saved; several paths write one LLVM function; loops end only if they are recognised; incomplete solver answers | the lifted function behaves as the original; every path is found; lifting ends |
| emulator (`emulator.cpp`) | term of every LLVM value | one visitor per LLVM instruction, LLVM intrinsics, remill memory intrinsics | widths, shift amounts, undefined results; candidate addresses solved on one path and baked into code | the term equals the value the LLVM code computes |
| value, symex (`value.cpp`, `symex.cpp`) | arenas of terms and pointers, table of LLVM values | operators, `simplify`, `possible_values`, `as_uint64` | a solver query ends SAT, UNSAT or by timeout; at most 20 solutions | callers know whether the list is complete |
| pass manager (`ir/pass_manager.cpp`, `engine::optimize`) | the pipeline, `did_run` | `run` | the pipeline starts over after a change; some passes run once only | ends, at a fixed point of the repeatable passes |
| constant propagation (`constant_propagation*.cpp`) | byte-safety map, undo log, memory generations, cached verdicts; worklist | `run`, `concretize_memory_loads`, `propagate_ssa_values` | one map for all branches of a tree, repaired when a branch is left; values noted on one path, kept to 64 bits | a replaced value is the only one possible; an instruction with a replaced operand that can be folded is folded |
| state2alloca, memory_scalarizer | allocas per register, bytes | `run` | parts of registers inside their parents; values split into bytes | same bytes read as before |
| state_cleanup (`passes/state_cleanup.cpp`) | dead stores of a block, queue and visited set of the walk | `run` | cycles in the CFG; a store overwritten on some paths only; accesses matched by shape and offset, not by the bytes they touch | no live register store goes; all dead ones do |
| loop_reroll | candidate groups of equal blocks | `run` | matching of repeated bodies | same iterations |
| engine (`engine.cpp`, `context.cpp`) | options, callbacks, binary, function | `map_binary`, `write_memory`, `set_option`, `set_callback`, `run`, `optimize`, `patch`, `reset` | order of calls; segments that overlap | vexa sees the bytes the system would load |
| recompiler and patcher (`recompile.cpp`, `engine::patch`, `fix_relocations`) | `code_content`, `section_offsets`, relocations, jump; the wrapper `vexa_entry` | `recompile`, `patch`, `fix_relocations` | offsets, shifts and bases that must be added exactly once; a binary loaded elsewhere; registers saved by code that needs them | a caller of the original arrives in the lifted function with its registers, and gets them back |
| IR builder, binary loader, command line | insert points; LIEF object; options | | I/O | |

How they interact: `engine::run` seals the binary's page and calls `cpu::run`, a loop of one thread. Each round looks the
address up in the recovered CFG, reads bytes from memory, lifts a block and has the emulator execute it, which reads and writes
memory pages and asks the solver through `value`. Undecided control flow pushes a `cpu::snapshot` (a memory snapshot included)
on `unexplored_paths`; the top is popped whenever a path ends. Client callbacks (`INSTRUCTION_LIFT`, `INDIRECT_JUMP`,
`PATH_FORKING`, ...) run inside that loop and may change options, registers and the virtual PC; modelled is the one that
recognises a dispatcher and sets the virtual PC. Afterwards `optimize` builds a pass manager, which verifies and rewrites the
finished function in place; `constant_propagation` asks symex for the values noted while lifting. `recompile` adds a wrapper
and emits an object file, and `patch` puts it into the binary. There are no threads and nothing is persistent; the hard
interleavings are between *paths*, which take turns in one state, and between *branches* of a walk that share one map.

The hazards this leads to are listed with their lines under `hazards` in `PROJECT.json`.

## 2. Modules and the code they model

| Module | Models | Uses |
|---|---|---|
| `AbstractMemory` | what the memory promises: pages as byte functions, snapshots as copies | |
| `PagedMemory` | `memory`, `mem_page`, `mem_state`: copy-on-write, two layers, byte cells | implements `AbstractMemory` |
| `PagedMemory_proofs`, `PathExplorer_proofs`, `LiftedExecution_proofs`, `ConstantPropagation_proofs`, `StateCleanup_proofs`, `Optimizer_proofs`, `PatchedCall_proofs` | the theorems about these modules | each extends its module |
| `ReplacedValues_proofs` | what `constant_propagation` replaces and folds | extends `ConstantPropagation_proofs` |
| `Machine` | the processor as remill defines it (external) | |
| `SourceProgram` | the original function, executed (abstract specification) | `Machine` |
| `PathExplorer` | `cpu::run` and everything it calls, the memory and solver interfaces included | `Machine` |
| `LiftedExecution` | a call of the lifted function after lifting | extends `PathExplorer`, implements `SourceProgram` |
| `BitVectors`, `Emulator` | `value`'s operators and the emulator's visitors | |
| `FunctionGraph` | CFG, dominators, loops and MemorySSA as LLVM computes them (external) | |
| `ConstantPropagation` | `passes::constant_propagation`, then an execution of the function | extends `FunctionGraph` |
| `RegisterCode` | loads and stores of registers, and what LLVM's own passes do to them (external) | |
| `Optimizer` | `engine::optimize`, `pass_manager`, `state2alloca`, `memory_scalarizer`, `state_cleanup` as one step | extends `RegisterCode` |
| `StateCleanup` | `passes::state_cleanup::run`, step by step | |
| `BinaryPatcher` | `map_binary`, `patch`, `fix_relocations`, and the system's loader | |
| `PatchedCall` | the wrapper of `recompile`, executed in the loaded binary | extends `BinaryPatcher` |
| `MC*` | instances for TLC | |

**PagedMemory.** `memory[p]` is the `shared_ptr` of page `p`, `heap[st]` the map it points to, `snaps[s]` a live `mem_state`.
`Put` is `mem_page::write`: write in place if `Unique(p)`, else into a fresh storage. A cell is `[val, total, which]` as in
`mem_cell`; `Reassemble` has the three ways of `memory::read` (whole value, one extract, byte by byte). Reading an absent
byte creates a symbol and writes it back, as the code does. `Initialize` goes to `initial` or, once sealed, to the overlay.
Where a `shared_ptr` lives is explicit because sharing is what can go wrong; destructors are `Collect`.

**PathExplorer.** One action per way an iteration of `cpu::run` can end: `FunctionEnded`, `EdgeRebuilt` (CFG_recovery found
the address), `DecodeFails`, `LiftFails`, and one `Lift...` action per kind of instruction that `lift_instruction`
distinguishes. A behaviour begins with a `job`: the function and the options `MODE`, `CFG_JOIN_POLICY`, `OPAQUE_SOLVING` and
`FORK_AT_CMOVS`. `ctx` is what `cpu::snapshot` saves; `stack` is `unexplored_paths`; `blocks` is the LLVM function. A term is
its value under every assignment of the symbols, plus whether it is syntactically a literal: `is_concrete()` asks only for
the latter, and the model leaves open how much the simplifier finds out. Memory here is `AbstractMemory` in small: one word
per address, snapshots by value; that the real memory keeps this promise is what `PagedMemory` is about. A memory operand
becomes a constant address, a chain of selects, an `inttoptr` or an exception, by the rules of `read_memory_intrinsic`,
`write_memory_intrinsic` and `value_to_pointer`.

**LiftedExecution.** `CallLifted` and `RunBlock` execute the blocks with concrete values. The refinement mapping to
`SourceProgram` maps the current block to the address it was lifted from. `blocks[b].belief` is a history variable: the
symbolic state in which `b` was lifted. `Believed(b)` says that the execution is in a state `b` was lifted for,
`Specialised(b)` that the code of `b` depends on it: a decided jump or move, a jump that is gone, or an address that stands for
candidates found on one path.

**Emulator.** One action per visitor. The loops that build terms (`ctpop`, `cttz`, `ctlz`, `bswap`, `extractelement`) are
recursive functions; `Meaning` is the LLVM language reference, written with integers and sets of bit positions and not with
the operators of the code.

**ConstantPropagation.** `StartRoot`, `Enter`, `Descend` and `Backtrack` are the traversal of `concretize_memory_loads`, one
frame at a time, with `byte_safety`, `undo_log`, `active_generation` and `default_byte_safety` as in the code; `ReplaceLoads`
is its last loop, `Propagate` one round of the worklist, `EraseDead` the erasure. `symex` is what lifting noted, on the path
that first reached a block, from the bytes of the file (`FirstMemory`) and the registers that `solve_cpu_context` solved at a
branch, which it writes without a store in the IR (`Solved`). `Cut` is `getIntN(size, as_uint64())`: what is above 64 bits is
lost when a value becomes a constant. `Call`, `RunInstruction` and `RunBranch` then execute the function from any input, with
any global variables of the file changed by then, and with any effect of unknown stores, so that a replaced value can be
compared with the real one. The undo log has one record per store, for all the bytes it changed; the code pushes one per byte,
but checkpoints are taken between stores only. `Settles` and `MakesSafe` define without the map what the walk should see,
`SafeByDefinition` without the cache what it should find. `UsersOf` is LLVM's use list, `Fresh` the check for duplicates by
which `enqueue` and the search for roots keep an instruction from being listed twice. `WellFormed` says what LLVM promises of
the functions and their analyses, and no more: the shape of the code, `MemorySSAHolds` (which access is in force behind a
write, at a block's entry and on an edge), `SSAHolds` (operands dominate their uses) and `InLiftingOrder` (a block that
dominates another was lifted before it). TLC evaluates it on the functions of the run.

**Optimizer.** `Runs` is the loop of `pass_manager::run` around one pass; one action per pass. A function is its loads and
stores; `Outcomes` is what it leaves in State and memory on every path, with all bytes distinguishable. LLVM's Oz is external:
it merges `getelementptr`s and removes either nothing or all it can, which brackets what the other passes may meet.
The pass `state_cleanup` matches accesses as the code does, by `getelementptr` and offset (`Matches`); `cleaned` remembers whether
it has erased a store that is read in a way it cannot see (`Misjudged`).
`LayoutAssumption` is what `state2alloca` needs of the register table: registers without parent do not overlap, others lie
inside their parents.

**StateCleanup.** An access has a base, a shape (what `isSameOperationAs` compares of two `getelementptr`s, or none), an offset
and a width; `SamePlace` is the match of the code, by shape and offset, `Touches` is what the machine does. The backward scan
of each block (`Skip`, `StartSearch`), the breadth-first walk (`VisitBlock`), the verdict (`Judge`) and the erasure
(`EraseDead`). `Reached` is the textbook definition of what lies ahead of a store, by paths of program points. `FunctionsGiven`
is the shape of a function: every successor is a block of it.

**BinaryPatcher, PatchedCall.** One action per segment mapped, section appended (`.text` first, then the loop over all of
them), relocation fixed; `WriteJump` is the end of `patch`, for both formats. `Load` (external) puts the result anywhere it may
be. `BinaryFiles` and `ObjectFiles` say what the files are that LIEF hands over: pages are page-aligned, parts that overlap come
from the same bytes of the file, no section asks for more than page alignment, relocations have fields of their own.
`PatchedCall` then calls the original function. `Registers` is remill's table in the order of the map, and `ForEach` the loop
over it that `recompile` has twice, with a `pass` where the code skips a register; `CallConstants` says that registers which are
moved have places of their own in the State, `WrapperCompiled` that the compiled wrapper refers to `IMAGE_BASE`.
`WrapperStep` is one instruction of the inline assembly in `recompile`, `AccessImage` an access that `value_to_pointer` turned
into an offset from the memory pointer or `%stack_ptr`, `LeaveLifted` the return of a function that keeps the calling convention
and nothing else.

## 3. Runs

| Run | What it checks | What it shows |
|---|---|---|
| `shared_pages` | `TypeOK`, `StorageHasOnePage`, `BinaryMappedFirst`, `SnapshotsNeverChange`, `ImplementsAbstractMemory` | with two pages, two live snapshots and overlapping, wrapping accesses of one and two bytes, sharing of storages is never visible and a read returns the bytes last written |
| `symbolic_paths` | `TypeOK`, `PathsHaveOwnBlocks`, `TerminatedOnce`, `BeliefsHold`, `OnlySwitchesCutPaths`, `OnlyStaleCodeDeviates` | symbolic exploration of 18^3 functions, and recovery by address of 9^3 with memory operands and computed jumps: see below |
| `recovered_paths` | `FollowsProgram`, `AllPathsDiscovered`, `LiftedOnce`, `LiftingEnds` | CFG recovery merged by address (9^4 functions with joins and loops), VCFG recovery of a dispatcher loop, merged by virtual PC and with paths kept apart |
| `emulated_terms` | `TypeOK`, `EmulatesLLVM` | every emulated instruction on all operands of 1 to 4 bits |
| `constant_propagation` | `SiblingsLeaveNoTrace`, `VerdictsIndependentOfOrder`, `ReplacedValuesHold`, `FoldingComplete`, `PropagationEnds` | forks, joins, natural loops, cycles with two entries, chains: the shared map always shows the writes of the current branch alone, caching never changes a verdict, and a replaced value is the value on every execution, cut to 64 bits, with two exceptions named below |
| `optimized_function` | `MeaningKept`, `OnlyReturnRegisterStored`, `OptimizedToTheEnd`, `OptimizeEnds` | the pipeline, run once or twice under every choice of options, keeps the function's meaning unless `state_cleanup` has misjudged a store, stops after a round that reports no change, and ends |
| `cleanup` | `LostBytesExplained`, `UnreadStoresErased`, `CleanupEnds` | the walk ends, a register store without a matching load ahead is erased, and a byte of an erased store is missed in three ways only |
| `patched_binary` | `MappedAsLoaded`, `SectionsKeptApart`, `RelocationsResolve`, `JumpReachesEntry`, `PieAccessesReach`, `RegistersReachLifted`, `RegistersComeBack` | PIE, non-PIE ELF and PE files, mapped, patched with every kind of relocation, loaded anywhere and called; of the registers, the 8-byte ones that the wrapper moves, not vector registers and flags |
| `loops_by_specialization`, `dead_ends`, `solver_timeouts`, `image_base_twice` | expected violations | see [Findings](#7-findings) |

`BeliefsHold` and `OnlyStaleCodeDeviates` belong together. The second says that a step of the lifted function is a step of the
original unless its block was specialised for another state than the present one; the first that in symbolic exploration the
present state is always one the block was lifted for. So symbolic exploration is exact, and where CFG recovery merges by
address, reused specialised code is the only thing that can go wrong. `recovered_paths` shows that on functions without such
code it is exact too.

Properties that state exceptions name all of them:

* `OnlySwitchesCutPaths`: a jump with three or more targets.
* `LostBytesExplained`: a load ahead of the store in its own block, which a loop leads to; a load that does not match the store
  (no `getelementptr` with a constant offset, one of another shape, or another offset that overlaps); a load behind a store that
  matches and leaves the byte as it is (another base, or fewer bytes).
* `ReplacedValuesHold`: a value that lifting took from a global variable the program has changed since, which
  `src/README.md:509` calls a known mistake, or from a register that `solve_cpu_context` wrote under the condition of one branch
  (`arch.cpp:545-556`). The pass sees neither and may replace such a value wrongly. Of a value wider than 64 bits, only its low
  64 bits are claimed, for `as_uint64` cuts it.
* `MeaningKept`: `state_cleanup` has erased a store that is read in one of the three ways above.
* `MappedAsLoaded`: content under the zero-fill of a non-LOAD segment such as `.tbss`; and the tail of a PE section behind its
  raw data, which the loader clears and `map_binary` does not write (`engine.cpp:188-196`). The property says that it holds no
  byte there, rather than a wrong one.
* `RelocationsResolve`: absolute fields in a moved binary, or too narrow.
* `PieAccessesReach`: image addresses that `get_page` takes for stack.

`BeliefsHold`, and what rests on it, speaks of a call that starts with the memory of the file. `LiftedOnce` says that entries of
`CFG` and `VCFG` stay as they are. `OptimizedToTheEnd` speaks of what the passes report (section 7).

Every property of a passing run comes with a mutant of the model (a definition named `Mut...`, a plausible slip in the code)
under which TLC finds it violated.

`CHECK_DEADLOCK FALSE` is set where the program stops: the lifter returns, a lifted function returns or runs into a block
without a way on (which is what `AllPathsDiscovered` is about), a pass or `optimize` ends, `patch` throws, a call returns. The
memory run has no such end and is checked.

## 4. Bounds

* `Fuel` bounds the operations of a memory behaviour. 6 is enough for seal, a snapshot, a write, a restore and a write
  afterwards, the shortest way to show a missed clone, and for overlapping writes of two bytes with a read. `MCStores` never
  runs out within this fuel. The theorems hold without bounds.
* `WordCount` and `Inputs`: words are addresses, values and arguments at once. Four words give a symbolic address more than
  two candidates and a jump three targets; the virtual machines need a fifth.
* `SolverLimit` is 20 in the code; 2 or 3 here, so that lists at the limit and below it both occur. With 2 a jump with two
  targets looks like one with more, which is why the theorems about the lifted function ask for more than 2.
* `MaxBlocks` bounds the blocks of a behaviour. In `recovered_paths` it is 100 and never reached: `LiftingEnds` would fail. In
  `symbolic_paths` it cuts loops, which that mode unrolls without end by design.
* All fresh symbols of unknown reads share one symbol with two values (`Models`).
* Program menus (`MCLiftedExecution`): one instruction for each case `lift_instruction` distinguishes, with operands chosen
  so that a symbolic and a concrete register meet in every role.
* `MCEmulator`: widths 1 to 4 with a byte of 2 bits, `bswap` up to 8 bits, vectors of three elements with one- and two-bit
  indices (too few and too many values of the index).
* `MCConstantPropagation`: three bytes of one bit, two of them in the binary and open to change; `WordBytes`, the 64 bits of
  `as_uint64`, is 2 and `MaxLoad`, the 64 bytes of the code, is 3, so that some admitted loads are wider than a word. Seven shapes
  of at most five blocks; in one of them branches solve a register.
* `MCOptimizer`: a State of nine bytes with a register that has parts of parts, one with a part at an odd offset, the slot and
  a field of no register, whose offset occurs behind another base too; functions of three blocks that fork, join and loop, and
  straight ones that store and load the field in other widths and at overlapping offsets, so that each way in which
  `state_cleanup` misjudges a store occurs. `MaxPath` bounds the paths that are compared to 5 blocks, so that the block of a
  loop is run up to three times; what one round leaves for the next already shows with two. Two calls of `optimize`. Options
  are set before the first call.
* `MCStateCleanup`: three blocks of at most two accesses in four graphs, two of them cyclic; a register of two bytes that is
  accessed as a whole, in its low or high byte, in another shape, without `getelementptr` and behind another base, and the return
  register.
* `MCPatchedCall`: a page of 8 bytes, 2^31 scaled to 256, half the stack to 4, so that an image base beyond 32 bits and image
  addresses within the stack window both occur; two load addresses and two places for the new segment. Field and jump sizes are
  the real ones.

## 5. Fairness

`WF(Lift)` (`WF(LiftStep)` in the composition), `WF(Next)` in `StateCleanup`, `WF(Pass)` in `ConstantPropagation` and
`WF(RunPass \/ SkipPass \/ Finish)` in `Optimizer`: `cpu::run`, the passes and the pass manager are loops of one thread that do
not wait for anybody, and solver calls have a time limit (`TIME_LIMIT_PER`). No other fairness is assumed; nobody need call the
lifted or patched function, or `optimize`. Memory and patcher have safety properties only.

## 6. Proofs

All theorems hold for every value of the constants that satisfies the named assumptions, so for functions, files, register
tables and memories of any size. Eight modules hold them.

### `PagedMemory_proofs`

From `MemoryConstants` (the global page is a page, `1 <= MaxBytes <= AddrCount`, the special values are distinct from others)
and `CellAssumption`:

* `TypeCorrect`, `NoAliasing`, `MappedFirst`: `TypeOK`, `StorageHasOnePage` and `BinaryMappedFirst` are invariants.
* `SnapshotIsolation`: no step changes what a held snapshot restores.
* `Refinement`: `Spec => Abs!ASpec`, the paged memory implements `AbstractMemory`.

The inductive invariant is `IInv == TypeOK /\ StorageHasOnePage /\ BinaryMappedFirst /\ SavedPagesExist`. Isolation alone is
not inductive: a write is harmless to snapshots only if the storage it lands in belongs to nobody else, which needs
`StorageHasOnePage` (a page's storage can only be shared with *that page* in snapshots, and then `Unique` is false); an
`initialize` is harmless only because no snapshot exists before sealing, `BinaryMappedFirst`; and restoring must not bring
back a page that was never allocated, `SavedPagesExist`. `PutEffect` states once what a copy-on-write does to everybody;
`PutContent`, `WriteBytes`, `ReassembleBytes` lift it to bytes; each operation is then one case of `OwnershipStep`,
`MappingStep`, `IsolationStep` and `AbsStep`.

### `PathExplorer_proofs`

From `MachineConstants` and `ExplorerConstants`, for all functions, options and solver answers, timeouts included:

* `TypeCorrect`: no terminator, map entry or saved path names a block that is not there.
* `OwnBlocks`: the running path and the saved ones never share an open block.
* `ClosedBlocksStay`, `EntriesStay`: a terminator and an entry of `CFG` or `VCFG`, once there, are never replaced.

`TypeOK` is not inductive: it does not say what a term, a context or a saved path looks like inside. `TypeInv` does, and adds
that a term the code calls concrete has one value (`HonestTerms`). `IInv` is `TypeInv` with `PathsHaveOwnBlocks`; that the
paths still to be continued end in blocks of their own that are open is what the two action properties rest on.

### `LiftedExecution_proofs`

What vexa is for: the lifted function does what the original does. `~Timeouts` (a solver call always answers) is needed, as
`solver_timeouts` shows, and `SolverLimit > 2` is 20 > 2 in the code.

* `BeliefsTrue`: in symbolic exploration the state a block was lifted for is true whenever it runs.
* `SymbolicFollows`: hence the lifted function refines the original (`SourceProgram`), and `OnlySwitchesCut`: it ends only where
  the original ends or at a jump with more than two targets.
* `OnlyStaleDeviates`: there and in CFG recovery that merges joins, a step differs from the original only in a block specialised
  for another state. `FollowsUnlessStale` is the refinement for the calls that meet no such block; without the condition it is
  false (section 7).
* `PlainFollows`, `PlainDiscovers`: CFG recovery of functions without memory operands and computed jumps, with
  `OPAQUE_SOLVING` and `FORK_AT_CMOVS` off, is exact and finds all paths, loops and joins included. `Plain` needs these
  conditions because each of the things it excludes makes specialised code.
* `WholeLife`: the results of `PathExplorer_proofs` hold while the function is executed too.

The argument has four layers. `LiftInv` relates blocks to the machine while lifting: every block's code does what the
instruction does (`CodeRight`), running it from its belief gives the context the path goes on with (`Goes`, `PathRight`, for
the running path and each saved one, since a path is popped long after it was saved), and every edge leads to a block that was
lifted for the state behind it, or at least for its address (`EdgeSound`, `EdgeRight`); `CFG` entries lead to their addresses
(`KnownRight`). `ExecInv` carries that over to executions: the state before block `bp` is one its belief covers, or a state at
its address. `WaysOn` says that a block without terminator belongs to a path still to be continued or was left for one of the
reasons named, and gives the two theorems about stuck executions. `NoneSpecial` says that a plain function has no specialised
block. VCFG recovery and joins kept apart are not covered: their edges are right only for programs that set the virtual PC
consistently, which is a condition on the client. `recovered_paths` checks them.

### `ConstantPropagation_proofs`

From `ByteAssumption` and `WellFormed`, for all functions and bytes:

* `NoTrace`: `SiblingsLeaveNoTrace` is an invariant. Whatever part of the definition tree was walked before, a byte is safe if
  and only if the last access of the current branch that settles it makes it so.

The property speaks of the top frame alone, and a step up makes the frame below the top again, so it is not inductive. `WalkInv`
says that every frame's map can be found again: `MapsInv` has a map for each frame that is right for it (`LevelOK`) and that the
undo log makes out of the map of the frame above (`Undone`). This needs that a frame has left at most one record, on top of those
below it (`LogInv`); that no access occurs twice on the branch, so the generation an unknown write starts is one no entry of the
map has (`BranchInv`, with the last part of `LevelOK`); and that the verdict a store was judged by has been given, and so never
changes (`VerdictInv`). `RootStep`, `EnterStep`, `DescendStep` and `BacktrackStep` are the four actions of the walk.
`StoreEffect` is `set_byte_safety`, `RolledBackMap` is `rollback`. That the accesses form a forest (`Forest`: the children of an
access are writes that it defines, none occurs twice, a root is no write) is proved from how `RootsOf` and `ChildrenOf` list them.

### `ReplacedValues_proofs`

From the same assumptions:

* `ReplacementSound`, and from it `ReplacedValuesAreRight`: `ReplacedValuesHold` is an invariant. What the pass put in place of
  an instruction is what that instruction computes, cut to 64 bits, on every path, from every input, whatever unknown stores do
  and whatever else has changed, unless lifting took the value from a changed global variable or a solved register.
* `NothingLeftToFold`: `FoldingComplete` is an invariant. When the worklist is empty, no
  instruction is left that is a candidate, has a noted value and an operand that was replaced.
* `EveryLoadJudged`, `VerdictsExact`, and from them `OrderDoesNotMatter`: `VerdictsIndependentOfOrder` is an invariant. When the
  walk has ended every load has a verdict, the one `SafeByDefinition` gives it without walk and cache.

*Soundness.* The values lifting noted come from one path, so they can be wrong on another. `GoodValues` and `GoodBytes` are the
largest sets of instructions and of (access, byte) pairs that justify each other: a good load reads good bytes, a good pure
instruction has good operands, a good byte is known to the binary and not yet written, or written with a good value, or was good
behind the access before. Three arguments meet there. The verdicts of the walk and its map are TRUE only for good values and
bytes (from `WalkInv`; `SafeSolved` is the equation `is_safe_value`'s recursion satisfies). What `Propagate` folds from good
constants is good (`ConstInv`). And an execution agrees with lifting on every good value it has computed and every good byte it
has in memory (`RunInv`), by induction over its steps. The recursive functions (`Lifted`, `is_safe_value`) run along
operands and definitions, which come earlier in lifting order; numbering the positions in that order (`AllPositions`) turns
their definitions into equations without the library's induction rules, which the provers cannot instantiate. `LeastNumber` and
`AllNumbers` state induction for sets instead. The proof never uses that a byte is dropped at loops and joins: the MemoryPhis
carry soundness alone.

*Completeness.* `FoldInv` says that what could be folded now is in the worklist, that `queued` is what the worklist still holds,
and that constants stay. A newly folded instruction can make only its users foldable, and `enqueue` lists those. `Flattened`
says what the concatenation of the use lists contains.

*Verdicts.* `is_safe_value` calls a load unsafe unless its access is the active one, and keeps that verdict; so a store must not
ask for a load of another access that has not had its turn. `Leads(q, d)` says that position q is on the path that lifted d, and
operands lead to their user (`OperandsLead`, from dominance). `Above(x, m)` says that access x is m or a definition above it.
Both are the least closed sets, so neither needs recursion. What was in force along the path to d is above d's own access,
or a MemoryPhi of a later block is (`PathAbove`). In the first case the load's access is on the stack and has been entered. In the
second the load belongs to the tree of an earlier root: `RootAbove` finds that root, `RootsInOrder` says that roots are listed in
lifting order, and `VisitInv`, the invariant of the walk's progress, says that the trees of earlier roots are done
(`LeadingJudged`). So whatever a store asks for gets the verdict of the definition (`LeadingExact`, induction over operands),
and a load of the active access does because the map shows the bytes of the definition (`BytesExact`, from `WalkInv` by
induction over the branch). `Exact` is the invariant: every cached verdict is the defined one. The definition itself is recursive;
`DefinitionSolved` shows that the largest set of facts that justifies itself solves it, and `DefinitionHolds` turns it into
equations.

### `StateCleanup_proofs`

From `FunctionsGiven`:

* `LossesExplained`: `LostBytesExplained` is an invariant. A load that sees a byte of an erased store is one that a loop leads
  back to, in the store's own block and ahead of it, one that does not match the store, or one behind a matching store that
  leaves the byte as it is.
* `KeptStoresSeen`: `UnreadStoresErased` is an invariant.

Both speak of the end of the pass and of paths of the original function, while the walk reads the function being edited. The
inductive invariant has what was erased so far (`Edited`), where the scan and the walk are (`Places`), that the visited blocks
and the queue close under successors except behind a block that stops the walk (`Walk`), what each verdict was based on
(`Judged`), and that the blocks behind the scan are settled (`Behind`). A path is then followed along the closed set by induction
on its length.

### `Optimizer_proofs`

From nothing: for every list of passes, and whatever the passes do to the function and report.

* `ManagerCorrect`, and from it `FixedPointReached`: `OptimizedToTheEnd` is an invariant. When `pass_manager::run` ends,
  every pass that may run again has run and reported no change since the last reported one, and every other pass has run
  once. `Oz` and `simplify_cfg_and_dce` never report a change, so nothing is repeated on their account.

`ManagerInv` says that the pipeline lists each pass once (`Distinct`), that in the current round the passes before the present
one reported no change (`Round`), that a pass which may not run again ran exactly once if it is marked (`Once`), and what
holds at the end (`Done`).

### `PatchedCall_proofs`

From `PatcherConstants`, `BinaryFiles`, `ObjectFiles`, `CallConstants` and `WrapperCompiled`:

* `MappedLikeLoaded`: `map_binary` leaves in memory what the loader would, in whatever order parts that overlap are mapped, with
  the two exceptions of `MappedAsLoaded`.
* `SectionsApart`, `RelocationsReach`: sections do not overlap and are aligned where they run; references reach their symbols.
* `JumpReaches`, `PieReaches`: calls of the original function arrive at `vexa_entry`, and accesses of a PIE reach the image,
  wherever it is loaded. `JumpInReach` and `ImageInReach` (the displacement fits 32 bits) are hypotheses because `patch` and
  `fix_relocations` cast it without asking.
* `RegistersReach`, `RegistersBack`: the lifted function gets the caller's registers, and the caller the lifted function's, as far
  as the wrapper moves them (topmost registers of 8 bytes).

`MapInv` is the loop invariant of `map_binary`: parts mapped so far hold their bytes, except for what a part that is not loaded
zero-fills, and no tail of a PE section holds any (`Tailless`). `PatchInv` has the layout (`Laid`: sections apart, aligned,
inside `code_content`), the relocations done so far (`RelocInv`: field `k` still holds what relocation `k` wrote, which needs
`Laid` because another section's fields must lie elsewhere) and the jump. `CallInv` describes the wrapper by its position: what
is saved (`SavedInv`; RSP only counts once it is fixed), which registers are still the caller's (`ArgumentsInv`), what is
loaded (`LoadedInv`), and that the frame with the return address is untouched (`FrameInv`). `Code` says which instruction is at
which position of `vexa_entry`.

### What the proofs corrected

* `Specialised` counted an opaque branch only if its block ends in a branch to the decided target; a block whose decided side
  was never followed is specialised as well. TLC's menus never execute one, the proof of `OnlyStaleDeviates` asks for it.
* `UnreadStoresErased` said that a kept register store has a load of that register ahead of it. The walk compares shapes and
  offsets, not bases, so a matching load from any base keeps it, and one hidden behind a store may do so too: now it says that.
* `OptimizedToTheEnd` named passes; the manager goes by positions in its list. It now says for each position what ran last there.
* The definition forest of constant propagation was an assumption. It is a lemma now, and what it rests on is one promise of
  MemorySSA that was missing: what defines an access is the entry, a MemoryPhi or a write.
* `RelocationsResolve` excused only moved binaries and narrow absolute fields; it is false too for a displacement that leaves
  the signed range, and for `32S`, which the processor extends with the sign. It now says `Fits`.

### Only model-checked

* Liveness (`LiftingEnds`, `CleanupEnds`, `PropagationEnds`, `OptimizeEnds`): the provers do not handle fairness.
* `EmulatesLLVM` and `Emulator.TypeOK`: bit-vector arithmetic with powers of two and division, which the provers do not do.
* `MeaningKept` and `OnlyReturnRegisterStored`: `Outcomes` is a fold over the code of all paths and the passes build new code with
  folds and sorts, so both sides need induction over data with operators as parameters; Oz is external besides.
* VCFG recovery and joins kept apart, and everything that is expected to be violated.

## 7. Findings

| Run | Behaviour |
|---|---|
| `loops_by_specialization` | CFG recovery with SPECIALIZE_BY_PATH looks `PATH` up by `VPC` but fills it by `PC`, so loops are unrolled without end |
| `dead_ends` | a path that cannot be decoded (or an unresolved jump) leaves its block without terminator, and the pass manager then refuses the whole function |
| `solver_timeouts` | a timeout after the first solution of a jump target is taken for "one target" |
| `image_base_twice` | in a PE or non-PIE ELF file the recompiled function adds the image base to addresses that contain it already |

The quotations are in `PROJECT.json`. More, visible in passing runs:

* A jump with three or more targets is left unresolved (`OnlySwitchesCutPaths` names it as the one exception).
* `state_cleanup` erases live stores in three ways (`LostBytesExplained`). It marks a store's block visited from the middle, so a
  load ahead of the store that the next round of a loop reaches is never seen. It matches accesses by the shape of their
  `getelementptr` and by offset (`state_cleanup.cpp:66, 80`), so a load of the same bytes in another shape, at another offset or
  without `getelementptr` is none to it. And a store that matches ends the search in its block, although it may have another base
  or write fewer bytes. For the same reason a matching load from another base keeps a dead register store. What a function does
  after that is open: `MeaningKept` excuses it.
* `constant_propagation` replaces values lifting took from a global variable (`src/README.md:509`), from a register that was
  solved under the condition of one branch, and the upper part of a value wider than 64 bits: `ReplacedValuesHold` excuses these.
* `map_binary` does not clear the tail of a PE section, which the loader does (`MappedAsLoaded`).
* Merging by address reuses specialised code (`OnlyStaleCodeDeviates`); `context.hpp:64` calls the mode fragile.
* `map_binary` zero-fills segments of every type, so the `.tbss` of a TLS segment overwrites what follows `.tdata`.
* In a PIE, image addresses below half the stack size are taken for stack addresses.
* `pass_manager.cpp:73` says "If any pass changes something in the ir, start over"; `simplify_cfg_and_dce` and `Oz` change it
  and always report that they do not (24, 65), so only what the others report starts anything over. `OptimizedToTheEnd` is about
  reports: that the function is a fixed point of the passes themselves is not true, and not claimed.

## 8. What is not modelled

Decoding and instruction semantics (remill), SMT solving (Bitwuzla), LLVM's own passes and code generation, LIEF's rewriting of
headers: external. Register tables, stack and PEB set-up of `cpu::run`, the CPUID and RDTSC hyper calls, `getelementptr`
arithmetic: straight-line data set-up. Binary loading, logging, option parsing: I/O. `reset` and the destructor rebuild or drop
everything. `resolve_ite` and `mem2reg_and_sroa` are unused. Client callbacks that change options or
registers while a function is lifted, and `PATH_FORKING`, are left out: what they do is up to the client, and only the one that
sets the virtual PC at a dispatcher is modelled. `loop_reroll` is off by default and marked "UNDER MAINTENANCE, DONT
USE UNTIL ITS REWORKED" by its author: its code is not the behaviour anyone intends, so there is nothing to hold it against.

## 9. Plan

Done, in this order: the memory with its abstract specification and proofs; the explorer with the execution of its result;
`state_cleanup`; the emulator's terms; when merging is sound; constant propagation; the pass manager with `state2alloca` and
`memory_scalarizer`; mapping, patching and calling.

Then the proofs: the memory, the explorer, the lifted function against the original, the patched binary, constant propagation
(its walk, the values it replaces, the folding), state cleanup and the pass manager.

Next, by importance:

1. Progress of the lifted function: fairness in `SourceProgram`, so that `FollowsProgram` also excludes a lifted function
   that loops where the original goes on (today a refinement of safety only; for TLC).
2. `MeaningKept` for `state2alloca` alone: a register's bytes are at its parent's alloca, at the difference of their offsets.
3. `Emulator.TypeOK`: every term has the width of the value it stands for.
