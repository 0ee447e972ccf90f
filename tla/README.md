# libbinrec in TLA+

libbinrec translates blocks of PowerPC machine code ("guest") into x86-64
machine code ("host").  One call of `binrec_translate()` runs a pipeline:

    guest words --scan--> guest blocks --translate--> RTL unit --optimize--> RTL unit
                --allocate registers, generate--> host code buffer

Everything is sequential: one call works on one unit, and no part of the library
starts a thread.  What makes the code hard is not interleaving but **protocol**:
tables that are kept sorted, packed or linked while indices into them are held;
graphs recorded twice; depth-first searches over cyclic graphs cut by flags;
optimizations that delete code which another analysis believed to be there;
and failure of any allocation in the middle of any of it.  The models go where a
unit test with one hand-written program does not: every small program, every
small graph, every allocation refused.

Paths below are relative to `src/` inside the repository unless they start with
`include/`.

## 1. Inventory

| Part | State | Operations | Used by / uses | Correct when |
|---|---|---|---|---|
| RTL block table (`rtl-block.c`) | `blocks[]`, `num_blocks`, `blocks_size`, `last_block`; per block 7 entry slots, 2 exit slots, `next_block`/`prev_block`, `entry_overflow` chain of dummy blocks | `rtl_block_add`, `rtl_block_add_edge`, `rtl_block_remove_edge` | construction, finalization, optimizer | entry and exit lists agree, have no holes; the stream of live blocks is a list; a failed call changes nothing |
| Unit construction (`rtl.c`, `rtl-insn.c`) | `insns[]`, `regs[]`, `aliases[]`, `label_blockmap[]`, `have_block`, `cur_block`, `error`, `finalized` | `rtl_create_unit`, `rtl_alloc_*`, `rtl_add_insn` (one maker per kind of instruction), `rtl_finalize_unit`, `rtl_clear_unit`, `rtl_destroy_unit` | guest translator calls it; it calls the block table | blocks partition the instructions; labels map to block starts; the graph is the one the code implies |
| Optimizer (`rtl-opt.c`) | the unit, `block_seen[]`, live ranges of registers | fold, decondition, alias data flow, dead store elimination, branch threading, dead block and dead branch removal, `rtl_opt_kill_insn` | `rtl_optimize_unit`, guest translator (`kill_insn`) | the unit does what it did before; the graph, label map and live ranges stay in step with the code |
| Live ranges (`rtl-util.c`) | `birth`/`death` of registers | `rtl_update_live_ranges` | host register allocator | a value is live across every loop that needs it |
| Read-only map (`api.c`) | two bits per page; sorted table of partly read-only pages | add region, clear, lookup | constant folding of loads | an address is read-only iff it was declared so |
| Handle, `binrec_translate()` (`api.c`, `memory.c`) | options, code buffer, what each stage allocates | create, destroy, setters, translate | the client; all stages | nothing is leaked or released twice; no buffer is left behind |
| Guest scan (`guest-ppc-scan.c`) | sorted `blocks[]` of the unit, used/changed register sets, branch edges, `crb_changed_recursive` | `guest_ppc_scan`, `get_block`, `scan_branches`, `scan_cr_bits` | guest translator reads the table | blocks are disjoint, every branch target starts one, all reachable code is found |
| Guest translation (`guest-ppc-rtl.c`, `guest-ppc-translate.c`) | caches of live guest registers, dirty sets, `last_set` | one translator per opcode; flush; return from unit; branches | scan tables; unit construction | the guest state is in place wherever code may leave the unit |
| Guest optimizations (`guest-ppc-optimize.c`) | the caches, GQR values, lwarx/stwcx pairs | kill alias stores, trim CR stores, detect constant GQRs | guest translation | no store that is still needed is dropped |
| Host register allocation (`host-x86-registers.c`) | register maps, `end_live`, alias load/store tables, merges, spills | allocate block by block, merge at edges, spill | RTL unit; code generation | two live values never share a register; a merge finds its value |
| Host code generation (`host-x86-translate.c`, `-optimize.c`, `-opcodes.h`) | code buffer, `label_offsets`, unresolved branches, stack frame | translate block, reload at edges, calls, prologue/epilogue, chaining, resolve branches | register allocation | moved values arrive; displacements reach their label |
| Utilities, public headers, tests, benchmarks | - | - | - | not modelled |

**Interactions.**  The guest translator fills the unit through `rtl_add_insn()`;
the unit's `error` flag is sticky, so that callers may check it late.
`rtl_finalize_unit()` computes the flow graph through the block table; the
optimizer edits instructions and graph together.  The host translator reads the
graph through exit and entry slots, decides register assignments block by block
in stream order, and reconciles them on edges with reload code.

**Hard behaviours.**  (a) refused allocations: in the middle of
`rtl_block_add_edge()`, of a label that splits a block, of a threaded branch, of
each pipeline stage; (b) indices and pointers held across an insertion or a
reallocation; (c) termination and soundness of recursions over cyclic graphs;
(d) two components deciding the same thing separately (scan against translation,
allocation against reload); (e) tables at their limit; (f) address arithmetic at
the top of the address space.  There are no crashes to recover from, no messages
and no timeouts.  `PROJECT.json` lists each hazard at its line.

## 2. Modules

Of the pipeline, in its order: GuestScan finds the blocks; GuestRegs, GuestInsns,
GuestFloat, GuestTouch and GuestXlate translate their instructions, and GuestCRTrim
follows one CR bit across the blocks; RTLUnit builds the RTL unit on the table of
RTLBlocks; RTLFlowOpt, RTLAliasFlow and RTLInsnOpt (with RTLInsns, RTLValues) optimize
it; HostRegisters allocates x86 registers, HostCode generates and runs the code, and
HostReload moves values between its blocks; Translate follows the memory of all
of them; ReadonlyMap is what the client has declared of guest memory, and Handle puts
the two together as a client sees them.

### RTLBlocks, FlowGraph - the block table

`RTLBlocks` has as variables the fields of the unit that the table uses and, indexed
by block, the fields of `RTLBlock`; one action per operation and outcome.  `rtl_block_add_edge()` and
`rtl_block_add()` are single steps, each with its refused-allocation outcomes;
`rtl_block_remove_edge()` and the loop of `rtl_opt_drop_dead_blocks()` take one
step per iteration, in `pc`, because their intermediate states are what the
assertions in them talk about.  `thread_branch()`'s remove/add/restore sequence is
included, as the only caller that depends on an edge fitting back.  `NumEntries`
stands for the length of `entries[]` (7 in the source; small in the runs, so
that dummy blocks are needed at once).

`FlowGraph` is the abstract specification: a set of edges, added and removed one
at a time.  `RTLBlocks` implements it under two refinement mappings: through the
exit slots (`ExitsImplementGraph`) and through the entry chains
(`EntriesImplementGraph`); each says that the operation takes effect in one step
when seen from that side.

### RTLUnit - construction and finalization

Instructions are kinds (plain, label, goto, conditional goto, return), registers
are left out.  Each `rtl_add_insn()` maker is one action per outcome: accepted,
refused for its operand, refused for memory at each allocation it makes.
`rtl_finalize_unit()` takes a step per block.  `UsesBlockTable` says that every
step is one that `RTLBlocks` allows: `RTLUnit` extends that module, its steps are
conjunctions with the table's, and the theorems about the table carry over.  The block table of the
unit only grows here; removal is in `RTLBlocks`.

`GraphMatchesCode` has two parts.  `GraphSoFar` relates the graph to the code at every
step of the construction: no exit that the code does not imply, every fall-through edge
of a block already ended, every jump edge of a block already walked.  `FinalGraph` says
of a finalized unit that its edges are exactly the code's, and that the fall-through
edge is `exits[0]` and `entries[0]`, which the optimizer and the register allocator take
for granted.

### RTLValues, RTLInsns, RTLInsnOpt - the passes on instructions and live ranges

`RTLInsns` has every RTL instruction but ILLEGAL as the makers of `rtl-insn.c` accept
it: its operands and their types, what it reads, and the registers it marks live.
`RTLValues` evaluates them, twice: as the host does (`Executed`, from `rtl.h`), and as
`fold_constant()` does (`Fold...`, from `rtl-opt.c`).  `RTLInsnOpt` builds a program one
instruction at a time, and then runs, each as one step, deconditioning, constant
folding, dead store elimination and dead block and branch removal as the flags ask for
them, and `rtl_update_live_ranges()`.  Within the passes, `rtl_opt_kill_insn()` recurses into the
operands, moves the death of a register back to its last use before it, and leaves the
loop as the code does.

The properties compare with an interpreter of the program before and after
(`SameMeaning`: stores, calls, results and exceptions, for each input), and with the uses
found in the optimized code (`LiveRangesCover`, `DeathIsLastUse`, `NothingUnused`): what the
register allocator needs.  Values are scaled: one bit stands for a byte (INT32 has 4
bits, INT64 and ADDRESS 8; a float is a sign and a count of halves), so that carries, signs,
rotations and byte swaps keep their shape.  Twelve modes choose which
instructions a program is made of.

### GuestRegs, GuestInsns, GuestFloat, GuestTouch, GuestXlate - translating a guest block

`GuestRegs` is the state of the translator between two instructions: which guest
register is cached in which RTL register, dirty, last set by which store; which
floating-point register is known not to hold an SNaN, which is in single precision;
the lazily evaluated CR fields and the pending `fr_fi_fprf`; and the helpers on them
(`get_gpr`, `set_gpr`, `flush_...`, `kill_alias_stores`).  `GuestInsns` (integer
and system) and `GuestFloat` (floating point, paired singles) say of every translator
in `guest-ppc-rtl.c` which helpers it calls in which order and what paths the code it
generates has; the arithmetic on the values is left out, and a value is the number of
the write that made it.  `GuestTouch` is `update_used_changed()`, the scan's opinion
of what the same instruction uses and changes.  `GuestXlate` runs up to three
instructions through both and follows every path of the generated code: what
each instruction reads must be the last value written in program order
(`ReadsCurrent`), the guest state must hold wherever control leaves
(`NothingLost`), no store is taken back that something has read (`KilledUnread`), the
flag "not an SNaN" is true where it is set (`SafeIsSafe`), and the scan has allocated
every alias that the translator touches, with the type it takes it for (`MarksSuffice`).
Two general registers, two floating-point registers and three CR fields stand for 32,
32 and 8: with two, every way for operands to coincide occurs.

### RTLFlowOpt - the passes on control flow

Starts from every finalized unit of `NumBlocks` blocks and runs decondition,
branch threading, dead block removal, dead branch removal in the source's order.
`SameBehaviour` compares what the unit does before and after: the sequence of
non-empty blocks executed for each outcome of each condition.  Block 0 always has a
body, as the unit initialization of the guest translator guarantees.

### RTLAliasFlow - data flow of one alias

One alias is enough because the pass treats each separately: the loop over
aliases shares only the seen flags, which are cleared for each store.  `Collect`
goes through a block's references in order, then the search for readers is run with
the recursion made explicit as a stack.  What the search should find is
`WantedBlocks`, the least set of blocks that have a reader ahead.  A call reads all
aliases, but the code knows of it only through the store it finds in the call's own
block: `Reader` is what the properties take for a reader on that account, and
`EveryCallReads` the plain claim of the comments (`src/rtl-opt.c:1866`, `1899`), which is
violated (section 3).

### ReadonlyMap - read-only regions

Page size and number of pages are scaled; the arithmetic (`% Space`) keeps the
32-bit wrap.  The binary search of `lookup_partial_readonly_page()` is a function on the
ranges it may be asked for, one value per probe.  Regions come in any order; the two
`memmove()` calls are modelled as they are written, which moves the slots down, and the
field `lost` of the map, a history variable, has the pages whose slots have been written
over.  When `memmove()` reads past the end of the arrays the model stops, as it does at a
failed assertion.  History variables record what has been declared.

### GuestScan - the scan for basic blocks

One step per guest word, chosen as it is read; `get_block()`'s binary search is
a function on the ranges it may be asked for, the insertion moves the table, and the
index of the open block is kept exactly as the code keeps its pointer.  The properties
include what `translate_branch()` later expects of the table: its own search, with its
assertions, and that the words `Reachable` from the start, the least set closed under
what may follow a word, are translated.

### GuestCRTrim - CR stores

The analysis (`scan_cr_bits()`), the decision at the end of each block
(`guest_ppc_trim_cr_stores()`) and the execution of the translated code on any path
are one module: the first half computes `recursive`, the second executes with
the stores as they have been left.  `Needs` is the reference definition,
the least set of blocks that read the bit or lead to one that does, from the guest
program alone.  One CR bit is modelled;
bits do not interact except through `mfcr`, which reads all of them.  A block may end in a
branch with or without a condition or LK, in `blr` (any unconditional bclr or bcctr), in a
trap, in `sc` or in nothing.  `BranchBlock` and `NextBlock` are the edges that
`scan_branches()` records, and `FollowedBy` those that the guest may take; they differ at a
`blr`, which gets the edge of a block that falls through.  The properties name what
comes of that (`Misled`, `LeadsToReturn`), and of a store that the code loses
(`LosesStore`); everything else they exclude.  The code of
a block is chosen when the recursion first reaches it.  Gaps between blocks
(invalid words) are left out, and a guest that leaves the unit for one of its
blocks resumes there.

### HostRegisters - register allocation

The context of the x86 translator as one record (`HostX86Context` with
`HostX86RegInfo` and `HostX86BlockInfo`), and one operator per piece of
`host-x86-registers.c` that takes a context to the next: the first pass over a block
(alias tables, fixed registers for MULH, DIV, MOD, shifts and returns), the extension
of live ranges over loops and to the ends of blocks whose successors load an alias,
and the scan itself: operands released, registers saved around a call, a GET_ALIAS
merged with the register of a predecessor's SET_ALIAS, promises of such a register
made at the start of a block and cancelled under pressure, preferences, spilling,
temporaries.  An RTL register is named by the instruction that sets it.  Eleven kinds
of value-setting instructions stand for the RTL opcodes: each opcode that the allocator
treats specially, and `add`, `sub` and `value` for those that may overwrite either
operand, the first, or none.  A pass over the instructions of a block is a function of the number
of those done with (`FirstPassed`, `Promised`, `Allocated`), so that it can be reasoned about.

### HostCode - the code of a unit

The variables are the phase, the unit, the context and the block in hand.  The actions
choose a unit (`Build`), run the four passes (`UpdateLiveRanges`, `FirstPasses`, `UpdateAliasRanges`,
`AllocateBlock`, each once per block in stream order), and then run the code that
`translate_block()` would emit, block by block, down any path (`RunToTarget`,
`RunToNext`, `RunToReturn`).  Units are chosen from `Skeletons`, of which
`IsSkeleton` says what the makers of instructions and blocks assert: operands are set before,
every instruction is in one of the blocks, which follow one another; and what
`rtl_finalize_unit()` makes of the graph: a block goes on to the next one, the first of
its exits then, or to one that has it among its entries, and the
unit ends with the RETURN of `src/guest-ppc/guest-ppc-translate.c:220`.  The machine that runs it only knows which values are
current at which location: a register, a spill slot, a slot of the call frame, an
alias's storage.  An x86 instruction is a move, an exchange, a use, a result or a
loss.  `ValuesInPlace` is the correctness of the allocation: every use finds the value it
wants.  It depends on everything at once: the live ranges, the spill point of every register
against the block the reader is in, stores of aliases left out because a
successor takes the value over in a register, and what calls clobber.

HostCode composes with HostReload: `EdgesAreReloads` says that each edge the allocator
leaves satisfies `ReloadInit` of an instance of that module, under a mapping that reads the
roles of the registers off the context.  So the edge itself is one step in HostCode
(`Deliver`), and HostReload shows that the moves do it.

### HostReload - values on edges

`reload_regs_for_block()` as the shuffle of a small register file: merges, live
registers, loads from storage; moves, swaps and loads one per step, with
`src_map`, `value_map` and `src_count` as the code keeps them.  `ReloadInit` states what
it assumes of the register allocator: merge destinations are free on entry to the target,
what is live across the branch stays where it is, only a backward branch reloads.
HostCode shows it.  General and vector registers do not interact and are two instances
of the model.  The run has three registers, enough for a cycle beside a register that is
done with; `HostReload_proofs` is for any number.

### Translate, Handle - the pipeline as a user of memory

Every pointer that a call of `binrec_translate()` allocates, in `ptrs` while not
NULL and in `held` while allocated; each stage has its failure step.  Calls repeat,
with the flags changed in between, so that what one call leaves behind meets the
next.  `Handle` is a client that makes both kinds of calls, translations and
declarations of read-only memory, on one handle.

## 3. Runs

All bounds are in the `.cfg` files.

| Run | Checks | Bounds, and why they are enough |
|---|---|---|
| `blocks` | `IInv`, agreement of the two edge records, searches, the stream list, dead-block removal, both refinements of FlowGraph | 1 entry slot, 3 real blocks and 2 dummies: overflow, split, refused dummy, chains of two dummies and removal from head and dummy all occur. Shifting inside an entry array needs more slots; the theorems cover every number of them |
| `unit` | blocks partition the code, labels resolve, the fall-through assertion (`UnitInv`); the graph is the code's; use of the table; termination | 4 instructions, 2 labels, 1 entry slot; every allocation can fail. The theorems cover every size |
| `flow_passes` | exits, labels and links in step with the code (`FlowInv`); behaviour kept; nothing dead left; passes end | all units of 4 blocks: enough for a chain of two jumps, cycles of jumps, and a block made dead by threading |
| `alias_flow` | wanted stores kept, dead stores killed, searches cut correctly (`AliasInv`) | all graphs of 3 blocks, 4 references, calls anywhere; loops, diamonds and joins |
| `handle` | no leak, no double free, no buffer left behind; the table of partial pages sorted, in step with the page bits but for pages written over, refusing only when full (`HandleInv`); exactness, with the same exception | unbounded calls, growth of arrays is a step that keeps the pointer; 5 pages of 2 bytes, 4 partial pages, regions in any order: insertion at either end and in the middle, a table that overflows, a page that is lost and added again, a read past the arrays. Regions are declared before the flags are set, and a translation meets an empty map: the two share no state |
| `scan` | open block and block flags (`ScanInv`); partition, labels, reachability | all programs of up to 5 words; table growth at 2 entries |
| `cr_trim` | analysis sound and precise (`TrimInv`); executions see the right bit (`NoStaleRead`) and leave it behind (`LeavesWithBit`) | all units of 3 blocks: loops and joins, 5 bodies, every kind of end |
| `guest_regs` | what each guest instruction reads, stores and leaves behind, on each path | 3 instructions in a block: one that leaves state, one that disturbs it, one that meets the result; every mode that changes a translator |
| `insn_opt` | optimized programs mean the same; live ranges | at most 8 instructions, 8 registers, 2 labels; 3 inputs; 12 modes, each with the instructions that interact in it |
| `fold_fnmadd` | *violated*: the meaning of a folded FNMADD | binary floating-point operations only |
| `reload` | every value delivered on the taken edge and on the fall-through (`PathsDelivered`); maps and the swap's assertion (`ReloadInv`); termination | 3 registers: chains of moves, 2- and 3-cycles, mixed with loads |
| `host_code` | assertions of the allocator and the translator (`AllocInv`); operands where they are read (`ValuesInPlace`); the contract of HostReload (`EdgesAreReloads`) | 5 registers, one of them callee-saved, and R15: rAX, rCX, rDX with their roles, and the two others, so that six values spill; 2 aliases; argument registers as in the Windows ABI; the families of units in `MCHostCode`: lines of instructions with every combination of operands in the way of the fixed registers, calls and tail calls under pressure, two loops, a diamond and a loop with a gap in the block numbers, with FIXED_REGS and MERGE_REGS on or off |

Some runs are about inputs for which the property holds, because the code does
something else outside them, and some of their properties name an exception, the states
in which the code does something else.  Each of these configurations is kept beside the
runs, crosses such a boundary or checks the property without its exception, and is
violated (`tlc -config X.cfg MC...`):

| Configuration | Module | Shows |
|---|---|---|
| `RTLFlowOptNext.cfg` | `MCRTLFlowOpt` | a conditional branch to the next block has one edge for two paths; when it is threaded the fall-through edge is lost, and the next block dropped (`src/rtl-opt.c:1709`) |
| `RTLAliasFlowCalls.cfg` | `MCRTLAliasFlow` | a store is killed although a call in a later block reads it: the call sets `has_get` only when its own block has stored the alias (`src/rtl-opt.c:1897`; `EveryCallReads`) |
| `ReadonlyMapOrder.cfg` | `MCHandle` | a region below an earlier one loses an entry of the table of partial pages: the arguments of the `memmove()` are the wrong way round (`src/api.c:190`; `AllPartialPagesFound`) |
| `GuestCRTrimLost.cfg` | `MCGuestCRTrim` | a CR bit is lost by a conditional branch with LK = 1 to a block of its own unit (`src/guest-ppc/guest-ppc-rtl.c:3619`; `NothingLost`) |
| `GuestCRTrimReturn.cfg` | `MCGuestCRTrim` | `blr` leaves without a CR bit that was set, because the next block sets the bit: `scan_branches()` records it as the successor of an unconditional bclr or bcctr (`src/guest-ppc/guest-ppc-scan.c:1182`; `BitInPlace`) |
| `HostCodeDivisor.cfg` | `MCHostCode` | the natural location of a quotient is to be avoided, which the allocator asserts cannot be (`src/host-x86/host-x86-registers.c:970`): the register was reserved for a value that has been spilled since (`NaturalLocation`) |

`flow_passes` has no conditional branch to the next block, and `handle` no region that
reaches the top of the address space.  `host_code` asks for the natural location
without FIXED_REGS only; with it, the allocator goes on as a build without assertions does.
`alias_flow`, `handle` and `cr_trim` leave out nothing else: calls, regions and ends of blocks come in
every order, and the exceptions are in their properties.  `guest_regs` and `insn_opt` name the conditions they
leave out: the constant `Defects` holds them, and each is described where it is used:

- `guest_regs`: `trap` (7570-7587), `stwcx` (7355-7393), `mtcrf` (7762-7803), `string`
  (5714-5931, raw access to the registers past the caches), `ps_result` (2846-2853, 2936:
  a result is written while an operand that is the same register is still to be read),
  `get_ps1` (802-852), `safe` (915, 5003, 6930, 6993, 8168), `merge_safe` (6786-6794) and
  `flush_denormal` (2974-3040), all lines of `guest-ppc-rtl.c`.
- `insn_opt`: `first_live` (the walk of `rtl_update_live_ranges()` starts at the first
  register that was *marked* live, `rtl-internal.h:794`), `cascade` (killing
  a dead result kills ATOMIC_INC, CMPXCHG and CALL behind it, which
  `rtl-opt.c:1648` means to keep), `label_flag` (the marker in `src1` of a LABEL is taken
  for a use of register 1, `rtl-opt.c:2100`; it only makes a range too long), `fcmp` (the
  exception of a dropped FCMP), `fnmadd` (the violated run) and `mulhu` (a 64-bit MULHU
  of constants whose middle sum does not fit in 64 bits, `rtl-opt.c:71`).

Take a condition out of `Defects` in `GuestXlate.cfg` or `RTLInsnOpt.cfg`, and TLC shows what
the code does there: without `mulhu`, a folded 64-bit MULHU of two large constants loses a
carry, since the sum at the middle of `mulh64()` wraps (`SameMeaning` violated); without
`safe`, a register keeps its "known not to be an SNaN" when something else is written to it
(`SafeIsSafe` violated).

Deadlock checking is off where the modelled job ends (a finished pass, a finished
scan, a unit whose code has returned), and in `handle`, where a failed assertion stops
the program (a region that starts inside the last page of the address space: the end of
that page wraps to 0, `src/api.c:464`) and so does a read past the arrays; it is on in `blocks` and `guest_regs`, which never end.

Each property of a passing run is checked against a mutant of a mapped definition
(the operators named `Bug...` in the modules) that TLC refutes.

**Fairness.**  All liveness properties (`JobEnds`, `PassesEnd`)
assume weak fairness of the steps of one running function: the library is a
sequential program and a function that can take its next step takes it.  No
fairness is assumed of the client: it need not make another call.  The shuffle of `HostReload` is shown to end without
fairness, by a measure that each of its steps decreases (`ShuffleProgresses`).
`JobsProgress` and `PassesProgress` (section 4) prove for any size that each step of the other two
brings them further within bounds, so that only the taking of steps rests on fairness.

## 4. Theorems

`RTLUnit_proofs` begins with the block table (`RTLBlocks`) and proves, for every number of entry slots, table size and
expansion step (`ASSUME` in `RTLBlocks`):

- `TypeCorrect`, `SlotsStayPacked`, `EdgesStayInAgreement`, `SearchStaysInChain`
  for `Spec`, and the two refinements `ExitRefinement`, `EntryRefinement` of
  `FlowGraph`.

The invariants of the runs are not inductive: the search of
`rtl_block_remove_edge()` must know that the entry it looks for is still ahead of it
in the chain, and an addition must know that the dummy block it has just been given is
in nobody's chain.  `Invariance` proves `Spec => []IInv`, where `IInv` (the end
of `RTLBlocks.tla`) strengthens them: `TypeOK`; `Shape`, references stay inside the
table; `ChainOrdered`, the chain of a block visits every dummy it owns, youngest
first, which makes chains disjoint and acyclic without speaking of paths;
`SlotsPacked`; `ExitHasEntry` and `EntryHasExit`, the two halves of the agreement, up
to the edge being removed; and `CallOK`, what each value of `pc` promises about the
locals of the routine in progress.  There is one lemma per action, and in it one step
per conjunct that the action can disturb.  The refinement proofs use `IInv` at both
ends of a step: every action maps to adding a node, adding an edge, removing an edge
or nothing.

Then the unit (`RTLUnit`), for every size of code, table and label map
(`UnitAssumption`):

- `UnitInvariance`: `UnitSpec => []UnitInv`.  `UnitIInv`, which is `IInv` and `UnitInv`,
  is inductive.  `UnitInv` speaks of the middle of an operation as much as of its ends: while
  a branch splits a block the code is taken with the branch that is still to be
  appended (`Code`), the open block is the one just made (`Open`), and the blocks
  partition that.  `StreamIsTable` holds because nothing is unlinked before the unit is
  finalized.  `JobOK` says that the block just made has no entries and the block being
  left no exits; from it, the assertion "this call will always succeed"
  (`rtl-insn.c:1951`, `rtl-insn.c:2026`) cannot fail: an edge into an empty entry list
  needs no dummy block, and an edge out of an empty exit list has a slot.
- `TableIsUsedProperly`: `UnitSpec => Spec`, the composition.  Every step of the unit
  is a step of the table or leaves it alone; it needs the invariant, since a table
  accepts edges between blocks of its stream only.  All theorems of `RTLBlocks` hold of
  a unit under construction by it; `UnitEdgesAgree` is one of them.
- `GraphIsTheCode`: `UnitSpec => []GraphMatchesCode`.  `GraphInv` adds `GraphSoFar` to the
  invariant.  The lemmas follow the life of a block: while it is open nothing is claimed of
  it but that it has no exit; when it ends its successors are fixed (`SuccessorsKept`: what
  is appended later does not reach it, and a label once mapped stays); `EdgeSlots`
  shows that a new edge takes a free slot and that the first entry of a block stays the
  first when the others move to a dummy block, so the fall-through edge keeps its place
  through finalization.
- `JobsProgress`: every step of a call ends it or takes it from opening a block to making
  the instruction to splitting the block, or to the next block of `rtl_finalize_unit()`, which
  has at most `MaxBlocks`.

`HostReload_proofs` is about the shuffle, for every number of host registers of a class
and every pair of successors that `ReloadInit` admits:

- `ReloadInvariance`: `ReloadSpec => []ReloadIInv`.  That the maps find every value
  (`MapsTrackValues`) is not inductive: a move overwrites its target, and a swap moves
  the value of a register that others may still want.  `ShuffleInv` adds that a target
  whose value is still wanted is the place recorded for that value, and no other is, so
  what is overwritten is wanted by nobody and what is swapped is found again; that the counts are exact for
  values that targets hold (a swap leaves the count of the value it delivers too high,
  which only such targets could be hurt by); and that a pass without progress has only
  left targets whose value is wanted.  When such a pass is over, what is left is a permutation
  (shown by the pigeonhole principle, `OnlyCycles`): the source of the target that is swapped is itself a target, so
  the swap does not disturb a register that is done with.
- `ShuffleIsSound` (`ReloadInv`, with the assertion "or it would already be resolved"),
  `ValuesArrive` (`PathsDelivered`) and `ShuffleEnds` (`ShuffleProgresses`) follow.  `ValuesArrive`
  needs `NoConflict`: when `check_reload_conflicts()` finds none, the reload code
  of the branch changes nothing that lives on.

With `EdgesStart` of `HostEdges_proofs` the theorems cover every edge that the register
allocator leaves.

`RTLFlowOpt_proofs` is about the control-flow passes, for any number of blocks:

- `FlowInvariance`: `FlowSpec => []FlowIInv`.  That the exits of a block are exactly the
  places its end goes to (`FlowInv`) needs two more facts.  `TwoWayAhead`: no conditional
  branch that is still to be threaded goes to the next block, since such a branch has one
  edge for two paths and threading would take it away.  `ScanOK`: while `thread_branch()`
  follows a chain of jumps, there is a set of blocks that it has passed over, which do nothing,
  are left in one direction whenever the branch is taken, and hold no cycle unless the scan
  has come back to it.  The set is quantified over, so the invariant needs no paths.  Then
  `DroppedOK`: what is kept is the least set closed under exits (`GraphStaysExact`, `NothingIsLeftDead`).
- `BehaviourIsKept`: `FlowSpec => []SameBehaviour`.  The meaning of a program is a table of
  walks of at most `NumBlocks` steps.  `Settled` shows that this many are enough: after them a
  walk has ended, or it is in a set of blocks that it cannot leave.  With that, a step of a pass
  keeps the meaning of a block if it keeps the place its end goes to, or replaces it by the
  end of a chain of blocks that do nothing.
- `PassesProgress`: each step goes to a later pass or to a later block of the stream, or extends
  the scan of one branch, by a label not seen before or by one block of the code, and all of
  these are bounded.

The hypothesis `~AllowBranchToNext`, that no unit has a conditional branch to the next block,
is the condition under which the property holds: `RTLFlowOptNext.cfg` shows it violated
without.

`RTLAliasFlow_proofs` proves `AliasFlowIsExact`, `AliasSpec => []AliasInv`: the stores killed
are exactly those that no reader reads, for any number of blocks and references.  The pass works on the records that it
has collected, and the property is about references; `AliasIInv` relates them: what is left of each
block is what collecting and tracing leave of it (`Collected`, `Traced`), and during a search
(`SearchOK`) every exit that has not been looked at belongs to a block on the stack, whatever order the
recursion takes and whichever calls the seen flags cut.  At the end of a search the seen blocks
are closed under exits and none reads, so none is in the least set `WantedBlocks`.  There
is no hypothesis: calls may be anywhere, and what the code does not hear of one is in the
definition of a reader.

`GuestScan_proofs` has the theorems of both passes over guest code.  Those of `GuestCRTrim` are
for any unit and any number of blocks:

- `TrimInvariance` and `ScanIsSound` (`TrimInv`).  A mark is set when the
  recursion has seen a block's successors, and must stay right while others are marked;
  `ScanOK` says that each marked block satisfies the condition for marking now.  The marked blocks
  are then closed the wrong way for `Needs`, except at a `blr` recorded as going on at a
  marked block: a marked block in the least set is one that leads to such a `blr`.  That
  nothing is missed in a unit without loops follows from `Returned`, the blocks whose call
  is over: all that is recorded to follow one has returned before it.
- `NoReadIsStale` (`NoStaleRead`) and `BitIsLeft` (`LeavesWithBit`): the translated code with trimmed stores, on
  every path.  Wherever the guest is, the alias holds the bit, or the block is marked, or a store
  has been lost on the way (`RunOK`).  A store is lost where `!crb_store_next` fails, and
  `NoStaleRead` says the only place that can be: a conditional branch with LK = 1 whose target is
  marked and whose next block is not.  No hypothesis is made; `GuestCRTrimLost.cfg` and
  `GuestCRTrimReturn.cfg` show that the exceptions happen.

Those of `GuestScan` have no hypotheses: they are for any limit, table growth and guest program,
and any refused allocation.

- `ScanInvariance`: `ScanSpec => []ScanIInv`.  The table is sorted and its blocks share no word
  (`TableOK`), the flags of an entry describe its last word and no word before it ends a block
  (`Describes`), each target read so far has an entry with a label (`TargetsOK`), and each word read
  is in a block, in the open block or passed over (`WordsOK`).  The last is what a split or an
  insertion might break.  `SplitOK` is the loop that cuts blocks that overlap.
- `ScanStaysSound`, `WordsArePartitioned`, `BranchesFindLabels` and `CodeIsTranslated` follow for the
  finished table.  The last shows that the words in blocks are closed under what may follow a
  word, so that the least closed set is inside.

`Handle_proofs` is for every size of page, address space and table:

- `TranslationReleases`: `HandleSpec => []TranslateInv`, no hypothesis.  `TranslateIInv` says
  for each stage which pointers are held (`Holds`), and that the only pointers that outlive what they
  point to are those of a host context that is destroyed at once.
- `MapInvariance`, `HandleStaysSound` (`HandleInv`), `DeclaredIsReadonly` (`ReadonlyExact`), for regions
  in any order.  `MapIInv` reads the table as the set of addresses it marks (`Marked`) and says that, page by page or byte by
  byte, these are what the regions asked for, but for pages written over.  A region takes three steps, each of which marks its addresses or finds
  no slot: the part before its first whole page, the whole pages, the part after.  `MapOK`
  says what is left of the table's order when an insertion in the middle moves the slots the wrong way: the used
  slots still come first and ascend, so the search still finds what is there; and the count
  passes the number of used slots only when one has been written over, so that before that
  `memmove()` stays within the arrays.

Of the block table, also `StreamInvariance`, `StreamStaysLinked` and `DropLeavesTheReachable`.
`StreamLinked` is not inductive: a block that has left the stream keeps its links while its
edges are removed one by one, and the walk goes on from it.  `StreamIInv` adds that the links of every block lead
back to a smaller one in the table, and no block of the stream lies between two that are linked
(`StreamOrdered`); that no edge leaves the stream but those of the block being dropped
(`EdgesInStream`); and that `seen` is closed under edges, inside every closed set, and holds all of the stream that
has been walked (`SeenOK`).  Removing an edge of a block not seen changes none of
that; at the end the stream is `seen`, which gives `DropIsExact`.  By `TableIsUsedProperly`
this holds of a unit under construction as well.

`HostCode_proofs` is about register allocation, for any number of host registers from five, any
aliases, options and units (`SkeletonsAssumption` is all that is asked of a unit):

- `HostInvariant`: `HostSpec => []HInv`.  The invariant follows the passes.  After instruction n
  in the first pass (`Passed`): the tables of alias loads and stores name instructions of the right kind
  behind and before, a value that waits has at most a reservation of rAX, rCX or rDX, and
  a shift by a register is told to avoid rCX.  After instruction n in the scan (`Scanned`; `Between` at the
  ends of blocks): `Placed`, the map of registers and the values agree, every value that lives
  beyond n is in its register or has been spilled, and of two values with the same register and
  overlapping ranges the earlier was spilled before the later came (`Shared`); `Pending`, the values to
  come have only what the first pass gave them; `Promises`, a register promised to a GET_ALIAS
  at the start of the block is free, promised once, and taken out of the promises when it is used or
  reclaimed; `Results`, a value of a multiplication, division, remainder or shift has a register
  and a temporary which the x86 instruction for it can use.
- `AllocatorSound`: `HostSpec => []AllocInv`.  The assertions of the allocator follow from the invariant at
  each step of one instruction: one lemma for each thing that `AllocInsn` does, in the order in which it
  does it, each from `Scanned` in the middle of an instruction (`Mergeable`, `Choosable`: what
  has been released, what is to be avoided) to the next.  Those of the translator
  (`EvictHolds`, `ArithmeticHolds`, `CrossedHolds`) follow at the end from `Placed` and
  `Results`, of the whole unit.  With FIXED_REGS the invariant leaves out
  the assertion on natural locations, which does not hold (`HostCodeDivisor.cfg`, section 3).

`HostEdges_proofs` goes on from there to the edges, for the same units:

- `EdgesStart`: `HostSpec => []EdgesAreReloads`.  Each edge satisfies `ReloadInit` of the instance of
  HostReload, the assertions of `reload_regs_for_block()` hold, and
  `end_live` of a block with two exits is what HostReload expects, unless the source of a merge
  was spilled (`StaleEndLive`).  `EdgeInv` follows the passes beside `HInv`: after
  `rtl_update_live_ranges()` a value that is live on entry to a loop lives to the end of the
  last block that goes back (`Looped`), and neither the extension of alias values nor the allocator
  shortens a range; a value that a block stores is alive in that block (`StoresLive`).  During the scan (`Joined`): the map holds
  nothing that is dead; `initial` of a block names, for each register, the one value that is
  in it there (`Entered`); merges of a block go to different registers, which hold nothing at its start
  (`Merged`); and `end_live` of a block is what lives in registers at its end, with those whose
  values the block after it takes over (`Leaves`).  A backward edge then finds what it wants where it was,
  since the range of such a value spans the loop and no two values share a register; what was
  spilled inside the loop is what it reloads.

What these proofs share: recursive functions (the two binary searches, the walks of
`RTLFlowOpt`, the marks of a block in `GuestCRTrim`) are shown to satisfy their equations by
induction over a set of naturals (the lemma `Induction`, from the well-foundedness of `<`),
with the set of arguments for which a solution exists; reference definitions are least sets,
with nothing to be said of paths.  No hypothesis restricts the sizes.

Model-checked only: liveness under fairness (`ENABLED` and fairness are outside the prover),
the invariants of `GuestXlate` and `RTLInsnOpt`, and one of `HostCode`.  `GuestXlate` and
`RTLInsnOpt` reach `RECURSIVE` operators (the recursion of the code on operands, an interpreter), and
`RTLInsnOpt` also `Bitwise` (through `RTLValues`), neither of which the prover can use.
`ValuesInPlace` of `HostCode` runs code with folds that take an operator as argument, which the
prover cannot instantiate, and holds only of units whose operands are set before they
are used on every path, an assumption that the runs meet by the choice of `Skeletons`.

## 5. Findings

`fold_fnmadd` is in `findings`: folded FNMADD and FNMSUB have the wrong sign on src3.
The configurations of section 3 and the conditions in `Defects` are the other places
where the code does not do what a comment, an assertion or the rest of the code says.

Read while modelling, and not checked by a run: the assertion at
`src/rtl-opt.c:1718` that a removed edge can be put back needs a second allocation
when the entry was in a dummy block; a region that ends at the top of the
address space is accepted and ignored (`src/api.c:461`); an invalid word after a
conditional branch is passed over (`src/guest-ppc/guest-ppc-scan.c:1306`); a CR
bit set first by the code after `sc` may be stale in the system call handler; and
`translate_fres_lookup()` computes `fr_fi_cleared` and stores the value it was made from
(`src/guest-ppc/guest-ppc-rtl.c:4628`).

## 6. Not modelled

- Of host register allocation: XMM registers, the instructions LOAD_ARG, CMPXCHG,
  SELECT and the FMA family with their special cases, temporaries of loads and stores and of
  narrow arithmetic, forwarded conditions, the bases of aliases, immediates that are
  moved straight into argument registers, BMI2 shifts.  Those cases choose registers as the modelled
  ones do, by preference and avoidance, or for XMM registers without fixed ones.
- Of host code generation: the tables of x86 instructions, the code bytes, the buffer and
  its growth, branch displacements, the layout of the stack frame, unwind information,
  chaining.  They work on bytes; HostCode stops at locations.
- Host optimizations on instruction pairs (`host-x86-optimize.c`).
- RTL verification and disassembly, which only read; logging; guest decoding (tables);
  setters and queries; the C++ wrapper.
- `rtl_clear_unit()` and `rtl_add_insn_copy()`, which nothing in the pipeline calls
  on a unit in use; the growth of the register and alias tables (that of instructions,
  blocks and labels is in RTLUnit).
- The detection of constant GQRs over the blocks of a unit (a constant GQR is an input of
  GuestXlate); the lookup tables of the estimate instructions; the arithmetic of guest
  instructions.
- In `RTLInsnOpt`: what C leaves undefined for shifts by the width or more (an overflowing
  division is what `rtl.h` defines, a conversion of NaN or out of range is what the x86
  instruction gives); stores are not read back by loads; a
  read-only load is looked up by the first byte of its address, as the code does, and the guest
  address is taken mod 2^32.  Alias data flow and branch threading are
  in their own modules.
- In `GuestXlate`: one block at a time; what crosses blocks is in the guest state, which
  `NothingLost` checks at the end of the block, and in the trimmed CR bits of GuestCRTrim.

## 7. Plan

1. **HostBuffer**: code buffer with the local `CodeBuffer` copies, label offsets,
   short and long jumps, the fixed-up jump over reload code, `resolve_branches()`.
   Properties: no write past the buffer or through a stale copy; every branch
   reaches its label.  Provable without recursion.
2. **HostRegisters**: XMM registers, SELECT with forwarded conditions, CMPXCHG and loads
   and stores, each as further kinds of instructions.
3. **HostChain**: in-place patching of chained code.
4. **Proofs**: `ValuesInPlace`, once the machine that runs the code is written without folds
   that take operators, with an invariant that ties the current values of a path to the
   live ranges; `AllocInv` and `EdgesAreReloads`, which are proved, are what it would start from.

One run asks one question of a component, and new components are composed with the
ones they touch rather than checked apart.
