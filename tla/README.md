# TLA+ models of the Vectorization library

This directory models the run-time behaviour of the library's own code (`include/` and
`src/terminals/`): the strided tensor, the containers and caches it rests on, the check
that decides whether an assignment may alias, the planner and loops that evaluate
expressions, whole-tensor reductions on CPU, GPU and Metal, the ambient GPU stream, and the
streams that use a tensor's storage. TLC checks each model on small instances and
TLAPS proves the theorems listed below for all values of the constants. `PROJECT.json`
lists runs, mutants, the correspondence of definitions to source lines, the findings and
the hazards.

## 1. The system and its parts

| part | source | state | operations | hard behaviour | what makes it correct |
|---|---|---|---|---|---|
| ambient stream | `terminals/stream_guard.h` | thread-local map: device to stream and guard count | `current_stream`, `set_current_stream`, guard construction and destruction | guards and setters interleaved, guards ended out of order, the destructor must not insert | an entry is pinned while a guard lives; nested guards form a stack |
| sizes and strides | `terminals/sizes_and_strides.h`, `.cpp` | size, and a union of 10 inline cells and a pointer | copy, move, resize, element references | the inline/outline boundary, strides shifted inside one block, failed allocations | two arrays with value semantics; one owner per block |
| layouts | `expressions/strided_ref.h`, `expression_shape.h` | none (pure) | offsets, broadcasting, packedness | size-1 and size-0 dimensions | agree with the definition of a C-order index |
| overlap | `expressions/overlap.h` | none (pure) | `is_non_overlapping`, `classify_overlap`, `check_assignment_overlap` | GCD, nested-stride carries, rounding, int64 overflow | a verdict is true of the bytes touched |
| planner | `expressions/iteration_plan.h` | plan, counters, rows | `make_iteration_plan`, `run_planned`, `loop2d`, `loop_row` | sort and merge, starting in the middle, threads, aliased sources | the elementwise result, each element written once |
| CPU evaluator | `expressions/expressions_evaluator.h` | loop bounds, accumulators | `run`, `fill`, `accumulate`, `hmin`, `hmax` | peeling, packets, unsigned bounds, parallel chunks | each element once, aligned where it must be |
| tensors and views | `terminals/tensor.h` | view, retained storage, layout, cached flags | about 30: constructors, moves, views, reshape, contiguous, assign, fill | stale caches, lifetime, chains of views, moved-from objects | objects behave as arrays; caches are true |
| noalias | `terminals/noalias.h` | none | forwards to `assign` | skips the overlap check with `NDEBUG` | the caller's promise |
| expressions | `expressions/expression_*.h`, `expressions_*.h` | trees built by the compiler | element evaluation | none at run time | uninterpreted here |
| reductions API | `expressions/expression_reductions.h`, `reduce_op.h` | accumulators | `sum`, `product`, `all`, `any`, counts, NaN-aware forms | several accumulators, count batches, tails | each element once; counts exact |
| GPU reductions | `expressions/expressions_evaluator_gpu.h` | partial buffers, block scratch | `reduce_gpu`, `reduce_gpu_partials`, three kernels | barriers, a capped grid, buffers freed while kernels are in flight, failed checks | each element once, no race, bounded memory, an end |
| streams and storage | `terminals/tensor.h` | blocks in use on streams | `assign`, `assign_async`, `record_stream`, synchronous and asynchronous copies | a block recycled while a kernel uses it; exceptions after a launch | safe reuse; join points; nothing kept for ever |
| Metal evaluator | `expressions/expressions_evaluator_metal.h` | emitter state, partial buffers | `metal_fuse_emit`, `metal_reduce_extended`, `reduce_metal`, `run_metal` | argument slots, operands emitted twice or out of order, partly filled SIMD groups | the kernel computes the expression; each element once |

How they interact: `tensor::assign` checks the destination's cached flag
(`validate_destination`), asks for the ambient stream, walks the expression's leaves
through `classify_overlap`, and calls the evaluator. The evaluator computes the broadcast
shape, and takes the contiguous SIMD path if every leaf and the destination are packed, or
the planner otherwise; both hand chunks to `parallel_for`, an external thread pool. Tensors
share storage through `retained_ptr`; a layout is a `sizes_and_strides`. Reductions try the
GPU or Metal path first, then the strided walk, then the SIMD loops. Everything a GPU tensor
does is issued on a stream: its own (the one it was allocated on), the caller's, or the ambient
one; the host runs ahead, and `record_stream` tells the caching allocator which streams still
use a block that the host has already freed.

## 2. Modules

| module | models | abstract specification |
|---|---|---|
| `StreamGuard` | one thread's map and guards | `AmbientStream`, a stack per device |
| `SizesAndStrides` | containers over a heap of cells | `DimArrays`, two arrays per object |
| `StridedLayout` | pure layout operators and their reference definitions | |
| `Overlap` | pure overlap operators | |
| `OverlapCheck` | one classification, judged by `Touches` | the bytes touched |
| `PlannedAssign` | one assignment through planner and threads | `ElementwiseAssign` |
| `ContiguousSweep` | the SIMD loops of run, fill and reductions | each element once |
| `TensorHandles` | tensors, views, storage | `NdArrays`, arrays of cells |
| `CpuReduce` | pure: what `reduce_expression` folds, batch by batch, and `reduce_strided`, element by element | the set of all elements |
| `MetalFuse` | pure: the emitter of fused Metal kernels, and what a kernel computes | the value of the expression |
| `Reduction` | one reduction: host, stream, blocks and threads, or Metal passes, or the CPU | each element once |
| `MetalReduction` | `Reduction` with the kernels that `MetalFuse` emits for a set of expressions | |
| `GpuStreams` | tensors' device storage, streams and the caching allocator | |
| `StreamGuardProofs`, `SizesAndStridesProofs`, `ContiguousSweepProofs`, `ReductionProofs`, `GpuStreamsProofs`, `LayoutProofs`, `PlannedAssignProofs`, `TensorHandlesProofs` | proofs | |
| `MC*` | instances for TLC | |

`PlannedAssign` and `TensorHandles` extend `Overlap`, which extends `StridedLayout`: the
checks they make are the operators that `OverlapCheck` judges on their own. `Reduction` extends
`CpuReduce`, whose values its kernels fold. `MetalReduction` puts `Reduction` and `MetalFuse` together:
a Metal call of `Reduction` says whether its expression is a tensor (`leaf`) and whether its fused
kernel fits the argument slots (`fits`), and `MetalReduction` assumes of its expressions exactly
what `MetalFuse` computes of them. `MetalFuse` is recursive, which is why `Reduction` does not extend it.

**StreamGuard.** `streams` is `g_current_streams` (a partial function), `guards` keeps the
`prev_stream_` of each live guard. `set_current_stream`, `ConstructGuard` and `DestroyGuard`
are the three functions that write the map. `Scoped` is the set of devices whose guards end
innermost first; on the others they end in any order. One thread suffices because the map is `thread_local`.

**SizesAndStrides.** An object is its `size_` and the cells of the union; cell 1 holds the
pointer when `size_ > M`. `heap` maps live blocks to cells, and a cell of a fresh block is
`Garbage`. Every path of `resizeSlowPath` is a set of outcomes: success with any block, or
failure when `fails`. That variable is chosen once, from the constant `Failing`: one run covers
programs in which allocation works and programs in which it may fail at any call. `memcpy`/`memmove`, `memset`, `malloc`, `realloc` and `free` are
external.

**Overlap, OverlapCheck.** `classify_overlap` is a cascade of tests in the code's order
(null or empty, ranges, same mapping, dense, distance, GCD, nested carries). The sort of
`overlap_axes` is modelled by positions: `Axis(l, k)` is the dimension with `k - 1` others inside it.
A distance or a partial sum outside int64 yields `too_hard`, with `Int64Max` as a constant so that
it can happen; the other terms are exact, as the extents of views of real storage are.

**PlannedAssign.** The state is memory, the plan, the chunks no thread took, and per thread
the row, the counter, the operand offsets and the position in the row. `Verdict` is the
sequence of checks in `assign` and `run_lowered`. A step of a thread is one SIMD block or
one scalar: all its loads, then its store. Values are sequences, so that the result of an
expression tells which elements it read. `validate_destination` reads `is_non_overlapping` off the
layout where the code reads the flag that `recompute` cached: `CachesTruthful`, proved of every chain of
calls in `TensorHandles`, is what makes the two the same, and a stale flag is that property's business.
No operand of more than 8 dimensions (`kMaxRank`) reaches an assignment, as `to_strided_ref` throws;
`broadcast_into` repeats the check.

**ContiguousSweep.** A thread's loop over `[i, limit)` in a range from `begin` to `end`;
`count` is how often an element was stored or folded in, `slot` which accumulator holds it.
Unsigned subtraction wraps modulo `SizeMod`. `op` covers `run`, `fill`, reductions of a
tensor, and reductions of an expression. The first and last aligned elements are those of a scalar that is
smaller than the allocator's alignment (16 or 64 bytes, `vectorization_macros.h:147-149`), as `float` and `double`
are: `first_aligned`'s early return for `alignment_size <= 1` is never compiled in.

**TensorHandles.** A handle has the members of `tensor_impl` that matter: storage and
offset (the view), sizes, strides, `numel_`, `contiguous_`, `non_overlapping_`. Storage
that no handle retains is freed (`Become`). `Derived` is every view that one call makes.
`derived` is a ghost: the layout came from a packed tensor by operations other than
`expand` or explicit strides.

**CpuReduce, Reduction.** A value is the set of input elements folded into it, `Poison` if one
was folded twice or the memory was never written: one model covers every `reduce_op`, and none
of their arithmetic. On the GPU the host (`AllocatePartials` to `SynchronizeAndReturn`) only
appends to `queue`; `owned` is what it has allocated and not freed, `mem` what the device has
written, so freeing a buffer that a queued kernel still reads, and getting the same address
back for a later kernel, are steps the model takes. `grid` holds the state of every thread of
the running kernel; `Accumulate`, `TreeLevel` and `WritePartial` are steps of one thread,
`Barrier` of a block. Every check (allocation, launch, copy, synchronisation) may throw; a
launch check may report an earlier kernel's error after this one was launched. Stream order, the
allocator's pool and the start and end of kernels are external. On Metal a dispatch is synchronous,
so `MetalPass` is one step; `SimdFold` is the shuffle loop of the generated kernel, lanes in
lockstep. `MetalMaterialize` is the path of `sum`, `min` and `max`: the fused kernel writes the values of the
expression to `tmp`, one per lane (`Materialized`; that they are the values of the expression is what
`FusedExact` says of the kernel), and the result combines what `tmp`, or the tensor itself, then holds. How
the library's own kernels combine those values is external; that they combine all of them, once, is assumed.
`CpuReturn` is the CPU's path, on which nothing interleaves: `reduce_strided` walks strided operands in C
order, and the others go through the batches. Which of the two applies, `is_contiguous` or `leaves_flat`, is the
call's `strided`: the flag and the layouts are `TensorHandles`'s.

**MetalFuse.** `metal_fuse_emit` threads the emitter's state (slots used, `ok`) through the tree
in the code's order and builds the kernel's body; `Argument` binds slots to argument positions
as `metal_fuse_parameters` declares them. Text is a term: `sqr`, `hypot` and `expm1` are emitted
as compositions, `if_else` with its operands reversed, and one operator stands for each of the
other forms. `exp`, `log` and `sqrt` are injective functions on integers.

**GpuStreams.** `tensors` counts, per block, the tensors and views that retain it; `block` is the
allocator's book, `queue` what was issued and has not finished, in issue order. The ambient stream
is an input of each call: `StreamGuard` shows what guards make of it, and here any selection is
possible at any call. A freed block goes to the pool of its allocation stream at once, or once an
event on every recorded stream is done (`holds`). `past` and `loose` are ghosts: uses of an earlier
life of a block, and uses that an exception left unrecorded. The allocator, streams and events are
external, with the semantics of CUDA's legacy default stream.

## 3. Runs

| run | asks | bounds, and why they are enough |
|---|---|---|
| `stream` | do nested guards and setters form a stack, and with guards ending in any order, does each find its entry and does none stay behind? | 2 devices, guards innermost first on one and in any order on the other, 2 streams and the default, up to 3 guards per device: an entry created, shared and erased, with guards inside guards |
| `sizes` | is the container a pair of arrays with a block of its own, and do failed allocations leave dangling pointers? | 2 objects, 2 blocks, `M = 1` with up to 3 dimensions: both directions over the boundary, growing and shrinking outline, `realloc` in place or moving; with no allocation failing, and with any failing |
| `sizes_oom_layout` | does the class comment's layout survive a failed `realloc`? | expected violation, section 5 |
| `overlap` | are the verdicts true? | all 2-D views to (3, 3), strides 0 to 4, 6 distances; 3-D nested and non-nested strides at 30 distances, with `Int64Max = 16` so that the overflow guard is reached; two-byte elements at odd and even distances, two types, two devices, empty and null views |
| `planned` | is the result elementwise? | 2-D shapes to (3, 2) with one leaf, strides 0 to 4, aliased at four addresses; (2, 3, 2) with two leaves, permuted, gapped or broadcast; empty, 0-d and too many operands. 2 threads and a grain of 4: three chunks, which start and carry inside the counter |
| `sweep` | is each element done once? | registers of 2, packets of 2, up to 15 elements at aligned, misaligned and odd addresses: every loop runs zero, one and several times; grain 6, so up to three chunks |
| `handles_chain` | are chains of views in bounds and their caches true? | one view rebound again and again from tensors of six elements and from borrowed memory; rank and strides to 3 |
| `handles_copies` | do copies and writes through views behave as arrays? | a 2x2 tensor, one view, one copying or writing call after any chain |
| `handles_moves` | do copies, moves and sharing? | two owners, two views, two storages |
| `handles_moved_from` | may a moved-from tensor be copied? | expected violation, section 5 |
| `reduction` | does a reduction fold each element once, race free, in bounded memory, and end? | GPU: blocks of 2 and 4 threads, grids capped at 1 to 3, sizes to 9: up to three passes, trees of two levels, partly filled blocks, 3 buffers so that addresses are reused; Metal: sizes to 12 over groups of 2, 4 and 8 lanes (four passes), a size over the grid limit, 78 expressions: each form of emission nested in the others, chains of leaves on both sides of each slot limit (4 slots, 8 arguments); CPU: sizes to 30, 1 or 2 lanes, 1 or 4 accumulators, batches of 6 steps: every mix of batches, blocks, registers and tail; strided operands of up to 5 elements |
| `gpu_streams` | may a block be recycled under a pending use, do synchronous calls join, does every block come back? | 2 blocks, 2 created streams and the default one, 2 tensors or views, 2 pending operations when a third is issued, expressions with one operand: a block used on a stream that is not its own, freed, reused by a second life with the first still pending, events included |

Deadlock checking is off in the `overlap` run: one classification, then the model stops.
Elsewhere a terminated model stutters in an action of its own (`Returned`).

Bounds that are part of a model are constants and named in its comments: `MaxGuards`,
`MaxRank`, `Lists`, `MaxSize`, `MaxStride`, `MaxCopies`, `DeriveEmpty`, `MaxTensors`,
`MaxOperands`, `MaxQueue`, `Homes` (the streams that tensors are constructed on). In
`Reduction`, `maxBlocks`, `limit`, `exact` and `kMaxSlots` are the code's own limits (4096, 2^32 - 1,
2^24, 29), made small enough to be reached. Symmetry is over names only: objects, blocks, threads,
handles.

**Fairness and liveness.** `Reduction` assumes weak fairness of the host (its thread is scheduled)
and of the device as a whole (some thread that can step does, which any GPU provides for the
blocks that are resident; no order among threads or blocks is assumed). `Terminates` then says
that the passes shrink to one partial, that no thread waits for ever at a barrier others have
passed, and that the caller gets its answer or an error. `GpuStreams` assumes that every stream
finishes its oldest operation when nothing it waits for precedes it, and nothing of the program:
it may stop issuing calls at any point. `Recycled` needs exactly that. The other models state no
liveness: their code never waits, and every loop is bounded by counters that the safety properties
follow to their end (`pc = "done"`). The wait for `parallel_for` is the thread pool's promise.

**What `gpu_streams` leaves to the caller.** `SafeReuse` names three conditions, each one something
the code does not do. (a) Uses on the default stream are not recorded (`resolve_ambient_stream`),
so safety rests on streams created to synchronise with it: `Blocking` is all of them in this run.
(b) A tensor constructed on stream `s` and first used on another stream `t` is not ordered after
uses of the block's last life on `s`; the caller must order them. (c) If a launch check throws after
the launch (an earlier error is reported late), `assign` and `assign_async` leave the destination,
and a reduction its operands, in use and unrecorded. `DefaultStreamJoins` is claimed for the default
stream only: a synchronous copy of a tensor on another stream waits for that stream, which is
narrower than "all outstanding device work" (`tensor.h:830`, `932`) reads; how `copy_sync` waits is
the memory library's, so this is not listed as a finding.

Each property has a mutant, a plausible bug defined beside the definition it replaces, that
breaks it under the same configuration.

## 4. Proofs

Every theorem holds for all values of the constants that satisfy the modules' named
assumptions; the bounds of section 3 play no part. Each module states an inductive invariant,
which TLC checked on the run of its component before it was proved (of `PlannedInv`, which quantifies over
every row and coordinate, TLC checked the properties that follow).

*StreamGuardProofs.* `GuardTyping`, `GuardSafety` and `GuardNoIdle`: `TypeOK`, `GuardsPinned` and
`NoIdleEntry`, for any devices, streams and number of guards. `GuardsPinned` is inductive with
`TypeOK`: its second half, that an entry counts exactly the live guards, is what lets the
destructor decide from the count alone whether it was the last; without it the first half is
not preserved by the end of a guard. `GuardRefinement`: on the devices of `Scoped`, `Spec`
implements `AmbientStream`; each action maps to one abstract action on the stack made of the
saved selections and the current one.

*SizesAndStridesProofs.* `SizesTyping`, `SizesNoDangling`, `SizesOwned`, `SizesRefinement`: for any
number of containers, inline capacity, dimensions and blocks. The invariant says, per container,
that its representation is readable (inline, or a live block of the right length) unless an
allocation failed, and that blocks have one owner each; between containers only that the blocks
differ. The refinement maps each operation to the same operation on two arrays; that a shifted
half of a block ends up as the strides array is one lemma per direction over the inline boundary.

*ContiguousSweepProofs.* `SweepTyping`, `SweepSafety` (`OnceEach`) and `SweepAccesses`
(`AccessesLegal`): for every register length, packet, grain, size, address and set of threads. The
strengthening says where each thread is: the shape of each loop's range (its limit is `i` plus a
multiple of the step, inside its range), that `count` is 1 on the elements before `i` of each range
and 0 from `i` on, that ranges of different threads are disjoint and, with the part no chunk holds
yet, make up what is left, and that an element sits in a SIMD accumulator only while the loops
that own the accumulators run. `OnceEach` alone is not inductive: a state where a thread is about
to store an element that another has stored satisfies it.

*ReductionProofs, the CPU.* `ReduceExpressionFoldsAll`: the value of `reduce_expression` is the set of all
elements, none folded twice, for every size, register length, number of accumulators and batch
limit. The argument is a division: an element before the vector tail has one position (batch,
step, accumulator, lane), and `CombineAll` of disjoint values is their union. It needs no
induction because the fold is defined by what it folds, not by recursion. `ReduceStridedFoldsAll`: the
same of the walk over strided operands, which is a recursion, so by induction over the elements walked: the
accumulator holds those before `i`.

*ReductionProofs, the devices.* `ReductionTyping`, `ReductionRaceFree` (`NoScratchRace`), `ReductionBounded`
(`PartialsBounded`), `ReductionOnce` (`ReducesOnce`) and `ReductionCounts` (`CountsExact`), for every
size, grid, number of buffers, and every power of two up to 1024 (`BlockSizes`) as block size. `SInv`
is the structure: which buffers the host owns at each of its steps, what the queued kernels read
and write, and that all threads of a block are in one phase, either before a barrier or in one
level of the tree, with one stride that is a power of two below the block size. That is enough
for the absence of races. `DInv` is the data: `buf` will hold, when the stream has run what is queued,
disjoint sets whose union is the input; a buffer that a queued kernel reads is overwritten by none
queued before it, although it may have been freed, handed out again and queued as the output of a
later one; and in a running block each cell of the scratch below the stride holds the fold of
the indices congruent to it modulo the stride. `MInv` is the same for Metal: `buf` holds the input, in
`n` disjoint parts. A fold over a SIMD group is a recursive function of the loop's offset; as a group
has at most 64 lanes, the recursion is unfolded level by level (`RegistersExist`, `RegistersFold`), and
one lemma (`LevelFolds`) says what a level does: it needs no induction. `OInv` is for the calls that
the host answers in one step: it knows the shape of the memory that a temporary is written to.

*GpuStreamsProofs.* `StreamsTyping`, `StreamsSafeReuse` and `StreamsJoin`, for any blocks, streams, numbers
of tensors and operands and length of the queue. `SafeInv` gives the reason why a pending use of
a block cannot be overtaken (`Covered`): it runs on the stream of the block's pool or on the default
one, or its stream is recorded in the allocator's books, or the host waits for it, or, once the block
is freed, an event behind it on its stream still holds the block. Uses of an earlier life have only
the first reason left: a block is handed out only when nothing holds it. `SafeReuse` follows
because a stream keeps its order. `StreamsJoin` needs one fact more (`JoinInv`): while the host
waits for the default stream, the last pending operation is its own. `StreamsSafeReuse` and `StreamsJoin`
assume `Blocking = Streams`, the condition (a) of section 3 that the code leaves to its caller.

*LayoutProofs.* `LayoutsInjective`: the sufficient test of the code, `is_non_overlapping` (every stride
exceeds the extent of the dimensions inside it), accepts only layouts that map distinct indices to
distinct offsets, for every rank, sizes and strides. Two indices with equal offsets would differ in
some dimension; of these take the outermost in the sort's order: the terms inside it add up to at
most its extent, less than its stride, so the offsets differ. The lemmas it rests on serve
`TensorHandlesProofs` too: sums and products of dimensions (`VolumeIs`, `SumIs`), an element lies within
the extent (`ElementInExtent`), the coordinates of an index under a packed layout give the index back
(`PackedElement`). They need induction, which the library offers only with an operator as
parameter; here it is done on sets of naturals (`Minimum`: a nonempty set of naturals has a least
element, from the well-foundedness of `<`; `Induction` and `Descent` follow), and the equations of a
recursive function are proved from that (`Ascent`, `Descending`).

*LayoutProofs and PlannedAssignProofs, the overlap check.* `OverlapNone` (`NoneIsDisjoint`), `OverlapFull` (`FullIsInPlace`), `OverlapPartial`
(`PartialIsShared`) and `OverlapInjectivity` (`InjectivityProof`), for views of any rank, sizes,
strides, addresses and element sizes and for any `Int64Max`. The invariant, `CheckInv`, is short: the views
stay what the caller passed (`Assignable`) and the verdict is `classify_overlap` of them. The work is in
the operators. The offset of an element is a sum over the sorted axes (`AxesSum`, `ElementOnAxes`) and
each choice of steps below the sizes is an element (`AxesReachElement`), so that two elements share a
byte exactly when the distance is a sum of steps between `Lower` and `Upper` (`SharedIsDistance`,
`MovesOfViews`). For the carry interval there are two invariants over the axes: the quotient of every
such sum stays inside (`LatticeKeeps`, hence `none` is true), and every value that is left inside belongs
to one (`LatticeReaches`, hence `partial` is). The second rests on
rounding towards the inside, and on two integer intervals that meet having an integer in common: the
values carried so far, and those that the next quotient and the steps of this axis make. A GCD divides every offset (`OffsetMultiple`); two dense layouts whose ranges meet cover a
common byte because `extent + 1` distinct offsets fill the extent (`DenseOffsets`). On nested strides an
injective layout keeps each axis clear of those inside it, or two indices would meet (`PeriodsCover`), which
is the second half of `InjectivityProof`. `CasesAssumption` states of the views what
`check_view_geometry` checks.

*PlannedAssignProofs, the assignment.* `PlannedTyping` (`TypeOK`), `PlannedResult` (`ElementwiseResult`),
`PlannedRedundant` (`PlannerCheckRedundant`) and `PlannedRefines` (`ImplementsElementwise`), for operands of any rank,
sizes, strides and addresses, any number of workers, any grain and SIMD length. There are four steps.
(1) *The plan.* Axes stand for a set of vectors of offsets, one offset per operand (`Vectors`). Putting an axis
anywhere among others spreads that set along it and multiplies the number of elements (`InsertsGrows`); so does the
merge of two axes adjacent in every operand. Hence sorting and merging keep the set, whatever order the sort
chooses (`SortedIs`, `MergedIs`), and it is the set of the broadcast operands' elements (`InputElements`). A tier below 3
means that the inner strides are those its loads assume (`TierIs`). (2) *The counter.* The division
loop and the counter with carries and rewinds are both at the coordinates and offsets of a row
number (`FirstRowIs`, `StepCounterIs`): a step changes one digit of a mixed-radix number at a time (`Mixed`).
(3) *No interference.* Every cell (row, place) is one element of the destination, which is injective, so no two
cells share one (`CellsOwn`, from `LayoutsInjective`). A source's element is its own cell's or
no cell's (`SourcesOwn`): `assignment_allowed` lets through only the verdicts `none` and `full`, and
`OverlapNone`'s and `OverlapFull`'s lemmas say what those mean. (4) *The workers.* `PlannedInv`: pending
chunks and what is left of each worker's chunk share no row (`Spans`); an element of the destination has its old
value while its cell is pending or left, and its final value otherwise, and nothing else changes (`Stored`). That
`ElementwiseResult` holds at the end is not inductive: a worker may be about to store what another has
stored, or to load what another has overwritten. `AssignmentsAssumption` states that the operands passed
`check_view_geometry`, lie in `Memory` and on one device; elements are one byte.

*TensorHandlesProofs.* `HandlesTyping`, `HandlesInBounds` (`InBounds`), `HandlesOwners` (`OwnersPacked`),
`HandlesCaches` (`CachesTruthful`), `HandlesWritable` (`DerivedStayWritable`) and `HandlesViews` (`ViewExact`),
for any handles, addresses, shapes and views. `HInv` says that each
handle and the memory it points to are well formed (`Valid`): sizes and strides of one length, the
cached `numel_` and `contiguous_` what the layout says, the last element inside live storage. It is
the bound on the extent, not on single elements, that each view operation preserves: `permute`
permutes the terms of the sum, `slice` and `select` move part of it into the offset, `expand` adds
zero terms. `OInv` adds that owners are packed from offset 0, `CInv` that `non_overlapping_` is
`is_non_overlapping` of the layout; `HandlesCaches` then is `LayoutsInjective`. `HandlesInBounds` assumes
`~ReuseMoved`, because with copies of moved-from tensors it is false (section 5, finding 2).
`GeometryAssumption` states of the views a program may ask for what their constructors and
`slice` check (`tensor.h:313-330`, `slice`'s step of at least 1). `HandlesWritable` needs more than the flag it
promises, because `is_non_overlapping` goes through the dimensions in the order of their strides and every
view changes that order: a size-1 dimension gets any stride, `slice` multiplies one, `view` splits and joins
them. `WInv` keeps instead that the dimensions can be *stacked* (`Stack`): each gets an offset `e` below its
stride that all dimensions inside it stay within, and of two dimensions with more than one element one
lies within the `e` of the other, whatever their order. Permuting, dropping and inserting dimensions keep a
stack; `slice` only shortens a span; for `view`, `Building` is an invariant of `compute_view_strides`: a
chunk joins adjacent spans into one (`StackMerges`), and the new dimensions carve that one up
(`StackSplits`). A stack makes `is_non_overlapping` true (`StackedWritable`).
`HandlesViews` is exactness in both directions, and holds of every well-formed handle, so that `HInv` is
invariant enough; the invariant it needs is one of the loops (`Tiles`): wherever `compute_view_strides` stands, the old
dimensions inside and the new ones inside hold the same blocks of elements, and give an index the same
offset but for its digit within the chunk, of which the new dimensions cover `view` of `numel`. Where the
loops end with nothing left, both give all offsets: the strides are right. Conversely, where any
strides fit, the ones found so far are those (`ForcedTake`), no new dimension reaches past a chunk, as its stride
would be the one that the next old dimension does not have (`ForcedBound`), and nothing is left over.

Assumptions are those of the modules: positive sizes, `Length` a multiple of `Align`
(`alignof` divides the size of a type), the tensor's size below `SizeMod`, `gpu_reduce_block_size` a
power of two (`expressions_evaluator_gpu.h` halves it at each level).

Only model-checked: of `TensorHandles` the refinement `ImplementsArrays`, whose
operations rearrange by folds, `SelectSeq` and operators as arguments; `FusedExact`, whose expressions are recursive data. The
two liveness properties, `Terminates` and `Recycled`, are outside TLAPS's reach, as is `ENABLED`.

## 5. Findings

1. **A failed `realloc` loses the block** (`sizes_oom_layout`). `resizeOutOfLineStorage`
   (`sizes_and_strides.h:352-359`) stores the result of `realloc` before checking it. The old
   block leaks and the container keeps a size above 5 with a null pointer, contrary to the
   class comment's layout.
2. **A moved-from tensor is not empty for its copies** (`handles_moved_from`). `move_from`
   leaves rank 0 and `numel_` 0; `recompute_cpu_simd_alignment_state` gives rank 0 one
   element, so a copy of a moved-from tensor, or a view bound to it, has `size() == 1` and
   no element, although the documentation calls it empty. The other `handles_*` runs do not copy
   moved-from objects (`ReuseMoved = FALSE`).

## 6. Not modelled, and why

- `run_gpu` and `fill_gpu` as kernels: one element per thread, no sharing; they are operations in
  `GpuStreams`. `run_metal` and `fill_metal`: one synchronous dispatch of the emitter's kernel.
- `infer_expression_placement` and `validate_placement`: they compare devices; the models have one.
- `metal_reduce_simd_width`: asks the device once. `Reduction` takes a power of two, at least 2: with
  a width of 1 the loop over passes would not end.
- The numeric semantics of reductions and functors (NaN, rounding): data, not control.
- Printing, comparison and predicates of tensors: they read elements through `at`.
- `sizes_and_strides::operator==`: never called in the repository.
- Overflow of int64 in `slice` (`tensor.h:1423-1429`): the models' integers have no width there. The
  product in `recompute` was checked by the constructor of the tensor or view (`compute_shape_numel`).
- Macros, traits, build files, scripts, tests, third-party code.

## 7. Plan

Order of importance; the first nine are done, the last in part.

1. `StreamGuard` / `AmbientStream`, with proofs.
2. `SizesAndStrides` / `DimArrays`.
3. `StridedLayout`, `Overlap`, `OverlapCheck`.
4. `PlannedAssign` / `ElementwiseAssign`.
5. `ContiguousSweep`, with proofs.
6. `TensorHandles` / `NdArrays`.
7. `Reduction`, `CpuReduce`: the block tree with barriers, grid strides, passes, partial buffers on
   every path, Metal's temporary; count batches; the strided walk (`reduce_strided`).
8. `MetalFuse`: the emitter and its slots.
9. `GpuStreams`: streams, recording and the allocator.
10. Layout arithmetic at integer width: `slice`, `expand`, `compute_shape_numel`, `recompute`.
11. Proofs: `StreamGuard`, `SizesAndStrides`, `ContiguousSweep`, `Reduction`, `GpuStreams`, layouts, the
    verdicts of `classify_overlap`, `PlannedAssign` and the safety of `TensorHandles` are done; left is
    the refinement of `NdArrays`.
