----------------------------- MODULE Reduction -----------------------------
(***************************************************************************)
(* One whole-tensor reduction.  On a GPU: reduce_gpu, reduce_gpu_partials  *)
(* (include/expressions/expressions_evaluator_gpu.h) on the host, and the  *)
(* kernels they launch.  The host only enqueues: it allocates and frees    *)
(* partial buffers while the kernels that use them may still have to run.  *)
(* On Metal (expressions_evaluator_metal.h) a dispatch waits for its       *)
(* kernel, whose SIMD groups need no scratch.  On the CPU nothing happens  *)
(* concurrently: CpuReduce has the loops, and what a value is.             *)
(*                                                                         *)
(* External: the stream runs its entries in order; the allocator hands out *)
(* at once, on one stream, what was freed on it; a launch, an allocation   *)
(* or a copy may be refused, by an error or a null pointer.  A Metal grid  *)
(* has one lane per input, lanes of a group are in lockstep, and a lane    *)
(* past the input has no value.                                            *)
(***************************************************************************)
EXTENDS CpuReduce, FiniteSets, Sequences

CONSTANTS Calls,     \* device, the size n to reduce, and: gpu_reduce_block_size,
                     \* _items_per_thread and _max_blocks; on Metal, the SIMD
                     \* width, the grid limit, whether the kernel folds the
                     \* expression (extended) or materializes it, whether that
                     \* is a tensor (leaf), and whether its fused kernel fits;
                     \* on the CPU, what CpuReduce says, whether the operands
                     \* are strided, and the largest count that a float lane
                     \* has exactly
          Buffers,   \* addresses the allocator can hand out
          None       \* no buffer

BlockSizes == {1, 2, 4, 8, 16, 32, 64, 128, 256, 512, 1024}
Widths == {2, 4, 8, 16, 32, 64}   \* of a SIMD group
ASSUME CallsAssumption ==
  \A c \in Calls :
    /\ c.n \in Nat
    /\ c.device \in {"gpu", "metal", "cpu"}
    /\ c.device = "gpu" => c.block \in BlockSizes /\ {c.items, c.maxBlocks} \subseteq Nat \ {0}
    /\ c.device = "metal" => /\ c.limit \in Nat /\ c.width \in Widths
                             /\ {c.extended, c.leaf, c.fits} \subseteq BOOLEAN
    /\ c.device = "cpu" => /\ {c.length, c.packet, c.batch} \subseteq Nat \ {0}
                           /\ {c.strided, c.count} \subseteq BOOLEAN
                           /\ c.exact \in Nat /\ c.batch <= c.exact
ASSUME NoneAssumption == None \notin Buffers

VARIABLES
  call,   \* the call that is made, one of Calls
  pc,     \* where the host is
  n,      \* inputs of the next kernel (of the expression, then of partials)
  buf,    \* the partials the next kernel reads; None before the first kernel
  next,   \* the partials it will write
  owned,  \* buffers allocated and not freed, as the host sees them
  mem,    \* contents of the buffers
  host,   \* T host: the copied result
  queue,  \* the stream: kernels and copies not finished, oldest first
  grid,   \* threads of the kernel that runs: [block -> [thread -> state]]
  smem    \* shared scratch of its blocks: [block -> [thread -> value]]
device == <<queue, grid, smem>>
vars == <<call, pc, n, buf, next, owned, mem, host, queue, grid, smem>>

\* Mutant: the grid is not capped.
Uncapped(m) ==
  LET tile == call.block * call.items
  IN  m \div tile + (IF m % tile # 0 THEN 1 ELSE 0)

gpu_reduce_blocks(m) ==
  LET tile == call.block * call.items
      blocks == m \div tile + (IF m % tile # 0 THEN 1 ELSE 0)
  IN  IF blocks < call.maxBlocks THEN blocks ELSE call.maxBlocks

Threads == 0 .. call.block - 1
ThreadState == [pc : {"sum", "barrier", "tree", "out", "done"}, stride : Nat]
HostState == {"allocate", "launch", "free", "sync", "returned", "thrown"}

Kernel(in, out, m) == [op |-> "kernel", in |-> in, out |-> out, n |-> m,
                       blocks |-> gpu_reduce_blocks(m)]

TypeOK ==
  /\ pc \in HostState /\ n \in Nat
  /\ {buf, next} \subseteq Buffers \cup {None} /\ owned \subseteq Buffers
  /\ \A e \in {queue[k] : k \in DOMAIN queue} :
       e.op = "kernel" =>
         e.blocks \in 1 .. call.maxBlocks /\ (e.in # None => e.n <= call.maxBlocks)
  /\ \A b \in DOMAIN grid : grid[b] \in [Threads -> ThreadState]
  /\ DOMAIN smem = DOMAIN grid

Init ==
  /\ call \in Calls /\ n = call.n
  /\ pc = IF n = 0 THEN "returned" ELSE "allocate"
  /\ buf = None /\ next = None /\ owned = {}
  /\ LET cells == IF call.device = "gpu" THEN call.maxBlocks ELSE n
     IN  mem = [a \in Buffers |-> [c \in 0 .. cells - 1 |-> {Poison}]]
  /\ host = {} /\ queue = <<>> /\ grid = <<>> /\ smem = <<>>
----------------------------------------------------------------------------
\* A check that throws leaves the function: nothing is freed.
Throw == pc' = "thrown" /\ UNCHANGED <<call, n, buf, next, owned, mem, host, grid, smem>>

\* The first kernel reads the expression, every later one partials while n > 1.
MorePasses == buf = None \/ n > 1

AllocatePartials ==
  /\ pc = "allocate" /\ MorePasses /\ call.device = "gpu"
  /\ \/ \E a \in Buffers \ owned :
          /\ next' = a /\ owned' = owned \cup {a} /\ pc' = "launch"
          /\ UNCHANGED <<call, n, buf, mem, host, device>>
     \/ Throw /\ UNCHANGED queue

\* An error that gpu_check_last_error reports may be this launch's, which then
\* enqueued nothing, or one that an earlier kernel left behind.
Launch ==
  /\ pc = "launch"
  /\ \/ /\ queue' = Append(queue, Kernel(buf, next, n)) /\ pc' = "free"
        /\ UNCHANGED <<call, n, buf, next, owned, mem, host, grid, smem>>
     \/ Throw /\ queue' \in {queue, Append(queue, Kernel(buf, next, n))}

\* Mutant: the partials just consumed are never freed.
KeepConsumed ==
  /\ pc = "free"
  /\ buf' = next /\ next' = None /\ n' = gpu_reduce_blocks(n) /\ pc' = "allocate"
  /\ UNCHANGED <<call, owned, mem, host, device>>

\* alloc_t::free(buf); buf = next; n = blocks.  The first kernel has no buf.
FreeConsumed ==
  /\ pc = "free"
  /\ owned' = owned \ {buf}
  /\ buf' = next /\ next' = None /\ n' = gpu_reduce_blocks(n) /\ pc' = "allocate"
  /\ UNCHANGED <<call, mem, host, device>>

CopyToHost ==
  /\ pc = "allocate" /\ ~MorePasses /\ call.device = "gpu"
  /\ \/ /\ queue' = Append(queue, [op |-> "copy", in |-> buf]) /\ pc' = "sync"
        /\ UNCHANGED <<call, n, buf, next, owned, mem, host, grid, smem>>
     \/ Throw /\ UNCHANGED queue

\* Mutant: the host does not wait for its stream.
ReturnAtOnce ==
  /\ pc = "sync"
  /\ owned' = owned \ {buf} /\ pc' = "returned"
  /\ UNCHANGED <<call, n, buf, next, mem, host, device>>

\* cudaStreamSynchronize; on the null stream the copy itself waits.
SynchronizeAndReturn ==
  /\ pc = "sync"
  /\ \/ /\ queue = <<>>
        /\ owned' = owned \ {buf} /\ pc' = "returned"
        /\ UNCHANGED <<call, n, buf, next, mem, host, device>>
     \/ Throw /\ UNCHANGED queue

----------------------------------------------------------------------------
(* Metal.                                                                  *)
Groups(m) == m \div call.width + (IF m % call.width # 0 THEN 1 ELSE 0)
MetalInput(i) == IF i >= n THEN {Poison} ELSE IF buf = None THEN {i} ELSE mem[buf][i]

\* The kernel of metal_reduce_source: what lane 0 of SIMD group g writes.  v
\* is the register of every lane after the level of the loop with this offset
\* (before the first, where the offset is the width or more).
SimdFold(g) ==
  LET active == IF n - g * call.width < call.width THEN n - g * call.width ELSE call.width
      v[offset \in Widths \cup {1}] ==
        [lane \in 0 .. call.width - 1 |->
           IF offset >= call.width THEN MetalInput(g * call.width + lane)
           ELSE IF lane + offset < active
           THEN Combine(v[2 * offset][lane], v[2 * offset][lane + offset])
           ELSE v[2 * offset][lane]]
  IN  v[1][0]

\* The buffers are RAII handles: an exception frees them.
MetalThrow ==
  /\ pc' = "thrown" /\ owned' = {}
  /\ UNCHANGED <<call, n, buf, next, mem, host, device>>

\* One dispatch; `current = std::move(next)` frees what it read.
MetalPass ==
  /\ pc = "allocate" /\ call.device = "metal" /\ call.extended /\ MorePasses
  /\ \/ /\ n <= call.limit /\ call.fits
        /\ \E a \in Buffers \ owned :
             /\ mem' = [mem EXCEPT ![a] = [c \in DOMAIN @ |-> IF c < Groups(n) THEN SimdFold(c) ELSE @[c]]]
             /\ buf' = a /\ owned' = {a}
        /\ n' = Groups(n)
        /\ UNCHANGED <<call, pc, next, host, device>>
     \/ MetalThrow

MetalReturn ==
  /\ pc = "allocate" /\ call.device = "metal" /\ call.extended /\ ~MorePasses
  /\ \/ /\ host' = mem[buf][0] /\ owned' = {} /\ pc' = "returned"
        /\ UNCHANGED <<call, n, buf, next, mem, device>>
     \/ MetalThrow

\* The memory after the fused kernel: lane i wrote value i of the expression.
Materialized(tmp) ==
  [mem EXCEPT ![tmp] = [i \in DOMAIN @ |-> IF i < n THEN MetalInput(i) ELSE @[i]]]

\* sum, min, max: a tensor is reduced in place; the values of an expression go
\* to tmp, which the library's kernels reduce (external: they combine all n
\* values).  tmp is a raw pointer: an exception of either dispatch leaves it
\* allocated.
MetalMaterialize ==
  /\ pc = "allocate" /\ call.device = "metal" /\ ~call.extended
  /\ \/ /\ call.leaf
        /\ host' = CombineAll([i \in 0 .. n - 1 |-> MetalInput(i)])
        /\ pc' = "returned" /\ UNCHANGED <<owned, mem>>
     \/ /\ ~call.leaf /\ call.fits
        /\ \E tmp \in Buffers :
             /\ mem' = Materialized(tmp)
             /\ \/ /\ host' = CombineAll([i \in 0 .. n - 1 |-> mem'[tmp][i]])
                   /\ pc' = "returned" /\ UNCHANGED owned
                \/ owned' = {tmp} /\ pc' = "thrown" /\ UNCHANGED host
     \/ /\ owned' \in {{}} \cup (IF call.leaf \/ ~call.fits THEN {} ELSE {{a} : a \in Buffers})
        /\ pc' = "thrown" /\ UNCHANGED <<host, mem>>
  /\ UNCHANGED <<call, n, buf, next, device>>

(* The CPU: reduce_strided takes strided operands, the blocks the others.  *)
CpuReturn ==
  /\ pc = "allocate" /\ call.device = "cpu"
  /\ host' = IF call.strided THEN reduce_strided(call) ELSE reduce_expression(call)
  /\ pc' = "returned"
  /\ UNCHANGED <<call, n, buf, next, owned, mem, device>>

Host ==
  \/ AllocatePartials \/ Launch \/ FreeConsumed \/ CopyToHost \/ SynchronizeAndReturn
  \/ MetalPass \/ MetalReturn \/ MetalMaterialize \/ CpuReturn
----------------------------------------------------------------------------
Running == grid # <<>>
kernel == Head(queue)

\* The stream starts its oldest entry.
StartKernel ==
  /\ ~Running /\ queue # <<>> /\ kernel.op = "kernel"
  /\ grid' = [b \in 0 .. kernel.blocks - 1 |-> [t \in Threads |->
                [pc |-> "sum", stride |-> call.block]]]
  /\ smem' = [b \in 0 .. kernel.blocks - 1 |-> [t \in Threads |-> {Poison}]]
  /\ UNCHANGED <<call, pc, n, buf, next, owned, mem, host, queue>>

RunCopy ==
  /\ ~Running /\ queue # <<>> /\ kernel.op = "copy"
  /\ host' = mem[kernel.in][0] /\ queue' = Tail(queue)
  /\ UNCHANGED <<call, pc, n, buf, next, owned, mem, grid, smem>>

DeviceOnly == UNCHANGED <<call, pc, n, buf, next, owned, host, queue>>

Input(i) == IF kernel.in = None THEN {i} ELSE mem[kernel.in][i]

First(b, t) == b * call.block + t

\* The indices of the grid-stride loop of one thread.
Indices(b, t) ==
  {i \in First(b, t) .. kernel.n - 1 : (i - First(b, t)) % (kernel.blocks * call.block) = 0}

\* The loop of the expr and buf kernels, which only this thread's registers
\* see, and the store of its result: gpu_reduce_block up to the barrier.
Accumulate(b, t) ==
  /\ grid[b][t].pc = "sum"
  /\ smem' = [smem EXCEPT ![b][t] =
                CombineAll([i \in Indices(b, t) |-> Input(i)])]
  /\ grid' = [grid EXCEPT ![b][t] = [pc |-> "barrier", stride |-> call.block]]
  /\ DeviceOnly /\ UNCHANGED mem

\* The loop header that follows a barrier: at stride 0, thread 0 writes the
\* partial and the others have nothing left to do.
AfterBarrier(s, t) ==
  IF s > 0 THEN "tree" ELSE IF t = 0 THEN "out" ELSE "done"

\* __syncthreads: nobody leaves before everybody has arrived.
Barrier(b) ==
  /\ \A t \in Threads : grid[b][t].pc = "barrier"
  /\ grid' = [grid EXCEPT ![b] = [t \in Threads |->
                LET s == @[t].stride \div 2
                IN  [stride |-> s, pc |-> AfterBarrier(s, t)]]]
  /\ DeviceOnly /\ UNCHANGED <<smem, mem>>

\* Mutant: the tree has no barrier between two levels.
TreeWithoutBarrier(b, t) ==
  LET s == grid[b][t].stride
  IN  /\ grid[b][t].pc = "tree"
      /\ smem' = IF t < s THEN [smem EXCEPT ![b][t] = Combine(@, smem[b][t + s])] ELSE smem
      /\ grid' = [grid EXCEPT ![b][t].stride = s \div 2,
                              ![b][t].pc = AfterBarrier(s \div 2, t)]
      /\ DeviceOnly /\ UNCHANGED mem

\* Mutant: the barrier sits inside the if, so idle threads run ahead of it.
BarrierInsideIf(b, t) ==
  LET s == grid[b][t].stride
  IN  /\ grid[b][t].pc = "tree"
      /\ smem' = IF t < s THEN [smem EXCEPT ![b][t] = Combine(@, smem[b][t + s])] ELSE smem
      /\ grid' = IF t < s THEN [grid EXCEPT ![b][t].pc = "barrier"]
                 ELSE [grid EXCEPT ![b][t].stride = s \div 2, ![b][t].pc = AfterBarrier(s \div 2, t)]
      /\ DeviceOnly /\ UNCHANGED mem

TreeLevel(b, t) ==
  LET s == grid[b][t].stride
  IN  /\ grid[b][t].pc = "tree"
      /\ smem' = IF t < s THEN [smem EXCEPT ![b][t] = Combine(@, smem[b][t + s])] ELSE smem
      /\ grid' = [grid EXCEPT ![b][t].pc = "barrier"]
      /\ DeviceOnly /\ UNCHANGED mem

WritePartial(b, t) ==
  /\ grid[b][t].pc = "out"
  /\ mem' = [mem EXCEPT ![kernel.out][b] = smem[b][0]]
  /\ grid' = [grid EXCEPT ![b][t].pc = "done"]
  /\ DeviceOnly /\ UNCHANGED smem

FinishKernel ==
  /\ Running /\ \A b \in DOMAIN grid, t \in Threads : grid[b][t].pc = "done"
  /\ queue' = Tail(queue) /\ grid' = <<>> /\ smem' = <<>>
  /\ UNCHANGED <<call, pc, n, buf, next, owned, mem, host>>

Device ==
  \/ StartKernel \/ RunCopy \/ FinishKernel
  \/ \E b \in DOMAIN grid :
       \/ Barrier(b)
       \/ \E t \in Threads :
            Accumulate(b, t) \/ TreeLevel(b, t) \/ WritePartial(b, t)

\* The call is over and its stream is idle.
Over ==
  /\ pc \in {"returned", "thrown"} /\ queue = <<>>
  /\ UNCHANGED vars

Next == Host \/ Device \/ Over

\* The host thread runs, and the device makes progress as long as any of its
\* threads can.
Spec == Init /\ [][Next]_vars /\ WF_vars(Host) /\ WF_vars(Device)
----------------------------------------------------------------------------
(* What a reduction returns has every element of the expression folded in  *)
(* exactly once and nothing else: blocks, registers and tails on the CPU;  *)
(* on a GPU grid strides under a capped grid, trees over partly filled     *)
(* blocks or SIMD groups, passes over partials, buffers reused while       *)
(* kernels are in flight, and the wait for the copy.                       *)
ReducesOnce == pc = "returned" => host = 0 .. call.n - 1

(* Between two barriers no thread of a block writes a cell of the scratch  *)
(* that another reads or writes (gpu_reduce_block would otherwise be a     *)
(* data race, whatever order the steps happen to take).                    *)
Touched(b, t) ==
  LET th == grid[b][t]
  IN  IF th.pc = "sum" THEN {t}
      ELSE IF th.pc = "tree" /\ t < th.stride THEN {t, t + th.stride}
      ELSE IF th.pc = "out" THEN {0} ELSE {}
Written(b, t) == IF grid[b][t].pc = "out" THEN {} ELSE Touched(b, t) \cap {t}
NoScratchRace ==
  \A b \in DOMAIN grid : \A t, u \in Threads :
    t # u => Written(b, t) \cap Touched(b, u) = {}

(* Memory in use stays bounded: at most two partial buffers at any time,   *)
(* however many passes and whatever fails, and none when the call returns, *)
(* or throws where the buffers are RAII handles.                           *)
PartialsBounded ==
  /\ Cardinality(owned) <= 2
  /\ (pc = "returned" \/ (pc = "thrown" /\ call.device = "metal" /\ call.extended)) => owned = {}

(* Counts stay exact in the float lanes of a register: "never sum a large  *)
(* count in float" (reduce_expression), whatever the size and the number   *)
(* of accumulators.                                                        *)
CountsExact ==
  call.device = "cpu" /\ call.count =>
    \A begin \in Batches(call), k \in 0 .. call.packet - 1, lane \in 0 .. call.length - 1 :
      Cardinality(Lane(call, begin, k, lane)) <= call.exact

(* No block waits at a barrier for ever, the passes shrink to one partial, *)
(* and the host gets its answer or an error.                               *)
Terminates == <>(pc \in {"returned", "thrown"} /\ queue = <<>>)
=============================================================================
