--------------------------- MODULE ContiguousSweep ---------------------------
(***************************************************************************)
(* The SIMD loops over a packed tensor (include/expressions/               *)
(* expressions_evaluator.h): run_lowered's contiguous path, its parallel   *)
(* chunks (run_chunk_contiguous), fill, and the reductions accumulate,     *)
(* hmin and hmax, between the peeling bounds that                          *)
(* tensor::recompute_cpu_simd_alignment_state caches.  Elements are        *)
(* indices; count[j] is how often element j was stored or folded in.       *)
(***************************************************************************)
EXTENDS Integers

CONSTANTS Length,    \* lanes of a SIMD register (simd<value_t>::size)
          Align,     \* simd_align_size: elements in alignof(simd_t)
          Packet,    \* VECTORIZATION_PACKET_SIZE
          GrainSize, \* kGrainSize
          SizeMod,   \* size_t counts modulo this
          MaxSize,   \* bound: elements of the tensor
          Addresses, \* where the tensor may start, in elements
          Workers    \* threads of parallel_for

ASSUME LanesAssumption ==
  /\ {Length, Align, Packet, GrainSize} \subseteq Nat \ {0}
  /\ Length % Align = 0
ASSUME SizeAssumption ==
  MaxSize \in Nat /\ SizeMod \in Nat /\ MaxSize < SizeMod /\ Addresses \subseteq Nat
ASSUME WorkersAssumption == "main" \notin Workers

Threads == Workers \cup {"main"}
Ops == {"run", "fill", "reduce", "reduce_expression"}
Loops == {"idle", "peel", "aligned blocks", "aligned", "blocks", "vectors", "scalars"}

VARIABLES
  op, n,     \* the operation and numel_
  base, odd, \* the address in elements; TRUE: not a multiple of sizeof(T)
  pc,        \* "serial", "parallel" or "done"
  next,      \* parallel: the first element no chunk holds
  task,      \* thread -> its loop over [i, limit), in a range from begin to end
  count,     \* element -> times stored or folded in
  slot       \* element -> where it is: -1 nowhere, 0 the destination or the
             \* scalar result, 1 .. Packet the SIMD accumulators
vars == <<op, n, base, odd, pc, next, task, count, slot>>

Elements == 0 .. n - 1
Idle == [loop |-> "idle", i |-> 0, limit |-> 0, begin |-> 0, end |-> 0]

minus(x, y) == IF x >= y THEN x - y ELSE x - y + SizeMod
RoundDown(x, step) == (x \div step) * step
BlockSize == Length * Packet

\* Mutant: an address inside an element counts as the element's.
IgnoresOdd ==
  LET first == (Align - (base % Align)) % Align
  IN  IF first < n THEN first ELSE n

\* first_aligned and last_aligned.  No scalar is as large as the allocator's
\* alignment (16 or 64 bytes), so the early return for alignment_size <= 1 is
\* never compiled in.
align_start ==
  LET first == (Align - (base % Align)) % Align
  IN  IF odd THEN n ELSE IF first < n THEN first ELSE n
align_end == align_start + RoundDown(minus(n, align_start), Length)
----------------------------------------------------------------------------
(* The loops: what one iteration takes, and the loop after it.             *)
Step(loop) ==
  IF loop \in {"peel", "scalars"} THEN 1
  ELSE IF loop \in {"aligned", "vectors"} THEN Length ELSE BlockSize

Enter(t, loop, limit) == [t EXCEPT !.loop = loop, !.limit = limit]

\* Whole registers of the unaligned section, and its blocks: of the range in
\* run_chunk_contiguous, of its whole registers elsewhere.
VectorsEnd(t) == t.begin + RoundDown(minus(t.end, t.begin), Length)
BlocksEnd(t) ==
  t.begin + RoundDown(IF pc = "parallel" THEN minus(t.end, t.begin)
                      ELSE minus(VectorsEnd(t), t.begin), BlockSize)

\* The unaligned section starts at t.i; fill has no blocks.
Unaligned(t) ==
  LET u == [t EXCEPT !.begin = t.i]
  IN  IF op = "fill" THEN Enter(u, "vectors", VectorsEnd(u)) ELSE Enter(u, "blocks", BlocksEnd(u))

AfterPeel(t) ==
  IF op = "fill" THEN Enter(t, "aligned", align_end)
  ELSE Enter(t, "aligned blocks", t.i + RoundDown(minus(align_end, t.i), BlockSize))

\* reduce skips the SIMD section when the peel took everything.
After(t) ==
  CASE t.loop = "peel" /\ op = "reduce" /\ t.i >= n -> Enter(t, "scalars", t.end)
    [] t.loop = "peel" /\ ~(op = "reduce" /\ t.i >= n) -> AfterPeel(t)
    [] t.loop = "aligned blocks" -> Enter(t, "aligned", align_end)
    [] t.loop = "aligned" -> Unaligned(t)
    [] t.loop = "blocks" -> Enter(t, "vectors", VectorsEnd(t))
    [] t.loop = "vectors" -> Enter(t, "scalars", t.end)
    [] t.loop = "scalars" -> Idle

First == [Idle EXCEPT !.end = n]

Init ==
  /\ op \in Ops /\ n \in 0 .. MaxSize /\ base \in Addresses /\ odd \in BOOLEAN
  /\ pc = "serial" /\ next = n
  /\ task = [w \in Threads |->
       IF w # "main" THEN Idle
       ELSE IF op = "reduce_expression" THEN Unaligned(First)
       ELSE Enter(First, "peel", align_start)]
  /\ count = [j \in Elements |-> 0]
  /\ slot = [j \in Elements |-> -1]

\* Mutant: one accumulator too far.
LaneOffByOne(t, j) ==
  IF op \in {"run", "fill"} \/ t.loop \in {"peel", "scalars"} THEN 0
  ELSE 2 + (j - t.i) \div Length

\* Where a reduction's iteration adds element j.
Lane(t, j) ==
  IF op \in {"run", "fill"} \/ t.loop \in {"peel", "scalars"} THEN 0
  ELSE 1 + (j - t.i) \div Length

\* One iteration of the loop a thread is in.
Iterate(w) ==
  LET t == task[w]
      taken == t.i .. t.i + Step(t.loop) - 1
  IN  /\ t.loop # "idle" /\ t.i < t.limit
      /\ count' = [j \in Elements |-> IF j \in taken THEN count[j] + 1 ELSE count[j]]
      /\ slot' = [j \in Elements |-> IF j \in taken THEN Lane(t, j) ELSE slot[j]]
      /\ task' = [task EXCEPT ![w].i = @ + Step(t.loop)]
      /\ UNCHANGED <<op, n, base, odd, pc, next>>

\* run returns when the peel took everything, and goes parallel from a grain.
Returns(t) == op = "run" /\ t.loop = "peel" /\ t.i >= n
GoesParallel(t) ==
  op = "run" /\ pc = "serial" /\ t.loop = "peel" /\ t.i < n /\ minus(n, t.i) >= GrainSize

\* Mutant: the accumulators after the first are not combined.
FirstPacketOnly(t) == [j \in Elements |-> IF slot[j] = 1 THEN 0 ELSE slot[j]]

\* The SIMD accumulators are combined and added to the scalar result.
Combined(t) ==
  IF t.loop = "vectors" THEN [j \in Elements |-> IF slot[j] > 0 THEN 0 ELSE slot[j]] ELSE slot

Leave(w) ==
  LET t == task[w]
      u == IF Returns(t) THEN Idle ELSE After(t)
  IN  /\ t.loop # "idle" /\ t.i >= t.limit /\ ~GoesParallel(t)
      /\ task' = [task EXCEPT ![w] = u]
      /\ pc' = IF pc = "serial" /\ u = Idle THEN "done" ELSE pc
      /\ slot' = Combined(t)
      /\ UNCHANGED <<op, n, base, odd, next, count>>

GoParallel ==
  LET t == task["main"]
  IN  /\ t.loop # "idle" /\ t.i >= t.limit /\ GoesParallel(t)
      /\ pc' = "parallel" /\ next' = t.i
      /\ task' = [task EXCEPT !["main"] = Idle]
      /\ UNCHANGED <<op, n, base, odd, count, slot>>

(* parallel_for, external: consecutive chunks of at least a grain, or the  *)
(* rest, each run once by some thread.                                     *)
TakeChunk(w) ==
  /\ pc = "parallel" /\ task[w].loop = "idle" /\ next < n
  /\ \E end \in next + 1 .. n :
       /\ end - next >= GrainSize \/ end = n
       /\ next' = end
       /\ task' = [task EXCEPT ![w] = Unaligned([Idle EXCEPT !.i = next, !.end = end])]
  /\ UNCHANGED <<op, n, base, odd, pc, count, slot>>

Join ==
  /\ pc = "parallel" /\ next >= n /\ \A w \in Threads : task[w].loop = "idle"
  /\ pc' = "done"
  /\ UNCHANGED <<op, n, base, odd, next, task, count, slot>>

Returned == pc = "done" /\ UNCHANGED vars

Next ==
  \/ \E w \in Threads : Iterate(w) \/ Leave(w) \/ TakeChunk(w)
  \/ GoParallel \/ Join \/ Returned

Spec == Init /\ [][Next]_vars
----------------------------------------------------------------------------
TaskType == [loop : Loops, i : Nat, limit : Nat, begin : Nat, end : Nat]
TypeOK ==
  /\ op \in Ops /\ n \in 0 .. MaxSize /\ base \in Addresses /\ odd \in BOOLEAN
  /\ pc \in {"serial", "parallel", "done"}
  /\ next \in Nat
  /\ task \in [Threads -> TaskType]
  /\ count \in [Elements -> Nat]
  /\ slot \in [Elements -> -1 .. Packet]

(* However peel, blocks, registers, scalars and parallel chunks divide the *)
(* tensor, no element is stored or folded in twice, and when the call      *)
(* returns every element was, into the destination or the result.          *)
OnceEach ==
  /\ \A j \in Elements : count[j] <= 1
  /\ pc = "done" => \A j \in Elements : count[j] = 1 /\ slot[j] = 0

(* Every iteration stays inside the tensor, and a load or a store with     *)
(* alignment ("keeps vmovaps stores correctly aligned") has an address     *)
(* that is a multiple of the register's alignment.                         *)
AccessesLegal ==
  \A w \in Threads :
    LET t == task[w]
    IN  t.loop # "idle" /\ t.i < t.limit =>
          /\ t.i + Step(t.loop) <= n
          /\ t.loop \in {"aligned blocks", "aligned"} => ~odd /\ (base + t.i) % Align = 0
=============================================================================
