---------------------------- MODULE PlannedAssign ----------------------------
(***************************************************************************)
(* dst = expr on the CPU for strided or broadcast operands: the checks of  *)
(* tensor::assign and expressions_evaluator::run_lowered, the iteration    *)
(* plan of include/expressions/iteration_plan.h, and its rows run by the   *)
(* workers of parallel_for.  The expression is uninterpreted: an element's *)
(* value is the sequence of its operands' values.  Views are layouts of    *)
(* one-byte elements in one memory.                                        *)
(***************************************************************************)
EXTENDS Overlap

CONSTANTS Assignments,  \* [dst, leaves]: the assignments tried
          Memory,       \* the addresses
          Workers,      \* threads of parallel_for
          Length,       \* lanes of a SIMD register
          GrainSize,    \* kGrainSize: elements below which one thread runs
          MaxOperands   \* kMaxOperands: destination and leaves of a plan

ASSUME SizesAssumption == {Length, GrainSize, MaxOperands} \subseteq Nat \ {0}
ASSUME MemoryAssumption == Memory \subseteq Nat \ {nullptr}
\* Views that passed check_view_geometry: no negative stride, null only
\* without elements, every element in memory; all on one device.
ViewsOf(x) == {x.dst} \cup {x.leaves[k] : k \in 1 .. Len(x.leaves)}
ASSUME AssignmentsAssumption ==
  \A x \in Assignments :
    /\ x.leaves \in Seq(ViewsOf(x))
    /\ \A l \in ViewsOf(x) :
         /\ l.data \in Nat /\ l.bytes = 1 /\ l.device = x.dst.device
         /\ l.sizes \in Seq(Nat) /\ l.strides \in Seq(Nat) /\ Len(l.sizes) = Len(l.strides)
         /\ l.data = nullptr => numel(l) = 0
         /\ {l.data + o : o \in Offsets(l)} \subseteq Memory

VARIABLES
  dst, leaves,  \* the assignment
  target,       \* ghost: the value each element must get, none if rejected
  mem,          \* address -> value
  pc,           \* "assign", "rows", "done", "flat", or why it was rejected
  plan,         \* [axes, tier]
  pending,      \* first rows of the chunks no worker took yet
  running       \* worker -> the chunk it runs, or Idle
vars == <<dst, leaves, target, mem, pc, plan, pending, running>>

Operands == <<dst>> \o leaves
Ops == 1 .. Len(leaves) + 1     \* operand 1 is the destination
Idle == [row |-> 0, end |-> 0, coord |-> <<>>, offsets |-> <<>>, i |-> 0]
NoPlan == [axes |-> <<>>, tier |-> 0]

----------------------------------------------------------------------------
(* The plan: axes are [size, strides], strides one per operand. *)

\* dim_outer_than: by the destination's stride, then the sources' in turn.
dim_outer_than(x, y) ==
  \E op \in 1 .. Len(x.strides) :
    /\ x.strides[op] > y.strides[op]
    /\ \A k \in 1 .. op - 1 : x.strides[k] = y.strides[k]

\* One round of the stable insertion sort: x moves before the axes at the
\* end that it is outer than.
Insert(sorted, x) ==
  LET stop == {k \in 1 .. Len(sorted) : ~dim_outer_than(x, sorted[k])}
      at == IF stop = {} THEN 0 ELSE CHOOSE k \in stop : \A j \in stop : j <= k
  IN  SubSeq(sorted, 1, at) \o <<x>> \o SubSeq(sorted, at + 1, Len(sorted))

\* Mutant: neighbours merge when only the destination is adjacent.
MergeableByDst(outer, x) == outer.strides[1] = x.strides[1] * x.size

Mergeable(outer, x) ==
  \A op \in 1 .. Len(x.strides) : outer.strides[op] = x.strides[op] * x.size

Merge(merged, x) ==
  LET outer == Last(merged)
  IN  IF merged # <<>> /\ Mergeable(outer, x)
      THEN Front(merged) \o <<[size |-> outer.size * x.size, strides |-> x.strides]>>
      ELSE Append(merged, x)

Tier(axes) ==
  LET inner == Last(axes).strides
      all_unit == \A op \in 1 .. Len(inner) : inner[op] = 1
      sources_simd == \A op \in 2 .. Len(inner) : inner[op] \in {0, 1}
  IN  IF all_unit THEN IF Len(axes) = 1 THEN 0 ELSE 1
      ELSE IF inner[1] = 1 /\ sources_simd THEN 2 ELSE 3

\* The dimensions of more than one element, sorted; neighbours merged.
Sorted(axes) ==
  LET upTo[d \in 0 .. Len(axes)] ==
        IF d = 0 THEN <<>>
        ELSE IF axes[d].size = 1 THEN upTo[d - 1] ELSE Insert(upTo[d - 1], axes[d])
  IN  upTo[Len(axes)]
Merged(sorted) ==
  LET upTo[k \in 0 .. Len(sorted)] == IF k = 0 THEN <<>> ELSE Merge(upTo[k - 1], sorted[k])
  IN  upTo[Len(sorted)]

sort_merge_classify(axes) ==
  LET sorted == Sorted(axes)
      merged == Merged(sorted)
  IN  IF sorted = <<>>
      THEN [axes |-> <<[size |-> 1, strides |-> [op \in Ops |-> 0]]>>, tier |-> 3]
      ELSE [axes |-> merged, tier |-> Tier(merged)]

\* make_iteration_plan; the destination drops its size-1 strides as the
\* leaves do (plan_leaves).
make_iteration_plan ==
  LET strides(op) == broadcast_strides(dst.sizes, Operands[op])
  IN  sort_merge_classify([d \in 1 .. rank(dst) |->
        [size |-> dst.sizes[d], strides |-> [op \in Ops |-> strides(op)[d]]]])

Outer == Front(plan.axes)
Inner == Last(plan.axes)
row_size == Inner.size
rows == numel(dst) \div row_size
\* run_planned: one chunk, or chunks of at least a grain of elements.
RowGrain(p) ==
  LET n == Last(p.axes).size
      all == numel(dst) \div n
  IN  IF numel(dst) < GrainSize \/ all < 2 THEN all
      ELSE IF GrainSize \div n = 0 THEN 1 ELSE GrainSize \div n

\* Mutant: one more chunk starts where the rows end.
ChunksPastEnd(p) == {r \in 0 .. numel(dst) \div Last(p.axes).size : r % RowGrain(p) = 0}

\* The first rows of the chunks.
Chunks(p) == {r \in 0 .. (numel(dst) \div Last(p.axes).size) - 1 : r % RowGrain(p) = 0}
----------------------------------------------------------------------------
(* tensor::assign and run_lowered: the checks, in their order. *)
Flat == leaves_flat(leaves, numel(dst)) /\ Contiguous(dst)

\* Mutant: the destination is not validated.
NotValidated == TRUE

validate_destination == is_non_overlapping(dst)

check_result_shape == result_shape(leaves) = dst.sizes

Verdict ==
  IF ~validate_destination THEN "unproven destination"
  ELSE IF ~assignment_allowed(dst, leaves, FALSE, FALSE) THEN "overlap"
  ELSE IF ~check_result_shape THEN "shape"
  ELSE IF Flat THEN "flat"
  ELSE IF numel(dst) # 0 /\ \E d \in 1 .. rank(dst) : dst.strides[d] = 0 /\ dst.sizes[d] > 1
  THEN "stride 0"
  ELSE IF Len(Operands) > MaxOperands THEN "operands"
  ELSE IF numel(dst) = 0 THEN "done"
  ELSE "rows"

(***************************************************************************)
(* The values the assignment must store, from the reference definitions:   *)
(* element i of the destination gets the i-th elements of the leaves       *)
(* broadcast to its shape, as they were before.                            *)
(***************************************************************************)
Old(x) == <<x>>
Apply(values) ==
  LET upTo[k \in 0 .. Len(values)] == IF k = 0 THEN <<0>> ELSE upTo[k - 1] \o values[k]
  IN  upTo[Len(values)]
Target ==
  [x \in {dst.data + o : o \in Offsets(dst)} |->
     LET i == CHOOSE j \in 0 .. numel(dst) - 1 : dst.data + ElementOffset(dst, j) = x
     IN  Apply([k \in 1 .. Len(leaves) |->
           Old(leaves[k].data + ElementOffset(rebase(leaves[k], dst.sizes), i))])]

Init ==
  /\ \E x \in Assignments : dst = x.dst /\ leaves = x.leaves
  /\ mem = [x \in Memory |-> Old(x)]
  /\ target = IF Verdict \in {"rows", "done"} THEN Target ELSE <<>>
  /\ pc = "assign"
  /\ plan = NoPlan
  /\ pending = {}
  /\ running = [w \in Workers |-> Idle]
Assign ==
  /\ pc = "assign"
  /\ pc' = Verdict
  /\ IF Verdict = "rows"
     THEN LET p == make_iteration_plan
          IN  plan' = p /\ pending' = Chunks(p)
     ELSE UNCHANGED <<plan, pending>>
  /\ UNCHANGED <<dst, leaves, target, mem, running>>

(* loop2d: the outer coordinates of a chunk's first row, by division.      *)
FirstRow(row) ==
  LET from[d \in 1 .. Len(Outer) + 1] ==
        IF d > Len(Outer)
        THEN [rem |-> row, coord |-> [e \in 1 .. Len(Outer) |-> 0], offsets |-> [op \in Ops |-> 0]]
        ELSE LET acc == from[d + 1]
                 c == acc.rem % Outer[d].size
             IN  [rem |-> acc.rem \div Outer[d].size,
                  coord |-> [acc.coord EXCEPT ![d] = c],
                  offsets |-> [op \in Ops |-> acc.offsets[op] + c * Outer[d].strides[op]]]
  IN  from[1]

TakeChunk(w) ==
  /\ pc = "rows" /\ running[w] = Idle
  /\ \E begin \in pending :
       LET first == FirstRow(begin)
           end == IF begin + RowGrain(plan) < rows THEN begin + RowGrain(plan) ELSE rows
       IN  /\ pending' = pending \ {begin}
           /\ running' = [running EXCEPT ![w] =
                [row |-> begin, end |-> end, coord |-> first.coord,
                 offsets |-> first.offsets, i |-> 0]]
  /\ UNCHANGED <<dst, leaves, target, mem, pc, plan>>

Moved(offsets, x, n) == [op \in Ops |-> offsets[op] + n * x.strides[op]]

\* Mutant: a carry does not rewind the offsets of the dimension it leaves.
CarryWithoutRewind(acc, d) ==
  LET up == acc.coord[d] + 1
  IN  [carry |-> up = Outer[d].size,
       coord |-> [acc.coord EXCEPT ![d] = IF up = Outer[d].size THEN 0 ELSE up],
       offsets |-> Moved(acc.offsets, Outer[d], 1)]

\* The counter step in outer dimension d; the next one follows on a carry.
CounterStep(acc, d) ==
  LET up == acc.coord[d] + 1
      moved == Moved(acc.offsets, Outer[d], 1)
  IN  IF up < Outer[d].size
      THEN [carry |-> FALSE, coord |-> [acc.coord EXCEPT ![d] = up], offsets |-> moved]
      ELSE [carry |-> TRUE, coord |-> [acc.coord EXCEPT ![d] = 0],
            offsets |-> Moved(moved, Outer[d], -up)]

\* To the next row, from the innermost outer dimension.
StepCounter(c) ==
  LET from[d \in 1 .. Len(Outer) + 1] ==
        IF d > Len(Outer) THEN [carry |-> TRUE, coord |-> c.coord, offsets |-> c.offsets]
        ELSE IF from[d + 1].carry THEN CounterStep(from[d + 1], d) ELSE from[d + 1]
  IN  from[1]

(* loop_row: SIMD blocks of Length while they fit in tiers 0 to 2, then    *)
(* scalars; all loads of a block precede its store.  A SIMD load of a leaf *)
(* is a splat for stride 0 and a unit-stride load otherwise.               *)
Block(c) == IF plan.tier <= 2 /\ c.i + Length <= row_size THEN Length ELSE 1

Load(op, c, lane) ==
  LET ptr == Operands[op].data + c.offsets[op]
      s == Inner.strides[op]
  IN  IF Block(c) = 1 THEN mem[ptr + (c.i + lane) * s]
      ELSE IF s = 0 THEN mem[ptr] ELSE mem[ptr + c.i + lane]

Store(c, lane) ==
  dst.data + c.offsets[1] + (IF plan.tier <= 2 THEN c.i + lane ELSE c.i * Inner.strides[1])

RunBlock(w) ==
  LET c == running[w]
      n == Block(c)
      written == {Store(c, lane) : lane \in 0 .. n - 1}
      value(x) == LET lane == CHOOSE l \in 0 .. n - 1 : Store(c, l) = x
                  IN  Apply([k \in 1 .. Len(leaves) |-> Load(k + 1, c, lane)])
      next == StepCounter(c)
  IN  /\ pc = "rows" /\ c # Idle
      /\ mem' = [x \in Memory |-> IF x \in written THEN value(x) ELSE mem[x]]
      /\ running' = [running EXCEPT ![w] =
           IF c.i + n < row_size THEN [c EXCEPT !.i = @ + n]
           ELSE IF c.row + 1 < c.end
           THEN [c EXCEPT !.i = 0, !.row = @ + 1, !.coord = next.coord, !.offsets = next.offsets]
           ELSE Idle]
      /\ UNCHANGED <<dst, leaves, target, pc, plan, pending>>

\* parallel_for returns when every chunk has run.
Join ==
  /\ pc = "rows" /\ pending = {} /\ \A w \in Workers : running[w] = Idle
  /\ pc' = "done"
  /\ UNCHANGED <<dst, leaves, target, mem, plan, pending, running>>

Returned == pc \notin {"assign", "rows"} /\ UNCHANGED vars

Next == Assign \/ (\E w \in Workers : TakeChunk(w) \/ RunBlock(w)) \/ Join \/ Returned

Spec == Init /\ [][Next]_vars
----------------------------------------------------------------------------
TypeOK ==
  /\ mem \in [Memory -> Seq(Memory \cup {0})]
  /\ pc = "rows" => pending \subseteq 0 .. rows - 1
  /\ plan.tier \in 0 .. 3
  /\ \A w \in Workers : Len(running[w].coord) = (IF running[w] = Idle THEN 0 ELSE Len(Outer))

(* When an accepted assignment returns, memory is the elementwise result   *)
(* and nothing else changed, whatever the strides, the broadcasting, the   *)
(* aliasing the overlap check let through, and the workers' interleaving.  *)
ElementwiseResult ==
  pc = "done" => mem = [x \in Memory |-> IF x \in DOMAIN target THEN target[x] ELSE Old(x)]

(* The planner's own stride-0 check never fires: validate_destination has  *)
(* already rejected every such destination.                                *)
PlannerCheckRedundant == pc # "stride 0"

(* On the way there, each element is written once, with its final value:   *)
(* no worker reads an element another one overwrote, and "chunks never     *)
(* share a destination row".                                               *)
Elementwise == INSTANCE ElementwiseAssign WITH memory <- mem
ImplementsElementwise == Elementwise!Spec
=============================================================================
