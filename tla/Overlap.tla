------------------------------- MODULE Overlap -------------------------------
(***************************************************************************)
(* Aliasing of a destination and a source (include/expressions/overlap.h): *)
(* classify_overlap's range, GCD and carry-interval tests on two views.    *)
(* A view is a StridedLayout with a device and an element type.            *)
(***************************************************************************)
EXTENDS StridedLayout

CONSTANT Int64Max     \* INT64_MAX; Int64Min is -Int64Max - 1
ASSUME Int64Assumption == Int64Max \in Nat \ {0}
Int64Min == -Int64Max - 1

nullptr == 0
none == "none"
full == "full"
partial == "partial"
too_hard == "too_hard"

\* Dimensions of more than one element; those that the sort by stride puts
\* inside one of them; all of them in that order.
Axes(l) == {d \in 1 .. rank(l) : l.sizes[d] > 1}
Inside(l, d) ==
  {e \in Axes(l) : l.strides[e] < l.strides[d] \/ (l.strides[e] = l.strides[d] /\ e < d)}
Axis(l, k) == CHOOSE d \in Axes(l) : Cardinality(Inside(l, d)) = k - 1
overlap_axes(l) ==
  [k \in 1 .. Cardinality(Axes(l)) |->
     [size |-> l.sizes[Axis(l, k)], stride |-> l.strides[Axis(l, k)]]]

\* The offset of the last element.
overlap_extent(l) == Sum([d \in 1 .. rank(l) |-> (l.sizes[d] - 1) * l.strides[d]], rank(l))

\* The extent of the dimensions inside this one.
Extent(l, d) ==
  Sum([e \in 1 .. rank(l) |-> IF e \in Inside(l, d) THEN (l.sizes[e] - 1) * l.strides[e] ELSE 0],
      rank(l))

\* Mutant: a stride equal to the inner extent, 0 at first, is accepted.
NonOverlappingTouching(l) ==
  \/ numel(l) = 0
  \/ \A d \in 1 .. rank(l) :
       l.sizes[d] > 1 => l.strides[d] >= 0 /\ l.strides[d] >= Extent(l, d)

\* Mutant: dimensions of size 1 take part.
UnitAxesCount(l) ==
  \/ numel(l) = 0
  \/ \A d \in 1 .. rank(l) : l.strides[d] > 0 /\ l.strides[d] > Extent(l, d)

(* Also tensor's cached non_overlapping_: every stride exceeds the extent  *)
(* of the dimensions inside it.                                            *)
is_non_overlapping(l) ==
  \/ numel(l) = 0
  \/ \A d \in 1 .. rank(l) :
       l.sizes[d] > 1 => l.strides[d] > 0 /\ l.strides[d] > Extent(l, d)

\* std::gcd of the strides of some axes; 0 when there is none.
GcdOf(strides) ==
  LET common(g) == \A s \in strides : s % g = 0
      least == Min(strides \ {0})
  IN  IF strides \subseteq {0} THEN 0 ELSE Max({g \in 1 .. least : common(g)})
StridesOf(axes) == {axes[d].stride : d \in 1 .. Len(axes)}

\* C++ division truncates; these round to the next integer below and above.
floor_div(n, d) == n \div d

\* Mutant: the lower bound of the carry is rounded down.
FlooredCeil(n, d) == n \div d

ceil_div(n, d) == -((-n) \div d)

\* Mutant: the lower coefficient bound is taken as 0 (a greedy decomposition).
GreedyBounds(ax, bx, d) == [lower |-> 0, upper |-> ax[d].size - 1]

(* The loop over the carry interval [lo, hi], from the innermost of equal  *)
(* and nested axes: `ax` are the axes of the view at the lower coefficient *)
(* bound 0, `bx` those of the other; a result before the last axis stays.  *)
CarryBounds(ax, bx, d) == [lower |-> -(bx[d].size - 1), upper |-> ax[d].size - 1]

CarryStep(acc, ax, bx, d) ==
  LET c == CarryBounds(ax, bx, d)
      period == ax[d + 1].stride \div ax[d].stride
      lo == ceil_div(acc.lo - c.upper, period)
      hi == floor_div(acc.hi - c.lower, period)
      stop(status) == [lo |-> acc.lo, hi |-> acc.hi, status |-> status]
  IN  IF acc.status # "carry" THEN acc
      ELSE IF d = Len(ax)
      THEN stop(IF acc.hi >= c.lower /\ acc.lo <= c.upper THEN partial ELSE none)
      ELSE IF acc.lo < Int64Min + c.upper \/ acc.hi > Int64Max + c.lower THEN stop(too_hard)
      ELSE [lo |-> lo, hi |-> hi, status |-> IF lo > hi THEN none ELSE "carry"]

lattice_test(ax, bx, delta) ==
  LET first == delta \div ax[1].stride
      carry[d \in 0 .. Len(ax)] ==
        IF d = 0 THEN [lo |-> first, hi |-> first, status |-> "carry"]
        ELSE CarryStep(carry[d - 1], ax, bx, d)
  IN  carry[Len(ax)].status

Nested(ax, bx) ==
  /\ Len(ax) = Len(bx) /\ Len(ax) > 0
  /\ \A d \in 1 .. Len(ax) :
       ax[d].stride = bx[d].stride /\ (d > 1 => ax[d].stride % ax[d - 1].stride = 0)

\* Mutants: ranges without the last element, and counted in elements.
RangesCutShort(a, b) ==
  \/ a.data + overlap_extent(a) * a.bytes <= b.data
  \/ b.data + overlap_extent(b) * b.bytes <= a.data
RangesInElements(a, b) ==
  \/ a.data + (overlap_extent(a) + 1) <= b.data
  \/ b.data + (overlap_extent(b) + 1) <= a.data

\* Byte ranges [data, data + (extent + 1) * bytes) that do not meet.
DisjointRanges(a, b) ==
  \/ a.data + (overlap_extent(a) + 1) * a.bytes <= b.data
  \/ b.data + (overlap_extent(b) + 1) * b.bytes <= a.data

\* Mutant: one hole still counts as dense.
NearlyDense(l) == overlap_extent(l) <= numel(l)

Dense(l) == overlap_extent(l) + 1 = numel(l)

\* Mutant: a shared address is enough for an in-place update.
SameAddress(a, b) == a.data = b.data /\ is_non_overlapping(a)

SameMapping(a, b) ==
  a.data = b.data /\ a.sizes = b.sizes /\ a.strides = b.strides /\ is_non_overlapping(a)

classify_overlap(a, b) ==
  LET distance == b.data - a.data
      delta == distance \div a.bytes
      ax == overlap_axes(a)
      bx == overlap_axes(b)
      gcd == GcdOf(StridesOf(ax) \cup StridesOf(bx))
  IN  IF \/ numel(a) = 0 \/ numel(b) = 0 \/ a.data = nullptr \/ b.data = nullptr
         \/ a.device # b.device THEN none
      ELSE IF DisjointRanges(a, b) THEN none
      ELSE IF a.type # b.type THEN too_hard
      ELSE IF SameMapping(a, b) THEN full
      ELSE IF ~is_non_overlapping(a) \/ ~is_non_overlapping(b) THEN too_hard
      ELSE IF Dense(a) /\ Dense(b) THEN partial
      ELSE IF distance % a.bytes # 0 \/ delta \notin -Int64Max .. Int64Max THEN too_hard
      ELSE IF gcd # 0 /\ delta % gcd # 0 THEN none
      ELSE IF ~Nested(ax, bx) THEN too_hard
      ELSE IF delta % ax[1].stride # 0 THEN none
      ELSE lattice_test(ax, bx, delta)

(* check_assignment_overlap: the statuses of every leaf of the expression. *)
(* noalias() accepts what cannot be proved, and skips the check in a build *)
(* with NDEBUG.                                                            *)
assignment_allowed(dst, leaves, noalias, ndebug) ==
  \/ noalias /\ ndebug
  \/ \A k \in 1 .. Len(leaves) :
       LET status == classify_overlap(dst, leaves[k])
       IN  status # partial /\ (noalias \/ status # too_hard)
=============================================================================
