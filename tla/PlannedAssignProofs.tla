------------------------ MODULE PlannedAssignProofs ------------------------
(***************************************************************************)
(* dst = expr for operands of any rank, sizes, strides and addresses, any  *)
(* number of threads and any SIMD length: the verdicts of the overlap      *)
(* check, and the plan and the rows of an accepted assignment.             *)
(***************************************************************************)
EXTENDS PlannedAssign, OverlapCheck, LayoutProofs

----------------------------------------------------------------------------
(* OverlapCheck: the views stay as the caller passed them, and a           *)
(* verdict is theirs.                                                      *)
CheckInv ==
  /\ Assignable(dest, src)
  /\ status = "unclassified" \/ status = classify_overlap(dest, src)

\* The views a caller passes are assignable, and the verdict is theirs.
LEMMA CheckInvariant == CheckSpec => []CheckInv
<1>1. CheckInit => CheckInv
  <2> SUFFICES ASSUME CheckInit PROVE CheckInv
    OBVIOUS
  <2>1. PICK c \in Cases : dest \in {l \in c.destinations : is_non_overlapping(l)} /\ src \in c.sources
    BY DEF CheckInit
  <2>2. dest \in c.destinations /\ is_non_overlapping(dest)
    BY <2>1
  <2>3. \A l \in c.destinations \cup c.sources : IsView(l)
    BY CasesAssumption DEF IsView, Strided
  <2>4. dest.type = src.type => dest.bytes = src.bytes
    BY <2>1, <2>2, CasesAssumption
  <2>5. Assignable(dest, src)
    BY <2>1, <2>2, <2>3, <2>4 DEF Assignable
  <2> QED BY <2>5 DEF CheckInv, CheckInit
<1>2. CheckInv /\ [Classify]_pair => CheckInv'
  <2> SUFFICES ASSUME CheckInv, [Classify]_pair PROVE CheckInv'
    OBVIOUS
  <2>1. CASE Classify
    <3>1. dest' = dest /\ src' = src /\ status' = classify_overlap(dest, src)
      BY <2>1 DEF Classify
    <3>2. Assignable(dest, src)' /\ status' = classify_overlap(dest, src)'
      BY <3>1 DEF CheckInv
    <3> QED BY <3>2 DEF CheckInv
  <2>2. CASE UNCHANGED pair
    BY <2>2 DEF CheckInv, pair
  <2> QED BY <2>1, <2>2
<1> QED BY <1>1, <1>2, PTL DEF CheckSpec

\* A verdict has been given: it is the classification of the two views.
LEMMA Settled ==
  ASSUME CheckInv, status \in {none, full, partial}
  PROVE  Assignable(dest, src) /\ status = classify_overlap(dest, src)
BY DEF CheckInv, none, full, partial

(* A verdict of no overlap, whichever of the range, GCD and carry-interval *)
(* tests gave it, means that no byte is shared.                            *)
THEOREM OverlapNone == CheckSpec => []NoneIsDisjoint
<1>1. CheckInv => NoneIsDisjoint
  <2> SUFFICES ASSUME CheckInv, status = none, dest.device = src.device PROVE Touches(dest) \cap Touches(src) = {}
    BY DEF NoneIsDisjoint
  <2>1. Assignable(dest, src) /\ classify_overlap(dest, src) = none
    BY Settled
  <2> QED BY <2>1, NoneIsTrue
<1> QED BY <1>1, CheckInvariant, PTL

(* A verdict of full overlap is an update in place: the elements of one    *)
(* index coincide, and no others.                                          *)
THEOREM OverlapFull == CheckSpec => []FullIsInPlace
<1>1. CheckInv => FullIsInPlace
  <2> SUFFICES ASSUME CheckInv, status = full PROVE FullIsInPlace
    BY DEF FullIsInPlace
  <2>1. Assignable(dest, src) /\ classify_overlap(dest, src) = full
    BY Settled
  <2> QED BY <2>1, FullIsTrue DEF FullIsInPlace
<1> QED BY <1>1, CheckInvariant, PTL

(* A verdict of partial overlap, which no caller can waive, is never a     *)
(* false alarm: a byte is shared.                                          *)
THEOREM OverlapPartial == CheckSpec => []PartialIsShared
<1>1. CheckInv => PartialIsShared
  <2> SUFFICES ASSUME CheckInv, status = partial PROVE Touches(dest) \cap Touches(src) # {}
    BY DEF PartialIsShared
  <2>1. Assignable(dest, src) /\ classify_overlap(dest, src) = partial
    BY Settled
  <2> QED BY <2>1, PartialIsTrue
<1> QED BY <1>1, CheckInvariant, PTL

(* What is_non_overlapping accepts maps no two indices to one element, and *)
(* on nested strides it accepts every such layout.                         *)
THEOREM OverlapInjectivity == CheckSpec => []InjectivityProof
<1>1. CheckInv => InjectivityProof
  <2> SUFFICES ASSUME CheckInv, NEW l \in {dest, src}
               PROVE  /\ is_non_overlapping(l) => Injective(l)
                      /\ /\ \A x \in StridesOf(overlap_axes(l)) : x > 0
                         /\ NestedAlone(l) /\ Injective(l)
                         => is_non_overlapping(l)
    BY DEF InjectivityProof
  <2>1. Strided(l)
    BY DEF CheckInv, Assignable, IsView
  <2> QED BY <2>1, LayoutsInjective, NestedExact DEF NestedAlone
<1> QED BY <1>1, CheckInvariant, PTL

----------------------------------------------------------------------------
(* Sequences with one more element.                                        *)
\* u is t with one more element, at place p.
Widens(t, u, p) ==
  /\ p \in 1 .. Len(t) + 1 /\ Len(u) = Len(t) + 1
  /\ \A d \in 1 .. p - 1 : u[d] = t[d]
  /\ \A d \in p .. Len(t) : u[d + 1] = t[d]

\* One term more adds it to the sum.
LEMMA SumWidens ==
  ASSUME NEW t \in Seq(Int), NEW u \in Seq(Int), NEW p, Widens(t, u, p)
  PROVE  Sum(u, Len(u)) = Sum(t, Len(t)) + u[p]
<1> DEFINE n == Len(t)
           S == {d \in 0 .. n : /\ d < p => Sum(u, d) = Sum(t, d)
                                /\ d >= p - 1 => Sum(u, d + 1) = Sum(t, d) + u[p]}
<1>1. /\ n \in Nat /\ Len(u) = n + 1 /\ p \in 1 .. n + 1
      /\ \A d \in 1 .. p - 1 : u[d] = t[d]
      /\ \A d \in p .. n : u[d + 1] = t[d]
      /\ \A d \in 1 .. n : t[d] \in Int
      /\ \A d \in 1 .. n + 1 : u[d] \in Int
  BY DEF Widens
<1>2. /\ Sum(t, 0) = 0 /\ \A d \in 1 .. n : Sum(t, d) = Sum(t, d - 1) + t[d]
      /\ \A d \in 0 .. n : Sum(t, d) \in Int
  BY SumIs
<1>3. /\ Sum(u, 0) = 0 /\ \A d \in 1 .. n + 1 : Sum(u, d) = Sum(u, d - 1) + u[d]
      /\ \A d \in 0 .. n + 1 : Sum(u, d) \in Int
  BY <1>1, SumIs
<1> HIDE DEF n
<1>4. 0 \in S
  <2>1. p - 1 <= 0 => p = 1
    BY <1>1
  <2>2. Sum(u, 1) = Sum(u, 0) + u[1]
    <3>1. 1 \in 1 .. n + 1 /\ 1 - 1 = 0
      BY <1>1
    <3> QED BY <1>3, <3>1
  <2> QED BY <1>1, <1>2, <1>3, <2>1, <2>2
<1>5. \A d \in 1 .. n : d - 1 \in S => d \in S
  <2> SUFFICES ASSUME NEW d \in 1 .. n, d - 1 \in S PROVE d \in S
    OBVIOUS
  <2>1. /\ Sum(t, d) = Sum(t, d - 1) + t[d] /\ Sum(t, d - 1) \in Int /\ t[d] \in Int
        /\ Sum(u, d) = Sum(u, d - 1) + u[d] /\ Sum(u, d - 1) \in Int /\ u[d] \in Int
    <3>1. d - 1 \in 0 .. n /\ d \in 1 .. n + 1 /\ d - 1 \in 0 .. n + 1
      BY <1>1
    <3> QED BY <1>1, <1>2, <1>3, <3>1
  <2>2. Sum(u, d + 1) = Sum(u, d) + u[d + 1] /\ Sum(u, d) \in Int /\ u[d + 1] \in Int
    <3>1. d + 1 \in 1 .. n + 1 /\ (d + 1) - 1 = d /\ d \in 0 .. n + 1
      BY <1>1
    <3> QED BY <1>1, <1>3, <3>1
  <2>3. ASSUME d < p PROVE Sum(u, d) = Sum(t, d)
    <3>1. d \in 1 .. p - 1 /\ d - 1 < p
      BY <1>1, <2>3
    <3>2. u[d] = t[d] /\ Sum(u, d - 1) = Sum(t, d - 1)
      BY <1>1, <2>3, <3>1
    <3> QED BY <2>1, <3>2
  <2>4. ASSUME d >= p - 1 PROVE Sum(u, d + 1) = Sum(t, d) + u[p]
    <3>1. CASE d >= p
      <4>1. d \in p .. n /\ d - 1 >= p - 1
        BY <1>1, <3>1
      <4>2. u[d + 1] = t[d]
        BY <1>1, <4>1
      <4>3. Sum(u, (d - 1) + 1) = Sum(t, d - 1) + u[p]
        BY <4>1
      <4>4. (d - 1) + 1 = d /\ u[p] \in Int
        BY <1>1
      <4> QED BY <2>1, <2>2, <4>2, <4>3, <4>4, SMTT(60)
    <3>2. CASE d = p - 1
      <4>1. d < p /\ d + 1 = p
        BY <1>1, <3>2
      <4> QED BY <2>1, <2>2, <2>3, <4>1
    <3> QED BY <1>1, <2>4, <3>1, <3>2
  <2> QED BY <2>3, <2>4
<1>6. 0 .. n \subseteq S
  <2> HIDE DEF S
  <2> QED BY <1>1, <1>4, <1>5, Induction
<1>7. n \in 0 .. n /\ n >= p - 1
  BY <1>1
<1>8. Sum(u, n + 1) = Sum(t, n) + u[p]
  BY <1>6, <1>7
<1> QED BY <1>1, <1>8 DEF n

\* One factor more multiplies the product.
LEMMA ProductWidens ==
  ASSUME NEW t \in Seq(Nat), NEW u \in Seq(Nat), NEW p, Widens(t, u, p)
  PROVE  Product(u) = Product(t) * u[p]
<1> DEFINE n == Len(t)
           S == {d \in 1 .. n + 1 : /\ d >= p => Volume(u, d + 1) = Volume(t, d)
                                    /\ d <= p => Volume(u, d) = Volume(t, d) * u[p]}
<1>1. /\ n \in Nat /\ Len(u) = n + 1 /\ p \in 1 .. n + 1
      /\ \A d \in 1 .. p - 1 : u[d] = t[d]
      /\ \A d \in p .. n : u[d + 1] = t[d]
      /\ \A d \in 1 .. n : t[d] \in Nat
      /\ \A d \in 1 .. n + 1 : u[d] \in Nat
  BY SMTT(60) DEF Widens
<1>2. /\ Volume(t, n + 1) = 1 /\ \A d \in 1 .. n : Volume(t, d) = t[d] * Volume(t, d + 1)
      /\ \A d \in 1 .. n + 1 : Volume(t, d) \in Nat
  BY VolumeIs
<1>3. /\ Volume(u, n + 2) = 1 /\ \A d \in 1 .. n + 1 : Volume(u, d) = u[d] * Volume(u, d + 1)
      /\ \A d \in 1 .. n + 2 : Volume(u, d) \in Nat
  <2>1. (n + 1) + 1 = n + 2
    BY <1>1
  <2> QED BY <1>1, <2>1, VolumeIs
<1> HIDE DEF n
<1>4. n + 1 \in S
  <2>1. (n + 1) + 1 = n + 2 /\ n + 1 \in 1 .. n + 1
    BY <1>1
  <2>2. Volume(u, n + 1) = u[n + 1] * Volume(u, n + 2)
    BY <1>3, <2>1
  <2>3. n + 1 <= p => p = n + 1
    BY <1>1
  <2>4. u[n + 1] \in Nat
    BY <1>1, <2>1
  <2> QED BY <1>1, <1>2, <1>3, <2>1, <2>2, <2>3, <2>4
<1>5. \A d \in 1 .. n : d + 1 \in S => d \in S
  <2> SUFFICES ASSUME NEW d \in 1 .. n, d + 1 \in S PROVE d \in S
    OBVIOUS
  <2>1. /\ Volume(t, d) = t[d] * Volume(t, d + 1) /\ Volume(t, d + 1) \in Nat /\ t[d] \in Nat
    <3>1. d + 1 \in 1 .. n + 1
      BY <1>1
    <3> QED BY <1>1, <1>2, <3>1
  <2>2. /\ Volume(u, d) = u[d] * Volume(u, d + 1) /\ Volume(u, d + 1) \in Nat /\ u[d] \in Nat
        /\ Volume(u, d + 1) = u[d + 1] * Volume(u, (d + 1) + 1) /\ u[d + 1] \in Nat
    <3>1. d + 1 \in 1 .. n + 1 /\ d \in 1 .. n + 1 /\ d + 1 \in 1 .. n + 2
      BY <1>1
    <3> QED BY <1>1, <1>3, <3>1
  <2>3. ASSUME d >= p PROVE Volume(u, d + 1) = Volume(t, d)
    <3>1. d \in p .. n /\ d + 1 >= p
      BY <1>1, <2>3
    <3>2. u[d + 1] = t[d] /\ Volume(u, (d + 1) + 1) = Volume(t, d + 1)
      BY <1>1, <3>1
    <3> QED BY <2>1, <2>2, <3>2
  <2>4. ASSUME d <= p PROVE Volume(u, d) = Volume(t, d) * u[p]
    <3>1. CASE d < p
      <4>1. d \in 1 .. p - 1 /\ d + 1 <= p
        BY <1>1, <3>1
      <4>2. u[d] = t[d] /\ Volume(u, d + 1) = Volume(t, d + 1) * u[p]
        BY <1>1, <4>1
      <4>3. u[p] \in Nat
        BY <1>1
      <4>4. \A x, y, z \in Nat : x * (y * z) = (x * y) * z
        OBVIOUS
      <4>5. t[d] * (Volume(t, d + 1) * u[p]) = (t[d] * Volume(t, d + 1)) * u[p]
        BY <2>1, <4>3, <4>4
      <4> QED BY <2>1, <2>2, <4>2, <4>5
    <3>2. CASE d = p
      <4>1. Volume(u, d + 1) = Volume(t, d)
        BY <1>1, <2>3, <3>2
      <4>2. \A x, y \in Nat : x * y = y * x
        OBVIOUS
      <4> QED BY <2>2, <3>2, <4>1, <4>2
    <3> QED BY <1>1, <2>4, <3>1, <3>2
  <2> QED BY <1>1, <2>3, <2>4
<1>6. 1 .. n + 1 \subseteq S
  <2> HIDE DEF S
  <2> QED BY <1>1, <1>4, <1>5, Descent
<1>7. 1 \in 1 .. n + 1 /\ 1 <= p
  BY <1>1
<1> QED BY <1>6, <1>7 DEF Product

(* A bounded set of naturals that is not empty has a maximum.              *)
LEMMA Maximum ==
  ASSUME NEW n \in Nat, NEW T \in SUBSET (1 .. n), T # {}
  PROVE  \E x \in T : \A y \in T : y <= x
<1> DEFINE U == {n - x : x \in T}
<1>1. U \in SUBSET Nat /\ U # {}
  OBVIOUS
<1>2. PICK u \in U : \A v \in U : u <= v
  <2> HIDE DEF U
  <2> QED BY <1>1, Minimum
<1>3. PICK x \in T : u = n - x
  OBVIOUS
<1>4. ASSUME NEW y \in T PROVE y <= x
  <2>1. n - x <= n - y
    BY <1>2, <1>3
  <2> QED BY <2>1
<1> QED BY <1>4

----------------------------------------------------------------------------
(* Axes of n operands, and the offsets that their coordinates reach.       *)
PlanAxis(n) == [size : Nat \ {0}, strides : [1 .. n -> Nat]]
SizesOf(axes) == [d \in 1 .. Len(axes) |-> axes[d].size]
\* The coordinates of the axes, and the offset one operand has at each.
Box(axes) == {c \in [1 .. Len(axes) -> Nat] : \A d \in 1 .. Len(axes) : c[d] < axes[d].size}
AddsTo(axes, op, c) == [d \in 1 .. Len(axes) |-> c[d] * axes[d].strides[op]]
OffsetAt(axes, op, c) == Sum(AddsTo(axes, op, c), Len(axes))
\* The vectors of offsets of all operands, one for each coordinate.
Vectors(axes, n) == {[op \in 1 .. n |-> OffsetAt(axes, op, c)] : c \in Box(axes)}
\* A vector x steps further by c, and a set of vectors repeated along x.
Shifted(v, n, c, x) == [op \in 1 .. n |-> v[op] + c * x.strides[op]]
Spread(V, n, x) == {Shifted(v, n, c, x) : v \in V, c \in 0 .. x.size - 1}

\* The types of the parts of axes.
LEMMA PlanAxes ==
  ASSUME NEW n \in Nat, NEW axes \in Seq(PlanAxis(n))
  PROVE  /\ Len(axes) \in Nat
         /\ \A d \in 1 .. Len(axes) : /\ axes[d] \in PlanAxis(n)
                                      /\ axes[d].size \in Nat \ {0}
                                      /\ axes[d].strides \in [1 .. n -> Nat]
                                      /\ \A op \in 1 .. n : axes[d].strides[op] \in Nat
         /\ SizesOf(axes) \in Seq(Nat) /\ Len(SizesOf(axes)) = Len(axes)
         /\ \A d \in 1 .. Len(axes) : SizesOf(axes)[d] = axes[d].size
<1>1. Len(axes) \in Nat /\ \A d \in 1 .. Len(axes) : axes[d] \in PlanAxis(n)
  OBVIOUS
<1>2. ASSUME NEW x \in PlanAxis(n)
      PROVE  /\ x.size \in Nat \ {0} /\ x.strides \in [1 .. n -> Nat]
             /\ \A op \in 1 .. n : x.strides[op] \in Nat
  BY DEF PlanAxis
<1>3. SizesOf(axes) \in [1 .. Len(axes) -> Nat]
  BY <1>1, <1>2 DEF SizesOf
<1>4. SizesOf(axes) \in Seq(Nat) /\ Len(SizesOf(axes)) = Len(axes)
  BY <1>1, <1>3
<1> QED BY <1>1, <1>2, <1>4 DEF SizesOf

\* An offset is a sum of naturals, one for each axis.
LEMMA OffsetIs ==
  ASSUME NEW n \in Nat, NEW axes \in Seq(PlanAxis(n)), NEW op \in 1 .. n,
         NEW c \in [1 .. Len(axes) -> Nat]
  PROVE  /\ AddsTo(axes, op, c) \in Seq(Int) /\ Len(AddsTo(axes, op, c)) = Len(axes)
         /\ \A d \in 1 .. Len(axes) : AddsTo(axes, op, c)[d] = c[d] * axes[d].strides[op]
         /\ OffsetAt(axes, op, c) \in Nat
<1>1. Len(axes) \in Nat /\ \A d \in 1 .. Len(axes) : c[d] * axes[d].strides[op] \in Nat
  <2>1. \A d \in 1 .. Len(axes) : c[d] \in Nat /\ axes[d].strides[op] \in Nat
    BY PlanAxes
  <2>2. \A x, y \in Nat : x * y \in Nat
    OBVIOUS
  <2> QED BY <2>1, <2>2, PlanAxes
<1>2. AddsTo(axes, op, c) \in [1 .. Len(axes) -> Nat]
  BY <1>1 DEF AddsTo
<1>3. AddsTo(axes, op, c) \in [1 .. Len(axes) -> Int]
  BY <1>2
<1>4. AddsTo(axes, op, c) \in Seq(Int) /\ Len(AddsTo(axes, op, c)) = Len(axes)
  BY <1>1, <1>3, Terms
<1> DEFINE t == AddsTo(axes, op, c)
           S == {d \in 0 .. Len(axes) : Sum(t, d) \in Nat}
<1>5. 0 .. Len(axes) \subseteq S
  <2>1. /\ Sum(t, 0) = 0 /\ \A d \in 1 .. Len(axes) : Sum(t, d) = Sum(t, d - 1) + t[d]
        /\ \A d \in 1 .. Len(axes) : t[d] \in Nat
    BY <1>2, <1>4, SumIs
  <2> HIDE DEF t
  <2>2. 0 \in S
    BY <1>1, <2>1
  <2>3. \A d \in 1 .. Len(axes) : d - 1 \in S => d \in S
    BY <1>1, <2>1
  <2> HIDE DEF S
  <2> QED BY <1>1, <2>2, <2>3, Induction
<1>6. OffsetAt(axes, op, c) \in Nat
  BY <1>1, <1>5 DEF OffsetAt
<1> QED BY <1>1, <1>4, <1>6 DEF AddsTo

\* More is axes with x at place p.
Inserts(axes, more, p, x) == Widens(axes, more, p) /\ more[p] = x

\* Coordinates e of more agree with coordinates c of axes.
Agree(axes, c, e, p) ==
  /\ \A d \in 1 .. p - 1 : e[d] = c[d]
  /\ \A d \in p .. Len(axes) : e[d + 1] = c[d]

\* Axes with one more of them, and coordinates in both.
Joins(n, axes, more, p, x, c, e) ==
  /\ axes \in Seq(PlanAxis(n)) /\ more \in Seq(PlanAxis(n)) /\ Inserts(axes, more, p, x)
  /\ c \in [1 .. Len(axes) -> Nat] /\ e \in [1 .. Len(more) -> Nat] /\ Agree(axes, c, e, p)

\* An axis more adds its coordinate times its stride.
LEMMA OffsetWidens ==
  ASSUME NEW n \in Nat, NEW axes, NEW more, NEW p, NEW x, NEW c, NEW e,
         Joins(n, axes, more, p, x, c, e), NEW op \in 1 .. n
  PROVE  OffsetAt(more, op, e) = OffsetAt(axes, op, c) + e[p] * x.strides[op]
<1>0. /\ axes \in Seq(PlanAxis(n)) /\ more \in Seq(PlanAxis(n)) /\ Inserts(axes, more, p, x)
      /\ c \in [1 .. Len(axes) -> Nat] /\ e \in [1 .. Len(more) -> Nat] /\ Agree(axes, c, e, p)
  BY DEF Joins
<1> DEFINE t == AddsTo(axes, op, c)
           u == AddsTo(more, op, e)
<1>1. /\ t \in Seq(Int) /\ Len(t) = Len(axes)
      /\ \A d \in 1 .. Len(axes) : t[d] = c[d] * axes[d].strides[op]
  BY <1>0, OffsetIs
<1>2. /\ u \in Seq(Int) /\ Len(u) = Len(more)
      /\ \A d \in 1 .. Len(more) : u[d] = e[d] * more[d].strides[op]
  BY <1>0, OffsetIs
<1>3. /\ Len(axes) \in Nat /\ Len(more) = Len(axes) + 1 /\ p \in 1 .. Len(axes) + 1 /\ more[p] = x
      /\ \A d \in 1 .. p - 1 : more[d] = axes[d]
      /\ \A d \in p .. Len(axes) : more[d + 1] = axes[d]
  BY <1>0, PlanAxes DEF Inserts, Widens
<1> HIDE DEF t, u
<1>4. \A d \in 1 .. p - 1 : u[d] = t[d]
  <2> SUFFICES ASSUME NEW d \in 1 .. p - 1 PROVE u[d] = t[d]
    OBVIOUS
  <2>1. d \in 1 .. Len(axes) /\ d \in 1 .. Len(more)
    BY <1>3
  <2>2. e[d] = c[d] /\ more[d] = axes[d]
    BY <1>0, <1>3 DEF Agree
  <2> QED BY <1>1, <1>2, <2>1, <2>2
<1>5. \A d \in p .. Len(axes) : u[d + 1] = t[d]
  <2> SUFFICES ASSUME NEW d \in p .. Len(axes) PROVE u[d + 1] = t[d]
    OBVIOUS
  <2>1. d \in 1 .. Len(axes) /\ d + 1 \in 1 .. Len(more)
    BY <1>3
  <2>2. e[d + 1] = c[d] /\ more[d + 1] = axes[d]
    BY <1>0, <1>3 DEF Agree
  <2> QED BY <1>1, <1>2, <2>1, <2>2
<1>6. Widens(t, u, p)
  BY <1>1, <1>2, <1>3, <1>4, <1>5 DEF Widens
<1>7. Sum(u, Len(u)) = Sum(t, Len(t)) + u[p]
  BY <1>1, <1>2, <1>6, SumWidens
<1>8. u[p] = e[p] * x.strides[op]
  BY <1>2, <1>3
<1> QED BY <1>1, <1>2, <1>7, <1>8 DEF OffsetAt, t, u

(* An axis more, wherever it is, spreads the offsets along it.             *)
LEMMA VectorsWiden ==
  ASSUME NEW n \in Nat, NEW axes \in Seq(PlanAxis(n)), NEW more \in Seq(PlanAxis(n)),
         NEW p, NEW x, Inserts(axes, more, p, x)
  PROVE  Vectors(more, n) = Spread(Vectors(axes, n), n, x)
<1>1. /\ Len(axes) \in Nat /\ Len(more) = Len(axes) + 1 /\ p \in 1 .. Len(axes) + 1 /\ more[p] = x
      /\ \A d \in 1 .. p - 1 : more[d] = axes[d]
      /\ \A d \in p .. Len(axes) : more[d + 1] = axes[d]
  BY PlanAxes DEF Inserts, Widens
<1>2. x.size \in Nat \ {0}
  BY <1>1, PlanAxes
<1>3. ASSUME NEW c \in Box(axes), NEW e \in Box(more),
             Agree(axes, c, e, p)
      PROVE  [op \in 1 .. n |-> OffsetAt(more, op, e)]
               = Shifted([op \in 1 .. n |-> OffsetAt(axes, op, c)], n, e[p], x)
  <2>1. c \in [1 .. Len(axes) -> Nat] /\ e \in [1 .. Len(more) -> Nat]
    BY DEF Box
  <2>2. ASSUME NEW op \in 1 .. n
        PROVE  OffsetAt(more, op, e) = OffsetAt(axes, op, c) + e[p] * x.strides[op]
    <3>1. Joins(n, axes, more, p, x, c, e)
      BY <1>3, <2>1 DEF Joins
    <3> QED BY <3>1, OffsetWidens
  <2> QED BY <2>2 DEF Shifted
<1>4. ASSUME NEW e \in Box(more)
      PROVE  [op \in 1 .. n |-> OffsetAt(more, op, e)] \in Spread(Vectors(axes, n), n, x)
  <2> DEFINE c == [d \in 1 .. Len(axes) |-> IF d < p THEN e[d] ELSE e[d + 1]]
  <2>1. e \in [1 .. Len(axes) + 1 -> Nat] /\ \A d \in 1 .. Len(axes) + 1 : e[d] < more[d].size
    BY <1>1 DEF Box
  <2>2. \A d \in 1 .. Len(axes) : c[d] \in Nat /\ c[d] < axes[d].size
    <3> SUFFICES ASSUME NEW d \in 1 .. Len(axes) PROVE c[d] \in Nat /\ c[d] < axes[d].size
      OBVIOUS
    <3>1. CASE d < p
      <4>1. d \in 1 .. p - 1 /\ d \in 1 .. Len(axes) + 1 /\ c[d] = e[d]
        BY <1>1, <3>1
      <4> QED BY <1>1, <2>1, <4>1
    <3>2. CASE ~(d < p)
      <4>1. d \in p .. Len(axes) /\ d + 1 \in 1 .. Len(axes) + 1 /\ c[d] = e[d + 1]
        BY <1>1, <3>2
      <4> QED BY <1>1, <2>1, <4>1
    <3> QED BY <3>1, <3>2
  <2>3. c \in Box(axes)
    BY <2>2 DEF Box
  <2>4. Agree(axes, c, e, p)
    BY <1>1 DEF Agree
  <2>5. e[p] \in 0 .. x.size - 1
    BY <1>1, <1>2, <2>1, SMTT(60)
  <2> HIDE DEF c
  <2>6. [op \in 1 .. n |-> OffsetAt(more, op, e)]
          = Shifted([op \in 1 .. n |-> OffsetAt(axes, op, c)], n, e[p], x)
    BY <1>3, <2>3, <2>4
  <2>7. [op \in 1 .. n |-> OffsetAt(axes, op, c)] \in Vectors(axes, n)
    BY <2>3 DEF Vectors
  <2> QED BY <2>5, <2>6, <2>7 DEF Spread
<1>5. ASSUME NEW c \in Box(axes), NEW k \in 0 .. x.size - 1
      PROVE  Shifted([op \in 1 .. n |-> OffsetAt(axes, op, c)], n, k, x) \in Vectors(more, n)
  <2> DEFINE e == [d \in 1 .. Len(more) |-> IF d < p THEN c[d] ELSE IF d = p THEN k ELSE c[d - 1]]
  <2>1. c \in [1 .. Len(axes) -> Nat] /\ \A d \in 1 .. Len(axes) : c[d] < axes[d].size
    BY DEF Box
  <2>2. \A d \in 1 .. Len(more) : e[d] \in Nat /\ e[d] < more[d].size
    <3> SUFFICES ASSUME NEW d \in 1 .. Len(more) PROVE e[d] \in Nat /\ e[d] < more[d].size
      OBVIOUS
    <3>1. CASE d < p
      <4>1. d \in 1 .. p - 1 /\ d \in 1 .. Len(axes) /\ e[d] = c[d]
        BY <1>1, <3>1
      <4> QED BY <1>1, <2>1, <4>1
    <3>2. CASE d = p
      BY <1>1, <1>2, <3>2
    <3>3. CASE d > p
      <4>1. d - 1 \in p .. Len(axes) /\ d - 1 \in 1 .. Len(axes) /\ e[d] = c[d - 1] /\ (d - 1) + 1 = d
        BY <1>1, <3>3
      <4> QED BY <1>1, <2>1, <4>1
    <3> QED BY <1>1, <3>1, <3>2, <3>3
  <2>3. e \in Box(more)
    BY <2>2 DEF Box
  <2>4. Agree(axes, c, e, p) /\ e[p] = k
    BY <1>1 DEF Agree
  <2> HIDE DEF e
  <2>5. [op \in 1 .. n |-> OffsetAt(more, op, e)]
          = Shifted([op \in 1 .. n |-> OffsetAt(axes, op, c)], n, k, x)
    BY <1>3, <2>3, <2>4
  <2> QED BY <2>3, <2>5 DEF Vectors
<1>6. Vectors(more, n) \subseteq Spread(Vectors(axes, n), n, x)
  BY <1>4 DEF Vectors
<1>7. Spread(Vectors(axes, n), n, x) \subseteq Vectors(more, n)
  <2> SUFFICES ASSUME NEW v \in Vectors(axes, n), NEW k \in 0 .. x.size - 1
               PROVE  Shifted(v, n, k, x) \in Vectors(more, n)
    BY DEF Spread
  <2>1. PICK c \in Box(axes) : v = [op \in 1 .. n |-> OffsetAt(axes, op, c)]
    BY DEF Vectors
  <2> QED BY <1>5, <2>1
<1> QED BY <1>6, <1>7

(* The product of the sizes grows with it.                                 *)
LEMMA SizesWiden ==
  ASSUME NEW n \in Nat, NEW axes \in Seq(PlanAxis(n)), NEW more \in Seq(PlanAxis(n)),
         NEW p, NEW x, Inserts(axes, more, p, x)
  PROVE  Product(SizesOf(more)) = Product(SizesOf(axes)) * x.size
<1>1. /\ Len(axes) \in Nat /\ Len(more) = Len(axes) + 1 /\ p \in 1 .. Len(axes) + 1 /\ more[p] = x
      /\ \A d \in 1 .. p - 1 : more[d] = axes[d]
      /\ \A d \in p .. Len(axes) : more[d + 1] = axes[d]
  BY PlanAxes DEF Inserts, Widens
<1>2. /\ SizesOf(axes) \in Seq(Nat) /\ Len(SizesOf(axes)) = Len(axes)
      /\ \A d \in 1 .. Len(axes) : SizesOf(axes)[d] = axes[d].size
  BY PlanAxes
<1>3. /\ SizesOf(more) \in Seq(Nat) /\ Len(SizesOf(more)) = Len(more)
      /\ \A d \in 1 .. Len(more) : SizesOf(more)[d] = more[d].size
  BY PlanAxes
<1>4. Widens(SizesOf(axes), SizesOf(more), p)
  <2>1. ASSUME NEW d \in 1 .. p - 1 PROVE SizesOf(more)[d] = SizesOf(axes)[d]
    <3>1. d \in 1 .. Len(axes) /\ d \in 1 .. Len(more)
      BY <1>1
    <3> QED BY <1>1, <1>2, <1>3, <3>1
  <2>2. ASSUME NEW d \in p .. Len(axes) PROVE SizesOf(more)[d + 1] = SizesOf(axes)[d]
    <3>1. d \in 1 .. Len(axes) /\ d + 1 \in 1 .. Len(more)
      BY <1>1
    <3> QED BY <1>1, <1>2, <1>3, <3>1
  <2> QED BY <1>1, <1>2, <1>3, <2>1, <2>2 DEF Widens
<1>5. SizesOf(more)[p] = x.size
  BY <1>1, <1>3
<1> QED BY <1>2, <1>3, <1>4, <1>5, ProductWidens

\* An offset is a natural.
LEMMA VectorsAre ==
  ASSUME NEW n \in Nat, NEW axes \in Seq(PlanAxis(n))
  PROVE  Vectors(axes, n) \subseteq [1 .. n -> Nat]
<1> SUFFICES ASSUME NEW c \in Box(axes) PROVE [op \in 1 .. n |-> OffsetAt(axes, op, c)] \in [1 .. n -> Nat]
  BY DEF Vectors
<1>1. c \in [1 .. Len(axes) -> Nat]
  BY DEF Box
<1>2. \A op \in 1 .. n : OffsetAt(axes, op, c) \in Nat
  BY <1>1, OffsetIs
<1> QED BY <1>2

\* An axis of size 1 reaches nothing new.
LEMMA SpreadUnit ==
  ASSUME NEW n \in Nat, NEW V \in SUBSET [1 .. n -> Nat], NEW x \in PlanAxis(n), x.size = 1
  PROVE  Spread(V, n, x) = V
<1>1. \A op \in 1 .. n : x.strides[op] \in Nat
  BY DEF PlanAxis
<1>2. ASSUME NEW v \in V PROVE Shifted(v, n, 0, x) = v
  <2>1. \A op \in 1 .. n : v[op] + 0 * x.strides[op] = v[op]
    BY <1>1
  <2> QED BY <2>1 DEF Shifted
<1>3. 0 .. x.size - 1 = {0}
  OBVIOUS
<1> QED BY <1>2, <1>3 DEF Spread

(* Neighbours that are adjacent for every operand reach what one axis of   *)
(* both their elements does.                                               *)
LEMMA SpreadMerged ==
  ASSUME NEW n \in Nat, NEW V \in SUBSET [1 .. n -> Nat], NEW o \in PlanAxis(n), NEW x \in PlanAxis(n),
         \A op \in 1 .. n : o.strides[op] = x.strides[op] * x.size
  PROVE  Spread(Spread(V, n, o), n, x) = Spread(V, n, [size |-> o.size * x.size, strides |-> x.strides])
<1> DEFINE m == [size |-> o.size * x.size, strides |-> x.strides]
<1>1. /\ o.size \in Nat \ {0} /\ x.size \in Nat \ {0} /\ m.size = o.size * x.size /\ m.strides = x.strides
      /\ \A op \in 1 .. n : o.strides[op] \in Nat /\ x.strides[op] \in Nat
  BY DEF PlanAxis
<1> HIDE DEF m
<1>2. ASSUME NEW v \in V, NEW a1 \in Nat, NEW b1 \in Nat
      PROVE  Shifted(Shifted(v, n, a1, o), n, b1, x) = Shifted(v, n, a1 * x.size + b1, m)
  <2>1. ASSUME NEW op \in 1 .. n
        PROVE  (v[op] + a1 * o.strides[op]) + b1 * x.strides[op] = v[op] + (a1 * x.size + b1) * m.strides[op]
    <3>1. PICK s \in Nat : s = x.strides[op]
      BY <1>1
    <3>2. PICK z \in Nat : z = x.size
      BY <1>1
    <3>3. v[op] \in Nat
      OBVIOUS
    <3>4. PICK t \in Nat : t = v[op]
      BY <3>3
    <3>5. a1 * (s * z) = (a1 * z) * s /\ (a1 * z + b1) * s = (a1 * z) * s + b1 * s
      OBVIOUS
    <3>6. (t + a1 * (s * z)) + b1 * s = t + (a1 * z + b1) * s
      BY <3>5
    <3>7. o.strides[op] = s * z /\ m.strides[op] = s
      BY <1>1, <3>1, <3>2
    <3> QED BY <3>1, <3>2, <3>4, <3>6, <3>7
  <2>2. Shifted(v, n, a1, o) = [op \in 1 .. n |-> v[op] + a1 * o.strides[op]]
    BY DEF Shifted
  <2> QED BY <2>1, <2>2 DEF Shifted
<1>3. ASSUME NEW v \in V, NEW a1 \in 0 .. o.size - 1, NEW b1 \in 0 .. x.size - 1
      PROVE  a1 * x.size + b1 \in 0 .. m.size - 1
  <2>1. PICK z \in Nat : z = x.size
    BY <1>1
  <2>2. PICK w \in Nat : w = o.size
    BY <1>1
  <2>3. a1 \in Nat /\ a1 + 1 <= w /\ b1 \in Nat /\ b1 < z
    BY <1>1, <2>1, <2>2
  <2>4. (a1 + 1) * z <= w * z
    BY <2>3, Products
  <2>5. (a1 + 1) * z = a1 * z + z /\ a1 * z \in Nat /\ w * z \in Nat
    BY <2>3
  <2>6. a1 * z + b1 \in Nat /\ a1 * z + b1 < w * z
    <3>1. PICK p \in Nat : p = a1 * z
      BY <2>5
    <3>2. PICK q \in Nat : q = w * z
      BY <2>5
    <3>3. p + z <= q
      BY <2>4, <2>5, <3>1, <3>2
    <3>4. p + b1 \in Nat /\ p + b1 < q
      BY <2>3, <3>3
    <3> QED BY <3>1, <3>2, <3>4
  <2>7. m.size = w * z
    BY <1>1, <2>1, <2>2
  <2>8. a1 * z + b1 \in 0 .. m.size - 1
    BY <2>5, <2>6, <2>7
  <2> QED BY <2>1, <2>8
<1>4. ASSUME NEW c \in 0 .. m.size - 1
      PROVE  \E a1 \in 0 .. o.size - 1, b1 \in 0 .. x.size - 1 : c = a1 * x.size + b1
  <2>1. PICK z \in Nat \ {0} : z = x.size
    BY <1>1
  <2>2. PICK w \in Nat \ {0} : w = o.size
    BY <1>1
  <2>3. c \in Nat /\ c < w * z
    BY <1>1, <2>1, <2>2
  <2>4. (c \div z) \in Nat /\ (c % z) \in Nat /\ c = z * (c \div z) + (c % z) /\ (c % z) < z
    BY <2>3
  <2>5. PICK q \in Nat : q = c \div z
    BY <2>4
  <2>6. PICK r \in Nat : r = c % z
    BY <2>4
  <2>7. c = z * q + r /\ r < z
    BY <2>4, <2>5, <2>6
  <2>8. q < w
    <3> SUFFICES ASSUME w <= q PROVE FALSE
      OBVIOUS
    <3>1. w * z <= q * z /\ q * z \in Nat
      BY Products
    <3>2. z * q = q * z
      OBVIOUS
    <3> QED BY <2>3, <2>7, <3>1, <3>2
  <2>9. z * q = q * z
    OBVIOUS
  <2>10. q \in 0 .. o.size - 1 /\ r \in 0 .. x.size - 1
    BY <2>1, <2>2, <2>7, <2>8
  <2> QED BY <2>1, <2>7, <2>9, <2>10
<1>5. Spread(Spread(V, n, o), n, x) \subseteq Spread(V, n, m)
  <2> SUFFICES ASSUME NEW u \in Spread(V, n, o), NEW b1 \in 0 .. x.size - 1
               PROVE  Shifted(u, n, b1, x) \in Spread(V, n, m)
    BY DEF Spread
  <2>1. PICK v \in V, a1 \in 0 .. o.size - 1 : u = Shifted(v, n, a1, o)
    BY DEF Spread
  <2>2. Shifted(u, n, b1, x) = Shifted(v, n, a1 * x.size + b1, m)
    BY <1>1, <1>2, <2>1
  <2>3. a1 * x.size + b1 \in 0 .. m.size - 1
    BY <1>3
  <2> QED BY <2>2, <2>3 DEF Spread
<1>6. Spread(V, n, m) \subseteq Spread(Spread(V, n, o), n, x)
  <2> SUFFICES ASSUME NEW v \in V, NEW c \in 0 .. m.size - 1
               PROVE  Shifted(v, n, c, m) \in Spread(Spread(V, n, o), n, x)
    BY DEF Spread
  <2>1. PICK a1 \in 0 .. o.size - 1, b1 \in 0 .. x.size - 1 : c = a1 * x.size + b1
    BY <1>4
  <2>2. Shifted(v, n, c, m) = Shifted(Shifted(v, n, a1, o), n, b1, x)
    BY <1>1, <1>2, <2>1
  <2>3. Shifted(v, n, a1, o) \in Spread(V, n, o)
    BY DEF Spread
  <2> QED BY <2>2, <2>3 DEF Spread
<1> QED BY <1>5, <1>6 DEF m

----------------------------------------------------------------------------
(* Sorting and merging.                                                    *)
\* To A comes x: more offsets along x, more elements.
Grows(A, B, n, x) ==
  /\ B \in Seq(PlanAxis(n))
  /\ Vectors(B, n) = Spread(Vectors(A, n), n, x)
  /\ Product(SizesOf(B)) = Product(SizesOf(A)) * x.size

\* Axes that have x inserted reach what x adds.
LEMMA InsertsGrows ==
  ASSUME NEW n \in Nat, NEW A \in Seq(PlanAxis(n)), NEW B \in Seq(PlanAxis(n)),
         NEW p, NEW x, Inserts(A, B, p, x)
  PROVE  Grows(A, B, n, x)
BY VectorsWiden, SizesWiden DEF Grows

\* u is s with x after its first k elements.
Splits(u, s, k, x) == u = SubSeq(s, 1, k) \o <<x>> \o SubSeq(s, k + 1, Len(s))

\* The elements of a sequence that has x after its first k elements.
LEMMA SplitAt ==
  ASSUME NEW X, NEW s \in Seq(X), NEW x \in X, NEW k \in 0 .. Len(s),
         NEW u, Splits(u, s, k, x)
  PROVE  /\ u \in Seq(X) /\ Len(u) = Len(s) + 1 /\ u[k + 1] = x
         /\ \A d \in 1 .. k : u[d] = s[d]
         /\ \A d \in k + 1 .. Len(s) : u[d + 1] = s[d]
<1>1. PICK v : v = SubSeq(s, 1, k)
  OBVIOUS
<1>2. PICK w : w = SubSeq(s, k + 1, Len(s))
  OBVIOUS
<1>3. PICK y : y = v \o <<x>>
  OBVIOUS
<1>4. v \in Seq(X) /\ Len(v) = k /\ \A d \in 1 .. k : v[d] = s[d]
  BY <1>1
<1>5. w \in Seq(X) /\ Len(w) = Len(s) - k /\ \A d \in 1 .. Len(s) - k : w[d] = s[k + d]
  BY <1>2
<1>6. y \in Seq(X) /\ Len(y) = k + 1 /\ y[k + 1] = x /\ \A d \in 1 .. k : y[d] = s[d]
  BY <1>3, <1>4
<1>11. u = y \o w
  BY <1>1, <1>2, <1>3 DEF Splits
<1>12. /\ u \in Seq(X) /\ Len(u) = Len(y) + Len(w)
       /\ \A d \in 1 .. Len(y) : u[d] = y[d]
       /\ \A d \in 1 .. Len(w) : u[Len(y) + d] = w[d]
  <2>1. y \in Seq(X) /\ w \in Seq(X)
    BY <1>5, <1>6
  <2> QED BY <1>11, <2>1
<1>7. Len(s) \in Nat /\ k \in Nat /\ k <= Len(s)
  OBVIOUS
<1>8. u \in Seq(X) /\ Len(u) = Len(s) + 1
  BY <1>5, <1>6, <1>7, <1>12
<1>9. u[k + 1] = x /\ \A d \in 1 .. k : u[d] = s[d]
  <2>1. k + 1 \in 1 .. Len(y) /\ \A d \in 1 .. k : d \in 1 .. Len(y)
    BY <1>6, <1>7
  <2> QED BY <1>6, <1>12, <2>1
<1>10. \A d \in k + 1 .. Len(s) : u[d + 1] = s[d]
  <2> SUFFICES ASSUME NEW d \in k + 1 .. Len(s) PROVE u[d + 1] = s[d]
    OBVIOUS
  <2>1. PICK e \in 1 .. Len(s) - k : e = d - k
    BY <1>7
  <2>2. k + e = d /\ (k + 1) + e = d + 1
    BY <1>7, <2>1
  <2>3. u[Len(y) + e] = w[e]
    BY <1>5, <1>12
  <2>4. u[(k + 1) + e] = w[e]
    BY <1>6, <2>3
  <2> QED BY <1>5, <2>1, <2>2, <2>4
<1> QED BY <1>8, <1>9, <1>10

\* The sort's step puts one axis in, wherever it belongs.
LEMMA InsertGrows ==
  ASSUME NEW n \in Nat, NEW A \in Seq(PlanAxis(n)), NEW x \in PlanAxis(n)
  PROVE  Grows(A, Insert(A, x), n, x)
<1> DEFINE stop == {k \in 1 .. Len(A) : ~dim_outer_than(x, A[k])}
           at == IF stop = {} THEN 0 ELSE CHOOSE k \in stop : \A j \in stop : j <= k
<1>1. Len(A) \in Nat
  OBVIOUS
<1>2. at \in 0 .. Len(A)
  <2>1. CASE stop = {}
    BY <1>1, <2>1
  <2>2. CASE stop # {}
    <3>1. \E k \in stop : \A j \in stop : j <= k
      <4> HIDE DEF stop
      <4>1. stop \in SUBSET (1 .. Len(A))
        BY DEF stop
      <4> QED BY <1>1, <2>2, <4>1, Maximum
    <3>2. at \in stop
      <4> HIDE DEF stop
      <4> QED BY <2>2, <3>1
    <3> QED BY <3>2
  <2> QED BY <2>1, <2>2
<1>3. Insert(A, x) = SubSeq(A, 1, at) \o <<x>> \o SubSeq(A, at + 1, Len(A))
  BY DEF Insert
<1> HIDE DEF at
<1>4. /\ Insert(A, x) \in Seq(PlanAxis(n)) /\ Len(Insert(A, x)) = Len(A) + 1 /\ Insert(A, x)[at + 1] = x
      /\ \A d \in 1 .. at : Insert(A, x)[d] = A[d]
      /\ \A d \in at + 1 .. Len(A) : Insert(A, x)[d + 1] = A[d]
  <2>1. PICK k \in 0 .. Len(A) : k = at
    BY <1>2
  <2>2. PICK u : u = Insert(A, x)
    OBVIOUS
  <2>3. Splits(u, A, k, x)
    BY <1>3, <2>1, <2>2 DEF Splits
  <2>4. /\ u \in Seq(PlanAxis(n)) /\ Len(u) = Len(A) + 1 /\ u[k + 1] = x
        /\ \A d \in 1 .. k : u[d] = A[d]
        /\ \A d \in k + 1 .. Len(A) : u[d + 1] = A[d]
    BY <2>3, SplitAt
  <2> QED BY <2>1, <2>2, <2>4
<1>5. Inserts(A, Insert(A, x), at + 1, x)
  <2>1. at + 1 \in 1 .. Len(A) + 1 /\ (at + 1) - 1 = at
    BY <1>1, <1>2
  <2> QED BY <1>4, <2>1 DEF Inserts, Widens
<1> QED BY <1>4, <1>5, InsertsGrows

\* An axis appended is an axis more.
LEMMA AppendGrows ==
  ASSUME NEW n \in Nat, NEW A \in Seq(PlanAxis(n)), NEW x \in PlanAxis(n)
  PROVE  Grows(A, Append(A, x), n, x)
<1>1. Append(A, x) \in Seq(PlanAxis(n)) /\ Inserts(A, Append(A, x), Len(A) + 1, x)
  BY DEF Inserts, Widens
<1> QED BY <1>1, InsertsGrows

\* The last axis is an axis more than those before it.
LEMMA FrontGrows ==
  ASSUME NEW n \in Nat, NEW A \in Seq(PlanAxis(n)), A # <<>>
  PROVE  /\ Front(A) \in Seq(PlanAxis(n)) /\ Len(Front(A)) = Len(A) - 1 /\ Len(A) > 0
         /\ \A d \in 1 .. Len(A) - 1 : Front(A)[d] = A[d]
         /\ Last(A) \in PlanAxis(n) /\ Grows(Front(A), A, n, Last(A))
<1>1. Len(A) \in Nat /\ Len(A) > 0
  OBVIOUS
<1>2. /\ Front(A) \in Seq(PlanAxis(n)) /\ Len(Front(A)) = Len(A) - 1
      /\ \A d \in 1 .. Len(A) - 1 : Front(A)[d] = A[d]
  <2>1. PICK m \in Nat : m = Len(A) - 1
    BY <1>1
  <2>2. Front(A) = SubSeq(A, 1, m) /\ m <= Len(A)
    BY <1>1, <2>1 DEF Front
  <2>3. /\ SubSeq(A, 1, m) \in Seq(PlanAxis(n)) /\ Len(SubSeq(A, 1, m)) = m
        /\ \A d \in 1 .. m : SubSeq(A, 1, m)[d] = A[d]
    BY <2>2
  <2> QED BY <2>1, <2>2, <2>3
<1>3. Last(A) = A[Len(A)] /\ Last(A) \in PlanAxis(n)
  BY <1>1 DEF Last
<1>4. Inserts(Front(A), A, Len(A), Last(A))
  BY <1>1, <1>2, <1>3 DEF Inserts, Widens
<1> QED BY <1>1, <1>2, <1>3, <1>4, InsertsGrows

\* The merge's step takes one axis in, as its own or joined to the last.
LEMMA MergeGrows ==
  ASSUME NEW n \in Nat, NEW A \in Seq(PlanAxis(n)), NEW x \in PlanAxis(n)
  PROVE  Grows(A, Merge(A, x), n, x) /\ Merge(A, x) # <<>>
<1>1. CASE A # <<>> /\ Mergeable(Last(A), x)
  <2> DEFINE o == Last(A)
             m == [size |-> o.size * x.size, strides |-> x.strides]
             B == Append(Front(A), m)
  <2>1. /\ Front(A) \in Seq(PlanAxis(n)) /\ Last(A) \in PlanAxis(n)
        /\ Grows(Front(A), A, n, Last(A))
    BY <1>1, FrontGrows
  <2>2. /\ o.size \in Nat \ {0} /\ x.size \in Nat \ {0}
        /\ x.strides \in [1 .. n -> Nat] /\ Len(x.strides) = n
    BY <2>1 DEF PlanAxis
  <2>3. \A op \in 1 .. n : o.strides[op] = x.strides[op] * x.size
    BY <1>1, <2>2 DEF Mergeable
  <2>4. m \in PlanAxis(n) /\ m.size = o.size * x.size
    <3>1. o.size * x.size \in Nat \ {0}
      <4>1. PICK y \in Nat \ {0} : y = o.size
        BY <2>2
      <4>2. PICK z \in Nat \ {0} : z = x.size
        BY <2>2
      <4>3. y * z \in Nat \ {0}
        OBVIOUS
      <4> QED BY <4>1, <4>2, <4>3
    <3> QED BY <2>2, <3>1 DEF PlanAxis
  <2>5. Merge(A, x) = B
    <3>1. Merge(A, x) = Front(A) \o <<m>>
      BY <1>1 DEF Merge
    <3>2. Front(A) \o <<m>> = Append(Front(A), m)
      BY <2>1, <2>4
    <3> QED BY <3>1, <3>2
  <2>6. Grows(Front(A), B, n, m)
    <3> HIDE DEF m
    <3> QED BY <2>1, <2>4, AppendGrows
  <2>7. PICK V \in SUBSET [1 .. n -> Nat] : V = Vectors(Front(A), n)
    BY <2>1, VectorsAre
  <2>8. Spread(Spread(V, n, o), n, x) = Spread(V, n, m)
    BY <2>1, <2>3, SpreadMerged
  <2>9. Vectors(B, n) = Spread(Vectors(A, n), n, x)
    <3> HIDE DEF B, m, o
    <3> QED BY <2>1, <2>6, <2>7, <2>8 DEF Grows, o
  <2>10. Product(SizesOf(B)) = Product(SizesOf(A)) * x.size
    <3>1. /\ Product(SizesOf(B)) = Product(SizesOf(Front(A))) * m.size
          /\ Product(SizesOf(A)) = Product(SizesOf(Front(A))) * o.size
      BY <2>1, <2>6 DEF Grows
    <3>2. PICK p \in Nat : p = Product(SizesOf(Front(A)))
      <4>1. SizesOf(Front(A)) \in Seq(Nat) /\ Len(SizesOf(Front(A))) \in Nat
        BY <2>1, PlanAxes
      <4>2. 1 \in 1 .. Len(SizesOf(Front(A))) + 1
        BY <4>1
      <4> QED BY <4>1, <4>2, VolumeIs DEF Product
    <3>3. PICK y \in Nat : y = o.size
      BY <2>2
    <3>4. PICK z \in Nat : z = x.size
      BY <2>2
    <3>5. p * (y * z) = (p * y) * z
      OBVIOUS
    <3> QED BY <2>4, <3>1, <3>2, <3>3, <3>4, <3>5
  <2>11. B \in Seq(PlanAxis(n))
    BY <2>6 DEF Grows
  <2>12. B # <<>>
    <3> HIDE DEF m
    <3>1. Len(B) = Len(Front(A)) + 1 /\ Len(Front(A)) \in Nat
      BY <2>1, <2>4
    <3>2. Len(<<>>) = 0
      OBVIOUS
    <3> HIDE DEF B
    <3> QED BY <3>1, <3>2
  <2> HIDE DEF B
  <2> QED BY <2>5, <2>9, <2>10, <2>11, <2>12 DEF Grows
<1>2. CASE ~(A # <<>> /\ Mergeable(Last(A), x))
  <2>1. Merge(A, x) = Append(A, x)
    BY <1>2 DEF Merge
  <2>2. Append(A, x) # <<>>
    <3>1. Len(Append(A, x)) = Len(A) + 1 /\ Len(A) \in Nat
      OBVIOUS
    <3>2. Len(<<>>) = 0
      OBVIOUS
    <3>3. PICK u : u = Append(A, x)
      OBVIOUS
    <3>4. u # <<>>
      BY <3>1, <3>2, <3>3
    <3> QED BY <3>3, <3>4
  <2> QED BY <2>1, <2>2, AppendGrows
<1> QED BY <1>1, <1>2

(* The same offsets and as many elements.                                  *)
Alike(A, B, n) ==
  Vectors(A, n) = Vectors(B, n) /\ Product(SizesOf(A)) = Product(SizesOf(B))

\* An axis of size 1 may be dropped.
LEMMA UnitGrows ==
  ASSUME NEW n \in Nat, NEW A \in Seq(PlanAxis(n)), NEW x \in PlanAxis(n), x.size = 1
  PROVE  Grows(A, A, n, x)
<1>1. Vectors(A, n) \in SUBSET [1 .. n -> Nat]
  BY VectorsAre
<1>2. Spread(Vectors(A, n), n, x) = Vectors(A, n)
  BY <1>1, SpreadUnit
<1>3. Product(SizesOf(A)) \in Nat
  <2>1. SizesOf(A) \in Seq(Nat) /\ Len(SizesOf(A)) \in Nat
    BY PlanAxes
  <2>2. 1 \in 1 .. Len(SizesOf(A)) + 1
    BY <2>1
  <2> QED BY <2>1, <2>2, VolumeIs DEF Product
<1>4. Product(SizesOf(A)) * x.size = Product(SizesOf(A))
  BY <1>3
<1> QED BY <1>2, <1>4 DEF Grows

\* A prefix has one axis more than the prefix before it.
LEMMA PrefixGrows ==
  ASSUME NEW n \in Nat, NEW axes \in Seq(PlanAxis(n)), NEW k \in 1 .. Len(axes)
  PROVE  /\ SubSeq(axes, 1, k - 1) \in Seq(PlanAxis(n))
         /\ Grows(SubSeq(axes, 1, k - 1), SubSeq(axes, 1, k), n, axes[k])
<1>1. PICK u : u = SubSeq(axes, 1, k)
  OBVIOUS
<1>2. PICK h \in Nat : h = k - 1
  OBVIOUS
<1>3. PICK t : t = SubSeq(axes, 1, h)
  OBVIOUS
<1>4. u \in Seq(PlanAxis(n)) /\ Len(u) = k /\ \A d \in 1 .. k : u[d] = axes[d]
  BY <1>1
<1>5. t \in Seq(PlanAxis(n)) /\ Len(t) = h /\ \A d \in 1 .. h : t[d] = axes[d]
  BY <1>2, <1>3
<1>6. Inserts(t, u, k, axes[k])
  BY <1>2, <1>4, <1>5 DEF Inserts, Widens
<1>7. Grows(t, u, n, axes[k])
  BY <1>4, <1>5, <1>6, InsertsGrows
<1> QED BY <1>1, <1>2, <1>3, <1>5, <1>7

\* f[k] comes from f[k - 1] by axis k.
Gathers(f, axes, n) ==
  /\ f[0] = <<>>
  /\ \A k \in 1 .. Len(axes) : Grows(f[k - 1], f[k], n, axes[k])

\* A loop that takes one axis in at every step has the vectors of all.
LEMMA GathersAll ==
  ASSUME NEW n \in Nat, NEW axes \in Seq(PlanAxis(n)), NEW f, Gathers(f, axes, n)
  PROVE  Alike(f[Len(axes)], axes, n)
<1> DEFINE m == Len(axes)
           p(k) == SubSeq(axes, 1, k)
           S == {k \in 0 .. m : Alike(f[k], p(k), n)}
<1>1. m \in Nat
  OBVIOUS
<1>2. 0 \in S
  <2>1. p(0) = <<>>
    OBVIOUS
  <2>2. f[0] = <<>>
    BY DEF Gathers
  <2>3. f[0] = p(0)
    BY <2>1, <2>2
  <2> HIDE DEF p
  <2>4. Alike(f[0], p(0), n)
    BY <2>3 DEF Alike
  <2>5. 0 \in 0 .. m
    BY <1>1
  <2> HIDE DEF m
  <2> QED BY <2>4, <2>5
<1>3. \A k \in 1 .. m : k - 1 \in S => k \in S
  <2> SUFFICES ASSUME NEW k \in 1 .. m, k - 1 \in S PROVE k \in S
    OBVIOUS
  <2>1. Grows(p(k - 1), p(k), n, axes[k])
    BY PrefixGrows
  <2>2. Grows(f[k - 1], f[k], n, axes[k])
    BY DEF Gathers
  <2>3. Alike(f[k - 1], p(k - 1), n) /\ k \in 0 .. m
    BY <1>1
  <2> HIDE DEF p
  <2>4. Alike(f[k], p(k), n)
    BY <2>1, <2>2, <2>3 DEF Alike, Grows
  <2> QED BY <2>3, <2>4
<1>4. m \in S
  <2> HIDE DEF S, m
  <2> QED BY <1>1, <1>2, <1>3, Induction, SMTT(60)
<1>5. p(m) = axes
  OBVIOUS
<1> QED BY <1>4, <1>5

\* The stable sort by absolute stride keeps the vectors.
LEMMA SortedIs ==
  ASSUME NEW n \in Nat, NEW axes \in Seq(PlanAxis(n))
  PROVE  Sorted(axes) \in Seq(PlanAxis(n)) /\ Alike(Sorted(axes), axes, n)
<1> DEFINE m == Len(axes)
           X == Seq(PlanAxis(n))
           Then(d, A) == IF axes[d].size = 1 THEN A ELSE Insert(A, axes[d])
           step == [d \in 1 .. m |-> [A \in X |-> Then(d, A)]]
           Body(f) == [d \in 0 .. m |->
                         IF d = 0 THEN <<>>
                         ELSE IF axes[d].size = 1 THEN f[d - 1] ELSE Insert(f[d - 1], axes[d])]
<1>1. m \in Nat /\ \A d \in 1 .. m : axes[d] \in PlanAxis(n)
  OBVIOUS
<1>2. \A d \in 1 .. m : \A A \in X : Grows(A, Then(d, A), n, axes[d])
  <2> SUFFICES ASSUME NEW d \in 1 .. m, NEW A \in X PROVE Grows(A, Then(d, A), n, axes[d])
    OBVIOUS
  <2>1. CASE axes[d].size = 1
    BY <1>1, <2>1, UnitGrows
  <2>2. CASE axes[d].size # 1
    BY <1>1, <2>2, InsertGrows
  <2> QED BY <2>1, <2>2
<1>3. \A d \in 1 .. m : \A A \in X : Then(d, A) \in X
  <2> HIDE DEF Then
  <2> QED BY <1>2 DEF Grows
<1>4. step \in [1 .. m -> [X -> X]]
  <2> HIDE DEF Then, X
  <2> QED BY <1>3
<1>5. PICK f \in [0 .. m -> X] : Up(f, m, <<>>, step)
  <2> HIDE DEF step
  <2>1. <<>> \in X
    OBVIOUS
  <2> HIDE DEF X
  <2> QED BY <1>1, <1>4, <2>1, Ascent
<1>6. f[0] = <<>> /\ \A d \in 1 .. m : f[d] = Then(d, f[d - 1])
  <2>1. ASSUME NEW d \in 1 .. m PROVE step[d][f[d - 1]] = Then(d, f[d - 1])
    <3>1. d - 1 \in 0 .. m
      BY <1>1
    <3>2. f[d - 1] \in X
      BY <1>5, <3>1
    <3>3. step[d] = [A \in X |-> Then(d, A)]
      <4> HIDE DEF X, Then
      <4> QED OBVIOUS
    <3> HIDE DEF step, X, Then
    <3> QED BY <3>2, <3>3
  <2> HIDE DEF step, Then
  <2> QED BY <1>5, <2>1 DEF Up
<1>7. f = Body(f)
  <2>1. f = [d \in 0 .. m |-> f[d]]
    BY <1>5
  <2>2. \A d \in 0 .. m : f[d] = IF d = 0 THEN <<>>
                         ELSE IF axes[d].size = 1 THEN f[d - 1] ELSE Insert(f[d - 1], axes[d])
    BY <1>1, <1>6
  <2> HIDE DEF m
  <2> QED BY <2>1, <2>2
<1> DEFINE u == CHOOSE g : g = Body(g)
<1>8. u = Body(u)
  <2> HIDE DEF Body
  <2> QED BY <1>7
<1>9. Sorted(axes) = u[m]
  BY DEF Sorted
<1> HIDE DEF u
<1>10. u[0] = <<>> /\ \A d \in 1 .. m : u[d] = Then(d, u[d - 1])
  <2>1. \A d \in 0 .. m : u[d] = IF d = 0 THEN <<>>
                         ELSE IF axes[d].size = 1 THEN u[d - 1] ELSE Insert(u[d - 1], axes[d])
    <3> HIDE DEF m
    <3> QED BY <1>8
  <2>2. 0 \in 0 .. m /\ \A d \in 1 .. m : d \in 0 .. m /\ d # 0
    BY <1>1
  <2> HIDE DEF m
  <2> QED BY <2>1, <2>2
<1> DEFINE S == {d \in 0 .. m : u[d] \in X}
<1>11. 0 .. m \subseteq S
  <2>1. 0 \in S
    <3>1. 0 \in 0 .. m
      BY <1>1
    <3>2. <<>> \in X
      OBVIOUS
    <3> HIDE DEF X, m
    <3> QED BY <1>10, <3>1, <3>2
  <2>2. \A d \in 1 .. m : d - 1 \in S => d \in S
    <3> HIDE DEF Then, X
    <3> QED BY <1>1, <1>3, <1>10
  <2> HIDE DEF S, m
  <2> QED BY <1>1, <2>1, <2>2, Induction
<1>12. Gathers(u, axes, n)
  <2>1. ASSUME NEW d \in 1 .. m PROVE Grows(u[d - 1], u[d], n, axes[d])
    <3>1. d - 1 \in 0 .. m
      BY <1>1
    <3>2. u[d - 1] \in X
      BY <1>11, <3>1
    <3> HIDE DEF Then, X
    <3> QED BY <1>2, <1>10, <3>2
  <2> QED BY <1>10, <2>1 DEF Gathers
<1>13. u[m] \in X
  BY <1>1, <1>11
<1> QED BY <1>9, <1>12, <1>13, GathersAll

\* Dropping unit axes and merging adjacent ones keeps the vectors.
LEMMA MergedIs ==
  ASSUME NEW n \in Nat, NEW axes \in Seq(PlanAxis(n))
  PROVE  /\ Merged(axes) \in Seq(PlanAxis(n))
         /\ Alike(Merged(axes), axes, n)
         /\ axes # <<>> => Merged(axes) # <<>>
<1> DEFINE m == Len(axes)
           X == Seq(PlanAxis(n))
           step == [d \in 1 .. m |-> [A \in X |-> Merge(A, axes[d])]]
           Body(f) == [d \in 0 .. m |-> IF d = 0 THEN <<>> ELSE Merge(f[d - 1], axes[d])]
<1>1. m \in Nat /\ \A d \in 1 .. m : axes[d] \in PlanAxis(n)
  OBVIOUS
<1>2. \A d \in 1 .. m : \A A \in X : Grows(A, Merge(A, axes[d]), n, axes[d])
  BY <1>1, MergeGrows
<1>3. \A d \in 1 .. m : \A A \in X : Merge(A, axes[d]) \in X
  BY <1>2 DEF Grows
<1>4. step \in [1 .. m -> [X -> X]]
  <2> HIDE DEF X
  <2> QED BY <1>3
<1>5. PICK f \in [0 .. m -> X] : Up(f, m, <<>>, step)
  <2> HIDE DEF step
  <2>1. <<>> \in X
    OBVIOUS
  <2> HIDE DEF X
  <2> QED BY <1>1, <1>4, <2>1, Ascent
<1>6. f[0] = <<>> /\ \A d \in 1 .. m : f[d] = Merge(f[d - 1], axes[d])
  <2>1. ASSUME NEW d \in 1 .. m PROVE step[d][f[d - 1]] = Merge(f[d - 1], axes[d])
    <3>1. d - 1 \in 0 .. m
      BY <1>1
    <3>2. f[d - 1] \in X
      BY <1>5, <3>1
    <3>3. step[d] = [A \in X |-> Merge(A, axes[d])]
      <4> HIDE DEF X
      <4> QED OBVIOUS
    <3> HIDE DEF step, X
    <3> QED BY <3>2, <3>3
  <2> HIDE DEF step
  <2> QED BY <1>5, <2>1 DEF Up
<1>7. f = Body(f)
  <2>1. f = [d \in 0 .. m |-> f[d]]
    BY <1>5
  <2>2. \A d \in 0 .. m : f[d] = IF d = 0 THEN <<>> ELSE Merge(f[d - 1], axes[d])
    BY <1>1, <1>6
  <2> HIDE DEF m
  <2> QED BY <2>1, <2>2
<1> DEFINE u == CHOOSE g : g = Body(g)
<1>8. u = Body(u)
  <2> HIDE DEF Body
  <2> QED BY <1>7
<1>9. Merged(axes) = u[m]
  BY DEF Merged
<1> HIDE DEF u
<1>10. u[0] = <<>> /\ \A d \in 1 .. m : u[d] = Merge(u[d - 1], axes[d])
  <2>1. \A d \in 0 .. m : u[d] = IF d = 0 THEN <<>> ELSE Merge(u[d - 1], axes[d])
    <3> HIDE DEF m
    <3> QED BY <1>8
  <2>2. 0 \in 0 .. m /\ \A d \in 1 .. m : d \in 0 .. m /\ d # 0
    BY <1>1
  <2> HIDE DEF m
  <2> QED BY <2>1, <2>2
<1> DEFINE S == {d \in 0 .. m : u[d] \in X}
<1>11. 0 .. m \subseteq S
  <2>1. 0 \in S
    <3>1. 0 \in 0 .. m
      BY <1>1
    <3>2. <<>> \in X
      OBVIOUS
    <3> HIDE DEF X, m
    <3> QED BY <1>10, <3>1, <3>2
  <2>2. \A d \in 1 .. m : d - 1 \in S => d \in S
    <3> HIDE DEF X
    <3> QED BY <1>1, <1>3, <1>10
  <2> HIDE DEF S, m
  <2> QED BY <1>1, <2>1, <2>2, Induction
<1>12. Gathers(u, axes, n)
  <2>1. ASSUME NEW d \in 1 .. m PROVE Grows(u[d - 1], u[d], n, axes[d])
    <3>1. d - 1 \in 0 .. m
      BY <1>1
    <3>2. u[d - 1] \in X
      BY <1>11, <3>1
    <3> HIDE DEF X
    <3> QED BY <1>2, <1>10, <3>2
  <2> QED BY <1>10, <2>1 DEF Gathers
<1>13. u[m] \in X
  BY <1>1, <1>11
<1>14. ASSUME axes # <<>> PROVE u[m] # <<>>
  <2>1. m \in 1 .. m /\ m - 1 \in 0 .. m
    BY <1>1, <1>14
  <2>2. u[m - 1] \in X
    BY <1>11, <2>1
  <2> HIDE DEF m
  <2> QED BY <1>1, <1>10, <2>1, <2>2, MergeGrows
<1> QED BY <1>9, <1>12, <1>13, <1>14, GathersAll


(* The plan of some axes of n operands.                                    *)
PlanOf(p, axes, n) ==
  /\ p.axes \in Seq(PlanAxis(n)) /\ p.axes # <<>> /\ Alike(p.axes, axes, n)
  /\ p.tier \in 0 .. 3
  /\ p.tier <= 2 => /\ Last(p.axes).strides[1] = 1
                    /\ \A op \in 2 .. n : Last(p.axes).strides[op] \in {0, 1}

\* Below the scalar tier the inner strides are 1, or 0 in a source.
LEMMA TierIs ==
  ASSUME NEW n \in Nat \ {0}, NEW axes \in Seq(PlanAxis(n)), axes # <<>>
  PROVE  /\ Tier(axes) \in 0 .. 3
         /\ Tier(axes) <= 2 => /\ Last(axes).strides[1] = 1
                               /\ \A op \in 2 .. n : Last(axes).strides[op] \in {0, 1}
<1>1. Last(axes) \in PlanAxis(n)
  BY FrontGrows
<1>2. PICK s \in [1 .. n -> Nat] : s = Last(axes).strides
  BY <1>1 DEF PlanAxis
<1>3. Len(s) = n
  BY <1>2
<1>4. CASE \A op \in 1 .. n : s[op] = 1
  <2>1. Tier(axes) \in {0, 1}
    BY <1>2, <1>3, <1>4 DEF Tier
  <2> QED BY <1>2, <1>4, <2>1
<1>5. CASE ~(\A op \in 1 .. n : s[op] = 1)
  <2>1. Tier(axes) = IF s[1] = 1 /\ \A op \in 2 .. n : s[op] \in {0, 1} THEN 2 ELSE 3
    BY <1>2, <1>3, <1>5 DEF Tier
  <2> QED BY <1>2, <2>1
<1> QED BY <1>4, <1>5

\* The plan's axes have the vectors of the axes it was made from.
LEMMA ClassifyIs ==
  ASSUME NEW n \in Nat \ {0}, NEW axes \in Seq(PlanAxis(n)), Ops = 1 .. n
  PROVE  PlanOf(sort_merge_classify(axes), axes, n)
<1>1. Sorted(axes) \in Seq(PlanAxis(n)) /\ Alike(Sorted(axes), axes, n)
  BY SortedIs
<1>2. PICK sorted \in Seq(PlanAxis(n)) : sorted = Sorted(axes)
  BY <1>1
<1>3. CASE sorted = <<>>
  <2> DEFINE unit == [size |-> 1, strides |-> [op \in Ops |-> 0]]
             B == <<unit>>
  <2>1. unit \in PlanAxis(n) /\ unit.size = 1
    BY DEF PlanAxis
  <2>2. sort_merge_classify(axes) = [axes |-> B, tier |-> 3]
    BY <1>2, <1>3 DEF sort_merge_classify
  <2>3. Append(sorted, unit) = B
    <3> HIDE DEF unit
    <3> QED BY <1>3
  <2> HIDE DEF unit
  <2>4. B \in Seq(PlanAxis(n)) /\ B # <<>>
    BY <2>1
  <2> HIDE DEF B
  <2>5. Grows(sorted, B, n, unit) /\ Grows(sorted, sorted, n, unit)
    BY <2>1, <2>3, AppendGrows, UnitGrows
  <2>6. Alike(B, axes, n)
    BY <1>1, <1>2, <2>5 DEF Grows, Alike
  <2> QED BY <2>2, <2>4, <2>6 DEF PlanOf
<1>4. CASE sorted # <<>>
  <2>1. /\ Merged(sorted) \in Seq(PlanAxis(n)) /\ Alike(Merged(sorted), sorted, n)
        /\ Merged(sorted) # <<>>
    BY <1>4, MergedIs
  <2>2. PICK m \in Seq(PlanAxis(n)) : m = Merged(sorted)
    BY <2>1
  <2>3. sort_merge_classify(axes) = [axes |-> m, tier |-> Tier(m)]
    BY <1>2, <1>4, <2>2 DEF sort_merge_classify
  <2>4. Alike(m, axes, n)
    BY <1>1, <1>2, <2>1, <2>2 DEF Alike
  <2>5. /\ Tier(m) \in 0 .. 3
        /\ Tier(m) <= 2 => /\ Last(m).strides[1] = 1
                           /\ \A op \in 2 .. n : Last(m).strides[op] \in {0, 1}
    BY <2>1, <2>2, TierIs
  <2>6. PICK p : p = sort_merge_classify(axes)
    OBVIOUS
  <2>7. p.axes = m /\ p.tier = Tier(m)
    BY <2>3, <2>6
  <2>8. PlanOf(p, axes, n)
    BY <2>1, <2>2, <2>4, <2>5, <2>7 DEF PlanOf
  <2> QED BY <2>6, <2>8
<1> QED BY <1>3, <1>4

----------------------------------------------------------------------------
(* Coordinates of axes.                                                    *)
\* The axes as one operand sees them.
AxisView(axes, op) ==
  [sizes |-> SizesOf(axes), strides |-> [d \in 1 .. Len(axes) |-> axes[d].strides[op]]]
\* The coordinates of element i.
CoordOf(axes, i) == Coord(SizesOf(axes), i)

\* Axes have at least one element.
LEMMA ElementsPositive ==
  ASSUME NEW n \in Nat, NEW axes \in Seq(PlanAxis(n))
  PROVE  Product(SizesOf(axes)) \in Nat \ {0}
<1> DEFINE m == Len(axes)
           s == SizesOf(axes)
           S == {d \in 1 .. m + 1 : Volume(s, d) \in Nat \ {0}}
<1>1. /\ m \in Nat /\ s \in Seq(Nat) /\ Len(s) = m
      /\ \A d \in 1 .. m : s[d] \in Nat \ {0}
  BY PlanAxes
<1> HIDE DEF m, s
<1>2. /\ Volume(s, m + 1) = 1
      /\ \A d \in 1 .. m : Volume(s, d) = s[d] * Volume(s, d + 1)
  BY <1>1, VolumeIs
<1>3. m + 1 \in S
  BY <1>1, <1>2
<1>4. ASSUME NEW d \in 1 .. m, d + 1 \in S PROVE d \in S
  <2>1. PICK x \in Nat \ {0} : x = s[d]
    BY <1>1
  <2>2. PICK y \in Nat \ {0} : y = Volume(s, d + 1)
    BY <1>4
  <2>3. x * y \in Nat \ {0}
    OBVIOUS
  <2>4. Volume(s, d) \in Nat \ {0}
    BY <1>2, <2>1, <2>2, <2>3
  <2> QED BY <1>1, <2>4
<1>5. 1 .. m + 1 \subseteq S
  <2> HIDE DEF S
  <2> QED BY <1>1, <1>3, <1>4, Descent
<1>6. 1 \in 1 .. m + 1
  BY <1>1
<1> QED BY <1>5, <1>6 DEF Product, s

\* The offset of an element of the view is the axes' offset at its coordinates.
LEMMA AxisViewIs ==
  ASSUME NEW n \in Nat, NEW axes \in Seq(PlanAxis(n)), NEW op \in 1 .. n, NEW l, l = AxisView(axes, op)
  PROVE  /\ Strided(l) /\ rank(l) = Len(axes) /\ l.sizes = SizesOf(axes)
         /\ numel(l) = Product(SizesOf(axes)) /\ numel(l) > 0
         /\ \A i \in Nat : ElementOffset(l, i) = OffsetAt(axes, op, CoordOf(axes, i))
<1>1. /\ Len(axes) \in Nat /\ SizesOf(axes) \in Seq(Nat) /\ Len(SizesOf(axes)) = Len(axes)
      /\ \A d \in 1 .. Len(axes) : axes[d].strides[op] \in Nat
  BY PlanAxes
<1>2. l.sizes = SizesOf(axes) /\ l.strides = [d \in 1 .. Len(axes) |-> axes[d].strides[op]]
  BY DEF AxisView
<1>3. l.strides \in Seq(Nat) /\ Len(l.strides) = Len(axes)
  <2>1. l.strides \in [1 .. Len(axes) -> Nat]
    BY <1>1, <1>2
  <2> QED BY <1>1, <2>1, Tuples
<1>4. Strided(l) /\ rank(l) = Len(axes)
  BY <1>1, <1>2, <1>3 DEF Strided, rank
<1>5. numel(l) = Product(SizesOf(axes)) /\ numel(l) > 0
  BY <1>2, ElementsPositive DEF numel
<1>6. ASSUME NEW i \in Nat PROVE ElementOffset(l, i) = OffsetAt(axes, op, CoordOf(axes, i))
  <2>1. ElementOffset(l, i) = Sum([d \in 1 .. Len(CoordOf(axes, i)) |-> CoordOf(axes, i)[d] * l.strides[d]],
                                  Len(CoordOf(axes, i)))
    BY <1>2 DEF ElementOffset, Dot, CoordOf
  <2>2. Len(CoordOf(axes, i)) = Len(axes)
    BY <1>1 DEF CoordOf, Coord
  <2>3. \A d \in 1 .. Len(axes) : l.strides[d] = axes[d].strides[op]
    BY <1>2
  <2>4. [d \in 1 .. Len(axes) |-> CoordOf(axes, i)[d] * l.strides[d]] = AddsTo(axes, op, CoordOf(axes, i))
    BY <2>3 DEF AddsTo
  <2> QED BY <2>1, <2>2, <2>4 DEF OffsetAt
<1> QED BY <1>2, <1>4, <1>5, <1>6

\* Coordinates are quotients and remainders, within the sizes.
LEMMA CoordsOf ==
  ASSUME NEW n \in Nat \ {0}, NEW axes \in Seq(PlanAxis(n)), NEW i \in Nat
  PROVE  /\ CoordOf(axes, i) \in Box(axes)
         /\ CoordOf(axes, i) \in [1 .. Len(axes) -> Nat]
         /\ \A d \in 1 .. Len(axes) :
              /\ Volume(SizesOf(axes), d + 1) \in Nat \ {0}
              /\ CoordOf(axes, i)[d] = (i \div Volume(SizesOf(axes), d + 1)) % axes[d].size
              /\ CoordOf(axes, i)[d] \in 0 .. axes[d].size - 1
<1>1. 1 \in 1 .. n
  OBVIOUS
<1>2. PICK l : l = AxisView(axes, 1)
  OBVIOUS
<1>3. /\ Strided(l) /\ rank(l) = Len(axes) /\ l.sizes = SizesOf(axes) /\ numel(l) > 0
  BY <1>1, <1>2, AxisViewIs
<1>4. /\ Len(axes) \in Nat /\ Len(SizesOf(axes)) = Len(axes)
      /\ \A d \in 1 .. Len(axes) : SizesOf(axes)[d] = axes[d].size
  BY PlanAxes
<1>5. \A d \in 1 .. Len(axes) :
        /\ Volume(SizesOf(axes), d + 1) \in Nat \ {0}
        /\ CoordOf(axes, i)[d] = (i \div Volume(SizesOf(axes), d + 1)) % axes[d].size
        /\ CoordOf(axes, i)[d] \in 0 .. axes[d].size - 1
  <2>1. \A d \in 1 .. rank(l) :
              /\ Volume(l.sizes, d + 1) \in Nat \ {0}
              /\ Coord(l.sizes, i)[d] = (i \div Volume(l.sizes, d + 1)) % l.sizes[d]
              /\ Coord(l.sizes, i)[d] \in 0 .. l.sizes[d] - 1
    BY <1>3, Coordinates
  <2> QED BY <1>3, <1>4, <2>1 DEF CoordOf
<1>6. DOMAIN CoordOf(axes, i) = 1 .. Len(axes)
  BY <1>4 DEF CoordOf, Coord
<1>7. CoordOf(axes, i) \in [1 .. Len(axes) -> Nat]
  <2>1. CoordOf(axes, i) = [d \in 1 .. Len(axes) |-> CoordOf(axes, i)[d]]
    BY <1>4 DEF CoordOf, Coord
  <2>2. \A d \in 1 .. Len(axes) : CoordOf(axes, i)[d] \in Nat
    BY <1>5
  <2> QED BY <2>1, <2>2
<1>8. \A d \in 1 .. Len(axes) : CoordOf(axes, i)[d] < axes[d].size
  <2> SUFFICES ASSUME NEW d \in 1 .. Len(axes) PROVE CoordOf(axes, i)[d] < axes[d].size
    OBVIOUS
  <2>1. axes[d].size \in Nat
    BY PlanAxes
  <2> QED BY <1>5, <2>1
<1> QED BY <1>5, <1>7, <1>8 DEF Box

(* Every coordinate is an element's, of one element.                       *)
LEMMA BoxIsCoords ==
  ASSUME NEW n \in Nat \ {0}, NEW axes \in Seq(PlanAxis(n)), NEW c \in Box(axes)
  PROVE  \E i \in 0 .. Product(SizesOf(axes)) - 1 : CoordOf(axes, i) = c
<1>1. 1 \in 1 .. n
  OBVIOUS
<1>2. PICK l : l = AxisView(axes, 1)
  OBVIOUS
<1>3. /\ Strided(l) /\ rank(l) = Len(axes) /\ l.sizes = SizesOf(axes) /\ numel(l) > 0
      /\ numel(l) = Product(SizesOf(axes))
  BY <1>1, <1>2, AxisViewIs
<1>4. /\ \A d \in 1 .. Len(axes) : SizesOf(axes)[d] = axes[d].size
  BY PlanAxes
<1>5. c \in [1 .. rank(l) -> Nat] /\ \A d \in 1 .. rank(l) : c[d] < l.sizes[d]
  BY <1>3, <1>4 DEF Box
<1>6. PICK i \in 0 .. numel(l) - 1 : \A d \in 1 .. rank(l) : Coord(l.sizes, i)[d] = c[d]
  BY <1>3, <1>5, ElementAt, SMTT(60)
<1>7. i \in Nat
  BY <1>3, ElementsPositive
<1>8. CoordOf(axes, i) \in [1 .. Len(axes) -> Nat]
  BY <1>7, CoordsOf
<1>9. \A d \in 1 .. Len(axes) : CoordOf(axes, i)[d] = c[d]
  BY <1>3, <1>6 DEF CoordOf
<1>10. c \in [1 .. Len(axes) -> Nat]
  BY <1>3, <1>5
<1>11. CoordOf(axes, i) = c
  BY <1>8, <1>9, <1>10
<1> QED BY <1>3, <1>6, <1>11

\* Different elements have different coordinates.
LEMMA CoordsDiffer ==
  ASSUME NEW n \in Nat \ {0}, NEW axes \in Seq(PlanAxis(n)),
         NEW i \in 0 .. Product(SizesOf(axes)) - 1, NEW j \in 0 .. Product(SizesOf(axes)) - 1,
         CoordOf(axes, i) = CoordOf(axes, j)
  PROVE  i = j
<1>1. 1 \in 1 .. n
  OBVIOUS
<1>2. PICK l : l = AxisView(axes, 1)
  OBVIOUS
<1>3. /\ Strided(l) /\ rank(l) = Len(axes) /\ l.sizes = SizesOf(axes) /\ numel(l) > 0
      /\ numel(l) = Product(SizesOf(axes))
  BY <1>1, <1>2, AxisViewIs
<1>4. \A d \in 1 .. rank(l) : Coord(l.sizes, i)[d] = Coord(l.sizes, j)[d]
  BY <1>3 DEF CoordOf
<1>5. Differing(l, i, j) = {}
  BY <1>4 DEF Differing
<1>6. i \in Nat /\ j \in Nat /\ i < numel(l) /\ j < numel(l)
  BY <1>3, ElementsPositive
<1> QED BY <1>3, <1>5, <1>6, SameCoordinates

(* A coordinate changed moves the offset.                                  *)
LEMMA OffsetChange ==
  ASSUME NEW n \in Nat, NEW axes \in Seq(PlanAxis(n)), NEW op \in 1 .. n,
         NEW c \in [1 .. Len(axes) -> Nat], NEW e \in [1 .. Len(axes) -> Nat], NEW k \in 1 .. Len(axes),
         \A d \in 1 .. Len(axes) : d # k => e[d] = c[d]
  PROVE  OffsetAt(axes, op, e) = OffsetAt(axes, op, c) + (e[k] - c[k]) * axes[k].strides[op]
<1>1. PICK t : t = AddsTo(axes, op, c)
  OBVIOUS
<1>2. PICK u : u = AddsTo(axes, op, e)
  OBVIOUS
<1>3. /\ t \in Seq(Int) /\ Len(t) = Len(axes) /\ OffsetAt(axes, op, c) = Sum(t, Len(axes))
      /\ \A d \in 1 .. Len(axes) : t[d] = c[d] * axes[d].strides[op]
  BY <1>1, OffsetIs DEF OffsetAt
<1>4. /\ u \in Seq(Int) /\ Len(u) = Len(axes) /\ OffsetAt(axes, op, e) = Sum(u, Len(axes))
      /\ \A d \in 1 .. Len(axes) : u[d] = e[d] * axes[d].strides[op]
  BY <1>2, OffsetIs DEF OffsetAt
<1>5. \A d \in 1 .. Len(t) : d # k => u[d] = t[d]
  BY <1>3, <1>4
<1>6. Sum(u, Len(t)) = Sum(t, Len(t)) + (u[k] - t[k])
  BY <1>3, <1>4, <1>5, SumChange
<1>7. axes[k].strides[op] \in Nat /\ c[k] \in Nat /\ e[k] \in Nat
  BY PlanAxes
<1>8. u[k] - t[k] = (e[k] - c[k]) * axes[k].strides[op]
  <2>1. PICK x \in Nat : x = e[k]
    BY <1>7
  <2>2. PICK y \in Nat : y = c[k]
    BY <1>7
  <2>3. PICK z \in Nat : z = axes[k].strides[op]
    BY <1>7
  <2>4. x * z - y * z = (x - y) * z
    OBVIOUS
  <2>5. u[k] = x * z /\ t[k] = y * z
    BY <1>3, <1>4, <2>1, <2>2, <2>3
  <2> QED BY <2>1, <2>2, <2>3, <2>4, <2>5
<1> QED BY <1>3, <1>4, <1>6, <1>8

\* Coordinates that are e from dimension d on, c before it.
Mixed(m, c, e, d) == [k \in 1 .. m |-> IF k < d THEN c[k] ELSE e[k]]
\* The offsets of all operands at the coordinates.
OffsetsOf(axes, n, c) == [op \in 1 .. n |-> OffsetAt(axes, op, c)]

\* Neighbouring mixes differ in one dimension.
Mixes(m, c, e) ==
  /\ \A d \in 1 .. m + 1 : Mixed(m, c, e, d) \in [1 .. m -> Nat]
  /\ Mixed(m, c, e, 1) = e /\ Mixed(m, c, e, m + 1) = c
  /\ \A d \in 1 .. m : /\ Mixed(m, c, e, d + 1)[d] = c[d]
                       /\ Mixed(m, c, e, d) = [Mixed(m, c, e, d + 1) EXCEPT ![d] = e[d]]

\* Neighbouring mixes differ in one dimension.
LEMMA MixedIs ==
  ASSUME NEW m \in Nat, NEW c \in [1 .. m -> Nat], NEW e \in [1 .. m -> Nat]
  PROVE  Mixes(m, c, e)
<1>1. \A d \in 1 .. m + 1 : Mixed(m, c, e, d) \in [1 .. m -> Nat]
  BY DEF Mixed
<1>2. Mixed(m, c, e, 1) = e
  <2>1. \A k \in 1 .. m : Mixed(m, c, e, 1)[k] = e[k]
    BY DEF Mixed
  <2>2. 1 \in 1 .. m + 1
    OBVIOUS
  <2>3. Mixed(m, c, e, 1) \in [1 .. m -> Nat]
    BY <1>1, <2>2
  <2> QED BY <2>1, <2>3
<1>3. Mixed(m, c, e, m + 1) = c
  <2>1. \A k \in 1 .. m : Mixed(m, c, e, m + 1)[k] = c[k]
    BY DEF Mixed
  <2>2. m + 1 \in 1 .. m + 1
    OBVIOUS
  <2>3. Mixed(m, c, e, m + 1) \in [1 .. m -> Nat]
    BY <1>1, <2>2
  <2> QED BY <2>1, <2>3
<1>4. ASSUME NEW d \in 1 .. m
      PROVE  /\ Mixed(m, c, e, d + 1)[d] = c[d]
             /\ Mixed(m, c, e, d) = [Mixed(m, c, e, d + 1) EXCEPT ![d] = e[d]]
  <2>1. PICK f \in [1 .. m -> Nat] : f = Mixed(m, c, e, d + 1)
    <3>1. d + 1 \in 1 .. m + 1
      OBVIOUS
    <3> QED BY <1>1, <3>1
  <2>2. PICK g \in [1 .. m -> Nat] : g = Mixed(m, c, e, d)
    <3>1. d \in 1 .. m + 1
      OBVIOUS
    <3> QED BY <1>1, <3>1
  <2>3. \A k \in 1 .. m : f[k] = IF k < d + 1 THEN c[k] ELSE e[k]
    BY <2>1 DEF Mixed
  <2>4. \A k \in 1 .. m : g[k] = IF k < d THEN c[k] ELSE e[k]
    BY <2>2 DEF Mixed
  <2>5. ASSUME NEW k \in 1 .. m PROVE g[k] = IF k = d THEN e[d] ELSE f[k]
    <3>1. CASE k < d
      <4>1. k < d + 1 /\ k # d
        BY <3>1
      <4> QED BY <2>3, <2>4, <3>1, <4>1
    <3>2. CASE k = d
      <4>1. ~(k < d)
        BY <3>2
      <4> QED BY <2>4, <3>2, <4>1
    <3>3. CASE k > d
      <4>1. ~(k < d) /\ ~(k < d + 1) /\ k # d
        BY <3>3
      <4> QED BY <2>3, <2>4, <4>1
    <3> QED BY <3>1, <3>2, <3>3
  <2>6. g = [f EXCEPT ![d] = e[d]]
    BY <2>5
  <2>7. f[d] = c[d]
    BY <2>3
  <2> QED BY <2>1, <2>2, <2>6, <2>7
<1> QED BY <1>1, <1>2, <1>3, <1>4 DEF Mixes

\* Two coordinates of the axes.
Counts(n, axes, c, e) ==
  axes \in Seq(PlanAxis(n)) /\ c \in [1 .. Len(axes) -> Nat] /\ e \in [1 .. Len(axes) -> Nat]

\* Exchanging one coordinate moves the offset by its stride.
LEMMA MixedOffset ==
  ASSUME NEW n \in Nat, NEW axes, NEW c, NEW e, Counts(n, axes, c, e),
         NEW op \in 1 .. n, NEW d \in 1 .. Len(axes)
  PROVE  OffsetAt(axes, op, Mixed(Len(axes), c, e, d))
           = OffsetAt(axes, op, Mixed(Len(axes), c, e, d + 1)) + (e[d] - c[d]) * axes[d].strides[op]
<1> DEFINE m == Len(axes)
<1>0. axes \in Seq(PlanAxis(n)) /\ c \in [1 .. m -> Nat] /\ e \in [1 .. m -> Nat]
  BY DEF Counts
<1>1. m \in Nat
  BY <1>0
<1>2. d \in 1 .. m + 1 /\ d + 1 \in 1 .. m + 1
  BY <1>1
<1>3. PICK f \in [1 .. m -> Nat] : f = Mixed(m, c, e, d + 1)
  BY <1>0, <1>1, <1>2, MixedIs DEF Mixes
<1>4. PICK g \in [1 .. m -> Nat] : g = Mixed(m, c, e, d)
  BY <1>0, <1>1, <1>2, MixedIs DEF Mixes
<1>5. f[d] = c[d] /\ g[d] = e[d] /\ \A k \in 1 .. m : k # d => g[k] = f[k]
  <2>1. \A k \in 1 .. m : f[k] = IF k < d + 1 THEN c[k] ELSE e[k]
    BY <1>3 DEF Mixed
  <2>2. \A k \in 1 .. m : g[k] = IF k < d THEN c[k] ELSE e[k]
    BY <1>4 DEF Mixed
  <2> QED BY <1>1, <2>1, <2>2
<1>6. OffsetAt(axes, op, g) = OffsetAt(axes, op, f) + (g[d] - f[d]) * axes[d].strides[op]
  BY <1>0, <1>3, <1>4, <1>5, OffsetChange
<1> QED BY <1>3, <1>4, <1>5, <1>6

\* The element at the origin has offset 0.
LEMMA OffsetOfZero ==
  ASSUME NEW n \in Nat, NEW axes \in Seq(PlanAxis(n)), NEW op \in 1 .. n,
         NEW c \in [1 .. Len(axes) -> Nat], \A d \in 1 .. Len(axes) : c[d] = 0
  PROVE  OffsetAt(axes, op, c) = 0
<1>1. PICK t : t = AddsTo(axes, op, c)
  OBVIOUS
<1>2. /\ t \in Seq(Int) /\ Len(t) = Len(axes) /\ OffsetAt(axes, op, c) = Sum(t, Len(axes))
      /\ \A d \in 1 .. Len(axes) : t[d] = c[d] * axes[d].strides[op]
  BY <1>1, OffsetIs DEF OffsetAt
<1>3. PICK g \in Int : g = 0
  OBVIOUS
<1>7. ASSUME NEW d \in 1 .. Len(t) PROVE Multiple(t[d], g)
  <2>1. axes[d].strides[op] \in Nat /\ c[d] = 0
    BY <1>2, PlanAxes
  <2>2. t[d] = 0
    BY <1>2, <2>1
  <2>3. 0 \in Int /\ t[d] = 0 * 0
    BY <2>2
  <2> QED BY <1>3, <2>3 DEF Multiple
<1>4. Len(axes) \in 0 .. Len(t)
  BY <1>2
<1>5. \A d \in 0 .. Len(t) : Multiple(Sum(t, d), g)
  BY <1>2, <1>7, SumMultiple
<1>6. Sum(t, Len(axes)) = 0
  BY <1>3, <1>4, <1>5 DEF Multiple
<1> QED BY <1>2, <1>6

(* The division loop of loop2d: the coordinates and offsets of a row.      *)
RowState(n, m) == [rem : Nat, coord : [1 .. m -> Nat], offsets : [1 .. n -> Int]]
RowFrom(x, d) ==
  [rem |-> x.rem \div Outer[d].size,
   coord |-> [x.coord EXCEPT ![d] = x.rem % Outer[d].size],
   offsets |-> [op \in Ops |-> x.offsets[op] + (x.rem % Outer[d].size) * Outer[d].strides[op]]]

\* The step of the division loop for one dimension.
LEMMA RowFromIs ==
  ASSUME NEW n \in Nat, Ops = 1 .. n, Outer \in Seq(PlanAxis(n)), NEW d \in 1 .. Len(Outer),
         NEW x \in RowState(n, Len(Outer))
  PROVE  /\ RowFrom(x, d) \in RowState(n, Len(Outer))
         /\ RowFrom(x, d).rem = x.rem \div Outer[d].size
         /\ RowFrom(x, d).coord = [x.coord EXCEPT ![d] = x.rem % Outer[d].size]
         /\ \A op \in 1 .. n :
              RowFrom(x, d).offsets[op]
                = x.offsets[op] + (x.rem % Outer[d].size) * Outer[d].strides[op]
<1>1. /\ x.rem \in Nat /\ x.coord \in [1 .. Len(Outer) -> Nat] /\ x.offsets \in [1 .. n -> Int]
  BY DEF RowState
<1>2. PICK z \in Nat \ {0} : z = Outer[d].size
  BY PlanAxes
<1>3. x.rem \div z \in Nat /\ x.rem % z \in Nat
  BY <1>1, Digits
<1>4. PICK k \in Nat : k = x.rem % z
  BY <1>3
<1>5. PICK s \in [1 .. n -> Nat] : s = Outer[d].strides
  BY PlanAxes
<1>6. \A op \in 1 .. n : x.offsets[op] + k * s[op] \in Int
  <2>1. \A op \in 1 .. n : x.offsets[op] \in Int /\ s[op] \in Nat
    BY <1>1
  <2>2. \A y \in Int, u \in Nat : y + k * u \in Int
    OBVIOUS
  <2> QED BY <2>1, <2>2
<1>7. [x.coord EXCEPT ![d] = k] \in [1 .. Len(Outer) -> Nat]
  BY <1>1
<1>8. [op \in Ops |-> x.offsets[op] + k * s[op]] \in [1 .. n -> Int]
  BY <1>6
<1>9. RowFrom(x, d) = [rem |-> x.rem \div z, coord |-> [x.coord EXCEPT ![d] = k],
                       offsets |-> [op \in Ops |-> x.offsets[op] + k * s[op]]]
  BY <1>2, <1>4, <1>5 DEF RowFrom
<1>10. RowFrom(x, d) \in RowState(n, Len(Outer))
  <2>1. PICK p \in [1 .. Len(Outer) -> Nat] : p = [x.coord EXCEPT ![d] = k]
    BY <1>7
  <2>2. PICK o \in [1 .. n -> Int] : o = [op \in Ops |-> x.offsets[op] + k * s[op]]
    BY <1>8
  <2>3. RowFrom(x, d) = [rem |-> x.rem \div z, coord |-> p, offsets |-> o]
    BY <1>9, <2>1, <2>2
  <2> QED BY <1>3, <2>3, SMTT(60) DEF RowState
<1>11. \A op \in 1 .. n : RowFrom(x, d).offsets[op] = x.offsets[op] + k * s[op]
  BY <1>9
<1> QED BY <1>2, <1>4, <1>5, <1>9, <1>10, <1>11

\* The division loop finds the coordinates and the offsets of a row.
LEMMA FirstRowIs ==
  ASSUME NEW n \in Nat \ {0}, Ops = 1 .. n, Outer \in Seq(PlanAxis(n)), NEW r \in Nat
  PROVE  /\ FirstRow(r).coord = CoordOf(Outer, r)
         /\ FirstRow(r).offsets = OffsetsOf(Outer, n, CoordOf(Outer, r))
<1> DEFINE m == Len(Outer)
           D == 1 .. m + 1
           c == CoordOf(Outer, r)
           zero == [e \in 1 .. Len(Outer) |-> 0]
           last == [rem |-> r, coord |-> zero, offsets |-> [op \in Ops |-> 0]]
           X == RowState(n, m)
           step == [d \in 1 .. m |-> [x \in X |-> RowFrom(x, d)]]
           Body(f) == [d \in D |-> IF d > m THEN last ELSE RowFrom(f[d + 1], d)]
<1>1. m \in Nat /\ n \in Nat
  OBVIOUS
<1>2. /\ c \in [1 .. m -> Nat]
      /\ \A d \in 1 .. m : /\ Volume(SizesOf(Outer), d + 1) \in Nat \ {0}
                           /\ c[d] = (r \div Volume(SizesOf(Outer), d + 1)) % Outer[d].size
  BY CoordsOf
<1>3. \A d \in 1 .. m : \A x \in X : RowFrom(x, d) \in X
  BY <1>1, RowFromIs
<1>4. last \in X /\ last.rem = r /\ last.coord = zero /\ last.offsets = [op \in Ops |-> 0]
  BY DEF RowState
<1>5. \E f : f = Body(f)
  <2>1. step \in [1 .. m -> [X -> X]]
    <3> HIDE DEF X
    <3> QED BY <1>3
  <2>2. PICK f \in [D -> X] : Down(f, m, last, step)
    <3> HIDE DEF step, last, X
    <3> QED BY <1>1, <1>4, <2>1, Descending
  <2>3. ASSUME NEW d \in 1 .. m PROVE f[d] = RowFrom(f[d + 1], d)
    <3>1. d + 1 \in D
      BY <1>1
    <3>2. f[d + 1] \in X
      BY <2>2, <3>1
    <3>3. step[d] = [x \in X |-> RowFrom(x, d)]
      <4> HIDE DEF X
      <4> QED OBVIOUS
    <3>4. step[d][f[d + 1]] = RowFrom(f[d + 1], d)
      <4> HIDE DEF X, step
      <4> QED BY <3>2, <3>3
    <3> HIDE DEF step
    <3> QED BY <2>2, <3>4 DEF Down
  <2>4. f[m + 1] = last
    BY <2>2 DEF Down
  <2>5. ASSUME NEW d \in D PROVE f[d] = IF d > m THEN last ELSE RowFrom(f[d + 1], d)
    <3>1. CASE d = m + 1
      BY <1>1, <2>4, <3>1
    <3>2. CASE d # m + 1
      <4>1. d \in 1 .. m /\ ~(d > m)
        BY <1>1, <3>2
      <4> QED BY <2>3, <4>1
    <3> QED BY <3>1, <3>2
  <2> HIDE DEF last, X
  <2>6. f = [d \in D |-> f[d]]
    BY <2>2
  <2> QED BY <2>5, <2>6
<1> DEFINE u == CHOOSE f : f = Body(f)
<1>6. u = Body(u)
  <2> HIDE DEF Body
  <2> QED BY <1>5
<1>7. FirstRow(r) = u[1]
  BY DEF FirstRow, RowFrom
<1> HIDE DEF u
<1>8. u[m + 1] = last /\ \A d \in 1 .. m : u[d] = RowFrom(u[d + 1], d)
  <2>1. \A d \in D : u[d] = IF d > m THEN last ELSE RowFrom(u[d + 1], d)
    <3> HIDE DEF last
    <3> QED BY <1>6
  <2>2. m + 1 \in D /\ m + 1 > m /\ \A d \in 1 .. m : d \in D /\ ~(d > m)
    BY <1>1
  <2> HIDE DEF last
  <2> QED BY <2>1, <2>2
<1> DEFINE mix(d) == Mixed(m, zero, c, d)
           S == {d \in D : /\ u[d] \in X
                           /\ u[d].rem = r \div Volume(SizesOf(Outer), d)
                           /\ u[d].coord = mix(d)
                           /\ u[d].offsets = OffsetsOf(Outer, n, mix(d))}
<1>9. /\ Volume(SizesOf(Outer), m + 1) = 1
      /\ \A d \in 1 .. m : Volume(SizesOf(Outer), d) = Outer[d].size * Volume(SizesOf(Outer), d + 1)
  <2>1. /\ SizesOf(Outer) \in Seq(Nat) /\ Len(SizesOf(Outer)) = m
        /\ \A d \in 1 .. m : SizesOf(Outer)[d] = Outer[d].size
    BY <1>1, PlanAxes
  <2> QED BY <2>1, VolumeIs
<1>10. /\ zero \in [1 .. m -> Nat] /\ \A d \in 1 .. m : zero[d] = 0
  OBVIOUS
<1>11. /\ \A d \in D : mix(d) \in [1 .. m -> Nat]
       /\ mix(1) = c /\ mix(m + 1) = zero
       /\ \A d \in 1 .. m : mix(d) = [mix(d + 1) EXCEPT ![d] = c[d]]
  <2>1. zero \in [1 .. m -> Nat] /\ c \in [1 .. m -> Nat]
    BY <1>2, <1>10
  <2> HIDE DEF zero, c, m
  <2>2. Mixes(m, zero, c)
    BY ONLY <1>1, <2>1, MixedIs
  <2> QED BY <2>2 DEF Mixes
<1>12. m + 1 \in S
  <2>1. r \div 1 = r /\ m + 1 \in D
    BY <1>1
  <2>2. OffsetsOf(Outer, n, zero) = [op \in Ops |-> 0]
    <3>1. \A op \in 1 .. n : OffsetAt(Outer, op, zero) = 0
      <4> HIDE DEF zero
      <4> QED BY <1>1, <1>10, OffsetOfZero
    <3> QED BY <3>1 DEF OffsetsOf
  <2> HIDE DEF last, X, zero, mix
  <2> QED BY <1>4, <1>8, <1>9, <1>11, <2>1, <2>2
<1>13. ASSUME NEW d \in 1 .. m, d + 1 \in S PROVE d \in S
  <2> DEFINE x == u[d + 1]
             v == Volume(SizesOf(Outer), d + 1)
             q == r \div v
  <2>1. /\ x \in X /\ x.rem = q /\ x.coord = mix(d + 1) /\ x.offsets = OffsetsOf(Outer, n, mix(d + 1))
    BY <1>13
  <2>2. u[d] = RowFrom(x, d) /\ d \in D
    BY <1>1, <1>8
  <2>3. v \in Nat \ {0} /\ Outer[d].size \in Nat \ {0} /\ c[d] = q % Outer[d].size
    BY <1>1, <1>2, PlanAxes
  <2> HIDE DEF x, mix, c, zero
  <2>4. /\ u[d] \in X
        /\ u[d].rem = q \div Outer[d].size
        /\ u[d].coord = [mix(d + 1) EXCEPT ![d] = c[d]]
        /\ \A op \in 1 .. n :
              u[d].offsets[op] = OffsetsOf(Outer, n, mix(d + 1))[op] + c[d] * Outer[d].strides[op]
    <3> HIDE DEF q
    <3> QED BY <1>1, <2>1, <2>2, <2>3, RowFromIs
  <2>5. u[d].rem = r \div Volume(SizesOf(Outer), d)
    <3>1. PICK z \in Nat \ {0} : z = Outer[d].size
      BY <2>3
    <3>2. r \div (z * v) = (r \div v) \div z
      <4> HIDE DEF v
      <4> QED BY <2>3, QuotientOfQuotient
    <3> QED BY <1>9, <2>4, <3>1, <3>2
  <2>6. u[d].coord = mix(d)
    BY <1>11, <2>4
  <2>7. \A op \in 1 .. n : u[d].offsets[op] = OffsetAt(Outer, op, mix(d))
    <3> SUFFICES ASSUME NEW op \in 1 .. n PROVE u[d].offsets[op] = OffsetAt(Outer, op, mix(d))
      OBVIOUS
    <3>1. OffsetAt(Outer, op, mix(d)) = OffsetAt(Outer, op, mix(d + 1)) + (c[d] - zero[d]) * Outer[d].strides[op]
      <4>1. zero \in [1 .. Len(Outer) -> Nat] /\ c \in [1 .. Len(Outer) -> Nat]
        BY <1>2, <1>10
      <4>2. OffsetAt(Outer, op, Mixed(Len(Outer), zero, c, d))
              = OffsetAt(Outer, op, Mixed(Len(Outer), zero, c, d + 1))
                  + (c[d] - zero[d]) * Outer[d].strides[op]
        <5>1. Counts(n, Outer, zero, c)
          BY <1>1, <4>1 DEF Counts
        <5> QED BY <5>1, MixedOffset
      <4> QED BY <4>2 DEF mix
    <3>2. zero[d] = 0 /\ c[d] \in Nat
      BY <1>2, <1>10
    <3>3. c[d] - 0 = c[d]
      BY <3>2
    <3>4. OffsetsOf(Outer, n, mix(d + 1))[op] = OffsetAt(Outer, op, mix(d + 1))
      BY DEF OffsetsOf
    <3> QED BY <2>4, <3>1, <3>2, <3>3, <3>4
  <2>8. u[d].offsets = OffsetsOf(Outer, n, mix(d))
    <3>1. u[d].offsets \in [1 .. n -> Int]
      BY <2>4 DEF RowState
    <3> QED BY <2>7, <3>1 DEF OffsetsOf
  <2> HIDE DEF X
  <2> QED BY <2>2, <2>4, <2>5, <2>6, <2>8
<1>14. D \subseteq S
  <2> HIDE DEF S
  <2> QED BY <1>1, <1>12, <1>13, Descent
<1>15. 1 \in D
  BY <1>1
<1>16. u[1].coord = mix(1) /\ u[1].offsets = OffsetsOf(Outer, n, mix(1))
  BY <1>14, <1>15
<1> HIDE DEF mix
<1> QED BY <1>7, <1>11, <1>16

(* Counting on: quotients, digits and multiples of the next number.        *)
LEMMA NextQuotient ==
  ASSUME NEW r \in Nat, NEW v \in Nat \ {0}
  PROVE  /\ (r + 1) % v = 0 => (r + 1) \div v = (r \div v) + 1 /\ r % v = v - 1
         /\ (r + 1) % v # 0 => (r + 1) \div v = r \div v
<1>1. PICK q \in Nat : q = r \div v
  BY Division
<1>2. PICK x \in 0 .. v - 1 : x = r % v
  BY Division
<1>3. r = v * q + x
  BY <1>1, <1>2, Division
<1>4. PICK p \in Nat : p = (r + 1) \div v
  <2>1. r + 1 \in Nat
    OBVIOUS
  <2> QED BY <2>1, Division
<1>5. PICK y \in 0 .. v - 1 : y = (r + 1) % v
  <2>1. r + 1 \in Nat
    OBVIOUS
  <2> QED BY <2>1, Division
<1>6. r + 1 = v * p + y
  <2>1. r + 1 \in Nat
    OBVIOUS
  <2> QED BY <1>4, <1>5, <2>1, Division
<1>7. CASE x = v - 1
  <2>1. v * (q + 1) = v * q + v /\ v * q \in Nat
    OBVIOUS
  <2>2. r + 1 = v * (q + 1) + 0 /\ 0 \in 0 .. v - 1 /\ q + 1 \in Nat /\ r + 1 \in Nat
    BY <1>3, <1>7, <2>1
  <2>3. p = q + 1
    BY <1>4, <2>2, Quotient
  <2>4. y = 0
    <3>1. PICK w \in Nat : w = v * (q + 1)
      BY <2>1
    <3> QED BY <1>6, <2>2, <2>3, <3>1
  <2> QED BY <1>1, <1>2, <1>4, <1>5, <1>7, <2>3, <2>4
<1>8. CASE x # v - 1
  <2>1. r + 1 = v * q + (x + 1) /\ x + 1 \in 0 .. v - 1 /\ r + 1 \in Nat
    <3>1. PICK w \in Nat : w = v * q
      OBVIOUS
    <3> QED BY <1>3, <1>8, <3>1
  <2>2. p = q
    BY <1>4, <2>1, Quotient
  <2>3. y = x + 1
    <3>1. PICK w \in Nat : w = v * q
      OBVIOUS
    <3> QED BY <1>6, <2>1, <2>2, <3>1
  <2>4. y # 0
    BY <2>3
  <2> QED BY <1>1, <1>4, <1>5, <2>2, <2>4
<1> QED BY <1>7, <1>8

\* The next number's last digit, with the carry.
LEMMA NextDigit ==
  ASSUME NEW q \in Nat, NEW s \in Nat \ {0}
  PROVE  (q + 1) % s = IF (q % s) + 1 < s THEN (q % s) + 1 ELSE 0
<1>1. PICK p \in Nat : p = q \div s
  BY Division
<1>2. PICK x \in 0 .. s - 1 : x = q % s
  BY Division
<1>3. PICK y \in 0 .. s - 1 : y = (q + 1) % s
  <2>1. q + 1 \in Nat
    OBVIOUS
  <2> QED BY <2>1, Division
<1>4. q = s * p + x /\ q + 1 = s * ((q + 1) \div s) + y
  <2>1. q + 1 \in Nat
    OBVIOUS
  <2> QED BY <1>1, <1>2, <1>3, <2>1, Division
<1>5. PICK w \in Nat : w = s * p
  OBVIOUS
<1>6. CASE y = 0
  <2>1. x = s - 1
    BY <1>2, <1>3, <1>6, NextQuotient
  <2> QED BY <1>2, <1>3, <1>6, <2>1
<1>7. CASE y # 0
  <2>1. (q + 1) \div s = p
    BY <1>1, <1>3, <1>7, NextQuotient
  <2>2. q = w + x /\ q + 1 = w + y
    BY <1>4, <1>5, <2>1
  <2>3. y = x + 1
    BY <2>2
  <2> QED BY <1>2, <1>3, <2>3
<1> QED BY <1>6, <1>7

\* A number has all digits 0 if and only if the carry has passed them.
LEMMA MultipleOfProduct ==
  ASSUME NEW w \in Nat, NEW s \in Nat \ {0}, NEW v \in Nat \ {0}
  PROVE  w % (s * v) = 0 <=> w % v = 0 /\ (w \div v) % s = 0
<1>1. PICK q \in Nat : q = w \div v
  BY Division
<1>2. PICK x \in 0 .. v - 1 : x = w % v
  BY Division
<1>3. PICK p \in Nat : p = q \div s
  BY Division
<1>4. PICK y \in 0 .. s - 1 : y = q % s
  BY Division
<1>5. w = v * q + x /\ q = s * p + y
  BY <1>1, <1>2, <1>3, <1>4, Division
<1>6. PICK m \in Nat \ {0} : m = s * v
  <2>1. s * v \in Nat \ {0}
    OBVIOUS
  <2> QED BY <2>1
<1>7. w \div m = p
  <2>1. w \div (s * v) = (w \div v) \div s
    BY QuotientOfQuotient, ZenonT(120)
  <2> QED BY <1>1, <1>3, <1>6, <2>1
<1>8. PICK z \in Nat : z = w % m
  BY Division
<1>9. w = m * p + z
  BY <1>7, <1>8, Division
<1>10. v * (s * p + y) = (s * v) * p + v * y
  OBVIOUS
<1>11. w = m * p + (v * y + x)
  <2>1. v * q = v * (s * p + y)
    BY <1>5
  <2>2. PICK e \in Nat : e = (s * v) * p
    OBVIOUS
  <2>3. PICK g \in Nat : g = v * y
    OBVIOUS
  <2>4. w = (e + g) + x /\ m * p = e
    BY <1>5, <1>6, <1>10, <2>1, <2>2, <2>3
  <2> QED BY <2>2, <2>3, <2>4
<1>12. z = v * y + x
  <2>1. PICK e \in Nat : e = m * p
    OBVIOUS
  <2>2. PICK g \in Nat : g = v * y
    OBVIOUS
  <2> QED BY <1>9, <1>11, <2>1, <2>2
<1>13. z = 0 <=> x = 0 /\ y = 0
  <2>1. y # 0 => v * y > 0
    OBVIOUS
  <2>2. y = 0 => v * y = 0
    OBVIOUS
  <2>3. PICK g \in Nat : g = v * y
    OBVIOUS
  <2> QED BY <1>12, <2>1, <2>2, <2>3
<1> QED BY <1>1, <1>2, <1>4, <1>6, <1>8, <1>13

(* The counter of loop2d: to the next row, from the inside out.            *)
CarryState(n, m) == [carry : BOOLEAN, coord : [1 .. m -> Nat], offsets : [1 .. n -> Int]]
CarryFrom(x, d) == IF x.carry THEN CounterStep(x, d) ELSE x

\* The step of the counter for one dimension: on by one, or back to 0 with a carry.
LEMMA CounterStepIs ==
  ASSUME NEW n \in Nat, Ops = 1 .. n, Outer \in Seq(PlanAxis(n)), NEW d \in 1 .. Len(Outer),
         NEW x \in CarryState(n, Len(Outer)),
         NEW to, to = IF x.coord[d] + 1 < Outer[d].size THEN x.coord[d] + 1 ELSE 0
  PROVE  /\ CounterStep(x, d) \in CarryState(n, Len(Outer))
         /\ CounterStep(x, d).carry <=> ~(x.coord[d] + 1 < Outer[d].size)
         /\ CounterStep(x, d).coord = [x.coord EXCEPT ![d] = to]
         /\ \A op \in 1 .. n :
              CounterStep(x, d).offsets[op]
                = x.offsets[op] + (to - x.coord[d]) * Outer[d].strides[op]
<1>1. /\ x.coord \in [1 .. Len(Outer) -> Nat] /\ x.offsets \in [1 .. n -> Int]
  BY DEF CarryState
<1>2. PICK z \in Nat \ {0} : z = Outer[d].size
  BY PlanAxes
<1>3. PICK s \in [1 .. n -> Nat] : s = Outer[d].strides
  BY PlanAxes
<1>4. PICK k \in Nat : k = x.coord[d]
  BY <1>1
<1>5. to \in Nat /\ to = IF k + 1 < z THEN k + 1 ELSE 0
  BY <1>2, <1>4
<1>6. PICK o1 : o1 = Moved(x.offsets, Outer[d], 1)
  OBVIOUS
<1>7. PICK o2 : o2 = Moved(o1, Outer[d], -(x.coord[d] + 1))
  OBVIOUS
<1>8. o1 = [op \in 1 .. n |-> x.offsets[op] + 1 * s[op]]
  BY <1>3, <1>6 DEF Moved
<1>9. o2 = [op \in 1 .. n |-> o1[op] + (-(k + 1)) * s[op]]
  BY <1>3, <1>4, <1>7 DEF Moved
<1>10. PICK p \in [1 .. Len(Outer) -> Nat] : p = [x.coord EXCEPT ![d] = to]
  BY <1>1, <1>5
<1>11. \A op \in 1 .. n : x.offsets[op] \in Int /\ s[op] \in Nat
  BY <1>1
<1>12. \A op \in 1 .. n : x.offsets[op] + 1 * s[op] = x.offsets[op] + s[op] /\ x.offsets[op] + s[op] \in Int
  BY <1>11
<1>13. CASE k + 1 < z
  <2>1. CounterStep(x, d) = [carry |-> FALSE, coord |-> p, offsets |-> o1]
    BY <1>2, <1>4, <1>5, <1>6, <1>10, <1>13 DEF CounterStep
  <2>2. to - k = 1
    BY <1>5, <1>13
  <2>3. \A op \in 1 .. n : o1[op] = x.offsets[op] + (to - k) * s[op]
    BY <1>8, <2>2
  <2>4. o1 \in [1 .. n -> Int]
    BY <1>8, <1>12
  <2>5. CounterStep(x, d) \in CarryState(n, Len(Outer))
    BY <2>1, <2>4 DEF CarryState
  <2> QED BY <1>2, <1>3, <1>4, <1>10, <1>13, <2>1, <2>3, <2>5
<1>14. CASE ~(k + 1 < z)
  <2>1. CounterStep(x, d) = [carry |-> TRUE, coord |-> p, offsets |-> o2]
    BY <1>2, <1>4, <1>5, <1>6, <1>7, <1>10, <1>14 DEF CounterStep
  <2>2. to = 0
    BY <1>5, <1>14
  <2>3. ASSUME NEW op \in 1 .. n PROVE o2[op] = x.offsets[op] + (to - k) * s[op] /\ o2[op] \in Int
    <3>1. PICK y \in Int : y = x.offsets[op]
      BY <1>11
    <3>2. PICK t \in Nat : t = s[op]
      BY <1>11
    <3>3. o2[op] = (y + 1 * t) + (-(k + 1)) * t
      BY <1>8, <1>9, <3>1, <3>2
    <3>4. (y + 1 * t) + (-(k + 1)) * t = y + (0 - k) * t /\ y + (0 - k) * t \in Int
      OBVIOUS
    <3> QED BY <2>2, <3>1, <3>2, <3>3, <3>4
  <2>4. o2 \in [1 .. n -> Int]
    BY <1>9, <2>3
  <2>5. CounterStep(x, d) \in CarryState(n, Len(Outer))
    BY <2>1, <2>4 DEF CarryState
  <2> QED BY <1>2, <1>3, <1>4, <1>10, <1>14, <2>1, <2>3, <2>5
<1> QED BY <1>13, <1>14

\* The counter goes from a row's coordinates and offsets to the next row's.
LEMMA StepCounterIs ==
  ASSUME NEW n \in Nat \ {0}, Ops = 1 .. n, Outer \in Seq(PlanAxis(n)), NEW r \in Nat, NEW from,
         from.coord = CoordOf(Outer, r), from.offsets = OffsetsOf(Outer, n, CoordOf(Outer, r))
  PROVE  /\ StepCounter(from).coord = CoordOf(Outer, r + 1)
         /\ StepCounter(from).offsets = OffsetsOf(Outer, n, CoordOf(Outer, r + 1))
<1> DEFINE m == Len(Outer)
           D == 1 .. m + 1
           c == CoordOf(Outer, r)
           e == CoordOf(Outer, r + 1)
           last == [carry |-> TRUE, coord |-> from.coord, offsets |-> from.offsets]
           X == CarryState(n, m)
           step == [d \in 1 .. m |-> [x \in X |-> CarryFrom(x, d)]]
           Body(f) == [d \in D |->
              IF d > m THEN last ELSE IF f[d + 1].carry THEN CounterStep(f[d + 1], d) ELSE f[d + 1]]
           V(d) == Volume(SizesOf(Outer), d)
<1>1. m \in Nat /\ n \in Nat /\ r + 1 \in Nat
  OBVIOUS
<1>2. /\ c \in [1 .. m -> Nat]
      /\ \A d \in 1 .. m : V(d + 1) \in Nat \ {0} /\ c[d] = (r \div V(d + 1)) % Outer[d].size
  BY CoordsOf, ZenonT(120)
<1>3. /\ e \in [1 .. m -> Nat]
      /\ \A d \in 1 .. m : e[d] = ((r + 1) \div V(d + 1)) % Outer[d].size
  BY <1>1, CoordsOf, ZenonT(120)
<1>4. \A d \in 1 .. m : \A x \in X : CarryFrom(x, d) \in X
  <2> SUFFICES ASSUME NEW d \in 1 .. m, NEW x \in X PROVE CarryFrom(x, d) \in X
    OBVIOUS
  <2>1. PICK to : to = IF x.coord[d] + 1 < Outer[d].size THEN x.coord[d] + 1 ELSE 0
    OBVIOUS
  <2>2. CounterStep(x, d) \in X
    BY <1>1, <2>1, CounterStepIs
  <2> HIDE DEF X
  <2> QED BY <2>2 DEF CarryFrom
<1>5. /\ last \in X /\ last.carry = TRUE
      /\ last.coord = c /\ last.offsets = OffsetsOf(Outer, n, c)
  <2>1. OffsetsOf(Outer, n, c) \in [1 .. n -> Int]
    <3>1. \A op \in 1 .. n : OffsetAt(Outer, op, c) \in Nat
      <4> HIDE DEF c
      <4> QED BY <1>1, <1>2, OffsetIs
    <3> QED BY <3>1 DEF OffsetsOf
  <2>2. from.coord \in [1 .. m -> Nat]
    BY <1>2
  <2> QED BY <2>1, <2>2 DEF CarryState
<1>6. \E f : f = Body(f)
  <2>1. step \in [1 .. m -> [X -> X]]
    <3> HIDE DEF X
    <3> QED BY <1>4
  <2>2. PICK f \in [D -> X] : Down(f, m, last, step)
    <3> HIDE DEF step, last, X
    <3> QED BY <1>1, <1>5, <2>1, Descending
  <2>3. ASSUME NEW d \in 1 .. m PROVE f[d] = CarryFrom(f[d + 1], d)
    <3>1. d + 1 \in D
      BY <1>1
    <3>2. f[d + 1] \in X
      BY <2>2, <3>1
    <3>3. step[d] = [x \in X |-> CarryFrom(x, d)]
      <4> HIDE DEF X
      <4> QED OBVIOUS
    <3>4. step[d][f[d + 1]] = CarryFrom(f[d + 1], d)
      <4> HIDE DEF X, step
      <4> QED BY <3>2, <3>3
    <3> HIDE DEF step
    <3> QED BY <2>2, <3>4 DEF Down
  <2>4. f[m + 1] = last
    BY <2>2 DEF Down
  <2>5. ASSUME NEW d \in D
        PROVE  f[d] = IF d > m THEN last
                      ELSE IF f[d + 1].carry THEN CounterStep(f[d + 1], d) ELSE f[d + 1]
    <3>1. CASE d = m + 1
      BY <1>1, <2>4, <3>1
    <3>2. CASE d # m + 1
      <4>1. d \in 1 .. m /\ ~(d > m)
        BY <1>1, <3>2
      <4> QED BY <2>3, <4>1 DEF CarryFrom
    <3> QED BY <3>1, <3>2
  <2> HIDE DEF last, X
  <2>6. f = [d \in D |-> f[d]]
    BY <2>2
  <2> QED BY <2>5, <2>6, Zenon
<1> DEFINE u == CHOOSE f : f = Body(f)
<1>7. u = Body(u)
  <2> HIDE DEF Body
  <2> QED BY <1>6
<1>8. StepCounter(from) = u[1]
  BY DEF StepCounter
<1> HIDE DEF u
<1>9. u[m + 1] = last /\ \A d \in 1 .. m : u[d] = CarryFrom(u[d + 1], d)
  <2>1. \A d \in D : u[d] = IF d > m THEN last
                      ELSE IF u[d + 1].carry THEN CounterStep(u[d + 1], d) ELSE u[d + 1]
    <3> HIDE DEF last
    <3> QED BY <1>7, Zenon
  <2>2. m + 1 \in D /\ m + 1 > m /\ \A d \in 1 .. m : d \in D /\ ~(d > m)
    BY <1>1
  <2> HIDE DEF last
  <2> QED BY <2>1, <2>2, Zenon DEF CarryFrom
<1> DEFINE mix(d) == Mixed(m, c, e, d)
           Wraps(d) == (r + 1) % V(d) = 0
           S == {d \in D : /\ u[d] \in X
                           /\ u[d].carry <=> Wraps(d)
                           /\ u[d].coord = mix(d)
                           /\ u[d].offsets = OffsetsOf(Outer, n, mix(d))}
<1>10. V(m + 1) = 1 /\ \A d \in 1 .. m : V(d) = Outer[d].size * V(d + 1)
  <2>1. /\ SizesOf(Outer) \in Seq(Nat) /\ Len(SizesOf(Outer)) = m
        /\ \A d \in 1 .. m : SizesOf(Outer)[d] = Outer[d].size
    BY <1>1, PlanAxes
  <2> QED BY <2>1, VolumeIs
<1>11. Mixes(m, c, e)
  <2> HIDE DEF m, c, e
  <2> QED BY <1>1, <1>2, <1>3, MixedIs
<1>12. /\ \A d \in D : mix(d) \in [1 .. m -> Nat]
       /\ mix(1) = e /\ mix(m + 1) = c
       /\ \A d \in 1 .. m : mix(d + 1)[d] = c[d] /\ mix(d) = [mix(d + 1) EXCEPT ![d] = e[d]]
  BY <1>11 DEF Mixes
<1>13. m + 1 \in S
  <2>1. m + 1 \in D
    BY <1>1
  <2>2. (r + 1) % 1 = 0
    OBVIOUS
  <2>3. Wraps(m + 1)
    BY <1>10, <2>2
  <2> HIDE DEF last, X, mix, Wraps, c
  <2> QED BY <1>5, <1>9, <1>12, <2>1, <2>3
<1>14. ASSUME NEW d \in 1 .. m, d + 1 \in S PROVE d \in S
  <2>1. PICK x : x = u[d + 1]
    OBVIOUS
  <2>2. PICK v \in Nat \ {0} : v = V(d + 1)
    BY <1>2
  <2>3. PICK z \in Nat \ {0} : z = Outer[d].size
    BY <1>1, PlanAxes
  <2>4. PICK q \in Nat : q = r \div v
    BY Division
  <2>5. c[d] = q % z /\ c[d] \in Nat
    BY <1>2, <2>2, <2>3, <2>4
  <2>6. V(d) = z * v
    BY <1>10, <2>2, <2>3
  <2>7. d \in D /\ d + 1 \in D
    BY <1>1
  <2> HIDE DEF X, mix, c, e
  <2>8. /\ x \in X /\ (x.carry <=> (r + 1) % v = 0)
        /\ x.coord = mix(d + 1) /\ x.offsets = OffsetsOf(Outer, n, mix(d + 1))
    BY <1>14, <2>1, <2>2
  <2>9. u[d] = CarryFrom(x, d)
    BY <1>9, <2>1
  <2>10. (r + 1) % (z * v) = 0 <=> (r + 1) % v = 0 /\ ((r + 1) \div v) % z = 0
    BY <1>1, MultipleOfProduct
  <2>11. x.coord[d] = c[d]
    BY <1>12, <2>8
  <2>12. CASE (r + 1) % v = 0
    <3>1. (r + 1) \div v = q + 1
      BY <2>4, <2>12, NextQuotient
    <3>2. e[d] = IF c[d] + 1 < z THEN c[d] + 1 ELSE 0
      <4>1. e[d] = ((r + 1) \div v) % z
        BY <1>3, <2>2, <2>3
      <4>2. e[d] = (q + 1) % z
        BY <3>1, <4>1
      <4>3. (q + 1) % z = IF (q % z) + 1 < z THEN (q % z) + 1 ELSE 0
        BY NextDigit
      <4> QED BY <2>5, <4>2, <4>3
    <3>3. u[d] = CounterStep(x, d)
      BY <2>8, <2>9, <2>12 DEF CarryFrom
    <3>4. e[d] = IF x.coord[d] + 1 < Outer[d].size THEN x.coord[d] + 1 ELSE 0
      BY <2>3, <2>11, <3>2
    <3>5. /\ u[d] \in X
          /\ u[d].carry <=> ~(x.coord[d] + 1 < Outer[d].size)
          /\ u[d].coord = [x.coord EXCEPT ![d] = e[d]]
          /\ \A op \in 1 .. n :
               u[d].offsets[op] = x.offsets[op] + (e[d] - x.coord[d]) * Outer[d].strides[op]
      <4>1. x \in CarryState(n, Len(Outer))
        BY <2>8 DEF X
      <4>2. PICK to : to = e[d]
        OBVIOUS
      <4>3. /\ CounterStep(x, d) \in CarryState(n, Len(Outer))
            /\ CounterStep(x, d).carry <=> ~(x.coord[d] + 1 < Outer[d].size)
            /\ CounterStep(x, d).coord = [x.coord EXCEPT ![d] = to]
            /\ \A op \in 1 .. n :
                 CounterStep(x, d).offsets[op] = x.offsets[op] + (to - x.coord[d]) * Outer[d].strides[op]
        BY <1>1, <3>4, <4>1, <4>2, CounterStepIs
      <4> QED BY <3>3, <4>2, <4>3 DEF X
    <3>6. u[d].carry <=> Wraps(d)
      <4>1. e[d] = 0 <=> ~(c[d] + 1 < z)
        BY <2>5, <3>2
      <4>2. ((r + 1) \div v) % z = e[d]
        BY <1>3, <2>2, <2>3
      <4>3. Wraps(d) <=> e[d] = 0
        BY <2>6, <2>10, <2>12, <4>2
      <4> QED BY <2>3, <2>11, <3>5, <4>1, <4>3
    <3>7. u[d].coord = mix(d)
      BY <1>12, <2>8, <3>5
    <3>8. ASSUME NEW op \in 1 .. n PROVE u[d].offsets[op] = OffsetAt(Outer, op, mix(d))
      <4>1. c \in [1 .. Len(Outer) -> Nat] /\ e \in [1 .. Len(Outer) -> Nat]
        BY <1>2, <1>3
      <4>2. OffsetAt(Outer, op, Mixed(Len(Outer), c, e, d))
              = OffsetAt(Outer, op, Mixed(Len(Outer), c, e, d + 1)) + (e[d] - c[d]) * Outer[d].strides[op]
        <5>1. Counts(n, Outer, c, e)
          BY <1>1, <4>1 DEF Counts
        <5> QED BY <5>1, MixedOffset
      <4>3. x.offsets[op] = OffsetAt(Outer, op, mix(d + 1))
        BY <2>8 DEF OffsetsOf
      <4>4. OffsetAt(Outer, op, mix(d)) = OffsetAt(Outer, op, mix(d + 1)) + (e[d] - c[d]) * Outer[d].strides[op]
        BY <4>2 DEF mix
      <4> QED BY <2>11, <3>5, <4>3, <4>4
    <3>9. u[d].offsets = OffsetsOf(Outer, n, mix(d))
      <4>1. u[d].offsets \in [1 .. n -> Int]
        BY <3>5 DEF CarryState, X
      <4> QED BY <3>8, <4>1 DEF OffsetsOf
    <3> HIDE DEF Wraps
    <3> QED BY <2>7, <3>5, <3>6, <3>7, <3>9
  <2>13. CASE (r + 1) % v # 0
    <3>1. (r + 1) \div v = q
      BY <2>4, <2>13, NextQuotient
    <3>2. e[d] = c[d]
      BY <1>3, <2>2, <2>3, <2>5, <3>1
    <3>3. u[d] = x
      BY <2>8, <2>9, <2>13 DEF CarryFrom
    <3>4. ~Wraps(d)
      BY <2>6, <2>10, <2>13
    <3>5. mix(d) = mix(d + 1)
      <4>1. PICK f \in [1 .. m -> Nat] : f = mix(d + 1)
        BY <1>12, <2>7
      <4>2. mix(d) = [f EXCEPT ![d] = f[d]]
        BY <1>12, <3>2, <4>1
      <4>3. [f EXCEPT ![d] = f[d]] = f
        OBVIOUS
      <4> QED BY <4>1, <4>2, <4>3
    <3> HIDE DEF Wraps
    <3> QED BY <2>7, <2>8, <2>13, <3>3, <3>4, <3>5
  <2> QED BY <2>12, <2>13
<1>15. D \subseteq S
  <2> HIDE DEF S
  <2> QED BY <1>1, <1>13, <1>14, Descent
<1>16. 1 \in D
  BY <1>1
<1>17. u[1].coord = mix(1) /\ u[1].offsets = OffsetsOf(Outer, n, mix(1))
  BY <1>15, <1>16
<1> HIDE DEF mix
<1> QED BY <1>8, <1>12, <1>17

----------------------------------------------------------------------------
(* The cells of a plan: element i of row r.                                *)
Rows(P) == Product(SizesOf(Front(P)))
\* The offsets of all operands at element i of row r.
At(P, n, r, i) ==
  [op \in 1 .. n |-> OffsetAt(Front(P), op, CoordOf(Front(P), r)) + i * Last(P).strides[op]]
\* Its coordinates in all axes.
CellCoord(P, r, i) ==
  [d \in 1 .. Len(P) |-> IF d < Len(P) THEN CoordOf(Front(P), r)[d] ELSE i]

\* The outer axes, which count the rows, and the inner one.
LEMMA PlanEnds ==
  ASSUME NEW n \in Nat, NEW P \in Seq(PlanAxis(n)), P # <<>>
  PROVE  /\ Front(P) \in Seq(PlanAxis(n)) /\ Len(Front(P)) = Len(P) - 1 /\ Len(P) \in Nat \ {0}
         /\ Last(P) \in PlanAxis(n) /\ Last(P).size \in Nat \ {0} /\ Last(P).strides \in [1 .. n -> Nat]
         /\ Inserts(Front(P), P, Len(P), Last(P))
         /\ Rows(P) \in Nat \ {0} /\ Product(SizesOf(P)) = Rows(P) * Last(P).size
<1>1. /\ Front(P) \in Seq(PlanAxis(n)) /\ Len(Front(P)) = Len(P) - 1 /\ Len(P) > 0
      /\ \A d \in 1 .. Len(P) - 1 : Front(P)[d] = P[d]
      /\ Last(P) \in PlanAxis(n)
  BY FrontGrows
<1>2. Len(P) \in Nat \ {0} /\ Last(P) = P[Len(P)]
  BY <1>1 DEF Last
<1>3. Last(P).size \in Nat \ {0} /\ Last(P).strides \in [1 .. n -> Nat]
  BY <1>1 DEF PlanAxis
<1>4. Inserts(Front(P), P, Len(P), Last(P))
  BY <1>1, <1>2 DEF Inserts, Widens
<1>5. Rows(P) \in Nat \ {0}
  BY <1>1, ElementsPositive DEF Rows
<1>6. Product(SizesOf(P)) = Product(SizesOf(Front(P))) * Last(P).size
  BY <1>1, <1>4, SizesWiden
<1> QED BY <1>1, <1>2, <1>3, <1>4, <1>5, <1>6 DEF Rows

\* The offsets at a cell are those of its coordinates.
LEMMA CellIs ==
  ASSUME NEW n \in Nat \ {0}, NEW P \in Seq(PlanAxis(n)), P # <<>>,
         NEW r \in Nat, NEW i \in 0 .. Last(P).size - 1
  PROVE  /\ CellCoord(P, r, i) \in Box(P)
         /\ At(P, n, r, i) = [op \in 1 .. n |-> OffsetAt(P, op, CellCoord(P, r, i))]
<1>13. PICK O : O = Front(P)
  OBVIOUS
<1>14. PICK c : c = CoordOf(O, r)
  OBVIOUS
<1>15. PICK m : m = Len(P)
  OBVIOUS
<1>1. /\ O \in Seq(PlanAxis(n)) /\ Len(O) = m - 1 /\ m \in Nat \ {0} /\ n \in Nat
      /\ Last(P).size \in Nat \ {0} /\ Inserts(O, P, m, Last(P))
  BY <1>13, <1>15, PlanEnds
<1>2. c \in [1 .. Len(O) -> Nat] /\ \A d \in 1 .. Len(O) : c[d] < O[d].size
  <2>1. c \in Box(O)
    BY <1>1, <1>14, CoordsOf
  <2> QED BY <2>1 DEF Box
<1>3. PICK e : e = CellCoord(P, r, i)
  OBVIOUS
<1>4. e = [d \in 1 .. m |-> IF d < m THEN c[d] ELSE i]
  BY <1>3, <1>13, <1>14, <1>15 DEF CellCoord
<1>5. m = Len(P) /\ P[m] = Last(P) /\ \A d \in 1 .. m - 1 : P[d] = O[d]
  BY <1>1, <1>15 DEF Inserts, Widens
<1>6. ASSUME NEW d \in 1 .. m PROVE e[d] \in Nat /\ e[d] < P[d].size
  <2>1. CASE d < m
    <3>1. d \in 1 .. m - 1 /\ d \in 1 .. Len(O) /\ e[d] = c[d]
      BY <1>1, <1>4, <2>1
    <3> QED BY <1>2, <1>5, <3>1
  <2>2. CASE ~(d < m)
    <3>1. d = m /\ e[d] = i
      BY <1>1, <1>4, <2>2
    <3> QED BY <1>1, <1>5, <3>1
  <2> QED BY <2>1, <2>2
<1>7. e \in [1 .. m -> Nat]
  BY <1>4, <1>6
<1>8. e \in Box(P)
  BY <1>5, <1>6, <1>7 DEF Box
<1>9. Agree(O, c, e, m)
  <2>1. \A d \in 1 .. m - 1 : e[d] = c[d]
    BY <1>1, <1>4
  <2>2. m > Len(O)
    BY <1>1
  <2> QED BY <1>1, <2>1, <2>2 DEF Agree
<1>10. e[m] = i
  BY <1>1, <1>4
<1>11. ASSUME NEW op \in 1 .. n
       PROVE  OffsetAt(P, op, e) = OffsetAt(O, op, c) + i * Last(P).strides[op]
  <2>1. e \in [1 .. Len(P) -> Nat]
    BY <1>5, <1>7
  <2>2. PICK x : x = Last(P)
    OBVIOUS
  <2>3. Inserts(O, P, m, x) /\ c \in [1 .. Len(O) -> Nat]
    BY <1>1, <1>2, <2>2
  <2>4. OffsetAt(P, op, e) = OffsetAt(O, op, c) + e[m] * x.strides[op]
    <3>1. O \in Seq(PlanAxis(n)) /\ n \in Nat
      BY <1>1
    <3>2. Joins(n, O, P, m, x, c, e)
      BY <1>1, <1>9, <2>1, <2>3, <3>1 DEF Joins
    <3> QED BY <3>1, <3>2, OffsetWidens
  <2> QED BY <1>10, <2>2, <2>4
<1>12. At(P, n, r, i) = [op \in 1 .. n |-> OffsetAt(P, op, e)]
  BY <1>11, <1>13, <1>14 DEF At
<1> QED BY <1>3, <1>8, <1>12

(* The cells are the elements.                                             *)
LEMMA CellsAre ==
  ASSUME NEW n \in Nat \ {0}, NEW P \in Seq(PlanAxis(n)), P # <<>>
  PROVE  /\ \A r \in Nat : \A i \in 0 .. Last(P).size - 1 : At(P, n, r, i) \in Vectors(P, n)
         /\ \A v \in Vectors(P, n) :
              \E r \in 0 .. Rows(P) - 1, i \in 0 .. Last(P).size - 1 : v = At(P, n, r, i)
<1>1. ASSUME NEW r \in Nat, NEW i \in 0 .. Last(P).size - 1 PROVE At(P, n, r, i) \in Vectors(P, n)
  BY CellIs DEF Vectors
<1>2. ASSUME NEW v \in Vectors(P, n)
      PROVE  \E r \in 0 .. Rows(P) - 1, i \in 0 .. Last(P).size - 1 : v = At(P, n, r, i)
  <2>1. PICK O : O = Front(P)
    OBVIOUS
  <2>2. PICK x : x = Last(P)
    OBVIOUS
  <2>3. O \in Seq(PlanAxis(n)) /\ Inserts(O, P, Len(P), x) /\ n \in Nat
    BY <2>1, <2>2, PlanEnds
  <2>4. Vectors(P, n) = Spread(Vectors(O, n), n, x)
    BY <2>3, VectorsWiden
  <2>5. PICK w \in Vectors(O, n), i \in 0 .. x.size - 1 : v = Shifted(w, n, i, x)
    BY <1>2, <2>4 DEF Spread
  <2>6. PICK c \in Box(O) : w = [op \in 1 .. n |-> OffsetAt(O, op, c)]
    BY DEF Vectors
  <2>7. PICK r \in 0 .. Product(SizesOf(O)) - 1 : CoordOf(O, r) = c
    BY <2>3, BoxIsCoords
  <2>8. At(P, n, r, i) = v
    BY <2>1, <2>2, <2>5, <2>6, <2>7 DEF At, Shifted
  <2>9. r \in 0 .. Rows(P) - 1
    BY <2>1 DEF Rows
  <2> QED BY <2>2, <2>8, <2>9
<1> QED BY <1>1, <1>2

(* No two cells are the same element of an operand whose elements are      *)
(* apart.                                                                  *)
LEMMA CellsApart ==
  ASSUME NEW n \in Nat \ {0}, NEW P \in Seq(PlanAxis(n)), P # <<>>, Injective(AxisView(P, 1)),
         NEW r \in 0 .. Rows(P) - 1, NEW i \in 0 .. Last(P).size - 1,
         NEW s \in 0 .. Rows(P) - 1, NEW j \in 0 .. Last(P).size - 1,
         At(P, n, r, i)[1] = At(P, n, s, j)[1]
  PROVE  r = s /\ i = j
<1>1. /\ Front(P) \in Seq(PlanAxis(n)) /\ Len(Front(P)) = Len(P) - 1 /\ Len(P) \in Nat \ {0} /\ n \in Nat
      /\ Rows(P) \in Nat \ {0}
  BY PlanEnds
<1>2. 1 \in 1 .. n /\ r \in Nat /\ s \in Nat
  BY <1>1
<1>3. PICK l : l = AxisView(P, 1)
  OBVIOUS
<1>4. /\ Strided(l) /\ numel(l) = Product(SizesOf(P))
      /\ \A k \in Nat : ElementOffset(l, k) = OffsetAt(P, 1, CoordOf(P, k))
  BY <1>1, <1>2, <1>3, AxisViewIs
<1>5. /\ CellCoord(P, r, i) \in Box(P) /\ At(P, n, r, i)[1] = OffsetAt(P, 1, CellCoord(P, r, i))
      /\ CellCoord(P, s, j) \in Box(P) /\ At(P, n, s, j)[1] = OffsetAt(P, 1, CellCoord(P, s, j))
  BY <1>2, CellIs
<1>6. PICK p \in 0 .. numel(l) - 1 : CoordOf(P, p) = CellCoord(P, r, i)
  BY <1>4, <1>5, BoxIsCoords
<1>7. PICK q \in 0 .. numel(l) - 1 : CoordOf(P, q) = CellCoord(P, s, j)
  BY <1>4, <1>5, BoxIsCoords
<1>8. numel(l) \in Nat /\ p \in Nat /\ q \in Nat
  BY <1>1, <1>4, ElementsPositive
<1>9. ElementOffset(l, p) = ElementOffset(l, q)
  BY <1>4, <1>5, <1>6, <1>7, <1>8
<1>10. p = q
  BY <1>3, <1>4, <1>9, InjectiveElements
<1>11. CellCoord(P, r, i) = CellCoord(P, s, j)
  BY <1>6, <1>7, <1>10
<1>12. i = j
  <2>1. CellCoord(P, r, i)[Len(P)] = i /\ CellCoord(P, s, j)[Len(P)] = j
    BY <1>1 DEF CellCoord
  <2> QED BY <1>11, <2>1
<1>13. CoordOf(Front(P), r) = CoordOf(Front(P), s)
  <2>1. /\ CoordOf(Front(P), r) \in [1 .. Len(P) - 1 -> Nat]
        /\ CoordOf(Front(P), s) \in [1 .. Len(P) - 1 -> Nat]
    BY <1>1, <1>2, CoordsOf
  <2>2. ASSUME NEW d \in 1 .. Len(P) - 1 PROVE CoordOf(Front(P), r)[d] = CoordOf(Front(P), s)[d]
    <3>1. d \in 1 .. Len(P) /\ d < Len(P)
      BY <1>1
    <3>2. CellCoord(P, r, i)[d] = CoordOf(Front(P), r)[d] /\ CellCoord(P, s, j)[d] = CoordOf(Front(P), s)[d]
      BY <3>1 DEF CellCoord
    <3> QED BY <1>11, <3>2
  <2> QED BY <2>1, <2>2
<1>14. r = s
  BY <1>1, <1>13, CoordsDiffer DEF Rows
<1> QED BY <1>12, <1>14

----------------------------------------------------------------------------
(* Broadcasting.                                                           *)
LEMMA ProductPositive ==
  ASSUME NEW s \in Seq(Nat), \A d \in 1 .. Len(s) : s[d] # 0
  PROVE  Product(s) \in Nat \ {0}
<1> DEFINE m == Len(s)
           S == {d \in 1 .. m + 1 : Volume(s, d) \in Nat \ {0}}
<1>1. m \in Nat /\ \A d \in 1 .. m : s[d] \in Nat \ {0}
  OBVIOUS
<1>2. Volume(s, m + 1) = 1 /\ \A d \in 1 .. m : Volume(s, d) = s[d] * Volume(s, d + 1)
  BY VolumeIs
<1> HIDE DEF m
<1>3. m + 1 \in S
  BY <1>1, <1>2
<1>4. ASSUME NEW d \in 1 .. m, d + 1 \in S PROVE d \in S
  <2>1. PICK x \in Nat \ {0} : x = s[d]
    BY <1>1
  <2>2. PICK y \in Nat \ {0} : y = Volume(s, d + 1)
    BY <1>4
  <2>3. x * y \in Nat \ {0}
    OBVIOUS
  <2>4. Volume(s, d) \in Nat \ {0}
    BY <1>2, <2>1, <2>2, <2>3
  <2> QED BY <1>1, <2>4
<1>5. 1 .. m + 1 \subseteq S
  <2> HIDE DEF S
  <2> QED BY <1>1, <1>3, <1>4, Descent
<1>6. 1 \in 1 .. m + 1
  BY <1>1
<1> QED BY <1>5, <1>6 DEF Product

\* A shape that broadcasts to another.
Fits(out, s) ==
  Len(s) <= Len(out) /\ \A i \in 0 .. Len(s) - 1 : FromRight(s, i) \in {1, FromRight(out, i)}

\* A dimension of a shape that broadcasts is 1 or the result's.
LEMMA FitsIs ==
  ASSUME NEW out \in Seq(Nat), NEW s \in Seq(Nat), Fits(out, s), NEW d \in 1 .. Len(s)
  PROVE  /\ Len(out) - Len(s) \in Nat /\ (Len(out) - Len(s)) + d \in 1 .. Len(out)
         /\ s[d] = 1 \/ s[d] = out[(Len(out) - Len(s)) + d]
<1>1. Len(s) \in Nat /\ Len(out) \in Nat /\ Len(s) <= Len(out)
  BY DEF Fits
<1>2. PICK i \in 0 .. Len(s) - 1 : i = Len(s) - d
  <2>1. Len(s) - d \in 0 .. Len(s) - 1
    BY <1>1
  <2> QED BY <2>1
<1>3. /\ i < Len(s) /\ i < Len(out) /\ Len(s) - i = d
      /\ Len(out) - i = (Len(out) - Len(s)) + d
  BY <1>1, <1>2
<1>4. FromRight(s, i) = s[d] /\ FromRight(out, i) = out[(Len(out) - Len(s)) + d]
  BY <1>3 DEF FromRight
<1>5. FromRight(s, i) = 1 \/ FromRight(s, i) = FromRight(out, i)
  BY DEF Fits
<1> QED BY <1>1, <1>4, <1>5

\* broadcast_into gives a shape both broadcast to, and all that did before.
LEMMA BroadcastFits ==
  ASSUME NEW acc \in Seq(Nat), NEW s \in Seq(Nat), NEW B, B = broadcast_into(acc, s), B # Mismatch
  PROVE  B \in Seq(Nat) /\ Fits(B, s) /\ \A t \in Seq(Nat) : Fits(acc, t) => Fits(B, t)
<1> DEFINE out == IF Len(acc) > Len(s) THEN Len(acc) ELSE Len(s)
           x(i) == FromRight(acc, i)
           y(i) == FromRight(s, i)
           z(i) == IF x(i) = 1 THEN y(i) ELSE x(i)
<1>1. /\ Len(acc) \in Nat /\ Len(s) \in Nat /\ out \in Nat /\ Len(acc) <= out /\ Len(s) <= out
  OBVIOUS
<1>2. \A i \in Nat : x(i) \in Nat /\ y(i) \in Nat
  <2> SUFFICES ASSUME NEW i \in Nat PROVE x(i) \in Nat /\ y(i) \in Nat
    OBVIOUS
  <2>1. i < Len(acc) => Len(acc) - i \in 1 .. Len(acc)
    BY <1>1
  <2>2. i < Len(s) => Len(s) - i \in 1 .. Len(s)
    BY <1>1
  <2> QED BY <2>1, <2>2, SMTT(60) DEF FromRight
<1>3. /\ \A i \in 0 .. out - 1 : x(i) = y(i) \/ x(i) = 1 \/ y(i) = 1
      /\ B = [d \in 1 .. out |-> z(out - d)]
  BY DEF broadcast_into
<1> HIDE DEF out, x, y
<1>4. \A d \in 1 .. out : out - d \in Nat /\ z(out - d) \in Nat
  BY <1>1, <1>2
<1>5. B \in Seq(Nat) /\ Len(B) = out
  <2>1. B \in [1 .. out -> Nat]
    <3> HIDE DEF z
    <3> QED BY <1>3, <1>4
  <2> QED BY <1>1, <2>1, Tuples
<1>6. \A i \in 0 .. out - 1 : FromRight(B, i) = z(i)
  <2> SUFFICES ASSUME NEW i \in 0 .. out - 1 PROVE FromRight(B, i) = z(i)
    OBVIOUS
  <2>1. out - i \in 1 .. out /\ out - (out - i) = i /\ i < out
    BY <1>1
  <2> HIDE DEF z
  <2>2. B[out - i] = z(out - (out - i))
    BY <1>3, <2>1
  <2> QED BY <1>5, <2>1, <2>2 DEF FromRight
<1>7. Fits(B, s)
  <2>1. ASSUME NEW i \in 0 .. Len(s) - 1 PROVE FromRight(s, i) \in {1, FromRight(B, i)}
    <3>1. i \in 0 .. out - 1
      BY <1>1
    <3>2. y(i) = 1 \/ y(i) = z(i)
      BY <1>3, <3>1
    <3> HIDE DEF z
    <3> QED BY <1>6, <3>1, <3>2 DEF y
  <2> QED BY <1>1, <1>5, <2>1 DEF Fits
<1>8. ASSUME NEW t \in Seq(Nat), Fits(acc, t) PROVE Fits(B, t)
  <2>1. Len(t) \in Nat /\ Len(t) <= Len(acc)
    BY <1>8 DEF Fits
  <2>2. ASSUME NEW i \in 0 .. Len(t) - 1 PROVE FromRight(t, i) \in {1, FromRight(B, i)}
    <3>1. i \in 0 .. out - 1
      BY <1>1, <2>1
    <3>2. FromRight(t, i) = 1 \/ FromRight(t, i) = x(i)
      BY <1>8 DEF Fits, x
    <3>3. FromRight(t, i) = 1 \/ FromRight(t, i) = z(i)
      BY <3>2
    <3> HIDE DEF z
    <3> QED BY <1>6, <3>1, <3>3
  <2> QED BY <1>1, <1>5, <2>1, <2>2 DEF Fits
<1> QED BY <1>5, <1>7, <1>8

(* Every leaf broadcasts to the shape of the result.                       *)
LEMMA ResultFits ==
  ASSUME NEW ls, Len(ls) \in Nat, \A k \in 1 .. Len(ls) : ls[k].sizes \in Seq(Nat),
         NEW out \in Seq(Nat), out = result_shape(ls)
  PROVE  \A k \in 1 .. Len(ls) : Fits(out, ls[k].sizes)
<1> DEFINE n == Len(ls)
           X == Seq(Nat) \cup {Mismatch}
           Then(k, B) == IF B = Mismatch THEN Mismatch ELSE broadcast_into(B, ls[k].sizes)
           step == [k \in 1 .. n |-> [B \in X |-> Then(k, B)]]
           Body(f) == [k \in 0 .. n |->
             IF k = 0 THEN <<>>
             ELSE IF f[k - 1] = Mismatch THEN Mismatch
             ELSE broadcast_into(f[k - 1], ls[k].sizes)]
<1>1. n \in Nat
  OBVIOUS
<1>2. ASSUME NEW k \in 1 .. n, NEW B \in Seq(Nat), NEW C, C = Then(k, B), C # Mismatch
      PROVE  /\ C \in Seq(Nat) /\ Fits(C, ls[k].sizes)
             /\ \A t \in Seq(Nat) : Fits(B, t) => Fits(C, t)
  <2>1. C = broadcast_into(B, ls[k].sizes)
    BY <1>2
  <2>2. ls[k].sizes \in Seq(Nat)
    OBVIOUS
  <2> HIDE DEF Then
  <2> QED BY <1>2, <2>1, <2>2, BroadcastFits
<1>3. \A k \in 1 .. n : \A B \in X : Then(k, B) \in X
  <2> SUFFICES ASSUME NEW k \in 1 .. n, NEW B \in X, Then(k, B) # Mismatch
               PROVE  Then(k, B) \in Seq(Nat)
    OBVIOUS
  <2>1. B \in Seq(Nat)
    OBVIOUS
  <2>2. PICK C : C = Then(k, B)
    OBVIOUS
  <2> HIDE DEF Then
  <2> QED BY <1>2, <2>1, <2>2
<1>4. step \in [1 .. n -> [X -> X]]
  <2> HIDE DEF X, Then
  <2> QED BY <1>3
<1>5. PICK f \in [0 .. n -> X] : Up(f, n, <<>>, step)
  <2>1. <<>> \in X
    OBVIOUS
  <2> HIDE DEF step, X
  <2> QED BY <1>1, <1>4, <2>1, Ascent
<1>6. f[0] = <<>> /\ \A k \in 1 .. n : f[k] = Then(k, f[k - 1])
  <2>1. ASSUME NEW k \in 1 .. n PROVE step[k][f[k - 1]] = Then(k, f[k - 1])
    <3>1. k - 1 \in 0 .. n
      BY <1>1
    <3>2. f[k - 1] \in X
      BY <1>5, <3>1
    <3>3. step[k] = [B \in X |-> Then(k, B)]
      <4> HIDE DEF X, Then
      <4> QED OBVIOUS
    <3> HIDE DEF step, X, Then
    <3> QED BY <3>2, <3>3
  <2> HIDE DEF step, Then
  <2> QED BY <1>5, <2>1 DEF Up
<1>7. f = Body(f)
  <2>1. f = [k \in 0 .. n |-> f[k]]
    BY <1>5
  <2>2. \A k \in 0 .. n : f[k] = IF k = 0 THEN <<>>
             ELSE IF f[k - 1] = Mismatch THEN Mismatch ELSE broadcast_into(f[k - 1], ls[k].sizes)
    BY <1>1, <1>6
  <2> HIDE DEF n
  <2> QED BY <2>1, <2>2
<1> DEFINE u == CHOOSE g : g = Body(g)
<1>8. u = Body(u)
  <2> HIDE DEF Body
  <2> QED BY <1>7
<1>9. out = u[n]
  BY DEF result_shape
<1> HIDE DEF u
<1>10. u[0] = <<>> /\ \A k \in 1 .. n : u[k] = Then(k, u[k - 1])
  <2>1. \A k \in 0 .. n : u[k] = IF k = 0 THEN <<>>
             ELSE IF u[k - 1] = Mismatch THEN Mismatch ELSE broadcast_into(u[k - 1], ls[k].sizes)
    <3> HIDE DEF n
    <3> QED BY <1>8
  <2>2. 0 \in 0 .. n /\ \A k \in 1 .. n : k \in 0 .. n /\ k # 0
    BY <1>1
  <2> HIDE DEF n
  <2> QED BY <2>1, <2>2
<1> DEFINE Sound(k) == u[k] # Mismatch =>
                         u[k] \in Seq(Nat) /\ \A j \in 1 .. k : Fits(u[k], ls[j].sizes)
           S == {k \in 0 .. n : Sound(k)}
<1>11. 0 \in S
  <2>1. <<>> \in Seq(Nat) /\ 0 \in 0 .. n
    BY <1>1
  <2>2. \A j \in 1 .. 0 : FALSE
    OBVIOUS
  <2> HIDE DEF n
  <2> QED BY <1>10, <2>1, <2>2
<1>12. ASSUME NEW k \in 1 .. n, k - 1 \in S PROVE k \in S
  <2>1. k \in 0 .. n /\ Sound(k - 1)
    BY <1>1, <1>12
  <2> SUFFICES ASSUME u[k] # Mismatch
               PROVE  u[k] \in Seq(Nat) /\ \A j \in 1 .. k : Fits(u[k], ls[j].sizes)
    BY <2>1
  <2>2. u[k] = Then(k, u[k - 1])
    BY <1>10
  <2>3. u[k - 1] # Mismatch
    BY <2>2
  <2>4. u[k - 1] \in Seq(Nat) /\ \A j \in 1 .. k - 1 : Fits(u[k - 1], ls[j].sizes)
    BY <2>1, <2>3
  <2>5. PICK B : B = u[k - 1]
    OBVIOUS
  <2>6. PICK C : C = u[k]
    OBVIOUS
  <2> HIDE DEF Then
  <2>7. /\ C \in Seq(Nat) /\ Fits(C, ls[k].sizes)
        /\ \A t \in Seq(Nat) : Fits(B, t) => Fits(C, t)
    BY <1>2, <2>2, <2>4, <2>5, <2>6
  <2>8. ASSUME NEW j \in 1 .. k PROVE Fits(C, ls[j].sizes)
    <3>1. CASE j = k
      BY <2>7, <3>1
    <3>2. CASE j # k
      <4>1. j \in 1 .. k - 1 /\ j \in 1 .. n
        BY <1>1, <3>2
      <4> QED BY <2>4, <2>5, <2>7, <4>1
    <3> QED BY <3>1, <3>2
  <2> QED BY <2>6, <2>7, <2>8
<1>13. 0 .. n \subseteq S
  <2> HIDE DEF S
  <2> QED BY <1>1, <1>11, <1>12, Induction
<1>14. Sound(n)
  <2>1. n \in 0 .. n
    BY <1>1
  <2> QED BY <1>13, <2>1
<1>15. out # Mismatch
  <2>1. CASE out = Mismatch
    <3>1. out[1] = -1 /\ 1 \in 1 .. Len(out)
      BY <2>1 DEF Mismatch
    <3>2. out[1] \in Nat
      BY <3>1
    <3> QED BY <3>1, <3>2
  <2> QED BY <2>1
<1> QED BY <1>9, <1>14, <1>15

(* A sum after terms that are zero.                                        *)
LEMMA SumShift ==
  ASSUME NEW k \in Nat, NEW t \in Seq(Int), NEW u \in Seq(Int), Len(u) = k + Len(t),
         \A d \in 1 .. k : u[d] = 0, \A d \in 1 .. Len(t) : u[k + d] = t[d]
  PROVE  Sum(u, Len(u)) = Sum(t, Len(t))
<1> DEFINE n == Len(t)
           Z == {d \in 0 .. k : Sum(u, d) = 0}
           S == {d \in 0 .. n : Sum(u, k + d) = Sum(t, d)}
<1>1. n \in Nat /\ Len(u) = k + n
  OBVIOUS
<1>2. /\ Sum(t, 0) = 0 /\ \A d \in 1 .. n : Sum(t, d) = Sum(t, d - 1) + t[d]
  BY SumIs
<1>3. /\ Sum(u, 0) = 0 /\ \A d \in 1 .. k + n : Sum(u, d) = Sum(u, d - 1) + u[d]
  BY <1>1, SumIs
<1> HIDE DEF n
<1>4. 0 .. k \subseteq Z
  <2>1. 0 \in Z
    BY <1>3
  <2>2. \A d \in 1 .. k : d - 1 \in Z => d \in Z
    <3> SUFFICES ASSUME NEW d \in 1 .. k, d - 1 \in Z PROVE d \in Z
      OBVIOUS
    <3>1. d \in 1 .. k + n
      BY <1>1
    <3>2. Sum(u, d) = Sum(u, d - 1) + u[d] /\ Sum(u, d - 1) = 0 /\ u[d] = 0
      BY <1>3, <3>1
    <3> QED BY <3>2
  <2> HIDE DEF Z
  <2> QED BY <2>1, <2>2, Induction
<1>5. 0 \in S
  <2>1. k \in 0 .. k /\ k + 0 = k /\ 0 \in 0 .. n
    BY <1>1
  <2>2. Sum(u, k) = 0
    BY <1>4, <2>1
  <2> QED BY <1>2, <2>1, <2>2
<1>6. \A d \in 1 .. n : d - 1 \in S => d \in S
  <2> SUFFICES ASSUME NEW d \in 1 .. n, d - 1 \in S PROVE d \in S
    OBVIOUS
  <2>1. k + d \in 1 .. k + n /\ (k + d) - 1 = k + (d - 1) /\ d \in 0 .. n
    BY <1>1
  <2>2. Sum(u, k + d) = Sum(u, k + (d - 1)) + u[k + d]
    BY <1>3, <2>1
  <2>3. u[k + d] = t[d]
    BY DEF n
  <2>4. Sum(u, k + (d - 1)) = Sum(t, d - 1)
    OBVIOUS
  <2>5. Sum(t, d) = Sum(t, d - 1) + t[d]
    BY <1>2
  <2> QED BY <2>1, <2>2, <2>3, <2>4, <2>5
<1>7. n \in S
  <2> HIDE DEF S
  <2>1. n \in 0 .. n
    BY <1>1
  <2> QED BY <1>1, <1>5, <1>6, <2>1, Induction
<1> QED BY <1>1, <1>7 DEF n

\* The strides of a view broadcast to a shape it fits.
LEMMA RebaseIs ==
  ASSUME NEW l, Strided(l), NEW out \in Seq(Nat), Fits(out, l.sizes), NEW b, b = rebase(l, out)
  PROVE  /\ Strided(b) /\ b.sizes = out /\ rank(b) = Len(out) /\ numel(b) = Product(out)
         /\ Len(b.strides) = Len(out)
         /\ \A d \in 1 .. Len(out) :
              b.strides[d] = IF d <= Len(out) - rank(l) \/ l.sizes[d - (Len(out) - rank(l))] = 1 THEN 0
                             ELSE l.strides[d - (Len(out) - rank(l))]
         /\ b.strides = broadcast_strides(out, l)
<1>1. /\ rank(l) \in Nat /\ Len(l.sizes) = rank(l)
      /\ \A d \in 1 .. rank(l) : l.strides[d] \in Nat
  BY Strides
<1>2. Len(out) \in Nat /\ rank(l) <= Len(out)
  BY <1>1 DEF Fits
<1> DEFINE lead == Len(out) - rank(l)
           s(d) == IF d <= lead \/ l.sizes[d - lead] = 1 THEN 0 ELSE l.strides[d - lead]
<1>3. broadcast_strides(out, l) = [d \in 1 .. Len(out) |-> s(d)]
  BY DEF broadcast_strides
<1>4. \A d \in 1 .. Len(out) : s(d) \in Nat
  <2> SUFFICES ASSUME NEW d \in 1 .. Len(out), ~(d <= lead) PROVE l.strides[d - lead] \in Nat
    OBVIOUS
  <2>1. d - lead \in 1 .. rank(l)
    BY <1>1, <1>2
  <2> QED BY <1>1, <2>1
<1>5. PICK g : g = broadcast_strides(out, l)
  OBVIOUS
<1>6. g \in Seq(Nat) /\ Len(g) = Len(out) /\ \A d \in 1 .. Len(out) : g[d] = s(d)
  <2> HIDE DEF s
  <2>1. g \in [1 .. Len(out) -> Nat]
    BY <1>3, <1>4, <1>5
  <2>2. \A d \in 1 .. Len(out) : g[d] = s(d)
    BY <1>3, <1>5
  <2> QED BY <1>2, <2>1, <2>2, Tuples
<1>7. b.sizes = out /\ b.strides = g
  BY <1>5 DEF rebase
<1>8. Strided(b) /\ rank(b) = Len(out) /\ numel(b) = Product(out)
  BY <1>6, <1>7 DEF Strided, rank, numel
<1> QED BY <1>5, <1>6, <1>7, <1>8

(* A broadcast view reads elements of the view.                            *)
LEMMA RebaseReads ==
  ASSUME NEW l, Strided(l), NEW out \in Seq(Nat), Fits(out, l.sizes), NEW b, b = rebase(l, out),
         NEW i \in 0 .. Product(out) - 1
  PROVE  ElementOffset(b, i) \in Offsets(l)
<1>1. /\ Strided(b) /\ b.sizes = out /\ rank(b) = Len(out) /\ numel(b) = Product(out)
      /\ \A d \in 1 .. Len(out) :
           b.strides[d] = IF d <= Len(out) - rank(l) \/ l.sizes[d - (Len(out) - rank(l))] = 1 THEN 0
                          ELSE l.strides[d - (Len(out) - rank(l))]
  BY RebaseIs
<1>2. Product(out) \in Nat /\ i \in Nat /\ numel(b) > 0
  <2>1. 1 \in 1 .. Len(out) + 1
    OBVIOUS
  <2>2. Product(out) \in Nat
    BY <2>1, VolumeIs DEF Product
  <2> QED BY <1>1, <2>2
<1>3. /\ rank(l) \in Nat /\ Len(l.sizes) = rank(l) /\ l.sizes \in Seq(Nat)
      /\ \A d \in 1 .. rank(l) : l.sizes[d] \in Nat /\ l.strides[d] \in Nat
  BY Strides DEF Strided
<1>4. /\ \A d \in 1 .. Len(out) : /\ out[d] \in Nat \ {0}
                                  /\ Coord(out, i)[d] \in 0 .. out[d] - 1
      /\ ElementOffset(b, i) = Sum(Adds(b, i), rank(b))
      /\ Adds(b, i) \in Seq(Int) /\ Len(Adds(b, i)) = rank(b)
      /\ \A d \in 1 .. Len(out) : Adds(b, i)[d] = Coord(out, i)[d] * b.strides[d]
  <2>1. /\ \A d \in 1 .. rank(b) : /\ b.sizes[d] \in Nat \ {0}
                                   /\ Coord(b.sizes, i)[d] \in 0 .. b.sizes[d] - 1
        /\ ElementOffset(b, i) = Sum(Adds(b, i), rank(b))
        /\ Adds(b, i) \in Seq(Int) /\ Len(Adds(b, i)) = rank(b)
    BY <1>1, <1>2, Coordinates
  <2>2. \A d \in 1 .. rank(b) : Adds(b, i)[d] = Coord(b.sizes, i)[d] * b.strides[d]
    BY DEF Adds
  <2> QED BY <1>1, <2>1, <2>2
<1>5. Len(out) \in Nat /\ rank(l) <= Len(out)
  BY <1>3 DEF Fits
<1>6. PICK lead \in Nat : lead = Len(out) - rank(l)
  BY <1>3, <1>5
<1>7. ASSUME NEW d \in 1 .. rank(l)
      PROVE  lead + d \in 1 .. Len(out) /\ (l.sizes[d] = 1 \/ l.sizes[d] = out[lead + d])
  <2>1. d \in 1 .. Len(l.sizes)
    BY <1>3
  <2> QED BY <1>3, <1>6, <2>1, FitsIs, ZenonT(120)
<1>8. PICK c \in [1 .. Len(out) -> Nat] : \A d \in 1 .. Len(out) : c[d] = Coord(out, i)[d] /\ c[d] < out[d]
  <2> DEFINE c == [d \in 1 .. Len(out) |-> Coord(out, i)[d]]
  <2>1. \A d \in 1 .. Len(out) : Coord(out, i)[d] \in Nat /\ Coord(out, i)[d] < out[d]
    BY <1>4
  <2>2. c \in [1 .. Len(out) -> Nat] /\ \A d \in 1 .. Len(out) : c[d] = Coord(out, i)[d] /\ c[d] < out[d]
    BY <2>1
  <2> HIDE DEF c
  <2> QED BY <2>2
<1>9. PICK e \in [1 .. rank(l) -> Nat] :
        \A d \in 1 .. rank(l) : /\ e[d] = IF l.sizes[d] = 1 THEN 0 ELSE c[lead + d]
                                /\ e[d] < l.sizes[d] /\ l.sizes[d] # 0
  <2> DEFINE h == [d \in 1 .. rank(l) |-> IF l.sizes[d] = 1 THEN 0 ELSE c[lead + d]]
  <2>1. ASSUME NEW d \in 1 .. rank(l)
        PROVE  h[d] \in Nat /\ h[d] < l.sizes[d] /\ l.sizes[d] # 0
    <3>1. CASE l.sizes[d] = 1
      BY <3>1
    <3>2. CASE l.sizes[d] # 1
      BY <1>4, <1>7, <1>8, <3>2, ZenonT(120)
    <3> QED BY <3>1, <3>2
  <2>2. \A d \in 1 .. rank(l) : h[d] = IF l.sizes[d] = 1 THEN 0 ELSE c[lead + d]
    OBVIOUS
  <2>3. h = [d \in 1 .. rank(l) |-> h[d]]
    OBVIOUS
  <2> HIDE DEF h
  <2>4. h \in [1 .. rank(l) -> Nat]
    BY <2>1, <2>3
  <2> QED BY <2>1, <2>2, <2>4
<1>10. numel(l) > 0
  <2>1. \A d \in 1 .. Len(l.sizes) : l.sizes[d] # 0
    BY <1>3, <1>9
  <2>2. Product(l.sizes) \in Nat \ {0}
    BY <1>3, <2>1, ProductPositive
  <2> QED BY <2>2 DEF numel
<1>11. PICK j \in 0 .. numel(l) - 1 : \A d \in 1 .. rank(l) : Coord(l.sizes, j)[d] = e[d]
  <2>1. \A d \in 1 .. rank(l) : e[d] < l.sizes[d]
    BY <1>9
  <2> QED BY <1>10, <2>1, ElementAt, ZenonT(120)
<1>12. j \in Nat
  <2>1. 1 \in 1 .. Len(l.sizes) + 1
    BY <1>3
  <2>2. numel(l) \in Nat
    BY <1>3, <2>1, VolumeIs DEF Product, numel
  <2> QED BY <2>2
<1>13. /\ ElementOffset(l, j) = Sum(Adds(l, j), rank(l))
       /\ Adds(l, j) \in Seq(Int) /\ Len(Adds(l, j)) = rank(l)
       /\ \A d \in 1 .. rank(l) : Adds(l, j)[d] = e[d] * l.strides[d]
  <2>1. \A d \in 1 .. rank(l) : Adds(l, j)[d] = Coord(l.sizes, j)[d] * l.strides[d]
    BY DEF Adds
  <2> QED BY <1>10, <1>11, <1>12, <2>1, Coordinates
<1>14. PICK t \in Seq(Int) : t = Adds(l, j)
  BY <1>13
<1>15. PICK u \in Seq(Int) : u = Adds(b, i)
  BY <1>4
<1>16. Len(t) = rank(l) /\ Len(u) = Len(out) /\ Len(u) = lead + Len(t)
  BY <1>1, <1>3, <1>4, <1>5, <1>6, <1>13, <1>14, <1>15
<1>17. ASSUME NEW d \in 1 .. lead PROVE u[d] = 0
  <2>1. d \in 1 .. Len(out) /\ d <= Len(out) - rank(l)
    BY <1>3, <1>5, <1>6
  <2>2. b.strides[d] = 0
    BY <1>1, <2>1
  <2>3. c[d] \in Nat /\ u[d] = c[d] * b.strides[d]
    BY <1>4, <1>8, <1>15, <2>1
  <2>4. u[d] = c[d] * 0
    BY <2>2, <2>3
  <2> QED BY <2>3, <2>4
<1>18. ASSUME NEW d \in 1 .. Len(t) PROVE u[lead + d] = t[d]
  <2>1. d \in 1 .. rank(l) /\ lead + d \in 1 .. Len(out)
    BY <1>7, <1>16
  <2>2. ~(lead + d <= Len(out) - rank(l)) /\ (lead + d) - (Len(out) - rank(l)) = d
    <3>1. ~(lead + d <= lead) /\ (lead + d) - lead = d
      BY <2>1
    <3> QED BY <1>6, <3>1
  <2>3. b.strides[lead + d] = IF l.sizes[d] = 1 THEN 0 ELSE l.strides[d]
    BY <1>1, <2>1, <2>2
  <2>4. u[lead + d] = c[lead + d] * b.strides[lead + d]
    BY <1>4, <1>8, <1>15, <2>1
  <2>5. t[d] = e[d] * l.strides[d]
    BY <1>13, <1>14, <2>1
  <2>6. c[lead + d] \in Nat /\ l.strides[d] \in Nat
    BY <1>3, <2>1
  <2>7. CASE l.sizes[d] = 1
    <3>1. e[d] = 0
      BY <1>9, <2>1, <2>7
    <3>2. c[lead + d] * 0 = 0 /\ 0 * l.strides[d] = 0
      <4>1. PICK y \in Nat : y = c[lead + d]
        BY <2>6
      <4>2. PICK z \in Nat : z = l.strides[d]
        BY <2>6
      <4>3. y * 0 = 0 /\ 0 * z = 0
        OBVIOUS
      <4> QED BY <4>1, <4>2, <4>3
    <3> QED BY <2>3, <2>4, <2>5, <2>7, <3>1, <3>2
  <2>8. CASE l.sizes[d] # 1
    <3>1. e[d] = c[lead + d]
      BY <1>9, <2>1, <2>8
    <3> QED BY <2>3, <2>4, <2>5, <2>8, <3>1
  <2> QED BY <2>7, <2>8
<1>19. Sum(u, Len(u)) = Sum(t, Len(t))
  BY <1>16, <1>17, <1>18, SumShift
<1>20. ElementOffset(b, i) = ElementOffset(l, j)
  BY <1>1, <1>4, <1>13, <1>14, <1>15, <1>16, <1>19
<1> QED BY <1>20 DEF Offsets

(* Without its strides of dimensions of one element a view has the same    *)
(* elements.                                                               *)
LEMMA FitsItself ==
  ASSUME NEW s \in Seq(Nat)
  PROVE  Fits(s, s)
<1>1. Len(s) \in Nat
  OBVIOUS
<1> QED BY <1>1 DEF Fits

\* Broadcasting a view to its own shape leaves its elements.
LEMMA RebaseSame ==
  ASSUME NEW l, Strided(l), NEW b, b = rebase(l, l.sizes), NEW i \in 0 .. numel(l) - 1
  PROVE  ElementOffset(b, i) = ElementOffset(l, i)
<1>1. /\ rank(l) \in Nat /\ Len(l.sizes) = rank(l) /\ l.sizes \in Seq(Nat)
      /\ \A d \in 1 .. rank(l) : l.sizes[d] \in Nat /\ l.strides[d] \in Nat
  BY Strides DEF Strided
<1>2. /\ Strided(b) /\ b.sizes = l.sizes /\ rank(b) = rank(l) /\ numel(b) = numel(l)
      /\ \A d \in 1 .. rank(l) :
           b.strides[d] = IF d <= rank(l) - rank(l) \/ l.sizes[d - (rank(l) - rank(l))] = 1 THEN 0
                          ELSE l.strides[d - (rank(l) - rank(l))]
  BY <1>1, FitsItself, RebaseIs DEF numel
<1>3. numel(l) \in Nat /\ numel(l) > 0 /\ i \in Nat
  <2>1. 1 \in 1 .. Len(l.sizes) + 1
    BY <1>1
  <2>2. numel(l) \in Nat
    BY <1>1, <2>1, VolumeIs DEF Product, numel
  <2> QED BY <2>2
<1>4. /\ ElementOffset(l, i) = Sum(Adds(l, i), rank(l))
      /\ Adds(l, i) \in Seq(Int) /\ Len(Adds(l, i)) = rank(l)
      /\ \A d \in 1 .. rank(l) : /\ Adds(l, i)[d] = Coord(l.sizes, i)[d] * l.strides[d]
                                 /\ Coord(l.sizes, i)[d] \in 0 .. l.sizes[d] - 1
  BY <1>3, Coordinates DEF Adds
<1>5. /\ ElementOffset(b, i) = Sum(Adds(b, i), rank(l))
      /\ Adds(b, i) \in Seq(Int) /\ Len(Adds(b, i)) = rank(l)
      /\ \A d \in 1 .. rank(l) : Adds(b, i)[d] = Coord(l.sizes, i)[d] * b.strides[d]
  <2>1. /\ ElementOffset(b, i) = Sum(Adds(b, i), rank(b))
        /\ Adds(b, i) \in Seq(Int) /\ Len(Adds(b, i)) = rank(b)
    BY <1>2, <1>3, Coordinates
  <2>2. \A d \in 1 .. rank(b) : Adds(b, i)[d] = Coord(b.sizes, i)[d] * b.strides[d]
    BY DEF Adds
  <2> QED BY <1>2, <2>1, <2>2
<1>6. ASSUME NEW d \in 1 .. rank(l) PROVE Adds(b, i)[d] = Adds(l, i)[d]
  <2>1. rank(l) - rank(l) = 0 /\ d - 0 = d /\ ~(d <= 0)
    BY <1>1
  <2>2. b.strides[d] = IF l.sizes[d] = 1 THEN 0 ELSE l.strides[d]
    BY <1>2, <2>1
  <2>3. CASE l.sizes[d] = 1
    <3>1. Coord(l.sizes, i)[d] = 0 /\ l.strides[d] \in Nat
      BY <1>1, <1>4, <2>3, SMTT(60)
    <3>2. 0 * l.strides[d] = 0 * 0
      BY <3>1
    <3> QED BY <1>4, <1>5, <2>2, <2>3, <3>1, <3>2
  <2>4. CASE l.sizes[d] # 1
    BY <1>4, <1>5, <2>2, <2>4
  <2> QED BY <2>3, <2>4
<1>7. Sum(Adds(b, i), rank(l)) = Sum(Adds(l, i), rank(l))
  <2>1. rank(l) <= Len(Adds(b, i)) /\ rank(l) <= Len(Adds(l, i))
    BY <1>1, <1>4, <1>5
  <2>2. PICK t \in Seq(Int) : t = Adds(b, i)
    BY <1>5
  <2>3. PICK u \in Seq(Int) : u = Adds(l, i)
    BY <1>4
  <2>4. Sum(t, rank(l)) = Sum(u, rank(l))
    BY <1>1, <1>6, <2>1, <2>2, <2>3, SumPrefix
  <2> QED BY <2>2, <2>3, <2>4
<1> QED BY <1>4, <1>5, <1>7

(***************************************************************************)
(* The plan of an assignment: the vectors of its axes are the offsets of   *)
(* the elements of the operands broadcast to the destination's shape.      *)
(***************************************************************************)
InputAxes(s, V, n) ==
  [d \in 1 .. Len(s) |->
     [size |-> s[d], strides |-> [op \in 1 .. n |-> broadcast_strides(s, V[op])[d]]]]

\* The elements of broadcast views.
Elements(s, V, n) ==
  {[op \in 1 .. n |-> ElementOffset(rebase(V[op], s), i)] : i \in 0 .. Product(s) - 1}

\* The views have the rank and sizes to be broadcast to the shape.
Broadcast(s, V, n) == \A op \in 1 .. n : Strided(V[op]) /\ Fits(s, V[op].sizes)

\* They have the shape's sizes and the operands' broadcast strides.
LEMMA InputIs ==
  ASSUME NEW s \in Seq(Nat), Product(s) > 0, NEW n \in Nat \ {0}, NEW V, Broadcast(s, V, n),
         NEW A, A = InputAxes(s, V, n)
  PROVE  /\ A \in Seq(PlanAxis(n)) /\ Len(A) = Len(s) /\ SizesOf(A) = s
         /\ \A op \in 1 .. n : AxisView(A, op).strides = broadcast_strides(s, V[op])
<1>1. Len(s) \in Nat
  OBVIOUS
<1>2. \A d \in 1 .. Len(s) : s[d] > 0 /\ s[d] \in Nat
  BY VolumePositive
<1>3. ASSUME NEW op \in 1 .. n
      PROVE  /\ broadcast_strides(s, V[op]) \in Seq(Nat)
             /\ Len(broadcast_strides(s, V[op])) = Len(s)
  <2>1. PICK l : l = V[op]
    OBVIOUS
  <2>2. Strided(l) /\ Fits(s, l.sizes)
    BY <2>1 DEF Broadcast
  <2>3. PICK r : r = rebase(l, s)
    OBVIOUS
  <2>4. Strided(r) /\ rank(r) = Len(s) /\ r.strides = broadcast_strides(s, l) /\ Len(r.strides) = Len(s)
    BY <2>2, <2>3, RebaseIs
  <2> QED BY <2>1, <2>4 DEF Strided
<1>4. ASSUME NEW d \in 1 .. Len(s)
      PROVE  [op \in 1 .. n |-> broadcast_strides(s, V[op])[d]] \in [1 .. n -> Nat]
  <2> SUFFICES ASSUME NEW op \in 1 .. n PROVE broadcast_strides(s, V[op])[d] \in Nat
    OBVIOUS
  <2>1. PICK t : t = broadcast_strides(s, V[op])
    OBVIOUS
  <2>2. t \in Seq(Nat) /\ Len(t) = Len(s)
    BY <1>3, <2>1
  <2>3. t[d] \in Nat
    BY <2>2
  <2> QED BY <2>1, <2>3
<1>5. \A d \in 1 .. Len(s) :
        /\ A[d] = [size |-> s[d], strides |-> [op \in 1 .. n |-> broadcast_strides(s, V[op])[d]]]
        /\ A[d] \in PlanAxis(n)
  <2> SUFFICES ASSUME NEW d \in 1 .. Len(s)
               PROVE  /\ A[d] = [size |-> s[d],
                                 strides |-> [op \in 1 .. n |-> broadcast_strides(s, V[op])[d]]]
                      /\ A[d] \in PlanAxis(n)
    OBVIOUS
  <2>1. A[d] = [size |-> s[d], strides |-> [op \in 1 .. n |-> broadcast_strides(s, V[op])[d]]]
    BY DEF InputAxes
  <2>2. PICK t : t = [op \in 1 .. n |-> broadcast_strides(s, V[op])[d]]
    OBVIOUS
  <2>3. t \in [1 .. n -> Nat] /\ s[d] \in Nat \ {0}
    BY <1>2, <1>4, <2>2
  <2>4. [size |-> s[d], strides |-> t] \in PlanAxis(n)
    BY <2>3 DEF PlanAxis
  <2> QED BY <2>1, <2>2, <2>4
<1>6. A \in Seq(PlanAxis(n)) /\ Len(A) = Len(s)
  <2>1. A = [d \in 1 .. Len(s) |-> A[d]]
    BY DEF InputAxes
  <2>2. A \in [1 .. Len(s) -> PlanAxis(n)]
    BY <1>5, <2>1
  <2> QED BY <1>1, <2>2, Tuples
<1>7. SizesOf(A) = s
  <2>1. SizesOf(A) = [d \in 1 .. Len(s) |-> A[d].size]
    BY <1>6 DEF SizesOf
  <2>2. ASSUME NEW d \in 1 .. Len(s) PROVE A[d].size = s[d]
    <3>1. PICK t : A[d] = [size |-> s[d], strides |-> t]
      BY <1>5
    <3> QED BY <3>1
  <2>3. s = [d \in 1 .. Len(s) |-> s[d]]
    OBVIOUS
  <2> QED BY <2>1, <2>2, <2>3
<1>8. ASSUME NEW op \in 1 .. n PROVE AxisView(A, op).strides = broadcast_strides(s, V[op])
  <2>1. AxisView(A, op).strides = [d \in 1 .. Len(s) |-> A[d].strides[op]]
    BY <1>6 DEF AxisView
  <2>2. ASSUME NEW d \in 1 .. Len(s) PROVE A[d].strides[op] = broadcast_strides(s, V[op])[d]
    <3>1. PICK t : t = [o \in 1 .. n |-> broadcast_strides(s, V[o])[d]]
      OBVIOUS
    <3>2. A[d] = [size |-> s[d], strides |-> t]
      BY <1>5, <3>1
    <3>3. A[d].strides = t
      BY <3>2
    <3> QED BY <3>1, <3>3
  <2>3. PICK t : t = broadcast_strides(s, V[op])
    OBVIOUS
  <2>4. t \in Seq(Nat) /\ Len(t) = Len(s)
    BY <1>3, <2>3
  <2>5. t = [d \in 1 .. Len(s) |-> t[d]]
    BY <2>4
  <2> QED BY <2>1, <2>2, <2>3, <2>5
<1> QED BY <1>6, <1>7, <1>8

(* Elements of views of one shape depend on the strides only.              *)
LEMMA SameElements ==
  ASSUME NEW k, NEW l, k.sizes = l.sizes, k.strides = l.strides, NEW i
  PROVE  ElementOffset(k, i) = ElementOffset(l, i)
BY DEF ElementOffset

\* Their vectors are the elements of the broadcast operands.
LEMMA InputElements ==
  ASSUME NEW s \in Seq(Nat), Product(s) > 0, NEW n \in Nat \ {0}, NEW V, Broadcast(s, V, n),
         NEW A, A = InputAxes(s, V, n)
  PROVE  /\ A \in Seq(PlanAxis(n)) /\ Product(SizesOf(A)) = Product(s)
         /\ Vectors(A, n) = Elements(s, V, n)
<1>1. /\ A \in Seq(PlanAxis(n)) /\ SizesOf(A) = s
      /\ \A op \in 1 .. n : AxisView(A, op).strides = broadcast_strides(s, V[op])
  BY InputIs
<1>2. ASSUME NEW op \in 1 .. n, NEW i \in Nat
      PROVE  OffsetAt(A, op, CoordOf(A, i)) = ElementOffset(rebase(V[op], s), i)
  <2>1. PICK l : l = V[op]
    OBVIOUS
  <2>2. Strided(l) /\ Fits(s, l.sizes)
    BY <2>1 DEF Broadcast
  <2>3. PICK r : r = rebase(l, s)
    OBVIOUS
  <2>4. r.sizes = s /\ r.strides = broadcast_strides(s, l)
    BY <2>2, <2>3, RebaseIs
  <2>5. PICK k : k = AxisView(A, op)
    OBVIOUS
  <2>6. k.sizes = s /\ ElementOffset(k, i) = OffsetAt(A, op, CoordOf(A, i))
    BY <1>1, <2>5, AxisViewIs
  <2>7. k.strides = broadcast_strides(s, l)
    BY <1>1, <2>1, <2>5
  <2>8. ElementOffset(k, i) = ElementOffset(r, i)
    BY <2>4, <2>6, <2>7, SameElements
  <2> QED BY <2>1, <2>3, <2>6, <2>8
<1>3. ASSUME NEW i \in Nat
      PROVE  [op \in 1 .. n |-> OffsetAt(A, op, CoordOf(A, i))]
               = [op \in 1 .. n |-> ElementOffset(rebase(V[op], s), i)]
  BY <1>2
<1>4. Product(s) \in Nat
  <2>1. 1 \in 1 .. Len(s) + 1
    OBVIOUS
  <2> QED BY <2>1, VolumeIs DEF Product
<1>5. Vectors(A, n) \subseteq Elements(s, V, n)
  <2> SUFFICES ASSUME NEW c \in Box(A)
               PROVE  [op \in 1 .. n |-> OffsetAt(A, op, c)] \in Elements(s, V, n)
    BY DEF Vectors
  <2>1. PICK i \in 0 .. Product(SizesOf(A)) - 1 : CoordOf(A, i) = c
    BY <1>1, BoxIsCoords
  <2>2. i \in 0 .. Product(s) - 1 /\ i \in Nat
    BY <1>1, <1>4, <2>1
  <2>3. [op \in 1 .. n |-> OffsetAt(A, op, c)] = [op \in 1 .. n |-> ElementOffset(rebase(V[op], s), i)]
    BY <1>3, <2>1, <2>2
  <2> QED BY <2>2, <2>3 DEF Elements
<1>6. Elements(s, V, n) \subseteq Vectors(A, n)
  <2> SUFFICES ASSUME NEW i \in 0 .. Product(s) - 1
               PROVE  [op \in 1 .. n |-> ElementOffset(rebase(V[op], s), i)] \in Vectors(A, n)
    BY DEF Elements
  <2>1. i \in Nat
    BY <1>4
  <2>2. CoordOf(A, i) \in Box(A)
    BY <1>1, <2>1, CoordsOf
  <2>3. PICK c \in Box(A) : c = CoordOf(A, i)
    BY <2>2
  <2>4. [op \in 1 .. n |-> ElementOffset(rebase(V[op], s), i)] = [op \in 1 .. n |-> OffsetAt(A, op, c)]
    BY <1>3, <2>1, <2>3
  <2> QED BY <2>4 DEF Vectors
<1> QED BY <1>1, <1>5, <1>6

(***************************************************************************)
(* What the checks of the assignment leave: operands of one-byte elements  *)
(* in memory, an injective destination, and sources that are the           *)
(* destination itself or share no element with it.                         *)
(***************************************************************************)
Typed(V, n) ==
  \A op \in 1 .. n :
    /\ IsView(V[op]) /\ V[op].bytes = 1 /\ V[op].device = V[1].device
    /\ \A o \in Offsets(V[op]) : V[op].data + o \in Memory
\* They have passed the overlap and the shape checks.
Accepted(V, n) ==
  /\ Typed(V, n) /\ is_non_overlapping(V[1]) /\ Product(V[1].sizes) > 0
  /\ \A op \in 2 .. n : /\ Fits(V[1].sizes, V[op].sizes)
                        /\ classify_overlap(V[1], V[op]) \in {none, full}

\* The axes P step through the elements of the operands.
StepsThrough(P, V, n) ==
  /\ P \in Seq(PlanAxis(n)) /\ P # <<>>
  /\ Vectors(P, n) = Elements(V[1].sizes, V, n)
  /\ Product(SizesOf(P)) = Product(V[1].sizes)

\* A row and a place in it, and the address of an operand there.
Cell(P, r, i) == r \in 0 .. Rows(P) - 1 /\ i \in 0 .. Last(P).size - 1
Address(V, P, n, op, r, i) == V[op].data + At(P, n, r, i)[op]

\* Element e of every operand is at the cell.
AtElement(V, P, n, r, i, e) ==
  /\ e \in 0 .. Product(V[1].sizes) - 1
  /\ \A op \in 1 .. n :
       Address(V, P, n, op, r, i) = V[op].data + ElementOffset(rebase(V[op], V[1].sizes), e)

\* The destination's shape is the one every operand broadcasts to.
LEMMA Shape ==
  ASSUME NEW n \in Nat \ {0}, NEW V, Accepted(V, n)
  PROVE  /\ V[1].sizes \in Seq(Nat) /\ Broadcast(V[1].sizes, V, n)
         /\ Product(V[1].sizes) \in Nat \ {0} /\ Strided(V[1]) /\ numel(V[1]) = Product(V[1].sizes)
<1>1. 1 \in 1 .. n
  OBVIOUS
<1>2. \A op \in 1 .. n : Strided(V[op])
  BY DEF Accepted, Typed, IsView
<1>3. V[1].sizes \in Seq(Nat)
  BY <1>1, <1>2 DEF Strided
<1>4. ASSUME NEW op \in 1 .. n PROVE Fits(V[1].sizes, V[op].sizes)
  <2>1. CASE op = 1
    BY <1>3, <2>1, FitsItself
  <2>2. CASE op # 1
    <3>1. op \in 2 .. n
      BY <2>2
    <3> QED BY <3>1 DEF Accepted
  <2> QED BY <2>1, <2>2
<1>5. Product(V[1].sizes) \in Nat
  <2>1. PICK s \in Seq(Nat) : s = V[1].sizes
    BY <1>3
  <2>2. 1 \in 1 .. Len(s) + 1
    OBVIOUS
  <2>3. Product(s) \in Nat
    BY <2>2, VolumeIs DEF Product
  <2> QED BY <2>1, <2>3
<1>6. Product(V[1].sizes) > 0
  BY DEF Accepted
<1> QED BY <1>1, <1>2, <1>3, <1>4, <1>5, <1>6 DEF Broadcast, numel

\* Every cell is an element.
LEMMA CellElement ==
  ASSUME NEW n \in Nat \ {0}, NEW V, Accepted(V, n), NEW P, StepsThrough(P, V, n),
         NEW r, NEW i, Cell(P, r, i)
  PROVE  \E e : AtElement(V, P, n, r, i, e)
<1>1. P \in Seq(PlanAxis(n)) /\ P # <<>>
  BY DEF StepsThrough
<1>2. Rows(P) \in Nat \ {0}
  BY <1>1, PlanEnds
<1>3. r \in Nat /\ i \in 0 .. Last(P).size - 1
  BY <1>2 DEF Cell
<1>4. At(P, n, r, i) \in Vectors(P, n)
  BY <1>1, <1>3, CellsAre
<1>5. At(P, n, r, i) \in Elements(V[1].sizes, V, n)
  BY <1>4 DEF StepsThrough
<1>6. PICK e \in 0 .. Product(V[1].sizes) - 1 :
        At(P, n, r, i) = [op \in 1 .. n |-> ElementOffset(rebase(V[op], V[1].sizes), e)]
  BY <1>5 DEF Elements
<1>7. \A op \in 1 .. n : At(P, n, r, i)[op] = ElementOffset(rebase(V[op], V[1].sizes), e)
  BY <1>6
<1> QED BY <1>7 DEF AtElement, Address

\* Every element is at a cell.
LEMMA ElementCell ==
  ASSUME NEW n \in Nat \ {0}, NEW V, Accepted(V, n), NEW P, StepsThrough(P, V, n),
         NEW e \in 0 .. Product(V[1].sizes) - 1
  PROVE  \E r, i : Cell(P, r, i) /\ AtElement(V, P, n, r, i, e)
<1>1. P \in Seq(PlanAxis(n)) /\ P # <<>>
  BY DEF StepsThrough
<1>2. PICK v : v = [op \in 1 .. n |-> ElementOffset(rebase(V[op], V[1].sizes), e)]
  OBVIOUS
<1>3. v \in Elements(V[1].sizes, V, n)
  BY <1>2 DEF Elements
<1>4. v \in Vectors(P, n)
  BY <1>3 DEF StepsThrough
<1>5. PICK r \in 0 .. Rows(P) - 1, i \in 0 .. Last(P).size - 1 : v = At(P, n, r, i)
  BY <1>1, <1>4, CellsAre
<1>6. \A op \in 1 .. n : At(P, n, r, i)[op] = ElementOffset(rebase(V[op], V[1].sizes), e)
  BY <1>2, <1>5
<1> QED BY <1>5, <1>6 DEF AtElement, Address, Cell

(* The destination's element at a cell is its own.                         *)
LEMMA AtDestination ==
  ASSUME NEW n \in Nat \ {0}, NEW V, Accepted(V, n), NEW P, NEW r, NEW i, NEW e,
         AtElement(V, P, n, r, i, e)
  PROVE  Address(V, P, n, 1, r, i) = V[1].data + ElementOffset(V[1], e)
<1>1. PICK l : l = V[1]
  OBVIOUS
<1>2. Strided(l) /\ e \in 0 .. numel(l) - 1
  BY <1>1, Shape DEF AtElement
<1>3. PICK q : q = rebase(l, l.sizes)
  OBVIOUS
<1>4. ElementOffset(q, e) = ElementOffset(l, e)
  BY <1>2, <1>3, RebaseSame
<1>5. 1 \in 1 .. n
  OBVIOUS
<1>6. Address(V, P, n, 1, r, i) = V[1].data + ElementOffset(rebase(V[1], V[1].sizes), e)
  BY <1>5 DEF AtElement
<1> QED BY <1>1, <1>3, <1>4, <1>6

(* Different cells are different elements of the destination.              *)
LEMMA PlanInjective ==
  ASSUME NEW n \in Nat \ {0}, NEW V, Accepted(V, n), NEW P, StepsThrough(P, V, n)
  PROVE  Injective(AxisView(P, 1))
<1>1. P \in Seq(PlanAxis(n)) /\ P # <<>> /\ 1 \in 1 .. n
  BY DEF StepsThrough
<1>2. PICK k : k = AxisView(P, 1)
  OBVIOUS
<1>3. /\ numel(k) = Product(SizesOf(P)) /\ Strided(k)
      /\ \A i \in Nat : ElementOffset(k, i) = OffsetAt(P, 1, CoordOf(P, i))
  BY <1>1, <1>2, AxisViewIs
<1>4. PICK l : l = V[1]
  OBVIOUS
<1>5. Strided(l) /\ numel(l) = Product(l.sizes) /\ numel(l) \in Nat \ {0} /\ is_non_overlapping(l)
  BY <1>4, Shape DEF Accepted
<1>6. numel(k) = numel(l) /\ Vectors(P, n) = Elements(l.sizes, V, n)
  BY <1>3, <1>4, <1>5 DEF StepsThrough
<1>7. ASSUME NEW e \in 0 .. numel(l) - 1
      PROVE  [op \in 1 .. n |-> ElementOffset(rebase(V[op], l.sizes), e)][1] = ElementOffset(l, e)
  <2>1. PICK q : q = rebase(l, l.sizes)
    OBVIOUS
  <2>2. ElementOffset(q, e) = ElementOffset(l, e)
    BY <1>5, <2>1, RebaseSame
  <2> QED BY <1>1, <1>4, <2>1, <2>2
<1>8. Offsets(l) = {v[1] : v \in Elements(l.sizes, V, n)}
  <2>1. ASSUME NEW e \in 0 .. numel(l) - 1
        PROVE  \E v \in Elements(l.sizes, V, n) : v[1] = ElementOffset(l, e)
    BY <1>5, <1>7 DEF Elements
  <2>2. ASSUME NEW v \in Elements(l.sizes, V, n) PROVE v[1] \in Offsets(l)
    BY <1>5, <1>7 DEF Elements, Offsets
  <2> QED BY <2>1, <2>2 DEF Offsets
<1>9. Offsets(k) = {v[1] : v \in Vectors(P, n)}
  <2>1. \A c \in Box(P) : [op \in 1 .. n |-> OffsetAt(P, op, c)][1] = OffsetAt(P, 1, c)
    BY <1>1
  <2>2. ASSUME NEW i \in 0 .. numel(k) - 1
        PROVE  \E v \in Vectors(P, n) : v[1] = ElementOffset(k, i)
    <3>1. i \in Nat
      BY <1>5, <1>6
    <3>2. CoordOf(P, i) \in Box(P)
      BY <1>1, <3>1, CoordsOf
    <3>3. PICK c \in Box(P) : c = CoordOf(P, i)
      BY <3>2
    <3>4. ElementOffset(k, i) = OffsetAt(P, 1, c)
      BY <1>3, <3>1, <3>3
    <3> QED BY <2>1, <3>4 DEF Vectors
  <2>3. ASSUME NEW c \in Box(P) PROVE OffsetAt(P, 1, c) \in Offsets(k)
    <3>1. PICK i \in 0 .. Product(SizesOf(P)) - 1 : CoordOf(P, i) = c
      BY <1>1, BoxIsCoords
    <3>2. i \in Nat /\ i \in 0 .. numel(k) - 1
      BY <1>3, <1>5, <1>6, <3>1
    <3>3. ElementOffset(k, i) = OffsetAt(P, 1, c)
      BY <1>3, <3>1, <3>2
    <3> QED BY <3>2, <3>3 DEF Offsets
  <2>4. ASSUME NEW v \in Vectors(P, n) PROVE v[1] \in Offsets(k)
    BY <2>1, <2>3 DEF Vectors
  <2> QED BY <2>2, <2>4 DEF Offsets
<1>10. Offsets(k) = Offsets(l)
  BY <1>6, <1>8, <1>9
<1>11. Injective(l)
  BY <1>5, LayoutsInjective
<1> QED BY <1>2, <1>6, <1>10, <1>11 DEF Injective

\* No two cells share an element of the destination; a source's element is
\* either nobody's or its own cell's; all are in memory.
Apart(V, P, n) ==
  \A r, i, s, j :
    Cell(P, r, i) /\ Cell(P, s, j) /\ Address(V, P, n, 1, r, i) = Address(V, P, n, 1, s, j)
      => r = s /\ i = j
Unshared(V, P, n) ==
  \A op \in 2 .. n : \A r, i, s, j :
    Cell(P, r, i) /\ Cell(P, s, j) /\ Address(V, P, n, op, r, i) = Address(V, P, n, 1, s, j)
      => r = s /\ i = j
Within(V, P, n) ==
  \A op \in 1 .. n : \A r, i : Cell(P, r, i) => Address(V, P, n, op, r, i) \in Memory

\* Injectivity of the destination keeps the cells apart.
LEMMA CellsOwn ==
  ASSUME NEW n \in Nat \ {0}, NEW V, Accepted(V, n), NEW P, StepsThrough(P, V, n)
  PROVE  Apart(V, P, n)
<1> SUFFICES ASSUME NEW r, NEW i, NEW s, NEW j, Cell(P, r, i), Cell(P, s, j),
                    Address(V, P, n, 1, r, i) = Address(V, P, n, 1, s, j)
             PROVE  r = s /\ i = j
  BY DEF Apart
<1>1. P \in Seq(PlanAxis(n)) /\ P # <<>> /\ Injective(AxisView(P, 1))
  BY PlanInjective DEF StepsThrough
<1>2. /\ Last(P).strides \in [1 .. n -> Nat] /\ Front(P) \in Seq(PlanAxis(n))
      /\ Rows(P) \in Nat \ {0} /\ Last(P).size \in Nat \ {0}
  BY <1>1, PlanEnds
<1>3. At(P, n, r, i) \in [1 .. n -> Nat] /\ At(P, n, s, j) \in [1 .. n -> Nat]
  <2>1. Vectors(P, n) \subseteq [1 .. n -> Nat]
    BY <1>1, VectorsAre
  <2>2. /\ r \in Nat /\ i \in 0 .. Last(P).size - 1
        /\ s \in Nat /\ j \in 0 .. Last(P).size - 1
    BY <1>2 DEF Cell
  <2>3. At(P, n, r, i) \in Vectors(P, n) /\ At(P, n, s, j) \in Vectors(P, n)
    BY <1>1, <2>2, CellsAre
  <2> QED BY <2>1, <2>3
<1>4. V[1].data \in Nat
  <2>1. 1 \in 1 .. n
    OBVIOUS
  <2> QED BY <2>1 DEF Accepted, Typed, IsView
<1>5. At(P, n, r, i)[1] = At(P, n, s, j)[1]
  <2>1. 1 \in 1 .. n
    OBVIOUS
  <2>2. At(P, n, r, i)[1] \in Nat /\ At(P, n, s, j)[1] \in Nat
    BY <1>3, <2>1
  <2>3. V[1].data + At(P, n, r, i)[1] = V[1].data + At(P, n, s, j)[1]
    BY DEF Address
  <2>4. \A x, y, z \in Nat : x + y = x + z => y = z
    OBVIOUS
  <2> QED BY <1>4, <2>2, <2>3, <2>4
<1>6. /\ r \in 0 .. Rows(P) - 1 /\ i \in 0 .. Last(P).size - 1
      /\ s \in 0 .. Rows(P) - 1 /\ j \in 0 .. Last(P).size - 1
  BY DEF Cell
<1> QED BY <1>1, <1>5, <1>6, CellsApart

(* A byte of a view is one element of it.                                  *)
LEMMA ByteElement ==
  ASSUME NEW l, IsView(l), l.bytes = 1, NEW e \in 0 .. numel(l) - 1
  PROVE  l.data + ElementOffset(l, e) \in Touches(l)
<1>1. numel(l) \in Nat
  <2>1. PICK s \in Seq(Nat) : s = l.sizes
    BY DEF IsView, Strided
  <2>2. 1 \in 1 .. Len(s) + 1
    OBVIOUS
  <2>3. Product(s) \in Nat
    BY <2>2, VolumeIs DEF Product
  <2> QED BY <2>1, <2>3 DEF numel
<1>2. /\ ElementOffset(l, e) \in Int
  <2>1. Strided(l) /\ numel(l) > 0 /\ e \in Nat
    BY <1>1 DEF IsView
  <2> QED BY <2>1, ElementInExtent
<1>3. l.data + ElementOffset(l, e) = l.data + ElementOffset(l, e) * l.bytes + 0
  BY <1>2 DEF IsView
<1>4. ByteOf(l, e, 0, l.data + ElementOffset(l, e))
  BY <1>3 DEF ByteOf
<1> QED BY <1>4, TouchesIs

\* A source either shares no element or is the destination in place.
LEMMA SourcesOwn ==
  ASSUME NEW n \in Nat \ {0}, NEW V, Accepted(V, n), NEW P, StepsThrough(P, V, n)
  PROVE  Unshared(V, P, n)
<1> SUFFICES ASSUME NEW op \in 2 .. n, NEW r, NEW i, NEW s, NEW j, Cell(P, r, i), Cell(P, s, j),
                    Address(V, P, n, op, r, i) = Address(V, P, n, 1, s, j)
             PROVE  r = s /\ i = j
  BY DEF Unshared
<1>1. PICK e : AtElement(V, P, n, r, i, e)
  BY CellElement
<1>2. PICK f : AtElement(V, P, n, s, j, f)
  BY CellElement
<1>3. PICK d : d = V[1]
  OBVIOUS
<1>4. PICK l : l = V[op]
  OBVIOUS
<1>5. op \in 1 .. n /\ 1 \in 1 .. n
  OBVIOUS
<1>6. /\ IsView(d) /\ IsView(l) /\ d.bytes = 1 /\ l.bytes = 1 /\ d.device = l.device
      /\ is_non_overlapping(d) /\ Fits(d.sizes, l.sizes)
      /\ classify_overlap(d, l) \in {none, full}
  BY <1>3, <1>4, <1>5 DEF Accepted, Typed
<1>7. Assignable(d, l) /\ Strided(d) /\ Strided(l) /\ d.sizes \in Seq(Nat)
  BY <1>6 DEF Assignable, IsView, Strided
<1>8. e \in 0 .. numel(d) - 1 /\ f \in 0 .. numel(d) - 1
  BY <1>1, <1>2, <1>3 DEF AtElement, numel
<1>9. /\ Address(V, P, n, op, r, i) = l.data + ElementOffset(rebase(l, d.sizes), e)
      /\ Address(V, P, n, 1, r, i) = d.data + ElementOffset(d, e)
      /\ Address(V, P, n, 1, s, j) = d.data + ElementOffset(d, f)
  <2>1. Address(V, P, n, op, r, i) = V[op].data + ElementOffset(rebase(V[op], V[1].sizes), e)
    BY <1>1, <1>5 DEF AtElement
  <2>2. Address(V, P, n, 1, r, i) = V[1].data + ElementOffset(V[1], e)
    BY <1>1, AtDestination
  <2>3. Address(V, P, n, 1, s, j) = V[1].data + ElementOffset(V[1], f)
    BY <1>2, AtDestination
  <2> QED BY <1>3, <1>4, <2>1, <2>2, <2>3
<1>10. CASE classify_overlap(d, l) = none
  <2>1. Touches(d) \cap Touches(l) = {}
    BY <1>6, <1>7, <1>10, NoneIsTrue
  <2>2. d.data + ElementOffset(d, f) \in Touches(d)
    BY <1>6, <1>8, ByteElement
  <2>3. PICK q : q = rebase(l, d.sizes)
    OBVIOUS
  <2>4. e \in 0 .. Product(d.sizes) - 1
    BY <1>8 DEF numel
  <2>5. ElementOffset(q, e) \in Offsets(l)
    BY <1>6, <1>7, <2>3, <2>4, RebaseReads
  <2>6. PICK g \in 0 .. numel(l) - 1 : ElementOffset(q, e) = ElementOffset(l, g)
    BY <2>5 DEF Offsets
  <2>7. l.data + ElementOffset(l, g) \in Touches(l)
    BY <1>6, <2>6, ByteElement
  <2>8. d.data + ElementOffset(d, f) = l.data + ElementOffset(l, g)
    BY <1>9, <2>3, <2>6
  <2> QED BY <2>1, <2>2, <2>7, <2>8
<1>11. CASE classify_overlap(d, l) = full
  <2>1. /\ d.data = l.data /\ d.sizes = l.sizes
        /\ \A k \in 0 .. numel(d) - 1 : ElementOffset(d, k) = ElementOffset(l, k)
        /\ Injective(d)
    BY <1>7, <1>11, FullIsTrue
  <2>2. PICK q : q = rebase(l, l.sizes)
    OBVIOUS
  <2>3. e \in 0 .. numel(l) - 1
    BY <1>8, <2>1 DEF numel
  <2>4. ElementOffset(q, e) = ElementOffset(l, e)
    BY <1>7, <2>2, <2>3, RebaseSame
  <2>5. Address(V, P, n, op, r, i) = Address(V, P, n, 1, r, i)
    BY <1>8, <1>9, <2>1, <2>2, <2>4
  <2>6. Apart(V, P, n)
    BY CellsOwn
  <2> QED BY <2>5, <2>6 DEF Apart
<1> QED BY <1>6, <1>10, <1>11

\* What the rows access is in memory.
LEMMA CellsWithin ==
  ASSUME NEW n \in Nat \ {0}, NEW V, Accepted(V, n), NEW P, StepsThrough(P, V, n)
  PROVE  Within(V, P, n)
<1> SUFFICES ASSUME NEW op \in 1 .. n, NEW r, NEW i, Cell(P, r, i)
             PROVE  Address(V, P, n, op, r, i) \in Memory
  BY DEF Within
<1>1. PICK e : AtElement(V, P, n, r, i, e)
  BY CellElement
<1>2. PICK l : l = V[op]
  OBVIOUS
<1>3. PICK s : s = V[1].sizes
  OBVIOUS
<1>4. s \in Seq(Nat) /\ Strided(l) /\ Fits(s, l.sizes)
  BY <1>2, <1>3, Shape DEF Broadcast
<1>5. PICK q : q = rebase(l, s)
  OBVIOUS
<1>6. e \in 0 .. Product(s) - 1 /\ Address(V, P, n, op, r, i) = l.data + ElementOffset(q, e)
  BY <1>1, <1>2, <1>3, <1>5 DEF AtElement
<1>7. ElementOffset(q, e) \in Offsets(l)
  BY <1>4, <1>5, <1>6, RebaseReads
<1>8. \A o \in Offsets(l) : l.data + o \in Memory
  BY <1>2 DEF Accepted, Typed
<1> QED BY <1>6, <1>7, <1>8

(***************************************************************************)
(* The values.  A computed value starts with 0, so it differs from every   *)
(* value that was in memory before.                                        *)
(***************************************************************************)
Computed(X) == {v \in Seq(X) : Len(v) > 0 /\ v[1] = 0}

\* A computed value with more at its end is still computed.
LEMMA Extended ==
  ASSUME NEW X, NEW v \in Computed(X), NEW w \in Seq(X)
  PROVE  v \o w \in Computed(X)
<1>1. v \in Seq(X) /\ Len(v) > 0 /\ v[1] = 0
  BY DEF Computed
<1>2. v \o w \in Seq(X) /\ Len(v \o w) = Len(v) + Len(w) /\ Len(w) \in Nat
  BY <1>1
<1>3. (v \o w)[1] = v[1]
  BY <1>1
<1>4. PICK u : u = v \o w
  OBVIOUS
<1>5. u \in Seq(X) /\ Len(u) > 0 /\ u[1] = 0
  BY <1>1, <1>2, <1>3, <1>4
<1> QED BY <1>4, <1>5 DEF Computed

\* What the expression computes is a computed value.
LEMMA ApplyIs ==
  ASSUME NEW X, 0 \in X, NEW n \in Nat, NEW w \in [1 .. n -> Seq(X)]
  PROVE  Apply(w) \in Computed(X)
<1> DEFINE Y == Computed(X)
           J(k, v) == v \o w[k]
           step == [k \in 1 .. n |-> [v \in Y |-> J(k, v)]]
           Body(f) == [k \in 0 .. n |-> IF k = 0 THEN <<0>> ELSE J(k, f[k - 1])]
<1>1. w \in Seq(Seq(X)) /\ Len(w) = n
  BY Tuples
<1>2. <<0>> \in Y
  BY DEF Computed
<1>3. \A k \in 1 .. n : \A v \in Y : J(k, v) \in Y
  <2> SUFFICES ASSUME NEW k \in 1 .. n, NEW v \in Y PROVE J(k, v) \in Y
    OBVIOUS
  <2>1. w[k] \in Seq(X)
    OBVIOUS
  <2> QED BY <2>1, Extended
<1> HIDE DEF Y, J
<1>4. step \in [1 .. n -> [Y -> Y]]
  BY <1>3
<1>5. PICK f \in [0 .. n -> Y] : Up(f, n, <<0>>, step)
  <2> HIDE DEF step
  <2> QED BY <1>2, <1>4, Ascent
<1>6. f[0] = <<0>> /\ \A k \in 1 .. n : f[k] = J(k, f[k - 1])
  <2>1. ASSUME NEW k \in 1 .. n PROVE step[k][f[k - 1]] = J(k, f[k - 1])
    <3>1. k - 1 \in 0 .. n
      OBVIOUS
    <3>2. f[k - 1] \in Y
      BY <1>5, <3>1
    <3>3. step[k] = [v \in Y |-> J(k, v)]
      OBVIOUS
    <3> HIDE DEF step
    <3> QED BY <3>2, <3>3
  <2> HIDE DEF step
  <2> QED BY <1>5, <2>1 DEF Up
<1>7. f = Body(f)
  <2>1. f = [k \in 0 .. n |-> f[k]]
    BY <1>5
  <2>2. ASSUME NEW k \in 0 .. n PROVE f[k] = IF k = 0 THEN <<0>> ELSE J(k, f[k - 1])
    <3>1. CASE k = 0
      BY <1>6, <3>1
    <3>2. CASE k # 0
      <4>1. k \in 1 .. n
        BY <3>2
      <4> QED BY <1>6, <3>2, <4>1
    <3> QED BY <3>1, <3>2
  <2> QED BY <2>1, <2>2
<1> DEFINE u == CHOOSE g : g = Body(g)
<1>8. u = Body(u)
  <2> HIDE DEF Body
  <2> QED BY <1>7
<1>9. Apply(w) = u[n]
  BY <1>1 DEF Apply, J
<1> HIDE DEF u
<1>10. u[0] = <<0>> /\ \A k \in 1 .. n : u[k] = J(k, u[k - 1])
  <2>1. \A k \in 0 .. n : u[k] = IF k = 0 THEN <<0>> ELSE J(k, u[k - 1])
    BY <1>8
  <2>2. 0 \in 0 .. n /\ \A k \in 1 .. n : k \in 0 .. n /\ k # 0
    OBVIOUS
  <2> QED BY <2>1, <2>2
<1> DEFINE S == {k \in 0 .. n : u[k] \in Y}
<1>11. 0 \in S
  BY <1>2, <1>10, SMTT(60)
<1>12. \A k \in 1 .. n : k - 1 \in S => k \in S
  BY <1>3, <1>10
<1>13. n \in S
  <2>1. n \in 0 .. n
    OBVIOUS
  <2> HIDE DEF S
  <2> QED BY <1>11, <1>12, <2>1, Induction
<1> QED BY <1>9, <1>13 DEF Y

\* What memory can hold.
Values == Seq(Memory \cup {0})
\* An old value is no computed value.
LEMMA OldValues ==
  ASSUME NEW x \in Memory
  PROVE  Old(x) \in Values /\ \A v \in Computed(Memory \cup {0}) : v # Old(x)
<1>1. x # 0
  BY MemoryAssumption DEF nullptr
<1>2. Len(Old(x)) = 1 /\ Old(x)[1] = x /\ Old(x) \in Seq(Memory \cup {0})
  BY DEF Old
<1> QED BY <1>1, <1>2 DEF Values, Computed

(***************************************************************************)
(* The target is the plan's: each cell's element of the destination gets   *)
(* the value computed from the elements of the sources at the cell.        *)
(***************************************************************************)
CellValue(V, P, n, r, i) == Apply([k \in 1 .. n - 1 |-> Old(Address(V, P, n, k + 1, r, i))])
\* The target has the cells' values and no others.
Goals(V, P, n, T) ==
  /\ \A r, i : Cell(P, r, i) =>
       /\ Address(V, P, n, 1, r, i) \in DOMAIN T
       /\ T[Address(V, P, n, 1, r, i)] = CellValue(V, P, n, r, i)
  /\ \A x \in DOMAIN T : \E r, i : Cell(P, r, i) /\ x = Address(V, P, n, 1, r, i)

\* It is a computed value.
LEMMA CellValues ==
  ASSUME NEW n \in Nat \ {0}, NEW V, NEW P, Within(V, P, n), NEW r, NEW i, Cell(P, r, i)
  PROVE  CellValue(V, P, n, r, i) \in Computed(Memory \cup {0})
<1>1. ASSUME NEW k \in 1 .. n - 1 PROVE Old(Address(V, P, n, k + 1, r, i)) \in Seq(Memory \cup {0})
  <2>1. k + 1 \in 1 .. n
    OBVIOUS
  <2>2. PICK x \in Memory : x = Address(V, P, n, k + 1, r, i)
    BY <2>1 DEF Within
  <2>3. Old(x) \in Values
    BY OldValues
  <2> QED BY <2>2, <2>3 DEF Values
<1>2. PICK w : w = [k \in 1 .. n - 1 |-> Old(Address(V, P, n, k + 1, r, i))]
  OBVIOUS
<1>3. w \in [1 .. n - 1 -> Seq(Memory \cup {0})]
  BY <1>1, <1>2
<1>4. n - 1 \in Nat /\ 0 \in Memory \cup {0}
  OBVIOUS
<1>5. Apply(w) \in Computed(Memory \cup {0})
  BY <1>3, <1>4, ApplyIs
<1> QED BY <1>2, <1>5 DEF CellValue

\* The operands are the destination and then the leaves.
LEMMA OperandsAre ==
  ASSUME NEW S, leaves \in Seq(S)
  PROVE  /\ Len(leaves) \in Nat /\ Ops = 1 .. Len(leaves) + 1
         /\ Len(Operands) = Len(leaves) + 1 /\ Operands[1] = dst
         /\ \A k \in 1 .. Len(leaves) : Operands[k + 1] = leaves[k]
<1>1. PICK l \in Seq(S) : l = leaves
  OBVIOUS
<1>2. PICK d : d = dst
  OBVIOUS
<1>3. Operands = <<d>> \o l
  BY <1>1, <1>2 DEF Operands
<1>4. l \in Seq(S \cup {d}) /\ <<d>> \in Seq(S \cup {d})
  OBVIOUS
<1>5. /\ Len(<<d>> \o l) = Len(l) + 1 /\ (<<d>> \o l)[1] = d
      /\ \A k \in 1 .. Len(l) : (<<d>> \o l)[k + 1] = l[k]
  BY <1>4
<1> QED BY <1>1, <1>2, <1>3, <1>5 DEF Ops

\* The target of the elementwise assignment is the plan's.
LEMMA TargetIs ==
  ASSUME NEW S, leaves \in Seq(S), NEW n, n = Len(leaves) + 1, NEW V, V = Operands,
         Accepted(V, n), NEW P, StepsThrough(P, V, n), NEW T, T = Target
  PROVE  Goals(V, P, n, T)
<1>1. /\ n \in Nat \ {0} /\ Len(leaves) = n - 1 /\ Ops = 1 .. n /\ V[1] = dst
      /\ \A k \in 1 .. n - 1 : V[k + 1] = leaves[k]
  BY OperandsAre
<1>2. PICK d : d = dst
  OBVIOUS
<1>3. V[1] = d
  BY <1>1, <1>2
<1>4. /\ Strided(d) /\ numel(d) = Product(d.sizes) /\ Injective(d) /\ numel(d) \in Nat
      /\ d.data \in Nat
  <2>1. Strided(d) /\ numel(d) = Product(d.sizes) /\ numel(d) \in Nat
    BY <1>1, <1>3, Shape
  <2>2. is_non_overlapping(d)
    BY <1>3 DEF Accepted
  <2>3. 1 \in 1 .. n
    BY <1>1
  <2>4. d.data \in Nat
    BY <1>3, <2>3 DEF Accepted, Typed, IsView
  <2> QED BY <2>1, <2>2, <2>4, LayoutsInjective
<1> DEFINE D == {d.data + o : o \in Offsets(d)}
           El(x) == CHOOSE j \in 0 .. numel(d) - 1 : d.data + ElementOffset(d, j) = x
           Val(e) == Apply([k \in 1 .. Len(leaves) |->
                       Old(leaves[k].data + ElementOffset(rebase(leaves[k], d.sizes), e))])
<1>5. DOMAIN T = D /\ \A x \in D : T[x] = Val(El(x))
  BY <1>2 DEF Target
<1>6. \A x : x \in D <=> \E e \in 0 .. numel(d) - 1 : x = d.data + ElementOffset(d, e)
  BY DEF Offsets
<1>7. ASSUME NEW e \in 0 .. numel(d) - 1 PROVE El(d.data + ElementOffset(d, e)) = e
  <2>1. ASSUME NEW j \in 0 .. numel(d) - 1, d.data + ElementOffset(d, j) = d.data + ElementOffset(d, e)
        PROVE  j = e
    <3>1. j \in Nat /\ e \in Nat /\ numel(d) > 0
      BY <1>4
    <3>2. ElementOffset(d, j) \in Nat /\ ElementOffset(d, e) \in Nat
      BY <1>4, <3>1, ElementInExtent
    <3>3. \A x, y, z \in Nat : x + y = x + z => y = z
      OBVIOUS
    <3>4. ElementOffset(d, j) = ElementOffset(d, e)
      BY <1>4, <2>1, <3>2, <3>3
    <3> QED BY <1>4, <3>4, InjectiveElements
  <2> QED BY <2>1
<1>8. ASSUME NEW r, NEW i, NEW e, AtElement(V, P, n, r, i, e)
      PROVE  Val(e) = CellValue(V, P, n, r, i)
  <2>1. ASSUME NEW k \in 1 .. n - 1
        PROVE  leaves[k].data + ElementOffset(rebase(leaves[k], d.sizes), e) = Address(V, P, n, k + 1, r, i)
    <3>1. k + 1 \in 1 .. n /\ V[k + 1] = leaves[k]
      BY <1>1
    <3>2. Address(V, P, n, k + 1, r, i)
            = V[k + 1].data + ElementOffset(rebase(V[k + 1], V[1].sizes), e)
      BY <1>8, <3>1 DEF AtElement
    <3> QED BY <1>3, <3>1, <3>2
  <2>2. [k \in 1 .. Len(leaves) |->
           Old(leaves[k].data + ElementOffset(rebase(leaves[k], d.sizes), e))]
          = [k \in 1 .. n - 1 |-> Old(Address(V, P, n, k + 1, r, i))]
    BY <1>1, <2>1
  <2> QED BY <2>2 DEF CellValue
<1> HIDE DEF El, Val, D
<1>9. ASSUME NEW r, NEW i, NEW e, AtElement(V, P, n, r, i, e)
      PROVE  /\ Address(V, P, n, 1, r, i) \in DOMAIN T
             /\ T[Address(V, P, n, 1, r, i)] = CellValue(V, P, n, r, i)
  <2>1. Address(V, P, n, 1, r, i) = d.data + ElementOffset(d, e)
    BY <1>1, <1>3, <1>9, AtDestination
  <2>2. e \in 0 .. numel(d) - 1
    BY <1>3, <1>4, <1>9 DEF AtElement
  <2>3. d.data + ElementOffset(d, e) \in D
    BY <1>6, <2>2
  <2>4. El(d.data + ElementOffset(d, e)) = e
    BY <1>7, <2>2
  <2>5. T[d.data + ElementOffset(d, e)] = Val(e)
    BY <1>5, <2>3, <2>4
  <2> QED BY <1>5, <1>8, <1>9, <2>1, <2>3, <2>5
<1>10. ASSUME NEW r, NEW i, Cell(P, r, i)
       PROVE  /\ Address(V, P, n, 1, r, i) \in DOMAIN T
              /\ T[Address(V, P, n, 1, r, i)] = CellValue(V, P, n, r, i)
  <2>1. PICK e : AtElement(V, P, n, r, i, e)
    BY <1>1, <1>10, CellElement
  <2> QED BY <1>9, <2>1
<1>11. ASSUME NEW x \in DOMAIN T
       PROVE  \E r, i : Cell(P, r, i) /\ x = Address(V, P, n, 1, r, i)
  <2>1. PICK e \in 0 .. numel(d) - 1 : x = d.data + ElementOffset(d, e)
    BY <1>5, <1>6
  <2>2. e \in 0 .. Product(V[1].sizes) - 1
    BY <1>3, <1>4, <2>1
  <2>3. PICK r, i : Cell(P, r, i) /\ AtElement(V, P, n, r, i, e)
    BY <1>1, <2>2, ElementCell
  <2>4. Address(V, P, n, 1, r, i) = d.data + ElementOffset(d, e)
    BY <1>1, <1>3, <2>3, AtDestination
  <2> QED BY <2>1, <2>3, <2>4
<1> QED BY <1>10, <1>11 DEF Goals

(***************************************************************************)
(* The rows and the workers.  Rows(P) rows are cut into chunks of g; a     *)
(* chunk is pending or a worker runs what is left of it, and these never   *)
(* share a row.                                                            *)
(***************************************************************************)
Starts(R, g) == {r \in 0 .. R - 1 : r % g = 0}
Stop(b, g, R) == IF b + g < R THEN b + g ELSE R

\* What a worker that runs rows keeps.
WorkerRecord(P, n) ==
  [row : Nat, end : Nat, coord : [1 .. Len(Front(P)) -> Nat], offsets : [1 .. n -> Nat], i : Nat]
\* A worker is in row c.row at element c.i, with that row's offsets.
OnRow(c, P, n) ==
  /\ c \in WorkerRecord(P, n)
  /\ c.row < c.end /\ c.end <= Rows(P) /\ c.i < Last(P).size
  /\ c.coord = CoordOf(Front(P), c.row)
  /\ c.offsets = OffsetsOf(Front(P), n, CoordOf(Front(P), c.row))

\* No row in common: of two workers, of a worker and a pending chunk.
Separate(c, d) == c.end <= d.row \/ d.end <= c.row
Outside(c, b, g, R) == c.end <= b \/ Stop(b, g, R) <= c.row
\* All pending chunks and all workers' rests are apart.
Spans(P, n, g, pend, run) ==
  /\ pend \subseteq Starts(Rows(P), g)
  /\ run \in [Workers -> WorkerRecord(P, n) \cup {Idle}]
  /\ \A w \in Workers : run[w] = Idle \/ OnRow(run[w], P, n)
  /\ \A w, v \in Workers : w # v /\ run[w] # Idle /\ run[v] # Idle => Separate(run[w], run[v])
  /\ \A w \in Workers : run[w] # Idle => \A b \in pend : Outside(run[w], b, g, Rows(P))

\* What is left of the row a worker is in and of its chunk; a pending chunk.
Left(c, r, i) == (c.row < r /\ r < c.end) \/ (r = c.row /\ c.i <= i)
Waits(b, g, R, r) == b <= r /\ r < Stop(b, g, R)
\* A cell that is still to be stored.
Undone(P, g, pend, run, r, i) ==
  \/ \E b \in pend : Waits(b, g, Rows(P), r)
  \/ \E w \in Workers : run[w] # Idle /\ Left(run[w], r, i)

\* A chunk has a row and ends within the rows.
LEMMA StopIs ==
  ASSUME NEW R \in Nat \ {0}, NEW g \in Nat \ {0}, NEW b \in Starts(R, g)
  PROVE  /\ b \in Nat /\ b % g = 0 /\ b < R
         /\ Stop(b, g, R) \in Nat /\ b < Stop(b, g, R) /\ Stop(b, g, R) <= R
BY DEF Starts, Stop

\* Different multiples of g are at least g apart.
LEMMA Steps ==
  ASSUME NEW g \in Nat \ {0}, NEW x \in Nat, NEW y \in Nat, x % g = 0, y % g = 0, x < y
  PROVE  x + g <= y
<1>1. /\ x \div g \in Nat /\ x = g * (x \div g) + (x % g)
      /\ y \div g \in Nat /\ y = g * (y \div g) + (y % g)
  BY Division
<1>2. PICK p \in Nat : p = x \div g
  BY <1>1
<1>3. PICK q \in Nat : q = y \div g
  BY <1>1
<1>4. x = g * p /\ y = g * q
  BY <1>1, <1>2, <1>3
<1>5. p < q
  <2>1. CASE q <= p
    <3>1. q * g <= p * g
      BY <2>1, Products
    <3>2. q * g = g * q /\ p * g = g * p
      OBVIOUS
    <3> QED BY <1>4, <3>1, <3>2
  <2> QED BY <2>1
<1>6. (p + 1) * g <= q * g
  BY <1>5, Products
<1>7. (p + 1) * g = g * p + g /\ q * g = g * q
  OBVIOUS
<1> QED BY <1>4, <1>6, <1>7

\* Chunks do not overlap.
LEMMA StartsApart ==
  ASSUME NEW R \in Nat \ {0}, NEW g \in Nat \ {0}, NEW x \in Starts(R, g), NEW y \in Starts(R, g), x < y
  PROVE  Stop(x, g, R) <= y
<1>1. x \in Nat /\ y \in Nat /\ x % g = 0 /\ y % g = 0 /\ y < R
  BY StopIs
<1>2. x + g <= y
  BY <1>1, Steps
<1> QED BY <1>1, <1>2 DEF Stop

\* Every row is in a chunk.
LEMMA StartsCover ==
  ASSUME NEW R \in Nat \ {0}, NEW g \in Nat \ {0}, NEW r \in 0 .. R - 1
  PROVE  \E b \in Starts(R, g) : Waits(b, g, R, r)
<1>1. r \in Nat /\ r \div g \in Nat /\ r % g \in 0 .. g - 1 /\ r = g * (r \div g) + (r % g)
  BY Division
<1>2. PICK q \in Nat : q = r \div g
  BY <1>1
<1>3. PICK b \in Nat : b = g * q
  <2>1. g * q \in Nat
    OBVIOUS
  <2> QED BY <2>1
<1>4. b <= r /\ r < b + g
  BY <1>1, <1>2, <1>3
<1>5. b % g = 0
  <2>1. b = q * g
    BY <1>3
  <2>2. Multiple(b, g)
    BY <2>1 DEF Multiple
  <2> QED BY <2>2, Remainder
<1>6. b \in Starts(R, g)
  BY <1>4, <1>5 DEF Starts
<1>7. r < Stop(b, g, R)
  BY <1>4 DEF Stop
<1> QED BY <1>4, <1>6, <1>7 DEF Waits

\* A worker on a row is not idle.
LEMMA NotIdle ==
  ASSUME NEW P, NEW n, NEW c, OnRow(c, P, n)
  PROVE  c # Idle
<1>1. c.row \in Nat /\ c.row < c.end /\ c.end \in Nat
  BY DEF OnRow, WorkerRecord
<1>2. Idle.end = 0
  BY DEF Idle
<1> QED BY <1>1, <1>2

(* A worker that moves on within its chunk, or leaves it, keeps apart.     *)
LEMMA RunSpans ==
  ASSUME NEW P, NEW n, NEW g, NEW pend, NEW run, Spans(P, n, g, pend, run),
         Rows(P) \in Nat \ {0}, g \in Nat \ {0},
         NEW w \in Workers, run[w] # Idle, NEW to,
         to = Idle \/ (OnRow(to, P, n) /\ run[w].row <= to.row /\ to.end = run[w].end)
  PROVE  Spans(P, n, g, pend, [run EXCEPT ![w] = to])
<1> DEFINE next == [run EXCEPT ![w] = to]
<1>1. /\ run \in [Workers -> WorkerRecord(P, n) \cup {Idle}]
      /\ \A v \in Workers : run[v] = Idle \/ OnRow(run[v], P, n)
  BY DEF Spans
<1>2. to \in WorkerRecord(P, n) \cup {Idle}
  BY DEF OnRow
<1>3. /\ next \in [Workers -> WorkerRecord(P, n) \cup {Idle}]
      /\ next[w] = to /\ \A v \in Workers : v # w => next[v] = run[v]
  BY <1>1, <1>2
<1>4. /\ run[w].row \in Nat /\ run[w].end \in Nat
      /\ \A v \in Workers : run[v] # Idle => run[v].row \in Nat /\ run[v].end \in Nat
  BY <1>1 DEF OnRow, WorkerRecord
<1>5. to # Idle => to.row \in Nat /\ run[w].row <= to.row /\ to.end = run[w].end
  BY DEF OnRow, WorkerRecord
<1> HIDE DEF next
<1>6. \A v \in Workers : next[v] = Idle \/ OnRow(next[v], P, n)
  BY <1>1, <1>3
<1>7. ASSUME NEW v \in Workers, v # w, run[v] # Idle, to # Idle
      PROVE  Separate(to, run[v]) /\ Separate(run[v], to)
  <2>1. Separate(run[w], run[v])
    BY <1>7 DEF Spans
  <2> QED BY <1>4, <1>5, <1>7, <2>1 DEF Separate
<1>8. ASSUME NEW u \in Workers, NEW v \in Workers, u # v, next[u] # Idle, next[v] # Idle
      PROVE  Separate(next[u], next[v])
  <2>1. CASE u = w
    BY <1>3, <1>7, <1>8, <2>1
  <2>2. CASE v = w
    BY <1>3, <1>7, <1>8, <2>2
  <2>3. CASE u # w /\ v # w
    <3>1. next[u] = run[u] /\ next[v] = run[v]
      BY <1>3, <2>3
    <3> QED BY <1>8, <3>1 DEF Spans
  <2> QED BY <2>1, <2>2, <2>3
<1>9. ASSUME NEW v \in Workers, next[v] # Idle, NEW b \in pend
      PROVE  Outside(next[v], b, g, Rows(P))
  <2>1. CASE v # w
    <3>1. next[v] = run[v]
      BY <1>3, <2>1
    <3> QED BY <1>9, <3>1 DEF Spans
  <2>2. CASE v = w
    <3>1. Outside(run[w], b, g, Rows(P))
      BY DEF Spans
    <3>2. Stop(b, g, Rows(P)) \in Nat
      <4>1. b \in Starts(Rows(P), g)
        BY DEF Spans
      <4> QED BY <4>1, StopIs
    <3>3. next[v] = to /\ to # Idle
      BY <1>3, <1>9, <2>2
    <3> QED BY <1>4, <1>5, <3>1, <3>2, <3>3 DEF Outside
  <2> QED BY <2>1, <2>2
<1>10. Spans(P, n, g, pend, next)
  <2>1. pend \subseteq Starts(Rows(P), g)
    BY DEF Spans
  <2> QED BY <1>3, <1>6, <1>8, <1>9, <2>1 DEF Spans
<1> QED BY <1>10 DEF next

(* An idle worker that takes a pending chunk.                              *)
LEMMA TakeSpans ==
  ASSUME NEW P, NEW n, NEW g, NEW pend, NEW run, Spans(P, n, g, pend, run),
         Rows(P) \in Nat \ {0}, g \in Nat \ {0},
         NEW w \in Workers, run[w] = Idle, NEW b \in pend, NEW to, OnRow(to, P, n),
         to.row = b, to.end = Stop(b, g, Rows(P))
  PROVE  Spans(P, n, g, pend \ {b}, [run EXCEPT ![w] = to])
<1> DEFINE next == [run EXCEPT ![w] = to]
<1>1. /\ run \in [Workers -> WorkerRecord(P, n) \cup {Idle}]
      /\ \A v \in Workers : run[v] = Idle \/ OnRow(run[v], P, n)
  BY DEF Spans
<1>2. to \in WorkerRecord(P, n) \cup {Idle}
  BY DEF OnRow
<1>3. /\ next \in [Workers -> WorkerRecord(P, n) \cup {Idle}]
      /\ next[w] = to /\ \A v \in Workers : v # w => next[v] = run[v]
  BY <1>1, <1>2
<1>4. pend \subseteq Starts(Rows(P), g) /\ b \in Starts(Rows(P), g)
  BY DEF Spans
<1> HIDE DEF next
<1>5. \A v \in Workers : next[v] = Idle \/ OnRow(next[v], P, n)
  BY <1>1, <1>3
<1>6. ASSUME NEW v \in Workers, run[v] # Idle
      PROVE  Separate(to, run[v]) /\ Separate(run[v], to)
  <2>1. Outside(run[v], b, g, Rows(P))
    BY <1>6 DEF Spans
  <2> QED BY <2>1 DEF Separate, Outside
<1>7. ASSUME NEW u \in Workers, NEW v \in Workers, u # v, next[u] # Idle, next[v] # Idle
      PROVE  Separate(next[u], next[v])
  <2>1. CASE u = w
    BY <1>3, <1>6, <1>7, <2>1
  <2>2. CASE v = w
    BY <1>3, <1>6, <1>7, <2>2
  <2>3. CASE u # w /\ v # w
    <3>1. next[u] = run[u] /\ next[v] = run[v]
      BY <1>3, <2>3
    <3> QED BY <1>7, <3>1 DEF Spans
  <2> QED BY <2>1, <2>2, <2>3
<1>8. ASSUME NEW v \in Workers, next[v] # Idle, NEW a \in pend \ {b}
      PROVE  Outside(next[v], a, g, Rows(P))
  <2>1. CASE v # w
    <3>1. next[v] = run[v]
      BY <1>3, <2>1
    <3> QED BY <1>8, <3>1 DEF Spans
  <2>2. CASE v = w
    <3>1. a \in Starts(Rows(P), g) /\ a # b
      BY <1>4
    <3>2. a \in Nat /\ b \in Nat
      BY <1>4, <3>1, StopIs
    <3>3. CASE a < b
      BY <1>3, <1>4, <2>2, <3>1, <3>3, StartsApart DEF Outside
    <3>4. CASE b < a
      BY <1>3, <1>4, <2>2, <3>1, <3>4, StartsApart DEF Outside
    <3> QED BY <3>1, <3>2, <3>3, <3>4
  <2> QED BY <2>1, <2>2
<1>9. Spans(P, n, g, pend \ {b}, next)
  <2>1. pend \ {b} \subseteq Starts(Rows(P), g)
    BY <1>4
  <2> QED BY <1>3, <1>5, <1>7, <1>8, <2>1 DEF Spans
<1> QED BY <1>9 DEF next

(***************************************************************************)
(* Memory while the rows run: what is undone is as before, what is done    *)
(* has its final value, and nothing else is touched.                       *)
(***************************************************************************)
Stored(V, P, n, T, g, m, pend, run) ==
  /\ m \in [Memory -> Values]
  /\ \A r, i : Cell(P, r, i) =>
       m[Address(V, P, n, 1, r, i)] =
         IF Undone(P, g, pend, run, r, i) THEN Old(Address(V, P, n, 1, r, i))
         ELSE T[Address(V, P, n, 1, r, i)]
  /\ \A x \in Memory : x \notin DOMAIN T => m[x] = Old(x)

\* The same cells undone, the same memory.
LEMMA SameUndone ==
  ASSUME NEW V, NEW P, NEW n, NEW T, NEW g, NEW m, NEW pend, NEW run, NEW pend2, NEW run2,
         Stored(V, P, n, T, g, m, pend, run),
         \A r, i : Cell(P, r, i) => (Undone(P, g, pend, run, r, i) <=> Undone(P, g, pend2, run2, r, i))
  PROVE  Stored(V, P, n, T, g, m, pend2, run2)
<1>1. ASSUME NEW r, NEW i, Cell(P, r, i)
      PROVE  m[Address(V, P, n, 1, r, i)] =
               IF Undone(P, g, pend2, run2, r, i) THEN Old(Address(V, P, n, 1, r, i))
               ELSE T[Address(V, P, n, 1, r, i)]
  <2>1. m[Address(V, P, n, 1, r, i)] =
          IF Undone(P, g, pend, run, r, i) THEN Old(Address(V, P, n, 1, r, i))
          ELSE T[Address(V, P, n, 1, r, i)]
    BY <1>1 DEF Stored
  <2>2. Undone(P, g, pend, run, r, i) <=> Undone(P, g, pend2, run2, r, i)
    BY <1>1
  <2> QED BY <2>1, <2>2, Zenon
<1>2. m \in [Memory -> Values] /\ \A x \in Memory : x \notin DOMAIN T => m[x] = Old(x)
  BY DEF Stored
<1> QED BY <1>1, <1>2 DEF Stored

(* Taking a chunk changes nothing about what is undone.                    *)
LEMMA TakeStored ==
  ASSUME NEW P, NEW n, NEW g, NEW pend, NEW run, Spans(P, n, g, pend, run),
         Rows(P) \in Nat \ {0}, g \in Nat \ {0}, Last(P).size \in Nat \ {0},
         NEW w \in Workers, run[w] = Idle, NEW b \in pend, NEW to, OnRow(to, P, n),
         to.row = b, to.end = Stop(b, g, Rows(P)), to.i = 0,
         NEW V, NEW T, NEW m, Stored(V, P, n, T, g, m, pend, run)
  PROVE  Stored(V, P, n, T, g, m, pend \ {b}, [run EXCEPT ![w] = to])
<1> DEFINE next == [run EXCEPT ![w] = to]
<1>1. run \in [Workers -> WorkerRecord(P, n) \cup {Idle}]
  BY DEF Spans
<1>2. next[w] = to /\ \A v \in Workers : v # w => next[v] = run[v]
  BY <1>1
<1>3. to # Idle
  BY NotIdle
<1>4. b \in Nat /\ b < Stop(b, g, Rows(P)) /\ Stop(b, g, Rows(P)) \in Nat
  <2>1. b \in Starts(Rows(P), g)
    BY DEF Spans
  <2> QED BY <2>1, StopIs
<1> HIDE DEF next
<1>5. ASSUME NEW r, NEW i, Cell(P, r, i) PROVE Left(to, r, i) <=> Waits(b, g, Rows(P), r)
  <2>1. r \in Nat /\ i \in Nat
    BY <1>5 DEF Cell
  <2> QED BY <1>4, <2>1 DEF Left, Waits
<1>6. ASSUME NEW r, NEW i, Cell(P, r, i), Undone(P, g, pend, run, r, i)
      PROVE  Undone(P, g, pend \ {b}, next, r, i)
  <2>1. CASE \E a \in pend : Waits(a, g, Rows(P), r)
    <3>1. PICK a \in pend : Waits(a, g, Rows(P), r)
      BY <2>1
    <3>2. CASE a = b
      BY <1>2, <1>3, <1>5, <1>6, <3>1, <3>2 DEF Undone
    <3>3. CASE a # b
      BY <3>1, <3>3 DEF Undone
    <3> QED BY <3>2, <3>3
  <2>2. CASE \E v \in Workers : run[v] # Idle /\ Left(run[v], r, i)
    <3>1. PICK v \in Workers : run[v] # Idle /\ Left(run[v], r, i)
      BY <2>2
    <3>2. v # w
      BY <3>1
    <3> QED BY <1>2, <3>1, <3>2 DEF Undone
  <2> QED BY <1>6, <2>1, <2>2 DEF Undone
<1>7. ASSUME NEW r, NEW i, Cell(P, r, i), Undone(P, g, pend \ {b}, next, r, i)
      PROVE  Undone(P, g, pend, run, r, i)
  <2>1. CASE \E a \in pend \ {b} : Waits(a, g, Rows(P), r)
    BY <2>1 DEF Undone
  <2>2. CASE \E v \in Workers : next[v] # Idle /\ Left(next[v], r, i)
    <3>1. PICK v \in Workers : next[v] # Idle /\ Left(next[v], r, i)
      BY <2>2
    <3>2. CASE v = w
      BY <1>2, <1>5, <1>7, <3>1, <3>2 DEF Undone
    <3>3. CASE v # w
      BY <1>2, <3>1, <3>3 DEF Undone
    <3> QED BY <3>2, <3>3
  <2> QED BY <1>7, <2>1, <2>2 DEF Undone
<1>8. Stored(V, P, n, T, g, m, pend \ {b}, next)
  BY <1>6, <1>7, SameUndone
<1> QED BY <1>8 DEF next

(* What a worker has left, nobody else has.                                *)
LEMMA LeftAlone ==
  ASSUME NEW P, NEW n, NEW g, NEW pend, NEW run, Spans(P, n, g, pend, run),
         Rows(P) \in Nat \ {0}, g \in Nat \ {0},
         NEW w \in Workers, run[w] # Idle, NEW r \in Nat, NEW i \in Nat, Left(run[w], r, i)
  PROVE  /\ \A b \in pend : ~Waits(b, g, Rows(P), r)
         /\ \A v \in Workers : v # w /\ run[v] # Idle => ~Left(run[v], r, i)
<1>1. \A v \in Workers : run[v] # Idle =>
        run[v].row \in Nat /\ run[v].end \in Nat /\ run[v].row < run[v].end
  BY DEF Spans, OnRow, WorkerRecord
<1>2. run[w].row <= r /\ r < run[w].end
  BY <1>1 DEF Left
<1>3. ASSUME NEW b \in pend PROVE ~Waits(b, g, Rows(P), r)
  <2>1. Outside(run[w], b, g, Rows(P))
    BY DEF Spans
  <2>2. b \in Nat /\ Stop(b, g, Rows(P)) \in Nat
    <3>1. b \in Starts(Rows(P), g)
      BY DEF Spans
    <3> QED BY <3>1, StopIs
  <2> QED BY <1>1, <1>2, <2>1, <2>2 DEF Outside, Waits
<1>4. ASSUME NEW v \in Workers, v # w, run[v] # Idle PROVE ~Left(run[v], r, i)
  <2>1. Separate(run[w], run[v])
    BY <1>4 DEF Spans
  <2> QED BY <1>1, <1>2, <1>4, <2>1 DEF Separate, Left
<1> QED BY <1>3, <1>4

\* A worker stores k elements of its row and has the others left.
InBlock(c, k, r, i) == r = c.row /\ c.i <= i /\ i < c.i + k
\* What is left after the block is what was left without it.
Passes(P, c, k, to) ==
  \A r, i : Cell(P, r, i) => (to # Idle /\ Left(to, r, i) <=> Left(c, r, i) /\ ~InBlock(c, k, r, i))
\* Memory after the block: its k cells have their final values.
Writes(V, P, n, T, c, k, m, next) ==
  /\ next \in [Memory -> Values]
  /\ \A i \in c.i .. c.i + k - 1 :
       next[Address(V, P, n, 1, c.row, i)] = T[Address(V, P, n, 1, c.row, i)]
  /\ \A x \in Memory :
       (\A i \in c.i .. c.i + k - 1 : x # Address(V, P, n, 1, c.row, i)) => next[x] = m[x]

\* A block keeps the account of what is done and what is not.
LEMMA RunStored ==
  ASSUME NEW P, NEW n \in Nat \ {0}, NEW g, NEW pend, NEW run, Spans(P, n, g, pend, run),
         Rows(P) \in Nat \ {0}, g \in Nat \ {0}, Last(P).size \in Nat \ {0},
         NEW w \in Workers, run[w] # Idle, NEW k \in Nat \ {0}, run[w].i + k <= Last(P).size,
         NEW to, to \in WorkerRecord(P, n) \cup {Idle}, Passes(P, run[w], k, to),
         NEW V, NEW T, NEW m, NEW next,
         Apart(V, P, n), Within(V, P, n), Goals(V, P, n, T),
         Stored(V, P, n, T, g, m, pend, run), Writes(V, P, n, T, run[w], k, m, next)
  PROVE  Stored(V, P, n, T, g, next, pend, [run EXCEPT ![w] = to])
<1> DEFINE run2 == [run EXCEPT ![w] = to]
<1>1. /\ run \in [Workers -> WorkerRecord(P, n) \cup {Idle}]
      /\ OnRow(run[w], P, n)
  BY DEF Spans
<1>2. run2[w] = to /\ \A v \in Workers : v # w => run2[v] = run[v]
  BY <1>1
<1> HIDE DEF run2
<1>3. PICK c : c = run[w]
  OBVIOUS
<1>4. /\ c.row \in Nat /\ c.end \in Nat /\ c.i \in Nat /\ c.row < c.end /\ c.end <= Rows(P)
      /\ c.i < Last(P).size /\ c.i + k <= Last(P).size
  BY <1>1, <1>3 DEF OnRow, WorkerRecord
<1>5. \A i \in c.i .. c.i + k - 1 : Cell(P, c.row, i)
  BY <1>4 DEF Cell
<1>6. ASSUME NEW r, NEW i, Cell(P, r, i)
      PROVE  Undone(P, g, pend, run2, r, i) <=> Undone(P, g, pend, run, r, i) /\ ~InBlock(c, k, r, i)
  <2>1. r \in Nat /\ i \in Nat
    BY <1>6 DEF Cell
  <2>2. to # Idle /\ Left(to, r, i) <=> Left(c, r, i) /\ ~InBlock(c, k, r, i)
    BY <1>3, <1>6 DEF Passes
  <2>3. InBlock(c, k, r, i) => Left(c, r, i)
    BY <1>4, <2>1 DEF InBlock, Left
  <2>4. ASSUME Left(c, r, i)
        PROVE  /\ \A b \in pend : ~Waits(b, g, Rows(P), r)
               /\ \A v \in Workers : v # w /\ run[v] # Idle => ~Left(run[v], r, i)
    BY <1>3, <2>1, <2>4, LeftAlone
  <2>5. CASE Left(c, r, i)
    <3>1. Undone(P, g, pend, run, r, i)
      BY <1>3, <2>5 DEF Undone
    <3>2. Undone(P, g, pend, run2, r, i) <=> to # Idle /\ Left(to, r, i)
      BY <1>2, <2>4, <2>5 DEF Undone
    <3> QED BY <2>2, <2>5, <3>1, <3>2
  <2>6. CASE ~Left(c, r, i)
    <3>1. ~InBlock(c, k, r, i) /\ ~(to # Idle /\ Left(to, r, i))
      BY <2>2, <2>3, <2>6
    <3>2. Undone(P, g, pend, run2, r, i) <=> Undone(P, g, pend, run, r, i)
      BY <1>2, <1>3, <2>6, <3>1 DEF Undone
    <3> QED BY <3>1, <3>2
  <2> QED BY <2>5, <2>6
<1>7. ASSUME NEW r, NEW i, Cell(P, r, i)
      PROVE  next[Address(V, P, n, 1, r, i)] =
               IF Undone(P, g, pend, run2, r, i) THEN Old(Address(V, P, n, 1, r, i))
               ELSE T[Address(V, P, n, 1, r, i)]
  <2>1. i \in Nat /\ r \in Nat
    BY <1>7 DEF Cell
  <2>2. CASE InBlock(c, k, r, i)
    <3>1. i \in c.i .. c.i + k - 1 /\ r = c.row
      BY <1>4, <2>1, <2>2 DEF InBlock
    <3>2. next[Address(V, P, n, 1, r, i)] = T[Address(V, P, n, 1, r, i)]
      BY <1>3, <3>1 DEF Writes
    <3>3. ~Undone(P, g, pend, run2, r, i)
      BY <1>6, <1>7, <2>2
    <3> QED BY <3>2, <3>3
  <2>3. CASE ~InBlock(c, k, r, i)
    <3>1. PICK x : x = Address(V, P, n, 1, r, i)
      OBVIOUS
    <3>2. x \in Memory
      <4>1. 1 \in 1 .. n
        OBVIOUS
      <4> QED BY <1>7, <3>1, <4>1 DEF Within
    <3>3. ASSUME NEW j \in c.i .. c.i + k - 1 PROVE x # Address(V, P, n, 1, c.row, j)
      <4>1. CASE x = Address(V, P, n, 1, c.row, j)
        <5>1. Cell(P, c.row, j)
          BY <1>5
        <5>2. r = c.row /\ i = j
          BY <1>7, <3>1, <4>1, <5>1 DEF Apart
        <5> QED BY <1>4, <2>3, <5>2 DEF InBlock
      <4> QED BY <4>1
    <3>4. next[x] = m[x]
      BY <1>3, <3>2, <3>3 DEF Writes
    <3>5. m[x] = IF Undone(P, g, pend, run, r, i) THEN Old(x) ELSE T[x]
      BY <1>7, <3>1 DEF Stored
    <3>6. Undone(P, g, pend, run2, r, i) <=> Undone(P, g, pend, run, r, i)
      BY <1>6, <1>7, <2>3
    <3>7. next[x] = IF Undone(P, g, pend, run2, r, i) THEN Old(x) ELSE T[x]
      BY <3>4, <3>5, <3>6, Zenon
    <3> QED BY <3>1, <3>7, Zenon
  <2> QED BY <2>2, <2>3
<1>8. ASSUME NEW x \in Memory, x \notin DOMAIN T PROVE next[x] = Old(x)
  <2>1. ASSUME NEW j \in c.i .. c.i + k - 1 PROVE x # Address(V, P, n, 1, c.row, j)
    <3>1. Cell(P, c.row, j)
      BY <1>5
    <3>2. Address(V, P, n, 1, c.row, j) \in DOMAIN T
      BY <3>1 DEF Goals
    <3> QED BY <1>8, <3>2
  <2>2. next[x] = m[x]
    BY <1>3, <2>1 DEF Writes
  <2>3. m[x] = Old(x)
    BY <1>8 DEF Stored
  <2> QED BY <2>2, <2>3
<1>9. Stored(V, P, n, T, g, next, pend, run2)
  <2>1. next \in [Memory -> Values]
    BY DEF Writes
  <2> QED BY <1>7, <1>8, <2>1 DEF Stored
<1> QED BY <1>9 DEF run2

(***************************************************************************)
(* What an accepted assignment has passed.                                 *)
(***************************************************************************)
(* The classification gives one of four statuses.                          *)
LEMMA Decided ==
  ASSUME NEW d, NEW l, IsView(d), IsView(l)
  PROVE  classify_overlap(d, l) \in {none, full, partial, too_hard}
<1>1. PICK verdict : verdict = classify_overlap(d, l)
  OBVIOUS
<1>2. CASE Tested(d, l) /\ verdict = lattice_test(overlap_axes(d), overlap_axes(l), Delta(d, l))
  <2>1. PICK ax : ax = overlap_axes(d)
    OBVIOUS
  <2>2. PICK bx : bx = overlap_axes(l)
    OBVIOUS
  <2>3. Grid(ax, bx) /\ Delta(d, l) \in Int
    BY <1>2, <2>1, <2>2, LatticeVerdict
  <2>4. PICK carry : Carries(ax, bx, Delta(d, l), carry) /\ lattice_test(ax, bx, Delta(d, l)) = carry[Len(ax)].status
    BY <2>3, LatticeIs
  <2>5. Len(ax) \in Nat \ {0}
    BY <2>3 DEF Grid
  <2>6. PICK k \in Nat \ {0} : k = Len(ax)
    BY <2>5
  <2>7. k \in 1 .. Len(ax) /\ k - 1 \in 0 .. Len(ax)
    BY <2>6
  <2>8. /\ carry[k - 1] \in Carry /\ carry[k] \in Carry
        /\ carry[k] = CarryStep(carry[k - 1], ax, bx, k)
    BY <2>4, <2>7 DEF Carries
  <2>9. PICK acc \in Carry : acc = carry[k - 1]
    BY <2>8
  <2>10. acc.status \in {"carry", none, partial, too_hard}
    BY DEF Carry
  <2>11. CarryStep(acc, ax, bx, k).status \in {none, partial, too_hard}
    <3>1. CASE acc.status = "carry"
      <4>1. CarryStep(acc, ax, bx, k).status =
              IF acc.hi >= Lower(bx, k) /\ acc.lo <= Upper(ax, k) THEN partial ELSE none
        BY <2>3, <2>6, <2>7, <3>1, CarryStepIs
      <4> QED BY <4>1
    <3>2. CASE acc.status # "carry"
      <4>1. CarryStep(acc, ax, bx, k) = acc
        BY <2>3, <2>7, <3>2, CarryStepIs
      <4> QED BY <2>10, <3>2, <4>1
    <3> QED BY <3>1, <3>2
  <2> QED BY <1>1, <1>2, <2>1, <2>2, <2>4, <2>6, <2>8, <2>9, <2>11
<1>3. CASE ~(Tested(d, l) /\ verdict = lattice_test(overlap_axes(d), overlap_axes(l), Delta(d, l)))
  BY <1>1, <1>3, Verdicts
<1> QED BY <1>2, <1>3

\* The operands are those of one of the assignments.
Given == \E x \in Assignments : dst = x.dst /\ leaves = x.leaves
Arity == Len(leaves) + 1

\* The operands as a sequence, and their types.
LEMMA GivenIs ==
  ASSUME Given
  PROVE  /\ Len(leaves) \in Nat /\ Arity \in Nat \ {0} /\ Ops = 1 .. Arity
         /\ Len(Operands) = Arity /\ Operands[1] = dst
         /\ \A k \in 1 .. Len(leaves) : Operands[k + 1] = leaves[k]
         /\ Typed(Operands, Arity)
         /\ \E S : leaves \in Seq(S)
<1>1. PICK x \in Assignments : dst = x.dst /\ leaves = x.leaves
  BY DEF Given
<1>2. /\ leaves \in Seq(ViewsOf(x))
      /\ \A l \in ViewsOf(x) :
           /\ l.data \in Nat /\ l.bytes = 1 /\ l.device = dst.device
           /\ l.sizes \in Seq(Nat) /\ l.strides \in Seq(Nat) /\ Len(l.sizes) = Len(l.strides)
           /\ l.data = nullptr => numel(l) = 0
           /\ {l.data + o : o \in Offsets(l)} \subseteq Memory
  BY <1>1, AssignmentsAssumption
<1>3. /\ Len(leaves) \in Nat /\ Ops = 1 .. Len(leaves) + 1
      /\ Len(Operands) = Len(leaves) + 1 /\ Operands[1] = dst
      /\ \A k \in 1 .. Len(leaves) : Operands[k + 1] = leaves[k]
  BY <1>2, OperandsAre
<1>4. ASSUME NEW op \in 1 .. Len(leaves) + 1 PROVE Operands[op] \in ViewsOf(x)
  <2>1. CASE op = 1
    BY <1>1, <1>3, <2>1 DEF ViewsOf
  <2>2. CASE op # 1
    <3>1. PICK k \in 1 .. Len(leaves) : op = k + 1
      <4>1. op - 1 \in 1 .. Len(leaves) /\ op = (op - 1) + 1
        BY <1>3, <2>2
      <4> QED BY <4>1
    <3>2. leaves[k] \in ViewsOf(x)
      BY <1>2
    <3> QED BY <1>3, <3>1, <3>2
  <2> QED BY <2>1, <2>2
<1>5. ASSUME NEW l \in ViewsOf(x)
      PROVE  /\ IsView(l) /\ l.bytes = 1 /\ l.device = dst.device
             /\ \A o \in Offsets(l) : l.data + o \in Memory
  BY <1>2 DEF IsView, Strided
<1>6. Typed(Operands, Len(leaves) + 1)
  BY <1>3, <1>4, <1>5 DEF Typed
<1> QED BY <1>2, <1>3, <1>6 DEF Arity

\* What each verdict says of the checks.
LEMMA VerdictIs ==
  /\ Verdict = "rows" => /\ is_non_overlapping(dst) /\ assignment_allowed(dst, leaves, FALSE, FALSE)
                         /\ result_shape(leaves) = dst.sizes /\ numel(dst) # 0
  /\ Verdict = "done" => numel(dst) = 0
  /\ Verdict = "stride 0" => /\ is_non_overlapping(dst) /\ numel(dst) # 0
                             /\ \E d \in 1 .. rank(dst) : dst.strides[d] = 0 /\ dst.sizes[d] > 1
  /\ Verdict \in {"unproven destination", "overlap", "shape", "flat", "stride 0", "operands", "done", "rows"}
BY DEF Verdict, validate_destination, check_result_shape

\* Zero is not positive.
LEMMA ZeroStride ==
  ASSUME NEW z, z = 0
  PROVE  ~(z > 0)
OBVIOUS

(* An injective destination has no stride 0 to reject.                     *)
LEMMA NoStrideZero == Verdict # "stride 0"
<1> SUFFICES ASSUME Verdict = "stride 0" PROVE FALSE
  OBVIOUS
<1>1. PICK d \in 1 .. rank(dst) : dst.strides[d] = 0 /\ dst.sizes[d] > 1
  BY VerdictIs
<1>2. dst.strides[d] > 0
  BY <1>1, VerdictIs DEF is_non_overlapping
<1>3. ~(dst.strides[d] > 0)
  BY <1>1, ZeroStride
<1> QED BY <1>2, <1>3

\* An assignment that comes to its rows has passed every check.
LEMMA AcceptedIs ==
  ASSUME Given, Verdict = "rows"
  PROVE  Accepted(Operands, Arity)
<1>1. /\ Len(leaves) \in Nat /\ Arity \in Nat \ {0}
      /\ Operands[1] = dst /\ \A k \in 1 .. Len(leaves) : Operands[k + 1] = leaves[k]
      /\ Typed(Operands, Arity)
  BY GivenIs
<1>2. Arity = Len(leaves) + 1
  BY DEF Arity
<1>3. /\ is_non_overlapping(dst) /\ assignment_allowed(dst, leaves, FALSE, FALSE)
      /\ result_shape(leaves) = dst.sizes /\ numel(dst) # 0
  BY VerdictIs
<1>4. \A op \in 1 .. Arity : IsView(Operands[op]) /\ Strided(Operands[op])
  BY <1>1 DEF Typed, IsView
<1>5. IsView(dst) /\ dst.sizes \in Seq(Nat)
  <2>1. 1 \in 1 .. Arity
    BY <1>1
  <2> QED BY <1>1, <1>4, <2>1 DEF Strided
<1>6. ASSUME NEW k \in 1 .. Len(leaves) PROVE IsView(leaves[k]) /\ leaves[k].sizes \in Seq(Nat)
  <2>1. k + 1 \in 1 .. Arity
    BY <1>1, <1>2
  <2>2. IsView(Operands[k + 1]) /\ Strided(Operands[k + 1])
    BY <1>4, <2>1
  <2> QED BY <1>1, <2>2 DEF Strided
<1>7. \A k \in 1 .. Len(leaves) : Fits(dst.sizes, leaves[k].sizes)
  <2>1. PICK ls : ls = leaves
    OBVIOUS
  <2>2. PICK out \in Seq(Nat) : out = dst.sizes
    BY <1>5
  <2>3. Len(ls) \in Nat /\ \A k \in 1 .. Len(ls) : ls[k].sizes \in Seq(Nat)
    BY <1>1, <1>6, <2>1
  <2>4. out = result_shape(ls)
    BY <1>3, <2>1, <2>2
  <2>5. \A k \in 1 .. Len(ls) : Fits(out, ls[k].sizes)
    BY <2>3, <2>4, ResultFits
  <2> QED BY <2>1, <2>2, <2>5
<1>8. ASSUME NEW k \in 1 .. Len(leaves) PROVE classify_overlap(dst, leaves[k]) \in {none, full}
  <2>1. PICK verdict : verdict = classify_overlap(dst, leaves[k])
    OBVIOUS
  <2>2. verdict # partial /\ verdict # too_hard
    BY <1>3, <2>1 DEF assignment_allowed
  <2>3. verdict \in {none, full, partial, too_hard}
    BY <1>5, <1>6, <2>1, Decided
  <2> QED BY <2>1, <2>2, <2>3
<1>9. ASSUME NEW op \in 2 .. Arity
      PROVE  Fits(dst.sizes, Operands[op].sizes) /\ classify_overlap(dst, Operands[op]) \in {none, full}
  <2>1. PICK k \in 1 .. Len(leaves) : op = k + 1
    <3>1. op - 1 \in 1 .. Len(leaves) /\ op = (op - 1) + 1
      BY <1>1, <1>2
    <3> QED BY <3>1
  <2>2. Operands[op] = leaves[k]
    BY <1>1, <2>1
  <2> QED BY <1>7, <1>8, <2>2
<1>10. Product(dst.sizes) > 0
  <2>1. PICK s \in Seq(Nat) : s = dst.sizes
    BY <1>5
  <2>2. 1 \in 1 .. Len(s) + 1
    OBVIOUS
  <2>3. Product(s) \in Nat
    BY <2>2, VolumeIs DEF Product
  <2>4. Product(s) # 0
    BY <1>3, <2>1 DEF numel
  <2> QED BY <2>1, <2>3, <2>4
<1> QED BY <1>1, <1>3, <1>9, <1>10 DEF Accepted

(***************************************************************************)
(* What the plan of an accepted assignment gives the rows.                 *)
(***************************************************************************)
Working(V, p, n, T) ==
  /\ Accepted(V, n) /\ StepsThrough(p.axes, V, n)
  /\ Apart(V, p.axes, n) /\ Unshared(V, p.axes, n) /\ Within(V, p.axes, n) /\ Goals(V, p.axes, n, T)
  /\ p.tier \in 0 .. 3
  /\ p.tier <= 2 => /\ Last(p.axes).strides[1] = 1
                    /\ \A op \in 2 .. n : Last(p.axes).strides[op] \in {0, 1}

\* The plan of an accepted assignment does.
LEMMA PlanIs ==
  ASSUME Given, Verdict = "rows", NEW p, p = make_iteration_plan
  PROVE  Working(Operands, p, Arity, Target)
<1>1. PICK V : V = Operands
  OBVIOUS
<1>2. PICK n \in Nat \ {0} : n = Arity
  BY GivenIs
<1>3. /\ Accepted(V, n) /\ V[1] = dst /\ Ops = 1 .. n
  BY <1>1, <1>2, AcceptedIs, GivenIs
<1>4. PICK s : s = dst.sizes
  OBVIOUS
<1>5. s \in Seq(Nat) /\ Product(s) > 0 /\ Broadcast(s, V, n)
  BY <1>3, <1>4, Shape DEF Accepted
<1>6. PICK A : A = InputAxes(s, V, n)
  OBVIOUS
<1>7. /\ A \in Seq(PlanAxis(n)) /\ Product(SizesOf(A)) = Product(s)
      /\ Vectors(A, n) = Elements(s, V, n)
  BY <1>5, <1>6, InputElements
<1>8. p = sort_merge_classify(A)
  BY <1>1, <1>3, <1>4, <1>6 DEF make_iteration_plan, InputAxes, rank
<1>9. PlanOf(p, A, n)
  BY <1>3, <1>7, <1>8, ClassifyIs
<1>10. StepsThrough(p.axes, V, n)
  BY <1>3, <1>4, <1>7, <1>9 DEF PlanOf, Alike, StepsThrough
<1>11. PICK P : P = p.axes
  OBVIOUS
<1>12. Apart(V, P, n) /\ Unshared(V, P, n) /\ Within(V, P, n)
  BY <1>3, <1>10, <1>11, CellsOwn, SourcesOwn, CellsWithin
<1>13. PICK T : T = Target
  OBVIOUS
<1>14. Goals(V, P, n, T)
  <2>1. PICK S : leaves \in Seq(S)
    BY GivenIs
  <2>2. n = Len(leaves) + 1
    BY <1>2 DEF Arity
  <2> QED BY <1>1, <1>3, <1>10, <1>11, <1>13, <2>1, <2>2, TargetIs
<1>15. /\ p.tier \in 0 .. 3
       /\ p.tier <= 2 => /\ Last(p.axes).strides[1] = 1
                         /\ \A op \in 2 .. n : Last(p.axes).strides[op] \in {0, 1}
  BY <1>9 DEF PlanOf
<1> QED BY <1>1, <1>2, <1>3, <1>10, <1>11, <1>12, <1>13, <1>14, <1>15 DEF Working

\* The types of the plan's outer and inner axes.
LEMMA WorkingEnds ==
  ASSUME NEW n \in Nat \ {0}, NEW V, NEW p, NEW T, Working(V, p, n, T)
  PROVE  /\ p.axes \in Seq(PlanAxis(n)) /\ Front(p.axes) \in Seq(PlanAxis(n))
         /\ Last(p.axes).strides \in [1 .. n -> Nat] /\ Last(p.axes).size \in Nat \ {0}
         /\ Rows(p.axes) \in Nat \ {0}
         /\ numel(V[1]) = Rows(p.axes) * Last(p.axes).size
         /\ \A op \in 1 .. n : V[op].data \in Nat
<1>1. PICK P : P = p.axes
  OBVIOUS
<1>2. StepsThrough(P, V, n) /\ Accepted(V, n)
  BY <1>1 DEF Working
<1>3. P \in Seq(PlanAxis(n)) /\ P # <<>> /\ Product(SizesOf(P)) = Product(V[1].sizes)
  BY <1>2 DEF StepsThrough
<1>4. /\ Front(P) \in Seq(PlanAxis(n)) /\ Last(P).size \in Nat \ {0} /\ Last(P).strides \in [1 .. n -> Nat]
      /\ Rows(P) \in Nat \ {0} /\ Product(SizesOf(P)) = Rows(P) * Last(P).size
  BY <1>3, PlanEnds
<1>5. \A op \in 1 .. n : V[op].data \in Nat
  BY <1>2 DEF Accepted, Typed, IsView
<1> QED BY <1>1, <1>3, <1>4, <1>5 DEF numel

\* The chunks RowGrain makes are chunks of at least one row.
LEMMA GrainIs ==
  ASSUME NEW n \in Nat \ {0}, NEW V, NEW p, NEW T, Working(V, p, n, T), V[1] = dst
  PROVE  /\ numel(dst) \div Last(p.axes).size = Rows(p.axes)
         /\ RowGrain(p) \in Nat \ {0}
         /\ Chunks(p) = Starts(Rows(p.axes), RowGrain(p))
<1>1. PICK S \in Nat \ {0} : S = Last(p.axes).size
  BY WorkingEnds
<1>2. PICK R \in Nat \ {0} : R = Rows(p.axes)
  BY WorkingEnds
<1>3. PICK m : m = numel(dst)
  OBVIOUS
<1>4. m = R * S
  BY <1>1, <1>2, <1>3, WorkingEnds
<1>5. m = S * R + 0 /\ m \in Nat
  BY <1>4
<1>6. m \div S = R
  <2>1. 0 \in 0 .. S - 1
    OBVIOUS
  <2> QED BY <1>5, <2>1, Quotient
<1>7. numel(dst) \div Last(p.axes).size = R
  BY <1>1, <1>3, <1>6
<1>8. RowGrain(p) \in Nat \ {0}
  <2>1. RowGrain(p) = IF m < GrainSize \/ R < 2 THEN R
                      ELSE IF GrainSize \div S = 0 THEN 1 ELSE GrainSize \div S
    BY <1>1, <1>3, <1>7 DEF RowGrain
  <2>2. GrainSize \in Nat
    BY SizesAssumption
  <2>3. GrainSize \div S \in Nat
    BY <2>2, Division
  <2>4. PICK q \in Nat : q = GrainSize \div S
    BY <2>3
  <2>5. RowGrain(p) = R \/ RowGrain(p) = 1 \/ (RowGrain(p) = q /\ q # 0)
    BY <2>1, <2>4
  <2> QED BY <2>5
<1>9. Chunks(p) = Starts(R, RowGrain(p))
  BY <1>7 DEF Chunks, Starts
<1> QED BY <1>2, <1>7, <1>8, <1>9

(* The block of a worker: full SIMD width only where the row has room.     *)
LEMMA BlockIs ==
  ASSUME NEW n \in Nat \ {0}, NEW V, NEW T, Working(V, plan, n, T),
         NEW c, OnRow(c, plan.axes, n)
  PROVE  /\ Block(c) \in Nat \ {0} /\ c.i + Block(c) <= Last(plan.axes).size
         /\ Block(c) = 1 \/ plan.tier <= 2
<1>1. c.i \in Nat /\ c.i < Last(plan.axes).size /\ Last(plan.axes).size \in Nat
  BY WorkingEnds DEF OnRow, WorkerRecord
<1>2. Length \in Nat \ {0}
  BY SizesAssumption
<1>3. Block(c) = IF plan.tier <= 2 /\ c.i + Length <= Last(plan.axes).size THEN Length ELSE 1
  BY DEF Block, row_size, Inner
<1> QED BY <1>1, <1>2, <1>3

\* A lane loads its own cell's element of the source.
LEMMA LoadIs ==
  ASSUME NEW n \in Nat \ {0}, NEW V, V = Operands, NEW T, Working(V, plan, n, T),
         NEW c, OnRow(c, plan.axes, n), NEW lane \in 0 .. Block(c) - 1, NEW op \in 2 .. n
  PROVE  Load(op, c, lane) = mem[Address(V, plan.axes, n, op, c.row, c.i + lane)]
<1>1. PICK P : P = plan.axes
  OBVIOUS
<1>2. /\ Front(P) \in Seq(PlanAxis(n)) /\ Last(P).strides \in [1 .. n -> Nat]
      /\ op \in 1 .. n /\ V[op].data \in Nat
  BY <1>1, WorkingEnds
<1>3. /\ c.i \in Nat /\ lane \in Nat /\ Block(c) \in Nat \ {0} /\ lane < Block(c)
      /\ Block(c) = 1 \/ plan.tier <= 2
  <2>1. PICK k \in Nat \ {0} : k = Block(c)
    BY BlockIs
  <2>2. Block(c) = 1 \/ plan.tier <= 2
    BY BlockIs
  <2>3. c.i \in Nat
    BY DEF OnRow, WorkerRecord
  <2> QED BY <2>1, <2>2, <2>3
<1>4. PICK z \in Nat : z = Last(P).strides[op]
  BY <1>2
<1>5. c.offsets[op] = OffsetAt(Front(P), op, CoordOf(Front(P), c.row)) /\ c.offsets[op] \in Nat
  <2>1. c.offsets = OffsetsOf(Front(P), n, CoordOf(Front(P), c.row))
    BY <1>1 DEF OnRow
  <2>2. c.offsets \in [1 .. n -> Nat]
    BY DEF OnRow, WorkerRecord
  <2>3. OffsetsOf(Front(P), n, CoordOf(Front(P), c.row))[op]
          = OffsetAt(Front(P), op, CoordOf(Front(P), c.row))
    BY <1>2 DEF OffsetsOf
  <2>4. c.offsets[op] \in Nat
    BY <1>2, <2>2
  <2> QED BY <2>1, <2>3, <2>4
<1>6. PICK o \in Nat : o = c.offsets[op]
  BY <1>5
<1>7. PICK q \in Nat : q = V[op].data
  BY <1>2
<1>8. PICK i \in Nat : i = c.i
  BY <1>3
<1>9. Address(V, P, n, op, c.row, i + lane) = q + (o + (i + lane) * z)
  <2>1. At(P, n, c.row, i + lane)[op]
          = OffsetAt(Front(P), op, CoordOf(Front(P), c.row)) + (i + lane) * Last(P).strides[op]
    BY <1>2 DEF At
  <2> QED BY <1>4, <1>5, <1>6, <1>7, <2>1 DEF Address
<1>10. Load(op, c, lane) = IF Block(c) = 1 THEN mem[(q + o) + (i + lane) * z]
                          ELSE IF z = 0 THEN mem[q + o] ELSE mem[(q + o) + i + lane]
  BY <1>1, <1>4, <1>6, <1>7, <1>8 DEF Load, Inner
<1>11. PICK j \in Nat : j = i + lane
  BY <1>3
<1>12. j * z \in Nat
  OBVIOUS
<1>13. q + (o + j * z) = (q + o) + j * z
  BY <1>12
<1>14. CASE Block(c) = 1
  BY <1>1, <1>8, <1>9, <1>10, <1>11, <1>13, <1>14
<1>15. CASE Block(c) # 1
  <2>1. Last(P).strides[op] \in {0, 1}
    BY <1>1, <1>3, <1>15 DEF Working
  <2>2. CASE z = 0
    <3>1. j * z = 0
      BY <2>2
    <3>2. (q + o) + j * z = q + o
      BY <3>1
    <3>3. Load(op, c, lane) = mem[q + o]
      BY <1>10, <1>15, <2>2
    <3>4. Address(V, P, n, op, c.row, j) = q + o
      BY <1>9, <1>11, <1>13, <3>2
    <3> QED BY <1>1, <1>8, <1>11, <3>3, <3>4
  <2>3. CASE z = 1
    <3>1. j * z = j
      BY <2>3
    <3>2. (q + o) + i + lane = (q + o) + j * z
      BY <1>11, <3>1
    <3>3. Load(op, c, lane) = mem[(q + o) + j * z]
      BY <1>10, <1>15, <2>3, <3>2
    <3>4. Address(V, P, n, op, c.row, j) = (q + o) + j * z
      BY <1>9, <1>11, <1>13
    <3> QED BY <1>1, <1>8, <1>11, <3>3, <3>4
  <2> QED BY <1>4, <2>1, <2>2, <2>3
<1> QED BY <1>14, <1>15

\* A lane stores to its own cell's element of the destination.
LEMMA StoreIs ==
  ASSUME NEW n \in Nat \ {0}, NEW V, V = Operands, V[1] = dst, NEW T, Working(V, plan, n, T),
         NEW c, OnRow(c, plan.axes, n), NEW lane \in 0 .. Block(c) - 1
  PROVE  Store(c, lane) = Address(V, plan.axes, n, 1, c.row, c.i + lane)
<1>1. PICK P : P = plan.axes
  OBVIOUS
<1>2. /\ Front(P) \in Seq(PlanAxis(n)) /\ Last(P).strides \in [1 .. n -> Nat]
      /\ 1 \in 1 .. n /\ V[1].data \in Nat
  BY <1>1, WorkingEnds
<1>3. /\ c.i \in Nat /\ lane \in Nat /\ Block(c) \in Nat \ {0} /\ lane < Block(c)
      /\ Block(c) = 1 \/ plan.tier <= 2
  <2>1. PICK k \in Nat \ {0} : k = Block(c)
    BY BlockIs
  <2>2. Block(c) = 1 \/ plan.tier <= 2
    BY BlockIs
  <2>3. c.i \in Nat
    BY DEF OnRow, WorkerRecord
  <2> QED BY <2>1, <2>2, <2>3
<1>4. PICK z \in Nat : z = Last(P).strides[1]
  BY <1>2
<1>5. c.offsets[1] = OffsetAt(Front(P), 1, CoordOf(Front(P), c.row)) /\ c.offsets[1] \in Nat
  <2>1. c.offsets = OffsetsOf(Front(P), n, CoordOf(Front(P), c.row))
    BY <1>1 DEF OnRow
  <2>2. c.offsets \in [1 .. n -> Nat]
    BY DEF OnRow, WorkerRecord
  <2>3. OffsetsOf(Front(P), n, CoordOf(Front(P), c.row))[1]
          = OffsetAt(Front(P), 1, CoordOf(Front(P), c.row))
    BY <1>2 DEF OffsetsOf
  <2>4. c.offsets[1] \in Nat
    BY <1>2, <2>2
  <2> QED BY <2>1, <2>3, <2>4
<1>6. PICK o \in Nat : o = c.offsets[1]
  BY <1>5
<1>7. PICK q \in Nat : q = dst.data
  BY <1>2
<1>8. PICK i \in Nat : i = c.i
  BY <1>3
<1>9. Address(V, P, n, 1, c.row, i + lane) = q + (o + (i + lane) * z)
  <2>1. At(P, n, c.row, i + lane)[1]
          = OffsetAt(Front(P), 1, CoordOf(Front(P), c.row)) + (i + lane) * Last(P).strides[1]
    BY <1>2 DEF At
  <2> QED BY <1>4, <1>5, <1>6, <1>7, <2>1 DEF Address
<1>10. Store(c, lane) = q + o + (IF plan.tier <= 2 THEN i + lane ELSE i * z)
  BY <1>1, <1>4, <1>6, <1>7, <1>8 DEF Store, Inner
<1>11. CASE plan.tier <= 2
  <2>1. z = 1
    BY <1>1, <1>4, <1>11 DEF Working
  <2>2. (i + lane) * z = i + lane
    BY <1>3, <2>1
  <2>3. Store(c, lane) = q + o + (i + lane)
    BY <1>10, <1>11
  <2>4. q + o + (i + lane) = q + (o + (i + lane))
    BY <1>3
  <2> QED BY <1>1, <1>8, <1>9, <2>2, <2>3, <2>4
<1>12. CASE ~(plan.tier <= 2)
  <2>1. lane = 0 /\ i + lane = i
    BY <1>3, <1>12
  <2>2. Store(c, lane) = q + o + i * z
    BY <1>10, <1>12
  <2>3. PICK k \in Nat : k = i * z
    OBVIOUS
  <2>4. q + o + k = q + (o + k)
    OBVIOUS
  <2> QED BY <1>1, <1>8, <1>9, <2>1, <2>2, <2>3, <2>4
<1> QED BY <1>11, <1>12

(***************************************************************************)
(* A worker's block: it reads elements as they were, stores final values,  *)
(* and moves on.                                                           *)
(***************************************************************************)
\* The values a worker's block stores, as RunBlock computes them.
BlockValue(c, x) ==
  LET lane == CHOOSE l \in 0 .. Block(c) - 1 : Store(c, l) = x
  IN  Apply([k \in 1 .. Len(leaves) |-> Load(k + 1, c, lane)])
BlockMemory(c) ==
  [x \in Memory |-> IF x \in {Store(c, lane) : lane \in 0 .. Block(c) - 1}
                    THEN BlockValue(c, x) ELSE mem[x]]

\* Each element is kept, or gets its final value for the first time.
StoresOnce(T, m, next) ==
  \A x \in Memory : \/ next[x] = m[x]
                    \/ x \in DOMAIN T /\ m[x] # T[x] /\ next[x] = T[x]

\* A block stores the final values of its cells, and of none twice.
LEMMA BlockWrites ==
  ASSUME NEW n \in Nat \ {0}, n = Len(leaves) + 1, Len(leaves) \in Nat, NEW V, V = Operands, V[1] = dst,
         NEW T, Working(V, plan, n, T),
         NEW g, NEW pend, NEW run, Spans(plan.axes, n, g, pend, run),
         Stored(V, plan.axes, n, T, g, mem, pend, run),
         NEW w \in Workers, run[w] # Idle, NEW next, next = BlockMemory(run[w])
  PROVE  /\ Writes(V, plan.axes, n, T, run[w], Block(run[w]), mem, next)
         /\ StoresOnce(T, mem, next)
<1>1. PICK P : P = plan.axes
  OBVIOUS
<1>2. PICK c : c = run[w]
  OBVIOUS
<1>3. OnRow(c, P, n)
  BY <1>1, <1>2 DEF Spans
<1>4. PICK k \in Nat \ {0} : k = Block(c)
  BY <1>1, <1>3, BlockIs
<1>5. c.i \in Nat /\ c.row \in Nat /\ c.end \in Nat /\ c.row < c.end /\ c.end <= Rows(P)
  BY <1>3 DEF OnRow, WorkerRecord
<1>6. Rows(P) \in Nat \ {0} /\ Last(P).size \in Nat \ {0} /\ c.i + k <= Last(P).size
  BY <1>1, <1>3, <1>4, BlockIs, WorkingEnds
<1>7. Apart(V, P, n) /\ Unshared(V, P, n) /\ Within(V, P, n) /\ Goals(V, P, n, T)
  BY <1>1 DEF Working
<1>8. ASSUME NEW l \in 0 .. k - 1
      PROVE  /\ Store(c, l) = Address(V, P, n, 1, c.row, c.i + l)
             /\ Cell(P, c.row, c.i + l)
             /\ Undone(P, g, pend, run, c.row, c.i + l)
  <2>1. Store(c, l) = Address(V, P, n, 1, c.row, c.i + l)
    BY <1>1, <1>3, <1>4, StoreIs
  <2>2. Cell(P, c.row, c.i + l)
    <3>1. PICK R \in Nat : R = Rows(P)
      BY <1>6
    <3>2. PICK z \in Nat : z = Last(P).size
      BY <1>6
    <3>3. PICK r \in Nat, i \in Nat, e \in Nat : r = c.row /\ i = c.i /\ e = c.end
      BY <1>5
    <3>4. r < e /\ e <= R /\ i + k <= z
      BY <1>5, <1>6, <3>1, <3>2, <3>3
    <3>5. r \in 0 .. R - 1 /\ i + l \in 0 .. z - 1
      BY <3>4
    <3> QED BY <3>1, <3>2, <3>3, <3>5 DEF Cell
  <2>3. Left(c, c.row, c.i + l)
    BY <1>5 DEF Left
  <2> QED BY <1>2, <2>1, <2>2, <2>3 DEF Undone
<1>9. \A x \in Memory : x \notin DOMAIN T => mem[x] = Old(x)
  BY DEF Stored
<1>10. ASSUME NEW r, NEW i, Cell(P, r, i), Undone(P, g, pend, run, r, i)
       PROVE  mem[Address(V, P, n, 1, r, i)] = Old(Address(V, P, n, 1, r, i))
  BY <1>1, <1>10 DEF Stored
<1>11. ASSUME NEW l \in 0 .. k - 1, NEW op \in 2 .. n
       PROVE  Load(op, c, l) = Old(Address(V, P, n, op, c.row, c.i + l))
  <2>1. Load(op, c, l) = mem[Address(V, P, n, op, c.row, c.i + l)]
    BY <1>1, <1>3, <1>4, LoadIs
  <2>2. PICK x : x = Address(V, P, n, op, c.row, c.i + l)
    OBVIOUS
  <2>3. x \in Memory
    <3>1. op \in 1 .. n
      OBVIOUS
    <3> QED BY <1>7, <1>8, <2>2, <3>1 DEF Within
  <2>4. CASE x \notin DOMAIN T
    BY <1>9, <2>1, <2>2, <2>3, <2>4
  <2>5. CASE x \in DOMAIN T
    <3>1. PICK s, e : Cell(P, s, e) /\ x = Address(V, P, n, 1, s, e)
      BY <1>7, <2>5 DEF Goals
    <3>2. c.row = s /\ c.i + l = e
      BY <1>7, <1>8, <2>2, <3>1 DEF Unshared
    <3>3. Undone(P, g, pend, run, s, e)
      BY <1>8, <3>2
    <3>4. mem[x] = Old(x)
      BY <1>10, <3>1, <3>3
    <3> QED BY <2>1, <2>2, <3>4
  <2> QED BY <2>4, <2>5
<1>12. ASSUME NEW l \in 0 .. k - 1
       PROVE  Apply([j \in 1 .. Len(leaves) |-> Load(j + 1, c, l)]) = CellValue(V, P, n, c.row, c.i + l)
  <2>1. Len(leaves) = n - 1
    OBVIOUS
  <2>2. ASSUME NEW j \in 1 .. n - 1
        PROVE  Load(j + 1, c, l) = Old(Address(V, P, n, j + 1, c.row, c.i + l))
    <3>1. j + 1 \in 2 .. n
      OBVIOUS
    <3> QED BY <1>11, <3>1
  <2>3. [j \in 1 .. Len(leaves) |-> Load(j + 1, c, l)]
          = [j \in 1 .. n - 1 |-> Old(Address(V, P, n, j + 1, c.row, c.i + l))]
    BY <2>1, <2>2
  <2> QED BY <2>3 DEF CellValue
<1>13. ASSUME NEW l \in 0 .. k - 1
       PROVE  /\ BlockValue(c, Store(c, l)) = T[Store(c, l)]
              /\ Store(c, l) \in DOMAIN T /\ Store(c, l) \in Memory
              /\ T[Store(c, l)] \in Computed(Memory \cup {0})
              /\ mem[Store(c, l)] = Old(Store(c, l))
  <2>1. PICK x : x = Store(c, l)
    OBVIOUS
  <2>2. PICK h \in 0 .. k - 1 : h = CHOOSE e \in 0 .. Block(c) - 1 : Store(c, e) = x
    BY <1>4, <2>1
  <2>3. Store(c, h) = x
    BY <1>4, <2>1, <2>2
  <2>4. BlockValue(c, x) = Apply([j \in 1 .. Len(leaves) |-> Load(j + 1, c, h)])
    BY <2>2 DEF BlockValue
  <2>5. BlockValue(c, x) = CellValue(V, P, n, c.row, c.i + h)
    BY <1>12, <2>4
  <2>6. x = Address(V, P, n, 1, c.row, c.i + h) /\ Cell(P, c.row, c.i + h)
    BY <1>8, <2>3
  <2>7. x \in DOMAIN T /\ T[x] = CellValue(V, P, n, c.row, c.i + h)
    BY <1>7, <2>6 DEF Goals
  <2>8. T[x] \in Computed(Memory \cup {0})
    BY <1>7, <2>6, <2>7, CellValues
  <2>9. x \in Memory
    <3>1. 1 \in 1 .. n
      OBVIOUS
    <3> QED BY <1>7, <2>6, <3>1 DEF Within
  <2>10. mem[x] = Old(x)
    BY <1>8, <1>10, <2>6
  <2> QED BY <2>1, <2>5, <2>7, <2>8, <2>9, <2>10
<1>14. PICK D : D = {Store(c, lane) : lane \in 0 .. k - 1}
  OBVIOUS
<1>15. next = [x \in Memory |-> IF x \in D THEN BlockValue(c, x) ELSE mem[x]]
  BY <1>2, <1>4, <1>14 DEF BlockMemory
<1>16. ASSUME NEW x \in D
       PROVE  /\ x \in Memory /\ x \in DOMAIN T /\ next[x] = T[x]
              /\ T[x] \in Computed(Memory \cup {0}) /\ mem[x] = Old(x)
  <2>1. PICK l \in 0 .. k - 1 : x = Store(c, l)
    BY <1>14
  <2>2. /\ BlockValue(c, x) = T[x] /\ x \in DOMAIN T /\ x \in Memory
        /\ T[x] \in Computed(Memory \cup {0}) /\ mem[x] = Old(x)
    BY <1>13, <2>1
  <2> QED BY <1>15, <2>2
<1>17. \A x \in Memory : x \notin D => next[x] = mem[x]
  BY <1>15
<1>18. ASSUME NEW x \in Memory PROVE next[x] \in Values
  <2>1. CASE x \in D
    BY <1>16, <2>1 DEF Computed, Values
  <2>2. CASE x \notin D
    <3>1. mem[x] \in Values
      BY DEF Stored
    <3> QED BY <1>17, <2>2, <3>1
  <2> QED BY <2>1, <2>2
<1>19. next \in [Memory -> Values]
  <2>1. next = [x \in Memory |-> next[x]]
    BY <1>15
  <2> QED BY <1>18, <2>1
<1>20. ASSUME NEW i \in c.i .. c.i + k - 1
       PROVE  next[Address(V, P, n, 1, c.row, i)] = T[Address(V, P, n, 1, c.row, i)]
  <2>1. PICK l \in 0 .. k - 1 : i = c.i + l
    <3>1. i - c.i \in 0 .. k - 1 /\ i = c.i + (i - c.i)
      BY <1>5
    <3> QED BY <3>1
  <2>2. Address(V, P, n, 1, c.row, i) \in D
    BY <1>8, <1>14, <2>1
  <2> QED BY <1>16, <2>2
<1>21. ASSUME NEW x \in Memory, \A i \in c.i .. c.i + k - 1 : x # Address(V, P, n, 1, c.row, i)
       PROVE  next[x] = mem[x]
  <2>1. ASSUME NEW l \in 0 .. k - 1 PROVE x # Store(c, l)
    <3>1. c.i + l \in c.i .. c.i + k - 1
      BY <1>5
    <3> QED BY <1>8, <1>21, <3>1
  <2>2. x \notin D
    BY <1>14, <2>1
  <2> QED BY <1>17, <2>2
<1>22. Writes(V, P, n, T, c, k, mem, next)
  BY <1>19, <1>20, <1>21 DEF Writes
<1>23. StoresOnce(T, mem, next)
  <2> SUFFICES ASSUME NEW x \in Memory
               PROVE  \/ next[x] = mem[x]
                      \/ x \in DOMAIN T /\ mem[x] # T[x] /\ next[x] = T[x]
    BY DEF StoresOnce
  <2>1. CASE x \in D
    BY <1>16, <2>1, OldValues
  <2>2. CASE x \notin D
    BY <1>17, <2>2
  <2> QED BY <2>1, <2>2
<1> QED BY <1>1, <1>2, <1>4, <1>22, <1>23

\* The worker's record after a block, and when it takes a chunk.
NextWork(c) ==
  LET n == Block(c)
      next == StepCounter(c)
  IN  IF c.i + n < row_size THEN [c EXCEPT !.i = @ + n]
      ELSE IF c.row + 1 < c.end
      THEN [c EXCEPT !.i = 0, !.row = @ + 1, !.coord = next.coord, !.offsets = next.offsets]
      ELSE Idle
\* The worker's record when it takes a chunk.
FirstWork(b, end) ==
  [row |-> b, end |-> end, coord |-> FirstRow(b).coord, offsets |-> FirstRow(b).offsets, i |-> 0]

\* The types of a row's coordinates and offsets.
LEMMA RowRecord ==
  ASSUME NEW n \in Nat \ {0}, NEW F \in Seq(PlanAxis(n)), NEW r \in Nat
  PROVE  /\ CoordOf(F, r) \in [1 .. Len(F) -> Nat]
         /\ OffsetsOf(F, n, CoordOf(F, r)) \in [1 .. n -> Nat]
<1>1. PICK c \in [1 .. Len(F) -> Nat] : c = CoordOf(F, r)
  <2>1. CoordOf(F, r) \in [1 .. Len(F) -> Nat]
    BY CoordsOf
  <2> QED BY <2>1
<1>2. \A op \in 1 .. n : OffsetAt(F, op, c) \in Nat
  BY OffsetIs
<1>3. OffsetsOf(F, n, c) \in [1 .. n -> Nat]
  BY <1>2 DEF OffsetsOf
<1> QED BY <1>1, <1>3

\* A worker begins at the first element of its chunk.
LEMMA FirstWorkIs ==
  ASSUME NEW n \in Nat \ {0}, Ops = 1 .. n, NEW V, NEW T, Working(V, plan, n, T),
         NEW g \in Nat \ {0}, NEW b \in Starts(Rows(plan.axes), g),
         NEW to, to = FirstWork(b, Stop(b, g, Rows(plan.axes)))
  PROVE  /\ OnRow(to, plan.axes, n)
         /\ to.row = b /\ to.end = Stop(b, g, Rows(plan.axes)) /\ to.i = 0
<1>1. PICK P : P = plan.axes
  OBVIOUS
<1>2. PICK F : F = Front(P)
  OBVIOUS
<1>3. F \in Seq(PlanAxis(n)) /\ Last(P).size \in Nat \ {0} /\ Rows(P) \in Nat \ {0} /\ Outer = F
  BY <1>1, <1>2, WorkingEnds DEF Outer
<1>4. PICK e : e = Stop(b, g, Rows(P))
  OBVIOUS
<1>5. b \in Nat /\ e \in Nat /\ b < e /\ e <= Rows(P)
  BY <1>1, <1>3, <1>4, StopIs
<1>6. PICK x : x = CoordOf(F, b)
  OBVIOUS
<1>7. PICK y : y = OffsetsOf(F, n, CoordOf(F, b))
  OBVIOUS
<1>8. x \in [1 .. Len(F) -> Nat] /\ y \in [1 .. n -> Nat]
  BY <1>3, <1>5, <1>6, <1>7, RowRecord
<1>9. FirstRow(b).coord = x /\ FirstRow(b).offsets = y
  BY <1>3, <1>5, <1>6, <1>7, FirstRowIs
<1>10. to = [row |-> b, end |-> e, coord |-> x, offsets |-> y, i |-> 0]
  BY <1>1, <1>4, <1>9 DEF FirstWork
<1>11. to \in WorkerRecord(P, n)
  BY <1>2, <1>5, <1>8, <1>10 DEF WorkerRecord
<1>12. to.row = b /\ to.end = e /\ to.coord = x /\ to.offsets = y /\ to.i = 0
  BY <1>10
<1>13. OnRow(to, P, n)
  BY <1>2, <1>3, <1>5, <1>6, <1>7, <1>11, <1>12 DEF OnRow
<1> QED BY <1>1, <1>4, <1>12, <1>13

\* A worker goes on in its row, to the next row, or is done with its chunk.
LEMMA NextWorkIs ==
  ASSUME NEW n \in Nat \ {0}, Ops = 1 .. n, NEW V, NEW T, Working(V, plan, n, T),
         NEW c, OnRow(c, plan.axes, n), NEW to, to = NextWork(c)
  PROVE  /\ to = Idle \/ (OnRow(to, plan.axes, n) /\ c.row <= to.row /\ to.end = c.end)
         /\ Passes(plan.axes, c, Block(c), to)
<1>1. PICK P : P = plan.axes
  OBVIOUS
<1>2. PICK F : F = Front(P)
  OBVIOUS
<1>3. F \in Seq(PlanAxis(n)) /\ Last(P).size \in Nat \ {0} /\ Rows(P) \in Nat \ {0} /\ Outer = F
  BY <1>1, <1>2, WorkingEnds DEF Outer
<1>4. PICK S \in Nat \ {0} : S = Last(P).size
  BY <1>3
<1>5. PICK k \in Nat \ {0} : k = Block(c)
  BY BlockIs
<1>6. c.i + k <= S
  BY <1>1, <1>4, <1>5, BlockIs
<1>7. PICK r \in Nat, e \in Nat, x \in [1 .. Len(F) -> Nat], y \in [1 .. n -> Nat], i \in Nat :
        c = [row |-> r, end |-> e, coord |-> x, offsets |-> y, i |-> i]
  BY <1>1, <1>2 DEF OnRow, WorkerRecord
<1>8. c.row = r /\ c.end = e /\ c.coord = x /\ c.offsets = y /\ c.i = i
  BY <1>7
<1>9. /\ r < e /\ e <= Rows(P) /\ i < S /\ i + k <= S
      /\ x = CoordOf(F, r) /\ y = OffsetsOf(F, n, CoordOf(F, r))
  BY <1>1, <1>2, <1>4, <1>6, <1>8 DEF OnRow
<1>10. row_size = S
  BY <1>1, <1>4 DEF row_size, Inner
<1>11. ASSUME NEW s, NEW j, Cell(P, s, j)
       PROVE  s \in Nat /\ j \in Nat /\ j < S
  BY <1>4, <1>11 DEF Cell
<1>12. CASE i + k < S
  <2>1. to = [c EXCEPT !.i = i + k]
    BY <1>5, <1>8, <1>10, <1>12 DEF NextWork
  <2>2. to = [row |-> r, end |-> e, coord |-> x, offsets |-> y, i |-> i + k]
    BY <1>7, <2>1
  <2>3. to.row = r /\ to.end = e /\ to.coord = x /\ to.offsets = y /\ to.i = i + k
    BY <2>2
  <2>4. to \in WorkerRecord(P, n)
    BY <1>2, <2>2 DEF WorkerRecord
  <2>5. OnRow(to, P, n)
    BY <1>2, <1>4, <1>9, <1>12, <2>3, <2>4 DEF OnRow
  <2>6. to # Idle
    BY <2>5, NotIdle
  <2>7. ASSUME NEW s, NEW j, Cell(P, s, j)
        PROVE  Left(to, s, j) <=> Left(c, s, j) /\ ~InBlock(c, k, s, j)
    <3>1. s \in Nat /\ j \in Nat
      BY <1>11, <2>7
    <3> QED BY <1>8, <2>3, <3>1 DEF Left, InBlock
  <2>8. Passes(P, c, k, to)
    BY <2>6, <2>7 DEF Passes
  <2> QED BY <1>1, <1>5, <1>8, <2>3, <2>5, <2>8
<1>13. CASE ~(i + k < S) /\ r + 1 < e
  <2>1. PICK next : next = StepCounter(c)
    OBVIOUS
  <2>2. next.coord = CoordOf(F, r + 1) /\ next.offsets = OffsetsOf(F, n, CoordOf(F, r + 1))
    BY <1>3, <1>8, <1>9, <2>1, StepCounterIs
  <2>3. PICK u : u = CoordOf(F, r + 1)
    OBVIOUS
  <2>4. PICK v : v = OffsetsOf(F, n, CoordOf(F, r + 1))
    OBVIOUS
  <2>5. u \in [1 .. Len(F) -> Nat] /\ v \in [1 .. n -> Nat]
    <3>1. r + 1 \in Nat
      OBVIOUS
    <3> QED BY <1>3, <2>3, <2>4, <3>1, RowRecord
  <2>6. to = [c EXCEPT !.i = 0, !.row = @ + 1, !.coord = u, !.offsets = v]
    BY <1>5, <1>8, <1>10, <1>13, <2>1, <2>2, <2>3, <2>4 DEF NextWork
  <2>7. to = [row |-> r + 1, end |-> e, coord |-> u, offsets |-> v, i |-> 0]
    BY <1>7, <2>6
  <2>8. to.row = r + 1 /\ to.end = e /\ to.coord = u /\ to.offsets = v /\ to.i = 0
    BY <2>7
  <2>9. to \in WorkerRecord(P, n)
    BY <1>2, <2>5, <2>7 DEF WorkerRecord
  <2>10. OnRow(to, P, n)
    BY <1>2, <1>4, <1>9, <1>13, <2>3, <2>4, <2>8, <2>9 DEF OnRow
  <2>11. to # Idle
    BY <2>10, NotIdle
  <2>12. ASSUME NEW s, NEW j, Cell(P, s, j)
         PROVE  Left(to, s, j) <=> Left(c, s, j) /\ ~InBlock(c, k, s, j)
    <3>1. s \in Nat /\ j \in Nat /\ j < S
      BY <1>11, <2>12
    <3> QED BY <1>8, <1>9, <1>13, <2>8, <3>1 DEF Left, InBlock
  <2>13. Passes(P, c, k, to)
    BY <2>11, <2>12 DEF Passes
  <2>14. c.row <= to.row /\ to.end = c.end
    BY <1>8, <2>8
  <2> QED BY <1>1, <1>5, <2>10, <2>13, <2>14
<1>14. CASE ~(i + k < S) /\ ~(r + 1 < e)
  <2>1. to = Idle
    BY <1>5, <1>8, <1>10, <1>14 DEF NextWork
  <2>2. ASSUME NEW s, NEW j, Cell(P, s, j)
        PROVE  ~(Left(c, s, j) /\ ~InBlock(c, k, s, j))
    <3>1. s \in Nat /\ j \in Nat /\ j < S
      BY <1>11, <2>2
    <3> QED BY <1>8, <1>9, <1>14, <3>1 DEF Left, InBlock
  <2>3. Passes(P, c, k, to)
    BY <2>1, <2>2 DEF Passes
  <2> QED BY <1>1, <1>5, <2>1, <2>3
<1> QED BY <1>12, <1>13, <1>14

(***************************************************************************)
(* The invariant.                                                          *)
(***************************************************************************)
Finished(T, m) == m = [x \in Memory |-> IF x \in DOMAIN T THEN T[x] ELSE Old(x)]
Untouched == mem = [x \in Memory |-> Old(x)]
AllIdle == running = [w \in Workers |-> Idle]
\* While the rows run.
Rowing ==
  /\ Working(Operands, plan, Arity, target)
  /\ Spans(plan.axes, Arity, RowGrain(plan), pending, running)
  /\ Stored(Operands, plan.axes, Arity, target, RowGrain(plan), mem, pending, running)
\* The inductive invariant.
PlannedInv ==
  /\ Given
  /\ mem \in [Memory -> Values]
  /\ pc = "assign" => Untouched /\ target = IF Verdict \in {"rows", "done"} THEN Target ELSE <<>>
  /\ pc = "rows" => Rowing
  /\ pc # "rows" => AllIdle
  /\ pc = "done" => Finished(target, mem)
  /\ plan.tier \in 0 .. 3
  /\ pc # "stride 0"

\* What a step does to memory.
Progress == target' = target /\ DOMAIN mem' = DOMAIN mem /\ StoresOnce(target, mem, mem')

\* It holds before the assignment.
LEMMA InitIs ==
  ASSUME Init
  PROVE  PlannedInv
<1>1. Given
  BY DEF Init, Given
<1>2. Untouched /\ AllIdle /\ pc = "assign" /\ plan = NoPlan
  BY DEF Init, Untouched, AllIdle
<1>3. target = IF Verdict \in {"rows", "done"} THEN Target ELSE <<>>
  BY DEF Init
<1>4. mem \in [Memory -> Values]
  BY <1>2, OldValues DEF Untouched
<1>5. plan.tier \in 0 .. 3
  BY <1>2 DEF NoPlan
<1> QED BY <1>1, <1>2, <1>3, <1>4, <1>5 DEF PlannedInv

(* The first rows: every row is in a pending chunk, and memory is as it    *)
(* was.                                                                    *)
LEMMA StartRows ==
  ASSUME NEW n \in Nat \ {0}, NEW V, NEW p, NEW T, Working(V, p, n, T),
         NEW g \in Nat \ {0}, NEW m, m = [x \in Memory |-> Old(x)],
         NEW run, run = [w \in Workers |-> Idle]
  PROVE  /\ Spans(p.axes, n, g, Starts(Rows(p.axes), g), run)
         /\ Stored(V, p.axes, n, T, g, m, Starts(Rows(p.axes), g), run)
<1>1. PICK P : P = p.axes
  OBVIOUS
<1>2. Rows(P) \in Nat \ {0}
  BY <1>1, WorkingEnds
<1>3. \A w \in Workers : run[w] = Idle
  OBVIOUS
<1>4. Spans(P, n, g, Starts(Rows(P), g), run)
  <2>1. run \in [Workers -> WorkerRecord(P, n) \cup {Idle}]
    BY <1>3
  <2> QED BY <1>3, <2>1 DEF Spans
<1>5. m \in [Memory -> Values] /\ \A x \in Memory : m[x] = Old(x)
  BY OldValues
<1>6. ASSUME NEW r, NEW i, Cell(P, r, i)
      PROVE  /\ Undone(P, g, Starts(Rows(P), g), run, r, i)
             /\ m[Address(V, P, n, 1, r, i)] = Old(Address(V, P, n, 1, r, i))
  <2>1. r \in 0 .. Rows(P) - 1
    BY <1>6 DEF Cell
  <2>2. \E b \in Starts(Rows(P), g) : Waits(b, g, Rows(P), r)
    BY <1>2, <2>1, StartsCover
  <2>3. Address(V, P, n, 1, r, i) \in Memory
    <3>1. 1 \in 1 .. n
      OBVIOUS
    <3> QED BY <1>1, <1>6, <3>1 DEF Working, Within
  <2> QED BY <1>5, <2>2, <2>3 DEF Undone
<1>7. Stored(V, P, n, T, g, m, Starts(Rows(P), g), run)
  <2>1. ASSUME NEW r, NEW i, Cell(P, r, i)
        PROVE  m[Address(V, P, n, 1, r, i)] =
                 IF Undone(P, g, Starts(Rows(P), g), run, r, i) THEN Old(Address(V, P, n, 1, r, i))
                 ELSE T[Address(V, P, n, 1, r, i)]
    BY <1>6, <2>1
  <2> QED BY <1>5, <2>1 DEF Stored
<1> QED BY <1>1, <1>4, <1>7

\* The checks and the plan.
LEMMA AssignKeeps ==
  ASSUME PlannedInv, Assign
  PROVE  PlannedInv' /\ Progress
<1>1. /\ Given /\ mem \in [Memory -> Values] /\ Untouched /\ AllIdle /\ plan.tier \in 0 .. 3
      /\ target = IF Verdict \in {"rows", "done"} THEN Target ELSE <<>>
  BY DEF Assign, PlannedInv
<1>2. dst' = dst /\ leaves' = leaves /\ target' = target /\ mem' = mem /\ running' = running /\ pc' = Verdict
  BY DEF Assign
<1>3. /\ Given' /\ mem' \in [Memory -> Values] /\ Untouched' /\ AllIdle'
      /\ Operands' = Operands /\ Arity' = Arity
  BY <1>1, <1>2 DEF Given, Untouched, AllIdle, Operands, Arity
<1>4. Progress
  BY <1>2 DEF Progress, StoresOnce
<1>5. pc' # "assign" /\ pc' # "stride 0"
  BY <1>2, VerdictIs, NoStrideZero
<1>6. CASE Verdict = "rows"
  <2>1. PICK p : p = make_iteration_plan
    OBVIOUS
  <2>2. plan' = p /\ pending' = Chunks(p) /\ target = Target
    BY <1>1, <1>6, <2>1 DEF Assign
  <2>3. PICK V : V = Operands
    OBVIOUS
  <2>4. PICK n \in Nat \ {0} : n = Arity
    BY <1>1, GivenIs
  <2>5. PICK T : T = target
    OBVIOUS
  <2>6. Working(V, p, n, T)
    BY <1>1, <1>6, <2>1, <2>2, <2>3, <2>4, <2>5, PlanIs
  <2>7. V[1] = dst
    BY <1>1, <2>3, GivenIs
  <2>8. RowGrain(p) \in Nat \ {0} /\ Chunks(p) = Starts(Rows(p.axes), RowGrain(p))
    BY <2>6, <2>7, GrainIs
  <2>9. PICK g \in Nat \ {0} : g = RowGrain(p)
    BY <2>8
  <2>10. RowGrain(plan)' = g
    BY <1>2, <2>2, <2>9 DEF RowGrain
  <2>11. PICK m : m = mem
    OBVIOUS
  <2>12. PICK run : run = running
    OBVIOUS
  <2>13. /\ Spans(p.axes, n, g, Starts(Rows(p.axes), g), run)
         /\ Stored(V, p.axes, n, T, g, m, Starts(Rows(p.axes), g), run)
    BY <1>1, <2>6, <2>11, <2>12, StartRows DEF Untouched, AllIdle
  <2>14. Rowing'
    BY <1>2, <1>3, <2>2, <2>3, <2>4, <2>5, <2>6, <2>8, <2>9, <2>10, <2>11, <2>12, <2>13 DEF Rowing
  <2>15. (plan').tier \in 0 .. 3
    BY <2>2, <2>6 DEF Working
  <2> QED BY <1>2, <1>3, <1>4, <1>5, <1>6, <2>14, <2>15 DEF PlannedInv
<1>7. CASE Verdict # "rows"
  <2>1. plan' = plan
    BY <1>7 DEF Assign
  <2>2. ASSUME Verdict = "done" PROVE Finished(target, mem)
    <3>1. target = Target
      BY <1>1, <2>2
    <3>2. numel(dst) = 0
      BY <2>2, VerdictIs
    <3>3. Offsets(dst) = {}
      BY <3>2 DEF Offsets
    <3>4. DOMAIN target = {}
      BY <3>1, <3>3 DEF Target
    <3> QED BY <1>1, <3>4 DEF Finished, Untouched
  <2>3. pc' = "done" => Finished(target, mem)'
    BY <1>2, <2>2 DEF Finished
  <2> QED BY <1>1, <1>2, <1>3, <1>4, <1>5, <1>7, <2>1, <2>3 DEF PlannedInv
<1> QED BY <1>6, <1>7

\* A worker takes a chunk.
LEMMA TakeKeeps ==
  ASSUME PlannedInv, NEW w \in Workers, TakeChunk(w)
  PROVE  PlannedInv' /\ Progress
<1>1. /\ Given /\ mem \in [Memory -> Values] /\ plan.tier \in 0 .. 3 /\ Rowing
      /\ pc = "rows" /\ running[w] = Idle
  BY DEF TakeChunk, PlannedInv
<1>2. dst' = dst /\ leaves' = leaves /\ target' = target /\ mem' = mem /\ pc' = pc /\ plan' = plan
  BY DEF TakeChunk
<1>3. /\ Given' /\ Operands' = Operands /\ Arity' = Arity
  BY <1>1, <1>2 DEF Given, Operands, Arity
<1>4. Progress
  BY <1>2 DEF Progress, StoresOnce
<1>5. PICK V : V = Operands
  OBVIOUS
<1>6. PICK n \in Nat \ {0} : n = Arity
  BY <1>1, GivenIs
<1>7. PICK T : T = target
  OBVIOUS
<1>8. PICK g : g = RowGrain(plan)
  OBVIOUS
<1>9. /\ Working(V, plan, n, T)
      /\ Spans(plan.axes, n, g, pending, running)
      /\ Stored(V, plan.axes, n, T, g, mem, pending, running)
  BY <1>1, <1>5, <1>6, <1>7, <1>8 DEF Rowing
<1>10. V[1] = dst /\ Ops = 1 .. n
  BY <1>1, <1>5, <1>6, GivenIs
<1>11. g \in Nat \ {0} /\ numel(dst) \div Last(plan.axes).size = Rows(plan.axes)
  BY <1>8, <1>9, <1>10, GrainIs
<1>12. PICK P : P = plan.axes
  OBVIOUS
<1>13. Rows(P) \in Nat \ {0} /\ Last(P).size \in Nat \ {0} /\ rows = Rows(P)
  BY <1>9, <1>11, <1>12, WorkingEnds DEF rows, row_size, Inner
<1>14. PICK b \in pending :
         /\ pending' = pending \ {b}
         /\ running' = [running EXCEPT ![w] = FirstWork(b, Stop(b, g, Rows(P)))]
  BY <1>8, <1>13 DEF TakeChunk, FirstWork, Stop
<1>15. PICK to : to = FirstWork(b, Stop(b, g, Rows(P)))
  OBVIOUS
<1>16. b \in Starts(Rows(P), g)
  BY <1>9, <1>12 DEF Spans
<1>17. OnRow(to, P, n) /\ to.row = b /\ to.end = Stop(b, g, Rows(P)) /\ to.i = 0
  BY <1>9, <1>10, <1>11, <1>12, <1>15, <1>16, FirstWorkIs
<1>18. PICK pend : pend = pending
  OBVIOUS
<1>19. PICK run : run = running
  OBVIOUS
<1>20. PICK m : m = mem
  OBVIOUS
<1>21. Spans(P, n, g, pend \ {b}, [run EXCEPT ![w] = to])
  BY <1>1, <1>9, <1>11, <1>12, <1>13, <1>14, <1>17, <1>18, <1>19, TakeSpans
<1>22. Stored(V, P, n, T, g, m, pend \ {b}, [run EXCEPT ![w] = to])
  BY <1>1, <1>9, <1>11, <1>12, <1>13, <1>14, <1>17, <1>18, <1>19, <1>20, TakeStored
<1>23. RowGrain(plan)' = g
  BY <1>2, <1>8 DEF RowGrain
<1>24. running' = [run EXCEPT ![w] = to] /\ pending' = pend \ {b}
  BY <1>14, <1>15, <1>18, <1>19
<1>25. Rowing'
  BY <1>2, <1>3, <1>5, <1>6, <1>7, <1>9, <1>12, <1>20, <1>21, <1>22, <1>23, <1>24 DEF Rowing
<1> QED BY <1>1, <1>2, <1>3, <1>4, <1>25 DEF PlannedInv

\* A worker runs a block.
LEMMA RunKeeps ==
  ASSUME PlannedInv, NEW w \in Workers, RunBlock(w)
  PROVE  PlannedInv' /\ Progress
<1>1. /\ Given /\ mem \in [Memory -> Values] /\ plan.tier \in 0 .. 3 /\ Rowing
      /\ pc = "rows" /\ running[w] # Idle
  BY DEF RunBlock, PlannedInv
<1>2. dst' = dst /\ leaves' = leaves /\ target' = target /\ pending' = pending /\ pc' = pc /\ plan' = plan
  BY DEF RunBlock
<1>3. /\ Given' /\ Operands' = Operands /\ Arity' = Arity
  BY <1>1, <1>2 DEF Given, Operands, Arity
<1>4. mem' = BlockMemory(running[w]) /\ running' = [running EXCEPT ![w] = NextWork(running[w])]
  BY DEF RunBlock, BlockMemory, BlockValue, NextWork
<1>5. PICK V : V = Operands
  OBVIOUS
<1>6. PICK n \in Nat \ {0} : n = Arity
  BY <1>1, GivenIs
<1>7. PICK T : T = target
  OBVIOUS
<1>8. PICK g : g = RowGrain(plan)
  OBVIOUS
<1>9. /\ Working(V, plan, n, T)
      /\ Spans(plan.axes, n, g, pending, running)
      /\ Stored(V, plan.axes, n, T, g, mem, pending, running)
  BY <1>1, <1>5, <1>6, <1>7, <1>8 DEF Rowing
<1>10. V[1] = dst /\ Ops = 1 .. n /\ n = Len(leaves) + 1 /\ Len(leaves) \in Nat
  BY <1>1, <1>5, <1>6, GivenIs DEF Arity
<1>11. g \in Nat \ {0}
  BY <1>8, <1>9, <1>10, GrainIs
<1>12. PICK P : P = plan.axes
  OBVIOUS
<1>13. Rows(P) \in Nat \ {0} /\ Last(P).size \in Nat \ {0}
  BY <1>9, <1>12, WorkingEnds
<1>14. PICK pend : pend = pending
  OBVIOUS
<1>15. PICK run : run = running
  OBVIOUS
<1>16. PICK m : m = mem
  OBVIOUS
<1>17. PICK next : next = BlockMemory(run[w])
  OBVIOUS
<1>18. PICK to : to = NextWork(run[w])
  OBVIOUS
<1>19. /\ Spans(P, n, g, pend, run) /\ Stored(V, P, n, T, g, m, pend, run) /\ run[w] # Idle
       /\ Spans(plan.axes, n, g, pend, run) /\ Stored(V, plan.axes, n, T, g, mem, pend, run)
  BY <1>1, <1>9, <1>12, <1>14, <1>15, <1>16
<1>20. OnRow(run[w], P, n)
  BY <1>19 DEF Spans
<1>21. PICK k \in Nat \ {0} : k = Block(run[w])
  BY <1>9, <1>12, <1>20, BlockIs
<1>22. run[w].i + k <= Last(P).size
  BY <1>9, <1>12, <1>20, <1>21, BlockIs
<1>23. /\ to = Idle \/ (OnRow(to, P, n) /\ run[w].row <= to.row /\ to.end = run[w].end)
       /\ Passes(P, run[w], k, to)
  <2>1. PICK c : c = run[w]
    OBVIOUS
  <2> QED BY <1>9, <1>10, <1>12, <1>18, <1>20, <1>21, <2>1, NextWorkIs
<1>24. Writes(V, P, n, T, run[w], k, m, next) /\ StoresOnce(T, m, next)
  BY <1>5, <1>9, <1>10, <1>12, <1>16, <1>17, <1>19, <1>21, BlockWrites
<1>25. Spans(P, n, g, pend, [run EXCEPT ![w] = to])
  BY <1>11, <1>13, <1>19, <1>23, RunSpans
<1>26. to \in WorkerRecord(P, n) \cup {Idle}
  BY <1>23 DEF OnRow
<1>27. Apart(V, P, n) /\ Within(V, P, n) /\ Goals(V, P, n, T)
  BY <1>9, <1>12 DEF Working
<1>28. Stored(V, P, n, T, g, next, pend, [run EXCEPT ![w] = to])
  BY <1>11, <1>13, <1>19, <1>22, <1>23, <1>24, <1>26, <1>27, RunStored
<1>29. RowGrain(plan)' = g
  BY <1>2, <1>8 DEF RowGrain
<1>30. running' = [run EXCEPT ![w] = to] /\ mem' = next
  BY <1>4, <1>15, <1>17, <1>18
<1>31. Rowing'
  BY <1>2, <1>3, <1>5, <1>6, <1>7, <1>9, <1>12, <1>14, <1>25, <1>28, <1>29, <1>30 DEF Rowing
<1>32. next \in [Memory -> Values]
  BY <1>24 DEF Writes
<1>33. Progress
  BY <1>1, <1>2, <1>7, <1>16, <1>24, <1>30, <1>32 DEF Progress
<1> QED BY <1>1, <1>2, <1>3, <1>30, <1>31, <1>32, <1>33 DEF PlannedInv

\* The caller finds all chunks done.
LEMMA JoinKeeps ==
  ASSUME PlannedInv, Join
  PROVE  PlannedInv' /\ Progress
<1>1. /\ Given /\ mem \in [Memory -> Values] /\ plan.tier \in 0 .. 3 /\ Rowing
      /\ pending = {} /\ \A w \in Workers : running[w] = Idle
  BY DEF Join, PlannedInv
<1>2. /\ dst' = dst /\ leaves' = leaves /\ target' = target /\ mem' = mem /\ pc' = "done"
      /\ running' = running /\ plan' = plan
  BY DEF Join
<1>3. PICK n \in Nat \ {0} : n = Arity
  BY <1>1, GivenIs
<1>4. PICK V : V = Operands
  OBVIOUS
<1>5. PICK T : T = target
  OBVIOUS
<1>6. PICK P : P = plan.axes
  OBVIOUS
<1>7. PICK g : g = RowGrain(plan)
  OBVIOUS
<1>8. /\ Goals(V, P, n, T) /\ Stored(V, P, n, T, g, mem, pending, running)
      /\ Spans(P, n, g, pending, running)
  BY <1>1, <1>3, <1>4, <1>5, <1>6, <1>7 DEF Rowing, Working
<1>9. \A r, i : ~Undone(P, g, pending, running, r, i)
  BY <1>1 DEF Undone
<1>10. ASSUME NEW x \in Memory
       PROVE  mem[x] = IF x \in DOMAIN T THEN T[x] ELSE Old(x)
  <2>1. CASE x \in DOMAIN T
    <3>1. PICK r, i : Cell(P, r, i) /\ x = Address(V, P, n, 1, r, i)
      BY <1>8, <2>1 DEF Goals
    <3>2. mem[Address(V, P, n, 1, r, i)] = T[Address(V, P, n, 1, r, i)]
      BY <1>8, <1>9, <3>1 DEF Stored
    <3> QED BY <2>1, <3>1, <3>2
  <2>2. CASE x \notin DOMAIN T
    BY <1>8, <2>2 DEF Stored
  <2> QED BY <2>1, <2>2
<1>11. Finished(T, mem)
  <2>1. mem = [x \in Memory |-> mem[x]]
    BY <1>1
  <2> QED BY <1>10, <2>1 DEF Finished
<1>12. AllIdle
  <2>1. running = [w \in Workers |-> running[w]]
    BY <1>8 DEF Spans
  <2> QED BY <1>1, <2>1 DEF AllIdle
<1>13. /\ Given' /\ AllIdle' /\ Finished(target, mem)'
  BY <1>1, <1>2, <1>5, <1>11, <1>12 DEF Given, AllIdle, Finished
<1>14. Progress
  BY <1>2 DEF Progress, StoresOnce
<1> QED BY <1>1, <1>2, <1>13, <1>14 DEF PlannedInv

\* Nothing happens.
LEMMA StutterKeeps ==
  ASSUME PlannedInv, UNCHANGED vars
  PROVE  PlannedInv' /\ Progress
<1>1. /\ dst' = dst /\ leaves' = leaves /\ target' = target /\ mem' = mem /\ pc' = pc
      /\ plan' = plan /\ pending' = pending /\ running' = running
  BY DEF vars
<1>2. Given' /\ Operands' = Operands /\ Arity' = Arity
  BY <1>1 DEF PlannedInv, Given, Operands, Arity
<1>3. Verdict' = Verdict /\ Target' = Target
  BY <1>1 DEF Verdict, validate_destination, check_result_shape, Flat, Operands, Target
<1>4. RowGrain(plan)' = RowGrain(plan)
  BY <1>1 DEF RowGrain
<1>5. Rowing => Rowing'
  BY <1>1, <1>2, <1>4 DEF Rowing
<1>6. Untouched' <=> Untouched
  BY <1>1 DEF Untouched
<1>7. (AllIdle' <=> AllIdle) /\ (Finished(target, mem)' <=> Finished(target, mem))
  BY <1>1 DEF AllIdle, Finished
<1>8. Progress
  BY <1>1 DEF Progress, StoresOnce
<1> QED BY <1>1, <1>2, <1>3, <1>5, <1>6, <1>7, <1>8 DEF PlannedInv

\* Every step keeps the invariant and makes progress.
LEMMA StepKeeps ==
  ASSUME PlannedInv, [Next]_vars
  PROVE  PlannedInv' /\ Progress
<1>1. CASE Assign
  BY <1>1, AssignKeeps
<1>2. CASE \E w \in Workers : TakeChunk(w)
  BY <1>2, TakeKeeps
<1>3. CASE \E w \in Workers : RunBlock(w)
  BY <1>3, RunKeeps
<1>4. CASE Join
  BY <1>4, JoinKeeps
<1>5. CASE UNCHANGED vars
  BY <1>5, StutterKeeps
<1> QED BY <1>1, <1>2, <1>3, <1>4, <1>5 DEF Next, Returned

\* The invariant holds throughout.
LEMMA PlannedInvariant == Spec => []PlannedInv
<1>1. Init => PlannedInv
  BY InitIs
<1>2. PlannedInv /\ [Next]_vars => PlannedInv'
  BY StepKeeps
<1> QED BY <1>1, <1>2, PTL DEF Spec

(* Memory holds sequences of addresses, the pending chunks start at rows   *)
(* that exist, the plan has one of the four tiers of loop_row, and a       *)
(* worker has one coordinate per outer dimension.                          *)
THEOREM PlannedTyping == Spec => []TypeOK
<1>1. PlannedInv => TypeOK
  <2> SUFFICES ASSUME PlannedInv PROVE TypeOK
    OBVIOUS
  <2>1. /\ Given /\ mem \in [Memory -> Values] /\ plan.tier \in 0 .. 3
        /\ pc = "rows" => Rowing
        /\ pc # "rows" => AllIdle
    BY DEF PlannedInv
  <2>2. Len(Idle.coord) = 0
    BY DEF Idle
  <2>3. CASE pc = "rows"
    <3>1. PICK n \in Nat \ {0} : n = Arity
      BY <2>1, GivenIs
    <3>2. PICK V : V = Operands
      OBVIOUS
    <3>3. PICK T : T = target
      OBVIOUS
    <3>4. /\ Working(V, plan, n, T) /\ V[1] = dst
          /\ Spans(plan.axes, n, RowGrain(plan), pending, running)
      BY <2>1, <2>3, <3>1, <3>2, <3>3, GivenIs DEF Rowing
    <3>5. PICK P : P = plan.axes
      OBVIOUS
    <3>6. rows = Rows(P) /\ Front(P) \in Seq(PlanAxis(n)) /\ Outer = Front(P)
      BY <3>4, <3>5, GrainIs, WorkingEnds DEF rows, row_size, Inner, Outer
    <3>7. pending \subseteq 0 .. rows - 1
      BY <3>4, <3>5, <3>6 DEF Spans, Starts
    <3>8. ASSUME NEW w \in Workers, running[w] # Idle PROVE Len(running[w].coord) = Len(Outer)
      <4>1. running[w].coord \in [1 .. Len(Front(P)) -> Nat]
        BY <3>4, <3>5, <3>8 DEF Spans, OnRow, WorkerRecord
      <4>2. Len(Front(P)) \in Nat
        BY <3>6
      <4>3. Len(running[w].coord) = Len(Front(P))
        BY <4>1, <4>2, Tuples
      <4> QED BY <3>6, <4>3
    <3> QED BY <2>1, <2>2, <3>7, <3>8 DEF TypeOK, Values
  <2>4. CASE pc # "rows"
    BY <2>1, <2>2, <2>4 DEF TypeOK, Values, AllIdle
  <2> QED BY <2>3, <2>4
<1> QED BY <1>1, PlannedInvariant, PTL

(* When an accepted assignment returns, every element of the destination   *)
(* has the value computed from the elements the leaves had before, and     *)
(* nothing else changed: for every layout, broadcasting and aliasing the   *)
(* checks accept, and every interleaving of the workers.                   *)
THEOREM PlannedResult == Spec => []ElementwiseResult
<1>1. PlannedInv => ElementwiseResult
  BY DEF PlannedInv, ElementwiseResult, Finished
<1> QED BY <1>1, PlannedInvariant, PTL

(* The planner's check for a broadcast destination never fires.            *)
THEOREM PlannedRedundant == Spec => []PlannerCheckRedundant
<1>1. PlannedInv => PlannerCheckRedundant
  BY DEF PlannedInv, PlannerCheckRedundant
<1> QED BY <1>1, PlannedInvariant, PTL

(* On the way, each element of the destination is written once, with its   *)
(* final value, and nothing else is written: the plan, its rows and their  *)
(* workers implement the elementwise assignment.                           *)
THEOREM PlannedRefines == Spec => ImplementsElementwise
<1>1. Init => Elementwise!Init
  <2> SUFFICES ASSUME Init, NEW x \in DOMAIN mem PROVE mem[x] = <<x>>
    BY DEF Elementwise!Init
  <2> QED BY DEF Init, Old
<1>2. PlannedInv /\ [Next]_vars => [Elementwise!Next]_<<target, mem>>
  <2> SUFFICES ASSUME PlannedInv, [Next]_vars PROVE Elementwise!Next
    OBVIOUS
  <2>1. Progress
    BY StepKeeps
  <2>2. DOMAIN mem = Memory
    BY DEF PlannedInv
  <2> QED BY <2>1, <2>2 DEF Progress, StoresOnce, Elementwise!Next
<1> QED BY <1>1, <1>2, PlannedInvariant, PTL DEF Spec, ImplementsElementwise, Elementwise!Spec
=============================================================================
