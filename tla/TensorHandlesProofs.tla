------------------------- MODULE TensorHandlesProofs -------------------------
(***************************************************************************)
(* Tensors and views never reach outside their storage: the proofs.        *)
(***************************************************************************)
EXTENDS TensorHandles, LayoutProofs

\* A layout with its offset, and the same in the same storage.
Shaped(l) ==
  /\ {"sizes", "strides", "offset", "derived"} \subseteq DOMAIN l
  /\ Strided(l) /\ l.offset \in Nat
Reshaped(k, l) == Strided(k) /\ k.offset \in Nat /\ k.storage = l.storage

LEMMA Arranged ==
  ASSUME NEW m \in Nat, NEW a \in [1 .. m -> Nat], NEW b \in [1 .. m -> Nat]
  PROVE  a \in Seq(Nat) /\ b \in Seq(Nat) /\ Len(a) = m /\ Len(b) = m
OBVIOUS

LEMMA Sequence ==
  ASSUME NEW T, NEW x \in Seq(T)
  PROVE  Len(x) \in Nat /\ x \in [1 .. Len(x) -> T] /\ \A y \in T : Append(x, y) \in Seq(T)
OBVIOUS

LEMMA PermuteShape ==
  ASSUME NEW l, Shaped(l), NEW m \in Nat, NEW order \in [1 .. m -> 1 .. rank(l)]
  PROVE  Reshaped(permute(l, order), l)
<1> DEFINE k == permute(l, order)
           a == [d \in DOMAIN order |-> l.sizes[order[d]]]
           b == [d \in DOMAIN order |-> l.strides[order[d]]]
<1>1. k.sizes = a /\ k.strides = b /\ k.offset = l.offset /\ k.storage = l.storage
  BY DEF permute, Shaped
<1>2. \A d \in 1 .. rank(l) : l.sizes[d] \in Nat /\ l.strides[d] \in Nat
  BY Strides DEF Shaped
<1>3. a \in [1 .. m -> Nat] /\ b \in [1 .. m -> Nat]
  BY <1>2
<1> HIDE DEF a, b, k
<1>4. a \in Seq(Nat) /\ b \in Seq(Nat) /\ Len(a) = Len(b)
  BY <1>3, Arranged
<1> QED BY <1>1, <1>4 DEF Shaped, Reshaped, Strided, k

LEMMA AscendingIs ==
  ASSUME NEW n \in Nat, NEW dims \in SUBSET (1 .. n)
  PROVE  Ascending(dims, n) \in Seq(1 .. n)
<1> DEFINE X == Seq(1 .. n)
           Next1(x, d) == IF d \in dims THEN Append(x, d) ELSE x
           step == [d \in 1 .. n |-> [x \in X |-> Next1(x, d)]]
           Body(f) == [d \in 0 .. n |-> IF d = 0 THEN <<>> ELSE Next1(f[d - 1], d)]
<1>1. ASSUME NEW x \in X, NEW d \in 1 .. n PROVE Next1(x, d) \in X
  <2>1. \A y \in 1 .. n : Append(x, y) \in X
    BY Sequence
  <2> QED BY <2>1
<1>2. step \in [1 .. n -> [X -> X]]
  BY <1>1
<1>3. <<>> \in X
  OBVIOUS
<1>4. PICK f \in [0 .. n -> X] : Up(f, n, <<>>, step)
  <2> HIDE DEF step, X
  <2> QED BY <1>2, <1>3, Ascent
<1>5. ASSUME NEW d \in 1 .. n PROVE f[d] = Next1(f[d - 1], d)
  <2>1. d - 1 \in 0 .. n
    OBVIOUS
  <2>2. f[d - 1] \in X
    BY <1>4, <2>1
  <2>3. step[d] = [x \in X |-> Next1(x, d)]
    OBVIOUS
  <2> HIDE DEF Next1, X
  <2>4. step[d][f[d - 1]] = Next1(f[d - 1], d)
    BY <2>2, <2>3
  <2> HIDE DEF step
  <2> QED BY <1>4, <2>4 DEF Up
<1>6. \E g : g = Body(g)
  <2>1. ASSUME NEW d \in 0 .. n PROVE f[d] = IF d = 0 THEN <<>> ELSE Next1(f[d - 1], d)
    <3>1. d # 0 => d \in 1 .. n
      OBVIOUS
    <3> HIDE DEF Next1
    <3> QED BY <1>4, <1>5, <3>1 DEF Up
  <2>2. f = [d \in 0 .. n |-> f[d]]
    BY <1>4
  <2> HIDE DEF Next1
  <2> QED BY <2>1, <2>2
<1> DEFINE u == CHOOSE g : g = Body(g)
<1>7. u = Body(u)
  <2> HIDE DEF Body
  <2> QED BY <1>6
<1>8. Ascending(dims, n) = u[n]
  BY DEF Ascending
<1> HIDE DEF u
<1>9. u[0] = <<>> /\ \A d \in 1 .. n : u[d] = Next1(u[d - 1], d)
  <2>1. \A d \in 0 .. n : u[d] = IF d = 0 THEN <<>> ELSE Next1(u[d - 1], d)
    <3> HIDE DEF Next1
    <3> QED BY <1>7
  <2>2. 0 \in 0 .. n /\ \A d \in 1 .. n : d \in 0 .. n /\ d # 0
    OBVIOUS
  <2> HIDE DEF Next1
  <2> QED BY <2>1, <2>2
<1> DEFINE S == {d \in 0 .. n : u[d] \in X}
<1>10. 0 \in S
  <2>1. 0 \in 0 .. n
    OBVIOUS
  <2> HIDE DEF X
  <2> QED BY <1>3, <1>9, <2>1
<1>11. ASSUME NEW d \in 1 .. n, d - 1 \in S PROVE d \in S
  <2>1. u[d - 1] \in X /\ u[d] = Next1(u[d - 1], d) /\ d \in 0 .. n
    BY <1>9, <1>11
  <2> HIDE DEF X, Next1
  <2> QED BY <1>1, <2>1
<1>12. 0 .. n \subseteq S
  <2> HIDE DEF S
  <2> QED BY <1>10, <1>11, Induction
<1>13. n \in 0 .. n
  OBVIOUS
<1> QED BY <1>8, <1>12, <1>13

LEMMA SqueezeShape ==
  ASSUME NEW l, Shaped(l), NEW dims \in SUBSET (1 .. rank(l))
  PROVE  Reshaped(Kept(l, dims), l)
<1> DEFINE order == Ascending(dims, rank(l))
<1>1. rank(l) \in Nat
  BY Strides DEF Shaped
<1>2. order \in Seq(1 .. rank(l))
  BY <1>1, AscendingIs
<1> HIDE DEF order
<1>3. Len(order) \in Nat /\ order \in [1 .. Len(order) -> 1 .. rank(l)]
  BY <1>2, Sequence
<1>4. Reshaped(permute(l, order), l)
  BY <1>3, PermuteShape
<1> QED BY <1>4 DEF Kept, order

LEMMA ClampIs ==
  ASSUME NEW v \in Int, NEW size \in Nat
  PROVE  clamp(v, size) \in 0 .. size
BY DEF clamp, Least

LEMMA SliceSizeIs ==
  ASSUME NEW first \in Nat, NEW last \in Nat, NEW step \in Nat \ {0}
  PROVE  slice_size(first, last, step) \in Nat
<1>1. CASE last > first
  <2>1. last - first + step - 1 \in Nat
    BY <1>1
  <2>2. (last - first + step - 1) \div step \in Nat
    BY <2>1, Digits
  <2> QED BY <1>1, <2>2 DEF slice_size
<1>2. CASE ~(last > first)
  BY <1>2 DEF slice_size
<1> QED BY <1>1, <1>2

LEMMA SliceShape ==
  ASSUME NEW l, Shaped(l), NEW d \in 1 .. rank(l), NEW start \in Int, NEW stop \in Int,
         NEW step \in Nat \ {0}
  PROVE  Reshaped(slice(l, d, start, stop, step), l)
<1> DEFINE first == clamp(start, l.sizes[d])
           last == clamp(stop, l.sizes[d])
           size == slice_size(first, last, step)
           moved == l.offset + first * l.strides[d]
           a == [l.sizes EXCEPT ![d] = size]
           b == [l.strides EXCEPT ![d] = @ * step]
           k == slice(l, d, start, stop, step)
<1>1. /\ k.sizes = a /\ k.strides = b /\ k.storage = l.storage
      /\ k.offset = IF moved < StorageSize(l) THEN moved ELSE l.offset
  BY DEF slice, Shaped
<1>2. /\ rank(l) \in Nat /\ l.sizes \in [1 .. rank(l) -> Nat] /\ l.strides \in [1 .. rank(l) -> Nat]
      /\ l.sizes[d] \in Nat /\ l.strides[d] \in Nat /\ l.offset \in Nat
  BY Strides, SMTT(60) DEF Shaped, Strided
<1>3. first \in Nat /\ last \in Nat
  <2>1. first \in 0 .. l.sizes[d] /\ last \in 0 .. l.sizes[d]
    BY <1>2, ClampIs
  <2> HIDE DEF first, last
  <2> QED BY <2>1
<1>4. size \in Nat
  <2> HIDE DEF first, last
  <2> QED BY <1>3, SliceSizeIs
<1>5. moved \in Nat
  <2>1. \A x, y, z \in Nat : x + y * z \in Nat
    OBVIOUS
  <2> HIDE DEF first
  <2> QED BY <1>2, <1>3, <2>1
<1>6. l.strides[d] * step \in Nat
  BY <1>2
<1>7. a \in [1 .. rank(l) -> Nat] /\ b \in [1 .. rank(l) -> Nat]
  <2> HIDE DEF size
  <2> QED BY <1>2, <1>4, <1>6
<1> HIDE DEF a, b, moved, k
<1>8. a \in Seq(Nat) /\ b \in Seq(Nat) /\ Len(a) = Len(b)
  BY <1>2, <1>7, Arranged
<1>9. Reshaped(k, l)
  BY <1>1, <1>2, <1>5, <1>8 DEF Reshaped, Strided
<1> QED BY <1>9 DEF k

LEMMA ExpandShape ==
  ASSUME NEW l, Shaped(l), NEW dims \in Seq(Nat), expandable(l, dims)
  PROVE  Reshaped(expand(l, dims), l)
<1> DEFINE lead == Len(dims) - rank(l)
           b == [d \in 1 .. Len(dims) |->
                  IF d <= lead THEN 0 ELSE IF l.sizes[d - lead] = dims[d] THEN l.strides[d - lead] ELSE 0]
           k == expand(l, dims)
<1>1. k.sizes = dims /\ k.strides = b /\ k.storage = l.storage /\ k.offset = l.offset
  BY DEF expand, Shaped
<1>2. rank(l) \in Nat /\ Len(dims) \in Nat /\ lead >= 0
      /\ \A d \in 1 .. rank(l) : l.strides[d] \in Nat
  BY Strides DEF Shaped, expandable
<1>3. ASSUME NEW d \in 1 .. Len(dims), ~(d <= lead) PROVE l.strides[d - lead] \in Nat
  <2>1. d - lead \in 1 .. rank(l)
    BY <1>2, <1>3
  <2> QED BY <1>2, <2>1
<1>4. b \in [1 .. Len(dims) -> Nat]
  BY <1>3
<1> HIDE DEF b, k
<1>5. b \in Seq(Nat) /\ Len(b) = Len(dims)
  BY <1>2, <1>4, Arranged
<1>6. Reshaped(k, l)
  BY <1>1, <1>5 DEF Reshaped, Strided, Shaped
<1> QED BY <1>6 DEF k

(* A dimension is inserted.                                                *)
LEMMA InsertIs ==
  ASSUME NEW x \in Seq(Nat), NEW i \in 1 .. Len(x) + 1, NEW e \in Nat
  PROVE  InsertAt(x, i, e) \in Seq(Nat) /\ Len(InsertAt(x, i, e)) = Len(x) + 1
<1>1. Len(x) \in Nat /\ i - 1 \in 0 .. Len(x)
  OBVIOUS
<1> DEFINE low == SubSeq(x, 1, i - 1)
           high == SubSeq(x, i, Len(x))
<1>2. low \in Seq(Nat) /\ Len(low) = i - 1
  BY <1>1
<1>3. high \in Seq(Nat) /\ Len(high) = Len(x) - i + 1
  BY <1>1
<1> HIDE DEF low, high
<1>4. low \o <<e>> \in Seq(Nat) /\ Len(low \o <<e>>) = i
  BY <1>1, <1>2
<1>5. (low \o <<e>>) \o high \in Seq(Nat) /\ Len((low \o <<e>>) \o high) = Len(x) + 1
  BY <1>1, <1>3, <1>4, SMTT(60)
<1> QED BY <1>5 DEF InsertAt, low, high

LEMMA UnsqueezeShape ==
  ASSUME NEW l, Shaped(l), NEW dim \in 1 .. rank(l) + 1
  PROVE  Reshaped(unsqueeze(l, dim), l)
<1> DEFINE stride == IF dim <= rank(l) THEN l.sizes[dim] * l.strides[dim] ELSE 1
           a == InsertAt(l.sizes, dim, 1)
           b == InsertAt(l.strides, dim, stride)
           k == unsqueeze(l, dim)
<1>1. k.sizes = a /\ k.strides = b /\ k.storage = l.storage /\ k.offset = l.offset
  BY DEF unsqueeze, Shaped
<1>2. /\ rank(l) \in Nat /\ Len(l.sizes) = rank(l) /\ Len(l.strides) = rank(l)
      /\ \A d \in 1 .. rank(l) : l.sizes[d] \in Nat /\ l.strides[d] \in Nat
  BY Strides DEF Shaped
<1>3. stride \in Nat
  <2>1. dim <= rank(l) => dim \in 1 .. rank(l)
    BY <1>2
  <2>2. \A x, y \in Nat : x * y \in Nat
    OBVIOUS
  <2> QED BY <1>2, <2>1, <2>2
<1>4. l.sizes \in Seq(Nat) /\ l.strides \in Seq(Nat) /\ l.offset \in Nat
  BY DEF Shaped, Strided
<1> HIDE DEF stride
<1>5. a \in Seq(Nat) /\ Len(a) = rank(l) + 1
  <2>1. 1 \in Nat /\ dim \in 1 .. Len(l.sizes) + 1
    BY <1>2
  <2> QED BY <1>2, <1>4, <2>1, InsertIs
<1>6. b \in Seq(Nat) /\ Len(b) = rank(l) + 1
  <2>1. dim \in 1 .. Len(l.strides) + 1
    BY <1>2
  <2> QED BY <1>2, <1>3, <1>4, <2>1, InsertIs
<1> HIDE DEF a, b, k
<1>7. Reshaped(k, l)
  BY <1>1, <1>4, <1>5, <1>6 DEF Reshaped, Strided
<1> QED BY <1>7 DEF k

(* The recursions of compute_view_strides stay within their records.       *)
Chunked(m) ==
  [ok : BOOLEAN, left : 0 .. m, base : Nat, numel : Nat, view : Nat, strides : [1 .. m -> Nat]]

Taking(c, left, x, strides) == [c EXCEPT !.left = left, !.view = x, !.strides = strides]
Growing(c, x) == [c EXCEPT !.numel = x]
Failing(c) == [c EXCEPT !.ok = FALSE]
Starting(c, x) == [c EXCEPT !.base = x, !.numel = 1, !.view = 1]

LEMMA ChunkUpdates ==
  ASSUME NEW m \in Nat, NEW c \in Chunked(m)
  PROVE  /\ \A left \in 0 .. m, x \in Nat, strides \in [1 .. m -> Nat] :
              Taking(c, left, x, strides) \in Chunked(m)
         /\ \A x \in Nat : Growing(c, x) \in Chunked(m) /\ Starting(c, x) \in Chunked(m)
         /\ Failing(c) \in Chunked(m)
<1>1. ASSUME NEW left \in 0 .. m, NEW x \in Nat, NEW strides \in [1 .. m -> Nat]
      PROVE  Taking(c, left, x, strides) \in Chunked(m)
  BY DEF Chunked, Taking
<1>2. ASSUME NEW x \in Nat PROVE Growing(c, x) \in Chunked(m)
  BY DEF Chunked, Growing
<1>3. ASSUME NEW x \in Nat PROVE Starting(c, x) \in Chunked(m)
  BY DEF Chunked, Starting
<1>4. Failing(c) \in Chunked(m)
  BY DEF Chunked, Failing
<1> QED BY <1>1, <1>2, <1>3, <1>4

\* The chunk after new dimension d, which it covers if it is the next one.
Covered(dims, c, d) ==
  IF d = c.left /\ (c.view < c.numel \/ dims[d] = 1)
  THEN [c EXCEPT !.left = d - 1, !.view = @ * dims[d], !.strides = [@ EXCEPT ![d] = c.view * c.base]]
  ELSE c

LEMMA CoveredIs ==
  ASSUME NEW dims \in Seq(Nat), NEW c \in Chunked(Len(dims)), NEW d \in 1 .. Len(dims)
  PROVE  Covered(dims, c, d) \in Chunked(Len(dims))
<1> DEFINE m == Len(dims)
           grown == c.view * dims[d]
           stride == c.view * c.base
           strides == [c.strides EXCEPT ![d] = stride]
           k == Taking(c, d - 1, grown, strides)
<1>1. /\ c.ok \in BOOLEAN /\ c.left \in 0 .. m /\ c.base \in Nat /\ c.numel \in Nat /\ c.view \in Nat
      /\ c.strides \in [1 .. m -> Nat] /\ m \in Nat /\ dims[d] \in Nat
  BY DEF Chunked
<1>2. grown \in Nat /\ stride \in Nat /\ d - 1 \in 0 .. m
  <2>1. \A x, y \in Nat : x * y \in Nat
    OBVIOUS
  <2> QED BY <1>1, <2>1, SMTT(60)
<1>3. strides \in [1 .. m -> Nat]
  <2> HIDE DEF stride, m
  <2> QED BY <1>1, <1>2
<1>4. k \in Chunked(m)
  <2>1. m \in Nat
    BY <1>1
  <2> HIDE DEF grown, strides
  <2> QED BY <1>2, <1>3, <2>1, ChunkUpdates
<1> QED BY <1>4 DEF Covered, Taking

\* The chunks u that Cover goes through, from the inside out.
Covering(dims, chunk, u) ==
  /\ \A d \in 1 .. Len(dims) + 1 : u[d] \in Chunked(Len(dims))
  /\ u[Len(dims) + 1] = chunk /\ Cover(dims, chunk) = u[1]
  /\ \A d \in 1 .. Len(dims) : u[d] = Covered(dims, u[d + 1], d)

LEMMA CoverSteps ==
  ASSUME NEW dims \in Seq(Nat), NEW chunk \in Chunked(Len(dims))
  PROVE  \E u : Covering(dims, chunk, u)
<1> DEFINE m == Len(dims)
           X == Chunked(m)
           D == 1 .. m + 1
           step == [d \in 1 .. m |-> [x \in X |-> Covered(dims, x, d)]]
           Body(f) == [d \in D |-> IF d > m THEN chunk ELSE Covered(dims, f[d + 1], d)]
<1>1. m \in Nat
  OBVIOUS
<1>2. \A x \in X, d \in 1 .. m : Covered(dims, x, d) \in X
  BY CoveredIs
<1> HIDE DEF X
<1>3. step \in [1 .. m -> [X -> X]]
  BY <1>2
<1>4. PICK f \in [D -> X] : Down(f, m, chunk, step)
  <2>1. chunk \in X
    BY DEF X
  <2> HIDE DEF step
  <2> QED BY <1>1, <1>3, <2>1, Descending
<1>5. ASSUME NEW d \in 1 .. m PROVE f[d] = Covered(dims, f[d + 1], d)
  <2>0. d + 1 \in D
    BY <1>1
  <2>1. f[d + 1] \in X
    BY <1>4, <2>0
  <2>2. step[d][f[d + 1]] = Covered(dims, f[d + 1], d)
    BY <2>1
  <2> HIDE DEF step
  <2> QED BY <1>4, <2>2 DEF Down
<1>6. \E g : g = Body(g)
  <2>1. ASSUME NEW d \in D PROVE f[d] = IF d > m THEN chunk ELSE Covered(dims, f[d + 1], d)
    <3>1. d > m => d = m + 1
      BY <1>1
    <3>2. ~(d > m) => d \in 1 .. m
      BY <1>1
    <3> QED BY <1>4, <1>5, <3>1, <3>2 DEF Down
  <2>2. f = [d \in D |-> f[d]]
    BY <1>4
  <2> QED BY <2>1, <2>2
<1> DEFINE u == CHOOSE g : g = Body(g)
<1>7. u = Body(u)
  <2> HIDE DEF Body
  <2> QED BY <1>6
<1>8. Cover(dims, chunk) = u[1]
  BY DEF Cover, Covered
<1> HIDE DEF u
<1>9. u[m + 1] = chunk /\ \A d \in 1 .. m : u[d] = Covered(dims, u[d + 1], d)
  <2>1. \A d \in D : u[d] = IF d > m THEN chunk ELSE Covered(dims, u[d + 1], d)
    BY <1>7
  <2>2. m + 1 \in D /\ m + 1 > m /\ \A d \in 1 .. m : d \in D /\ ~(d > m)
    BY <1>1
  <2> QED BY <2>1, <2>2
<1> DEFINE S == {d \in D : u[d] \in X}
<1>10. D \subseteq S
  <2>1. m + 1 \in S
    BY <1>1, <1>9 DEF X
  <2>2. \A d \in 1 .. m : d + 1 \in S => d \in S
    BY <1>1, <1>2, <1>9
  <2> HIDE DEF S
  <2> QED BY <1>1, <2>1, <2>2, Descent
<1> QED BY <1>8, <1>9, <1>10 DEF X, Covering

LEMMA CoverIs ==
  ASSUME NEW dims \in Seq(Nat), NEW chunk \in Chunked(Len(dims))
  PROVE  Cover(dims, chunk) \in Chunked(Len(dims))
<1>1. 1 \in 1 .. Len(dims) + 1
  OBVIOUS
<1> QED BY <1>1, CoverSteps DEF Covering

LEMMA ChunkIs ==
  ASSUME NEW l, Strided(l), NEW dims \in Seq(Nat), NEW k \in 1 .. rank(l),
         NEW c \in Chunked(Len(dims))
  PROVE  Chunk(l, dims, k, c) \in Chunked(Len(dims))
<1> DEFINE m == Len(dims)
           grown == Growing(c, c.numel * l.sizes[k])
           covered == Cover(dims, grown)
<1>1. m \in Nat /\ rank(l) \in Nat /\ \A d \in 1 .. rank(l) : l.sizes[d] \in Nat /\ l.strides[d] \in Nat
  BY Strides
<1>2. c.numel * l.sizes[k] \in Nat
  <2>1. c.numel \in Nat /\ l.sizes[k] \in Nat
    BY <1>1 DEF Chunked
  <2> QED BY <2>1
<1>3. grown \in Chunked(m)
  BY <1>1, <1>2, ChunkUpdates
<1>4. covered \in Chunked(m)
  <2> HIDE DEF grown
  <2> QED BY <1>3, CoverIs
<1>5. Failing(covered) \in Chunked(m)
  <2> HIDE DEF covered
  <2> QED BY <1>1, <1>4, ChunkUpdates
<1>6. k # 1 => Starting(covered, l.strides[k - 1]) \in Chunked(m)
  <2>1. k # 1 => l.strides[k - 1] \in Nat
    BY <1>1
  <2> HIDE DEF covered
  <2> QED BY <1>1, <1>4, <2>1, ChunkUpdates
<1>7. Chunk(l, dims, k, c) =
        IF ~c.ok THEN c
        ELSE IF ~ChunkEnds(l, k, grown) THEN grown
        ELSE IF covered.view # covered.numel THEN Failing(covered)
        ELSE IF k = 1 THEN covered
        ELSE Starting(covered, l.strides[k - 1])
  BY DEF Chunk, Growing, Failing, Starting
<1> HIDE DEF grown, covered
<1> QED BY <1>3, <1>4, <1>5, <1>6, <1>7

\* The chunks u that compute_view_strides goes through, from the inside out.
Chunking(l, dims, u) ==
  /\ \A k \in 1 .. rank(l) + 1 : u[k] \in Chunked(Len(dims))
  /\ u[rank(l) + 1] =
       [ok |-> TRUE, left |-> Len(dims), base |-> l.strides[rank(l)],
        numel |-> 1, view |-> 1, strides |-> [d \in 1 .. Len(dims) |-> 0]]
  /\ Chunks(l, dims) = u[1]
  /\ \A k \in 1 .. rank(l) : u[k] = Chunk(l, dims, k, u[k + 1])

LEMMA ChunkSteps ==
  ASSUME NEW l, Strided(l), rank(l) # 0, NEW dims \in Seq(Nat)
  PROVE  \E u : Chunking(l, dims, u)
<1> DEFINE m == rank(l)
           X == Chunked(Len(dims))
           D == 1 .. m + 1
           start == [ok |-> TRUE, left |-> Len(dims), base |-> l.strides[rank(l)],
                     numel |-> 1, view |-> 1, strides |-> [d \in 1 .. Len(dims) |-> 0]]
           step == [k \in 1 .. m |-> [x \in X |-> Chunk(l, dims, k, x)]]
           Body(f) == [k \in D |-> IF k <= m THEN Chunk(l, dims, k, f[k + 1]) ELSE start]
<1>1. m \in Nat
  BY Strides
<1>2. \A x \in X, k \in 1 .. m : Chunk(l, dims, k, x) \in X
  BY ChunkIs
<1>3. start \in X
  <2>1. Len(dims) \in Nat /\ l.strides[rank(l)] \in Nat
    BY <1>1, Strides
  <2> QED BY <2>1 DEF Chunked
<1> HIDE DEF X, start
<1>4. step \in [1 .. m -> [X -> X]]
  BY <1>2
<1>5. PICK f \in [D -> X] : Down(f, m, start, step)
  <2> HIDE DEF step
  <2> QED BY <1>1, <1>3, <1>4, Descending
<1>6. ASSUME NEW k \in 1 .. m PROVE f[k] = Chunk(l, dims, k, f[k + 1])
  <2>0. k + 1 \in D
    BY <1>1
  <2>1. f[k + 1] \in X
    BY <1>5, <2>0
  <2>2. step[k][f[k + 1]] = Chunk(l, dims, k, f[k + 1])
    BY <2>1
  <2> HIDE DEF step
  <2> QED BY <1>5, <2>2 DEF Down
<1>7. \E g : g = Body(g)
  <2>1. ASSUME NEW k \in D PROVE f[k] = IF k <= m THEN Chunk(l, dims, k, f[k + 1]) ELSE start
    <3>1. ~(k <= m) => k = m + 1
      BY <1>1
    <3>2. k <= m => k \in 1 .. m
      BY <1>1
    <3> QED BY <1>5, <1>6, <3>1, <3>2 DEF Down
  <2>2. f = [k \in D |-> f[k]]
    BY <1>5
  <2> QED BY <2>1, <2>2
<1> DEFINE u == CHOOSE g : g = Body(g)
<1>8. u = Body(u)
  <2> HIDE DEF Body
  <2> QED BY <1>7
<1>9. Chunks(l, dims) = u[1]
  BY DEF Chunks, start
<1> HIDE DEF u
<1>10. u[m + 1] = start /\ \A k \in 1 .. m : u[k] = Chunk(l, dims, k, u[k + 1])
  <2>1. \A k \in D : u[k] = IF k <= m THEN Chunk(l, dims, k, u[k + 1]) ELSE start
    BY <1>8
  <2>2. m + 1 \in D /\ ~(m + 1 <= m) /\ \A k \in 1 .. m : k \in D /\ k <= m
    BY <1>1
  <2> QED BY <2>1, <2>2
<1> DEFINE S == {k \in D : u[k] \in X}
<1>11. D \subseteq S
  <2>1. m + 1 \in S
    BY <1>1, <1>3, <1>10
  <2>2. \A k \in 1 .. m : k + 1 \in S => k \in S
    BY <1>1, <1>2, <1>10
  <2> HIDE DEF S
  <2> QED BY <1>1, <2>1, <2>2, Descent
<1> QED BY <1>9, <1>10, <1>11 DEF X, Chunking, start

LEMMA ChunksIs ==
  ASSUME NEW l, Strided(l), rank(l) # 0, NEW dims \in Seq(Nat)
  PROVE  Chunks(l, dims) \in Chunked(Len(dims))
<1>1. 1 \in 1 .. rank(l) + 1
  BY Strides
<1>2. PICK u : Chunking(l, dims, u)
  BY ChunkSteps
<1> QED BY <1>1, <1>2 DEF Chunking

LEMMA ViewShape ==
  ASSUME NEW l, Shaped(l), NEW dims \in Seq(Nat), compute_view_strides(l, dims) # NoStrides
  PROVE  Reshaped(view(l, dims), l)
<1> DEFINE b == compute_view_strides(l, dims)
           k == view(l, dims)
<1>1. k.sizes = dims /\ k.strides = b /\ k.storage = l.storage /\ k.offset = l.offset
  BY DEF view, Shaped
<1>2. PackedStrides(dims) \in Seq(Nat) /\ Len(PackedStrides(dims)) = Len(dims)
  BY PackedShape
<1>3. rank(l) # 0 => Chunks(l, dims).strides \in Seq(Nat) /\ Len(Chunks(l, dims).strides) = Len(dims)
  <2> SUFFICES ASSUME rank(l) # 0
               PROVE  Chunks(l, dims).strides \in Seq(Nat) /\ Len(Chunks(l, dims).strides) = Len(dims)
    OBVIOUS
  <2>1. Chunks(l, dims) \in Chunked(Len(dims))
    BY ChunksIs DEF Shaped
  <2>2. Chunks(l, dims).strides \in [1 .. Len(dims) -> Nat] /\ Len(dims) \in Nat
    BY <2>1 DEF Chunked
  <2> QED BY <2>2, Arranged
<1>4. b \in Seq(Nat) /\ Len(b) = Len(dims)
  BY <1>2, <1>3 DEF compute_view_strides
<1> HIDE DEF b, k
<1>5. Reshaped(k, l)
  BY <1>1, <1>4 DEF Reshaped, Strided, Shaped
<1> QED BY <1>5 DEF k

(* Every view is shaped, and of the storage of what it is made from.       *)
LEMMA DerivedShape ==
  ASSUME NEW l, Shaped(l), NEW k \in Derived(l)
  PROVE  Reshaped(k, l)
<1>1. rank(l) \in Nat
  BY Strides DEF Shaped
<1>2. CASE k = l
  BY <1>2 DEF Reshaped, Shaped
<1>3. CASE k = squeeze(l)
  <2>1. {d \in 1 .. rank(l) : l.sizes[d] # 1} \in SUBSET (1 .. rank(l))
    OBVIOUS
  <2> QED BY <1>3, <2>1, SqueezeShape DEF squeeze
<1>4. ASSUME NEW p \in Orders(rank(l)), k = permute(l, p) PROVE Reshaped(k, l)
  <2>1. p \in [1 .. rank(l) -> 1 .. rank(l)]
    BY DEF Orders
  <2> QED BY <1>1, <1>4, <2>1, PermuteShape
<1>5. ASSUME NEW d \in 1 .. rank(l), k = squeeze_dim(l, d) PROVE Reshaped(k, l)
  <2>1. (1 .. rank(l)) \ {d} \in SUBSET (1 .. rank(l))
    OBVIOUS
  <2>2. Reshaped(Kept(l, (1 .. rank(l)) \ {d}), l)
    BY <2>1, SqueezeShape
  <2>3. Reshaped(l, l)
    BY DEF Reshaped, Shaped
  <2> QED BY <1>5, <2>2, <2>3 DEF squeeze_dim
<1>6. ASSUME NEW d \in 1 .. rank(l) + 1, k = unsqueeze(l, d) PROVE Reshaped(k, l)
  BY <1>6, UnsqueezeShape
<1>7. ASSUME NEW d \in 1 .. rank(l), NEW i \in Indices, NEW j \in Indices, NEW s \in Steps,
             k = slice(l, d, i, j, s)
      PROVE  Reshaped(k, l)
  <2>1. i \in Int /\ j \in Int /\ s \in Nat \ {0}
    BY GeometryAssumption
  <2> QED BY <1>7, <2>1, SliceShape
<1>8. ASSUME NEW dims \in Shapes, expandable(l, dims), k = expand(l, dims) PROVE Reshaped(k, l)
  <2>1. dims \in Seq(Nat)
    BY GeometryAssumption
  <2> QED BY <1>8, <2>1, ExpandShape
<1>9. ASSUME NEW dims \in Shapes, compute_view_strides(l, dims) # NoStrides, k = view(l, dims)
      PROVE  Reshaped(k, l)
  <2>1. dims \in Seq(Nat)
    BY GeometryAssumption
  <2> QED BY <1>9, <2>1, ViewShape
<1> QED BY <1>2, <1>3, <1>4, <1>5, <1>6, <1>7, <1>8, <1>9 DEF Derived, SameSize

----------------------------------------------------------------------------
(* The invariant of handles and memory.                                    *)
\* Storage holds a sequence of n values.
Holds(values, n) == values \in [1 .. n -> {values[i] : i \in 1 .. n}]
Stored(m) ==
  /\ Buffer \in DOMAIN m /\ DOMAIN m \subseteq Storages \cup {Buffer}
  /\ \A s \in DOMAIN m : \E n \in Nat : Holds(m[s], n)

\* A layout within a storage that holds it; moved-from objects reach nothing.
Within(l, m) ==
  l.numel > 0 => l.storage # nullptr /\ l.offset + overlap_extent(l) < Len(m[l.storage])

\* A member of handles: flags computed from the layout, storage that is alive.
Handle(l, m) ==
  /\ Shaped(l) /\ l.numel \in Nat /\ l.contiguous \in BOOLEAN /\ l.non_overlapping \in BOOLEAN
  /\ l.storage \in DOMAIN m \cup {nullptr}
  /\ l.storage # nullptr \/ l.numel > 0 => l.numel = numel(l) /\ l.contiguous = Contiguous(l)
  /\ ~ReuseMoved => Within(l, m)

Valid(hs, m) ==
  /\ DOMAIN hs \subseteq Owners \cup Views /\ Stored(m)
  /\ \A h \in DOMAIN hs : Handle(hs[h], m)

\* Owners are packed, and no two of them have the same storage.
PackedOwners(hs) ==
  \A o \in Owners \cap DOMAIN hs :
    /\ hs[o].offset = 0 /\ hs[o].strides = PackedStrides(hs[o].sizes) /\ hs[o].contiguous
    /\ \A x \in Owners \cap DOMAIN hs :
         x # o /\ hs[o].storage # nullptr => hs[x].storage # hs[o].storage

HInv == Valid(handles, memory)
OInv == PackedOwners(handles)

LEMMA HoldsLen ==
  ASSUME NEW values, NEW n \in Nat, Holds(values, n)
  PROVE  Len(values) = n
<1> DEFINE V == {values[i] : i \in 1 .. n}
<1>1. values \in [1 .. n -> V]
  BY DEF Holds
<1> HIDE DEF V
<1> QED BY <1>1

\* f with v at x, as an equation for one function.
Updated(g, f, x, v) ==
  /\ DOMAIN g = DOMAIN f \cup {x} /\ g[x] = v
  /\ \A y \in DOMAIN f : y # x => g[y] = f[y]
LEMMA PutIs == ASSUME NEW f, NEW x, NEW v PROVE Updated(Put(f, x, v), f, x, v)
BY DEF Put, Updated

(* Storage that nothing retains is freed, and that other handles see alive.*)
LEMMA BecomeValid ==
  ASSUME NEW hs, NEW m, Valid(hs, m), Become(hs, m)
  PROVE  HInv'
<1> DEFINE kept == {x \in DOMAIN m : x = Buffer \/ \E h \in DOMAIN hs : hs[h].storage = x}
<1>1. handles' = hs /\ DOMAIN memory' = kept /\ \A s \in kept : memory'[s] = m[s]
  BY DEF Become
<1>2. Stored(memory')
  <2>1. Buffer \in kept /\ kept \subseteq DOMAIN m /\ kept \subseteq Storages \cup {Buffer}
    BY DEF Valid, Stored
  <2> HIDE DEF kept
  <2>2. \A s \in DOMAIN memory' : \E n \in Nat : Holds(memory'[s], n)
    BY <1>1, <2>1 DEF Valid, Stored
  <2> QED BY <1>1, <2>1, <2>2 DEF Stored
<1>3. ASSUME NEW h \in DOMAIN hs PROVE Handle(hs[h], memory')
  <2>1. Handle(hs[h], m)
    BY DEF Valid
  <2>2. hs[h].storage # nullptr => hs[h].storage \in kept
    BY <2>1 DEF Handle
  <2>3. hs[h].storage # nullptr => memory'[hs[h].storage] = m[hs[h].storage]
    BY <1>1, <2>2
  <2>4. Within(hs[h], m) => Within(hs[h], memory')
    BY <2>3 DEF Within
  <2>5. hs[h].storage \in DOMAIN memory' \cup {nullptr}
    BY <1>1, <2>2
  <2> QED BY <2>1, <2>4, <2>5 DEF Handle
<1> QED BY <1>1, <1>2, <1>3 DEF HInv, Valid

LEMMA PutValid ==
  ASSUME NEW hs, NEW m, Valid(hs, m), NEW h \in Owners \cup Views, NEW l, Handle(l, m)
  PROVE  Valid(Put(hs, h, l), m)
<1> DEFINE a == Put(hs, h, l)
<1>1. Updated(a, hs, h, l)
  BY PutIs
<1> HIDE DEF a
<1>2. DOMAIN a \subseteq Owners \cup Views
  BY <1>1 DEF Updated, Valid
<1>3. ASSUME NEW x \in DOMAIN a PROVE Handle(a[x], m)
  <2>1. CASE x = h
    BY <1>1, <2>1 DEF Updated
  <2>2. CASE x # h
    <3>1. x \in DOMAIN hs /\ a[x] = hs[x]
      BY <1>1, <2>2 DEF Updated
    <3> QED BY <3>1 DEF Valid
  <2> QED BY <2>1, <2>2
<1> QED BY <1>2, <1>3 DEF Valid, a

LEMMA AllocateValid ==
  ASSUME NEW hs, NEW m, Valid(hs, m), NEW s \in Storages \ DOMAIN m, NEW values,
         NEW n \in Nat, Holds(values, n)
  PROVE  Valid(hs, Put(m, s, values))
<1> DEFINE a == Put(m, s, values)
<1>0. Updated(a, m, s, values)
  BY PutIs
<1> HIDE DEF a
<1>1. DOMAIN a = DOMAIN m \cup {s} /\ a[s] = values /\ \A x \in DOMAIN m : a[x] = m[x]
  BY <1>0 DEF Updated
<1>2. Stored(a)
  BY <1>1 DEF Valid, Stored
<1>3. ASSUME NEW h \in DOMAIN hs PROVE Handle(hs[h], a)
  <2>1. Handle(hs[h], m)
    BY DEF Valid
  <2>2. hs[h].storage \in DOMAIN a \cup {nullptr}
    BY <1>1, <2>1 DEF Handle
  <2>3. Within(hs[h], m) => Within(hs[h], a)
    BY <1>1, <2>1 DEF Within, Handle
  <2> QED BY <2>1, <2>2, <2>3 DEF Handle
<1> QED BY <1>2, <1>3 DEF Valid, a

(* The flags depend on sizes and strides alone.                            *)
LEMMA SameLayout ==
  ASSUME NEW k, NEW l, k.sizes = l.sizes, k.strides = l.strides
  PROVE  /\ numel(k) = numel(l) /\ Contiguous(k) = Contiguous(l)
         /\ overlap_extent(k) = overlap_extent(l) /\ (Strided(l) => Strided(k))
<1>1. numel(k) = numel(l) /\ rank(k) = rank(l)
  BY DEF numel, rank
<1>2. is_packed(k) = is_packed(l)
  BY <1>1 DEF is_packed
<1>3. overlap_extent(k) = overlap_extent(l)
  BY <1>1 DEF overlap_extent
<1> QED BY <1>1, <1>2, <1>3 DEF Contiguous, Strided

LEMMA RecomputeHandle ==
  ASSUME NEW h, NEW m, NEW l, Strided(l), l.offset \in Nat, l.storage \in DOMAIN m \cup {nullptr},
         ~ReuseMoved /\ numel(l) > 0
           => l.storage # nullptr /\ l.offset + overlap_extent(l) < Len(m[l.storage])
  PROVE  Handle(recompute(h, l), m)
<1> DEFINE k == recompute(h, l)
<1>1. /\ k.storage = l.storage /\ k.offset = l.offset /\ k.sizes = l.sizes /\ k.strides = l.strides
      /\ k.numel = numel(l) /\ k.contiguous = Contiguous(l)
      /\ k.non_overlapping = (h \in Views => is_non_overlapping(l))
      /\ {"sizes", "strides", "offset", "derived"} \subseteq DOMAIN k
  BY DEF recompute
<1> HIDE DEF k
<1>2. /\ numel(k) = numel(l) /\ Contiguous(k) = Contiguous(l)
      /\ overlap_extent(k) = overlap_extent(l) /\ Strided(k)
  BY <1>1, SameLayout
<1>3. numel(l) \in Nat
  BY PackedShape DEF Strided, numel
<1>4. k.contiguous \in BOOLEAN /\ k.non_overlapping \in BOOLEAN
  BY <1>1 DEF Contiguous
<1>5. Shaped(k)
  BY <1>1, <1>2 DEF Shaped
<1>6. ~ReuseMoved => Within(k, m)
  BY <1>1, <1>2 DEF Within
<1>7. Handle(k, m)
  BY <1>1, <1>2, <1>3, <1>4, <1>5, <1>6 DEF Handle
<1> QED BY <1>7 DEF k

LEMMA MovedHandle == ASSUME NEW m PROVE Handle(MovedFrom, m)
<1> DEFINE k == MovedFrom
<1>1. /\ k.storage = nullptr /\ k.offset = 0 /\ k.sizes = <<>> /\ k.strides = <<>>
      /\ k.numel = 0 /\ k.contiguous = TRUE /\ k.non_overlapping = TRUE
      /\ {"sizes", "strides", "offset", "derived"} \subseteq DOMAIN k
  BY DEF MovedFrom
<1> HIDE DEF k
<1>2. Strided(k)
  BY <1>1 DEF Strided
<1>3. Shaped(k)
  BY <1>1, <1>2 DEF Shaped
<1>4. ~ (k.storage # nullptr \/ k.numel > 0)
  BY <1>1
<1>5. Within(k, m)
  BY <1>4 DEF Within
<1>6. k.numel \in Nat /\ k.contiguous \in BOOLEAN /\ k.non_overlapping \in BOOLEAN
  <2>1. k.numel \in Nat
    BY <1>1
  <2>2. k.contiguous \in BOOLEAN /\ k.non_overlapping \in BOOLEAN
    BY <1>1, Zenon
  <2> QED BY <2>1, <2>2
<1>7. Handle(k, m)
  BY <1>1, <1>3, <1>4, <1>5, <1>6 DEF Handle
<1> QED BY <1>7 DEF k

(* Packed storage of one's own: what an allocation returns is nobody's.    *)
LEMMA AllocationIs == Fresh # {} => Allocation \in Storages \ DOMAIN memory
<1> SUFFICES ASSUME Fresh # {} PROVE Allocation \in Fresh
  BY DEF Fresh
<1>1. Fresh \in SUBSET Nat
  BY AddressAssumption DEF Fresh
<1>2. \E s \in Fresh : \A t \in Fresh : s <= t
  BY <1>1, Minimum
<1> QED BY <1>2 DEF Allocation

LEMMA PackedHandle ==
  ASSUME NEW h, NEW m, NEW s \in DOMAIN m, s # nullptr, NEW sizes \in Seq(Nat), NEW n \in Nat,
         Holds(m[s], n), ~ReuseMoved => n = Product(sizes)
  PROVE  /\ Handle(recompute(h, Packed(s, sizes)), m)
         /\ Contiguous(Packed(s, sizes))
<1> DEFINE l == Packed(s, sizes)
<1>1. l.storage = s /\ l.offset = 0 /\ l.sizes = sizes /\ l.strides = PackedStrides(sizes)
  BY DEF Packed
<1> HIDE DEF l
<1>2. Strided(l) /\ overlap_extent(l) = numel(l) - 1 /\ numel(l) = Product(sizes)
  BY <1>1, PackedExtent DEF numel
<1>3. Len(m[s]) = n
  BY HoldsLen
<1>4. ~ReuseMoved => l.offset + overlap_extent(l) < Len(m[l.storage])
  BY <1>1, <1>2, <1>3
<1>5. Handle(recompute(h, l), m)
  <2>1. l.offset \in Nat /\ l.storage \in DOMAIN m \cup {nullptr} /\ l.storage # nullptr
    BY <1>1
  <2> QED BY <1>2, <1>4, <2>1, RecomputeHandle
<1>6. is_packed(l)
  BY <1>1, PackedShape DEF is_packed, rank
<1> QED BY <1>5, <1>6 DEF Contiguous, l

LEMMA OwnValid ==
  ASSUME HInv, NEW h \in Owners \cup Views, NEW sizes \in Seq(Nat), NEW values, NEW n \in Nat,
         Holds(values, n), ~ReuseMoved => n = Product(sizes), Own(h, sizes, values)
  PROVE  HInv'
<1> DEFINE s == Allocation
           m == Put(memory, s, values)
           l == recompute(h, Packed(s, sizes))
<1>1. s \in Storages \ DOMAIN memory /\ Become(Put(handles, h, l), m)
  BY AllocationIs DEF Own
<1>2. Valid(handles, memory)
  BY DEF HInv
<1> HIDE DEF s
<1>3. Valid(handles, m)
  BY <1>1, <1>2, AllocateValid
<1>4. Updated(m, memory, s, values)
  BY PutIs
<1> HIDE DEF m
<1>5. s \in DOMAIN m /\ Holds(m[s], n) /\ s # nullptr
  BY <1>1, <1>4, AddressAssumption DEF Updated, nullptr
<1>6. Handle(l, m)
  BY <1>5, PackedHandle
<1> HIDE DEF l
<1>7. Valid(Put(handles, h, l), m)
  BY <1>3, <1>6, PutValid
<1> QED BY <1>1, <1>7, BecomeValid

LEMMA NumberedHolds == ASSUME NEW n \in Nat PROVE Holds(Numbered(n), n)
BY DEF Holds, Numbered

LEMMA GatherHolds ==
  ASSUME NEW l, l.numel \in Nat
  PROVE  Holds(gather_logical(l), l.numel)
<1> DEFINE offsets == IF l.contiguous THEN [k \in 1 .. l.numel |-> k - 1]
                      ELSE IF IsTranspose(l) THEN TransposedOffsets(l) ELSE GatherOffsets(l)
           value(k) == memory[l.storage][l.offset + offsets[k] + 1]
<1>1. gather_logical(l) = [k \in 1 .. l.numel |-> value(k)]
  BY DEF gather_logical
<1> HIDE DEF value
<1> QED BY <1>1 DEF Holds

LEMMA WriteValid ==
  ASSUME HInv, NEW l, NEW values, Write(l, values), UNCHANGED handles
  PROVE  HInv'
<1> DEFINE at(k) == {i \in 1 .. l.numel : Cell(l, i - 1) = k}
           new(k) == IF at(k) = {} THEN memory[l.storage][k]
                     ELSE values[CHOOSE i \in at(k) : \A j \in at(k) : j <= i]
           written == [k \in DOMAIN memory[l.storage] |-> new(k)]
<1>1. memory' = [memory EXCEPT ![l.storage] = written]
  BY DEF Write
<1> HIDE DEF new
<1>2. ASSUME NEW s \in DOMAIN memory, NEW n \in Nat, Holds(memory[s], n) PROVE Holds(memory'[s], n)
  <2>1. CASE s = l.storage
    <3>1. DOMAIN memory[s] = 1 .. n
      BY <1>2 DEF Holds
    <3>2. memory'[s] = [k \in 1 .. n |-> new(k)]
      BY <1>1, <2>1, <3>1
    <3> QED BY <3>2 DEF Holds
  <2>2. CASE s # l.storage
    <3> HIDE DEF written
    <3> QED BY <1>1, <1>2, <2>2
  <2> QED BY <2>1, <2>2
<1>3. DOMAIN memory' = DOMAIN memory
  <2> HIDE DEF written
  <2> QED BY <1>1
<1>4. Valid(handles, memory)
  BY DEF HInv
<1>5. Stored(memory')
  <2>1. \A s \in DOMAIN memory : \E n \in Nat : Holds(memory'[s], n)
    BY <1>2, <1>4 DEF Valid, Stored
  <2> QED BY <1>3, <1>4, <2>1 DEF Valid, Stored
<1>6. ASSUME NEW s \in DOMAIN memory PROVE Len(memory'[s]) = Len(memory[s])
  <2>1. PICK n \in Nat : Holds(memory[s], n)
    BY <1>4 DEF Valid, Stored
  <2>2. Holds(memory'[s], n)
    BY <1>2, <2>1
  <2> QED BY <2>1, <2>2, HoldsLen
<1>7. ASSUME NEW h \in DOMAIN handles PROVE Handle(handles[h], memory')
  <2>1. Handle(handles[h], memory)
    BY <1>4 DEF Valid
  <2>2. Within(handles[h], memory) => Within(handles[h], memory')
    BY <1>6, <2>1 DEF Handle, Within
  <2> QED BY <1>3, <2>1, <2>2 DEF Handle
<1>8. Valid(handles, memory')
  BY <1>4, <1>5, <1>7 DEF Valid
<1> QED BY <1>8 DEF HInv

(* A usable object has storage, or the program may use moved-from ones.    *)
LEMMA UsableIs ==
  ASSUME HInv, NEW x \in Usable
  PROVE  /\ x \in DOMAIN handles /\ x \in Owners \cup Views
         /\ Handle(handles[x], memory)
         /\ handles[x].sizes \in Seq(Nat) /\ handles[x].numel \in Nat
         /\ ~ReuseMoved => handles[x].storage # nullptr /\ handles[x].numel = Product(handles[x].sizes)
<1>1. x \in DOMAIN handles /\ (~ReuseMoved => handles[x].storage # nullptr)
  BY DEF Usable, Moved
<1>2. x \in Owners \cup Views /\ Handle(handles[x], memory)
  BY <1>1 DEF HInv, Valid
<1>3. handles[x].sizes \in Seq(Nat) /\ handles[x].numel \in Nat
  BY <1>2 DEF Handle, Shaped, Strided
<1>4. ~ReuseMoved => handles[x].numel = Product(handles[x].sizes)
  BY <1>1, <1>2 DEF Handle, numel
<1> QED BY <1>1, <1>2, <1>3, <1>4

LEMMA ConstructValid == ASSUME HInv, NEW o \in Owners, Construct(o) PROVE HInv'
<1>1. PICK dims \in Shapes : Own(o, dims, Numbered(Product(dims)))
  BY DEF Construct
<1>2. dims \in Seq(Nat) /\ o \in Owners \cup Views
  BY GeometryAssumption
<1>3. Product(dims) \in Nat
  BY <1>2, PackedShape
<1>4. Holds(Numbered(Product(dims)), Product(dims))
  BY <1>3, NumberedHolds
<1> QED BY <1>1, <1>2, <1>3, <1>4, OwnValid

(* A copy owns the values of what it copies.                               *)
LEMMA GatherValid ==
  ASSUME HInv, NEW h \in Owners \cup Views, NEW x \in Usable, NEW sizes \in Seq(Nat),
         ~ReuseMoved => Product(sizes) = handles[x].numel,
         Own(h, sizes, gather_logical(handles[x]))
  PROVE  HInv'
<1> DEFINE n == handles[x].numel
<1>1. n \in Nat
  BY UsableIs
<1>2. Holds(gather_logical(handles[x]), n)
  BY <1>1, GatherHolds
<1> HIDE DEF n
<1>3. ~ReuseMoved => n = Product(sizes)
  BY DEF n
<1> QED BY <1>1, <1>2, <1>3, OwnValid

LEMMA CopyOwnerValid ==
  ASSUME HInv, NEW o \in Owners, NEW x \in Usable, CopyOwner(o, x)
  PROVE  HInv'
<1>1. Own(o, handles[x].sizes, gather_logical(handles[x])) /\ o \in Owners \cup Views
  BY DEF CopyOwner
<1>2. handles[x].sizes \in Seq(Nat) /\ (~ReuseMoved => Product(handles[x].sizes) = handles[x].numel)
  BY UsableIs
<1> QED BY <1>1, <1>2, GatherValid

LEMMA ReshapeValid ==
  ASSUME HInv, NEW v \in Views, NEW x \in Usable, reshape(v, x)
  PROVE  HInv'
<1>1. PICK dims \in SameSize(handles[x]) : Own(v, dims, gather_logical(handles[x]))
  BY DEF reshape
<1>2. v \in Owners \cup Views /\ dims \in Seq(Nat) /\ Product(dims) = handles[x].numel
  BY GeometryAssumption DEF SameSize
<1> QED BY <1>1, <1>2, GatherValid

LEMMA ContiguousValid ==
  ASSUME HInv, NEW v \in Views, NEW x \in Usable, contiguous(v, x)
  PROVE  HInv'
<1>1. Own(v, handles[x].sizes, gather_logical(handles[x])) /\ v \in Owners \cup Views
  BY DEF contiguous
<1>2. handles[x].sizes \in Seq(Nat) /\ (~ReuseMoved => Product(handles[x].sizes) = handles[x].numel)
  BY UsableIs
<1> QED BY <1>1, <1>2, GatherValid

LEMMA MoveFromValid ==
  ASSUME HInv, NEW h \in Owners \cup Views, NEW x \in Usable, MoveFrom(h, x)
  PROVE  HInv'
<1>1. Valid(handles, memory)
  BY DEF HInv
<1>2. Valid(Put(handles, h, handles[x]), memory)
  BY <1>1, UsableIs, PutValid
<1>3. Valid(Put(Put(handles, h, handles[x]), x, MovedFrom), memory)
  BY <1>2, UsableIs, MovedHandle, PutValid
<1> QED BY <1>3, BecomeValid DEF MoveFrom

\* Views of a layout that the geometry check has accepted.
LEMMA AcceptedValid ==
  ASSUME HInv, NEW v \in Views, NEW l, Strided(l), l.offset \in Nat,
         l.storage \in DOMAIN memory \cup {nullptr}, check_view_geometry(l),
         Become(Put(handles, v, recompute(v, l)), memory)
  PROVE  HInv'
<1>1. Valid(handles, memory) /\ v \in Owners \cup Views
  BY DEF HInv
<1>2. numel(l) > 0 => l.storage # nullptr /\ l.offset + overlap_extent(l) < Len(memory[l.storage])
  BY DEF check_view_geometry, StorageSize
<1>3. Handle(recompute(v, l), memory)
  BY <1>2, RecomputeHandle
<1>4. Valid(Put(handles, v, recompute(v, l)), memory)
  BY <1>1, <1>3, PutValid
<1> QED BY <1>4, BecomeValid

LEMMA DeriveValid ==
  ASSUME HInv, NEW v \in Views, NEW x \in Usable, Derive(v, x)
  PROVE  HInv'
<1>1. PICK l \in Derived(handles[x]) :
        check_view_geometry(l) /\ Become(Put(handles, v, recompute(v, l)), memory)
  BY DEF Derive
<1>2. Handle(handles[x], memory)
  BY UsableIs
<1>3. Reshaped(l, handles[x])
  BY <1>2, DerivedShape DEF Handle
<1>4. Strided(l) /\ l.offset \in Nat /\ l.storage \in DOMAIN memory \cup {nullptr}
  BY <1>2, <1>3 DEF Reshaped, Handle
<1> QED BY <1>1, <1>4, AcceptedValid

LEMMA ShareValid ==
  ASSUME HInv, NEW v \in Views, NEW x \in Usable, Share(v, x)
  PROVE  HInv'
<1> DEFINE l == handles[x]
<1>1. Valid(handles, memory) /\ v \in Owners \cup Views
  BY DEF HInv
<1>2. Handle(l, memory)
  BY UsableIs
<1>3. ~ReuseMoved => l.storage # nullptr /\ l.numel = numel(l)
  BY UsableIs DEF numel
<1> HIDE DEF l
<1>4. Strided(l) /\ l.offset \in Nat /\ l.storage \in DOMAIN memory \cup {nullptr}
  BY <1>2 DEF Handle, Shaped
<1>5. ~ReuseMoved /\ numel(l) > 0
        => l.storage # nullptr /\ l.offset + overlap_extent(l) < Len(memory[l.storage])
  BY <1>2, <1>3 DEF Handle, Within
<1>6. Handle(recompute(v, l), memory)
  BY <1>4, <1>5, RecomputeHandle
<1>7. Valid(Put(handles, v, recompute(v, l)), memory)
  BY <1>1, <1>6, PutValid
<1> QED BY <1>7, BecomeValid DEF Share, l

LEMMA BorrowValid == ASSUME HInv, NEW v \in Views, Borrow(v) PROVE HInv'
<1> DEFINE layout(e) == [storage |-> Buffer, offset |-> e.offset, sizes |-> e.sizes,
                         strides |-> e.strides, derived |-> FALSE]
<1>1. PICK e \in Explicit : /\ check_view_geometry(layout(e))
                            /\ Become(Put(handles, v, recompute(v, layout(e))), memory)
  BY DEF Borrow
<1> DEFINE l == layout(e)
<1>2. l.storage = Buffer /\ l.offset = e.offset /\ l.sizes = e.sizes /\ l.strides = e.strides
  OBVIOUS
<1> HIDE DEF l
<1>3. Strided(l) /\ l.offset \in Nat
  BY <1>2, GeometryAssumption DEF Strided
<1>4. l.storage \in DOMAIN memory \cup {nullptr}
  BY <1>2 DEF HInv, Valid, Stored
<1>5. check_view_geometry(l) /\ Become(Put(handles, v, recompute(v, l)), memory)
  BY <1>1 DEF l
<1> QED BY <1>3, <1>4, <1>5, AcceptedValid

LEMMA DestroyValid == ASSUME HInv, NEW h \in DOMAIN handles, Destroy(h) PROVE HInv'
<1> DEFINE hs == [x \in DOMAIN handles \ {h} |-> handles[x]]
<1>1. DOMAIN hs \subseteq DOMAIN handles /\ \A x \in DOMAIN hs : hs[x] = handles[x]
  OBVIOUS
<1>2. Become(hs, memory)
  BY DEF Destroy
<1> HIDE DEF hs
<1>3. Valid(hs, memory)
  BY <1>1 DEF HInv, Valid
<1> QED BY <1>2, <1>3, BecomeValid

LEMMA InitValid == Init => HInv
<1> SUFFICES ASSUME Init PROVE HInv
  OBVIOUS
<1>1. DOMAIN memory = {Buffer} /\ memory[Buffer] = Numbered(BufferSize) /\ BufferSize \in Nat
  BY AddressAssumption DEF Init
<1>2. Stored(memory)
  BY <1>1, NumberedHolds DEF Stored
<1>3. DOMAIN handles = {}
  BY DEF Init
<1> QED BY <1>2, <1>3 DEF HInv, Valid

LEMMA NextValid == HInv /\ [Next]_vars => HInv'
<1> SUFFICES ASSUME HInv, [Next]_vars PROVE HInv'
  OBVIOUS
<1>1. ASSUME NEW o \in Owners, Construct(o) PROVE HInv'
  BY <1>1, ConstructValid
<1>2. ASSUME NEW o \in Owners, NEW x \in Usable, CopyOwner(o, x) PROVE HInv'
  BY <1>2, CopyOwnerValid
<1>3. ASSUME NEW v \in Views, NEW x \in Usable, Share(v, x) PROVE HInv'
  BY <1>3, ShareValid
<1>4. ASSUME NEW v \in Views, NEW x \in Usable, Derive(v, x) PROVE HInv'
  BY <1>4, DeriveValid
<1>5. ASSUME NEW v \in Views, NEW x \in Usable, reshape(v, x) PROVE HInv'
  BY <1>5, ReshapeValid
<1>6. ASSUME NEW v \in Views, NEW x \in Usable, contiguous(v, x) PROVE HInv'
  BY <1>6, ContiguousValid
<1>7. ASSUME NEW v \in Views, Borrow(v) PROVE HInv'
  BY <1>7, BorrowValid
<1>8. ASSUME NEW h \in Owners \cup (Views \ DOMAIN handles), NEW x \in Usable, MoveFrom(h, x)
      PROVE  HInv'
  <2>1. h \in Owners \cup Views
    OBVIOUS
  <2> QED BY <1>8, <2>1, MoveFromValid
<1>9. ASSUME NEW h \in Usable, Fill(h) PROVE HInv'
  <2>1. UNCHANGED handles
    BY <1>9 DEF Fill
  <2>2. Write(handles[h], [i \in 1 .. handles[h].numel |-> 0])
    BY <1>9 DEF Fill
  <2> QED BY <2>1, <2>2, WriteValid
<1>10. ASSUME NEW h \in Usable, NEW x \in Usable, Assign(h, x) PROVE HInv'
  <2>1. UNCHANGED handles
    BY <1>10 DEF Assign
  <2>2. Write(handles[h], [i \in 1 .. handles[h].numel |-> memory[handles[x].storage][Cell(handles[x], i - 1)]])
    BY <1>10 DEF Assign
  <2> QED BY <2>1, <2>2, WriteValid
<1>11. ASSUME NEW h \in DOMAIN handles, Destroy(h) PROVE HInv'
  BY <1>11, DestroyValid
<1>12. CASE UNCHANGED vars
  BY <1>12 DEF vars, HInv
<1> QED BY <1>1, <1>2, <1>3, <1>4, <1>5, <1>6, <1>7, <1>8, <1>9, <1>10, <1>11, <1>12 DEF Next

(* No object's storage has been freed, and its members have their types.   *)
THEOREM HandlesTyping == Spec => []TypeOK
<1>1. HInv => TypeOK
  <2> SUFFICES ASSUME HInv PROVE TypeOK
    OBVIOUS
  <2>1. DOMAIN handles \subseteq Owners \cup Views /\ DOMAIN memory \subseteq Storages \cup {Buffer}
    BY DEF HInv, Valid, Stored
  <2>2. ASSUME NEW h \in DOMAIN handles
        PROVE  /\ handles[h].storage \in DOMAIN memory \cup {nullptr}
               /\ handles[h].offset \in Nat /\ handles[h].numel \in Nat
               /\ {handles[h].contiguous, handles[h].non_overlapping} \subseteq BOOLEAN
               /\ Len(handles[h].sizes) = Len(handles[h].strides)
    <3>1. Handle(handles[h], memory)
      BY DEF HInv, Valid
    <3>2. Len(handles[h].sizes) = Len(handles[h].strides)
      BY <3>1 DEF Handle, Shaped, Strided
    <3>3. {handles[h].contiguous, handles[h].non_overlapping} \subseteq BOOLEAN
      BY <3>1 DEF Handle
    <3> QED BY <3>1, <3>2, <3>3 DEF Handle, Shaped
  <2> QED BY <2>1, <2>2 DEF TypeOK
<1> QED BY <1>1, InitValid, NextValid, PTL DEF Spec

(* In a program that does not use moved-from objects, no element of any    *)
(* tensor or view lies outside the storage that the object retains,        *)
(* whatever calls made it, for any shapes, strides and number of objects.  *)
THEOREM HandlesInBounds ==
  ASSUME ~ReuseMoved
  PROVE  Spec => []InBounds
<1>1. HInv => InBounds
  <2> SUFFICES ASSUME HInv, NEW h \in DOMAIN handles, NEW i \in 0 .. handles[h].numel - 1
               PROVE  handles[h].offset + ElementOffset(handles[h], i)
                        \in 0 .. StorageSize(handles[h]) - 1
    BY DEF InBounds
  <2> DEFINE l == handles[h]
  <2>1. Handle(l, memory) /\ Stored(memory)
    BY DEF HInv, Valid
  <2> HIDE DEF l
  <2>2. l.numel \in Nat /\ l.offset \in Nat /\ Strided(l)
    BY <2>1 DEF Handle, Shaped
  <2>3. l.numel > 0 /\ i \in Nat
    BY <2>2 DEF l
  <2>4. numel(l) > 0 /\ l.storage # nullptr /\ l.offset + overlap_extent(l) < Len(memory[l.storage])
    BY <2>1, <2>3 DEF Handle, Within
  <2>5. /\ ElementOffset(l, i) \in Nat /\ overlap_extent(l) \in Nat
        /\ ElementOffset(l, i) <= overlap_extent(l)
    BY <2>2, <2>3, <2>4, ElementInExtent
  <2>6. Len(memory[l.storage]) \in Nat
    <3>1. PICK n \in Nat : Holds(memory[l.storage], n)
      BY <2>1, <2>4 DEF Handle, Stored
    <3> QED BY <3>1, HoldsLen
  <2>7. StorageSize(l) = Len(memory[l.storage])
    BY <2>4 DEF StorageSize
  <2>8. l.offset + ElementOffset(l, i) \in 0 .. StorageSize(l) - 1
    BY <2>2, <2>4, <2>5, <2>6, <2>7, SMTT(60)
  <2> QED BY <2>8 DEF l
<1> QED BY <1>1, InitValid, NextValid, PTL DEF Spec

----------------------------------------------------------------------------
(* Owners.                                                                 *)
PackedOwner(l) == l.offset = 0 /\ l.strides = PackedStrides(l.sizes) /\ l.contiguous

LEMMA PackedOwnersIs ==
  ASSUME NEW hs,
         \A o \in Owners \cap DOMAIN hs : PackedOwner(hs[o]),
         \A o, x \in Owners \cap DOMAIN hs :
           x # o /\ hs[o].storage # nullptr => hs[x].storage # hs[o].storage
  PROVE  PackedOwners(hs)
BY DEF PackedOwners, PackedOwner

LEMMA OwnedStorage ==
  ASSUME NEW hs, PackedOwners(hs), NEW o \in Owners \cap DOMAIN hs
  PROVE  /\ PackedOwner(hs[o])
         /\ \A x \in Owners \cap DOMAIN hs :
              x # o /\ hs[o].storage # nullptr => hs[x].storage # hs[o].storage
BY DEF PackedOwners, PackedOwner

LEMMA OwnPacked ==
  ASSUME HInv, OInv, NEW h \in Owners \cup Views, NEW sizes \in Seq(Nat), NEW values,
         NEW n \in Nat, Holds(values, n), ~ReuseMoved => n = Product(sizes), Own(h, sizes, values)
  PROVE  OInv'
<1> DEFINE s == Allocation
           p == Packed(s, sizes)
           l == recompute(h, p)
           hs == Put(handles, h, l)
<1>1. s \in Storages \ DOMAIN memory /\ handles' = hs
  BY AllocationIs DEF Own, Become
<1>2. l.storage = s /\ l.offset = 0 /\ l.sizes = sizes /\ l.strides = PackedStrides(sizes)
  BY DEF recompute, Packed
<1>3. l.contiguous
  <2>1. /\ p.sizes = sizes /\ p.strides = PackedStrides(sizes)
    BY DEF Packed
  <2>2. is_packed(p)
    BY <2>1, PackedShape DEF is_packed, rank
  <2> HIDE DEF p
  <2> QED BY <2>2 DEF recompute, Contiguous
<1> HIDE DEF s, l
<1>4. PackedOwner(l)
  BY <1>2, <1>3 DEF PackedOwner
<1>5. Updated(hs, handles, h, l)
  BY PutIs
<1> HIDE DEF hs
<1>6. \A x \in DOMAIN handles : handles[x].storage # s
  <2>1. \A x \in DOMAIN handles : handles[x].storage \in DOMAIN memory \cup {nullptr}
    BY DEF HInv, Valid, Handle
  <2>2. s # nullptr
    BY <1>1, AddressAssumption DEF nullptr
  <2> QED BY <1>1, <2>1, <2>2
<1>7. ASSUME NEW o \in Owners \cap DOMAIN hs PROVE PackedOwner(hs[o])
  <2>1. CASE o = h
    BY <1>4, <1>5, <2>1 DEF Updated
  <2>2. CASE o # h
    <3>1. o \in Owners \cap DOMAIN handles /\ hs[o] = handles[o]
      BY <1>5, <2>2 DEF Updated
    <3> QED BY <3>1, OwnedStorage DEF OInv
  <2> QED BY <2>1, <2>2
<1>8. ASSUME NEW o \in Owners \cap DOMAIN hs, NEW x \in Owners \cap DOMAIN hs, x # o,
             hs[o].storage # nullptr
      PROVE  hs[x].storage # hs[o].storage
  <2>1. CASE o = h
    <3>1. hs[o].storage = s /\ x \in DOMAIN handles /\ hs[x] = handles[x]
      BY <1>2, <1>5, <1>8, <2>1 DEF Updated
    <3> QED BY <1>6, <3>1
  <2>2. CASE x = h
    <3>1. hs[x].storage = s /\ o \in DOMAIN handles /\ hs[o] = handles[o]
      BY <1>2, <1>5, <1>8, <2>2 DEF Updated
    <3> QED BY <1>6, <3>1
  <2>3. CASE o # h /\ x # h
    <3>1. /\ o \in Owners \cap DOMAIN handles /\ hs[o] = handles[o]
          /\ x \in Owners \cap DOMAIN handles /\ hs[x] = handles[x]
      BY <1>5, <2>3 DEF Updated
    <3> QED BY <1>8, <3>1, OwnedStorage DEF OInv
  <2> QED BY <2>1, <2>2, <2>3
<1>9. PackedOwners(hs)
  BY <1>7, <1>8, PackedOwnersIs
<1> QED BY <1>1, <1>9 DEF OInv

LEMMA ViewKeepsOwners ==
  ASSUME OInv, NEW v \in Views, NEW l, handles' = Put(handles, v, l)
  PROVE  OInv'
<1>1. Updated(handles', handles, v, l)
  BY PutIs
<1>2. v \notin Owners
  BY HandlesAssumption
<1>3. \A o \in Owners \cap DOMAIN handles' : o \in Owners \cap DOMAIN handles /\ handles'[o] = handles[o]
  BY <1>1, <1>2 DEF Updated
<1>4. \A o \in Owners \cap DOMAIN handles' : PackedOwner(handles'[o])
  BY <1>3, OwnedStorage DEF OInv
<1>5. \A o, x \in Owners \cap DOMAIN handles' :
        x # o /\ handles'[o].storage # nullptr => handles'[x].storage # handles'[o].storage
  BY <1>3, OwnedStorage DEF OInv
<1>6. PackedOwners(handles')
  BY <1>4, <1>5, PackedOwnersIs
<1> QED BY <1>6 DEF OInv

LEMMA MovedPacked == PackedOwner(MovedFrom) /\ MovedFrom.storage = nullptr
<1> DEFINE e == <<>>
<1>0. e \in Seq(Nat) /\ Len(e) = 0
  OBVIOUS
<1>1. PackedStrides(e) = e
  <2>1. PackedStrides(e) \in Seq(Nat) /\ Len(PackedStrides(e)) = 0
    <3> HIDE DEF e
    <3> QED BY <1>0, PackedShape
  <2> QED BY <2>1
<1> QED BY <1>1 DEF MovedFrom, PackedOwner

LEMMA MoveKeepsOwners ==
  ASSUME OInv, NEW h, NEW x \in DOMAIN handles, h # x, SameKind(h, x), MoveFrom(h, x)
  PROVE  OInv'
<1> DEFINE a == Put(handles, h, handles[x])
           b == Put(a, x, MovedFrom)
<1>1. handles' = b
  BY DEF MoveFrom, Become
<1>2. Updated(a, handles, h, handles[x])
  BY PutIs
<1> HIDE DEF a
<1>3. Updated(b, a, x, MovedFrom)
  BY PutIs
<1> HIDE DEF b
<1>4. b[x] = MovedFrom /\ b[h] = handles[x]
  BY <1>2, <1>3 DEF Updated
<1>5. \A o \in DOMAIN b : o # x /\ o # h => o \in DOMAIN handles /\ b[o] = handles[o]
  BY <1>2, <1>3 DEF Updated
<1>6. h \in Owners => x \in Owners
  BY HandlesAssumption DEF SameKind
<1>7. ASSUME NEW o \in Owners \cap DOMAIN b PROVE PackedOwner(b[o])
  <2>1. CASE o = x
    BY <1>4, <2>1, MovedPacked
  <2>2. CASE o = h
    <3>1. x \in Owners \cap DOMAIN handles /\ b[o] = handles[x]
      BY <1>4, <1>6, <2>2
    <3> QED BY <3>1, OwnedStorage DEF OInv
  <2>3. CASE o # x /\ o # h
    <3>1. o \in Owners \cap DOMAIN handles /\ b[o] = handles[o]
      BY <1>5, <2>3
    <3> QED BY <3>1, OwnedStorage DEF OInv
  <2> QED BY <2>1, <2>2, <2>3
<1>8. ASSUME NEW o \in Owners \cap DOMAIN b, NEW y \in Owners \cap DOMAIN b, y # o,
             b[o].storage # nullptr
      PROVE  b[y].storage # b[o].storage
  <2>1. o # x
    BY <1>4, <1>8, MovedPacked
  <2>2. CASE y = x
    BY <1>4, <1>8, <2>2, MovedPacked
  <2>3. CASE y # x /\ o = h
    <3>1. /\ x \in Owners \cap DOMAIN handles /\ b[o] = handles[x]
          /\ y \in Owners \cap DOMAIN handles /\ b[y] = handles[y]
      BY <1>4, <1>5, <1>6, <1>8, <2>3
    <3> QED BY <1>8, <2>3, <3>1, OwnedStorage DEF OInv
  <2>4. CASE y # x /\ y = h
    <3>1. /\ x \in Owners \cap DOMAIN handles /\ b[y] = handles[x]
          /\ o \in Owners \cap DOMAIN handles /\ b[o] = handles[o]
      BY <1>4, <1>5, <1>6, <1>8, <2>1, <2>4
    <3> QED BY <1>8, <2>1, <3>1, OwnedStorage DEF OInv
  <2>5. CASE y # x /\ o # h /\ y # h
    <3>1. /\ y \in Owners \cap DOMAIN handles /\ b[y] = handles[y]
          /\ o \in Owners \cap DOMAIN handles /\ b[o] = handles[o]
      BY <1>5, <2>1, <2>5
    <3> QED BY <1>8, <3>1, OwnedStorage DEF OInv
  <2> QED BY <2>2, <2>3, <2>4, <2>5
<1>9. PackedOwners(b)
  BY <1>7, <1>8, PackedOwnersIs
<1> QED BY <1>1, <1>9 DEF OInv

LEMMA DestroyKeepsOwners == ASSUME OInv, NEW h, Destroy(h) PROVE OInv'
<1>1. handles' = [x \in DOMAIN handles \ {h} |-> handles[x]]
  BY DEF Destroy, Become
<1>2. \A o \in Owners \cap DOMAIN handles' : o \in Owners \cap DOMAIN handles /\ handles'[o] = handles[o]
  BY <1>1
<1>3. \A o \in Owners \cap DOMAIN handles' : PackedOwner(handles'[o])
  BY <1>2, OwnedStorage DEF OInv
<1>4. \A o, x \in Owners \cap DOMAIN handles' :
        x # o /\ handles'[o].storage # nullptr => handles'[x].storage # handles'[o].storage
  BY <1>2, OwnedStorage DEF OInv
<1>5. PackedOwners(handles')
  BY <1>3, <1>4, PackedOwnersIs
<1> QED BY <1>5 DEF OInv

LEMMA GatherPacked ==
  ASSUME HInv, OInv, NEW h \in Owners \cup Views, NEW x \in Usable, NEW sizes \in Seq(Nat),
         ~ReuseMoved => Product(sizes) = handles[x].numel,
         Own(h, sizes, gather_logical(handles[x]))
  PROVE  OInv'
<1> DEFINE n == handles[x].numel
<1>1. n \in Nat
  BY UsableIs
<1>2. Holds(gather_logical(handles[x]), n)
  BY <1>1, GatherHolds
<1> HIDE DEF n
<1>3. ~ReuseMoved => n = Product(sizes)
  BY DEF n
<1> QED BY <1>1, <1>2, <1>3, OwnPacked

LEMMA NextPacked == HInv /\ OInv /\ [Next]_vars => OInv'
<1> SUFFICES ASSUME HInv, OInv, [Next]_vars PROVE OInv'
  OBVIOUS
<1>0. \A x \in Usable : /\ x \in DOMAIN handles /\ handles[x].sizes \in Seq(Nat)
                        /\ ~ReuseMoved => Product(handles[x].sizes) = handles[x].numel
  BY UsableIs
<1>1. ASSUME NEW o \in Owners, Construct(o) PROVE OInv'
  <2>1. PICK dims \in Shapes : Own(o, dims, Numbered(Product(dims)))
    BY <1>1 DEF Construct
  <2>2. dims \in Seq(Nat) /\ o \in Owners \cup Views
    BY GeometryAssumption
  <2>3. Product(dims) \in Nat
    BY <2>2, PackedShape
  <2>4. Holds(Numbered(Product(dims)), Product(dims))
    BY <2>3, NumberedHolds
  <2> QED BY <2>1, <2>2, <2>3, <2>4, OwnPacked
<1>2. ASSUME NEW o \in Owners, NEW x \in Usable, CopyOwner(o, x) PROVE OInv'
  <2>1. Own(o, handles[x].sizes, gather_logical(handles[x])) /\ o \in Owners \cup Views
    BY <1>2 DEF CopyOwner
  <2> QED BY <1>0, <2>1, GatherPacked
<1>3. ASSUME NEW v \in Views, NEW x \in Usable, Share(v, x) PROVE OInv'
  <2>1. handles' = Put(handles, v, recompute(v, handles[x]))
    BY <1>3 DEF Share, Become
  <2> QED BY <2>1, ViewKeepsOwners
<1>4. ASSUME NEW v \in Views, NEW x \in Usable, Derive(v, x) PROVE OInv'
  <2>1. PICK l \in Derived(handles[x]) : handles' = Put(handles, v, recompute(v, l))
    BY <1>4 DEF Derive, Become
  <2> QED BY <2>1, ViewKeepsOwners
<1>5. ASSUME NEW v \in Views, NEW x \in Usable, reshape(v, x) PROVE OInv'
  <2>1. PICK dims \in SameSize(handles[x]) : Own(v, dims, gather_logical(handles[x]))
    BY <1>5 DEF reshape
  <2>2. v \in Owners \cup Views /\ dims \in Seq(Nat) /\ Product(dims) = handles[x].numel
    BY GeometryAssumption DEF SameSize
  <2> QED BY <2>1, <2>2, GatherPacked
<1>6. ASSUME NEW v \in Views, NEW x \in Usable, contiguous(v, x) PROVE OInv'
  <2>1. Own(v, handles[x].sizes, gather_logical(handles[x])) /\ v \in Owners \cup Views
    BY <1>6 DEF contiguous
  <2> QED BY <1>0, <2>1, GatherPacked
<1>7. ASSUME NEW v \in Views, Borrow(v) PROVE OInv'
  <2>1. \E l : handles' = Put(handles, v, recompute(v, l))
    BY <1>7 DEF Borrow, Become
  <2> QED BY <2>1, ViewKeepsOwners
<1>8. ASSUME NEW h, NEW x \in Usable \ {h}, SameKind(h, x), MoveFrom(h, x) PROVE OInv'
  BY <1>0, <1>8, MoveKeepsOwners
<1>9. ASSUME UNCHANGED handles PROVE OInv'
  BY <1>9 DEF OInv
<1>10. ASSUME NEW h \in DOMAIN handles, Destroy(h) PROVE OInv'
  BY <1>10, DestroyKeepsOwners
<1>11. (\E h \in Usable : Fill(h) \/ \E x \in Usable : Assign(h, x)) \/ UNCHANGED vars
         => UNCHANGED handles
  BY DEF Fill, Assign, vars
<1> QED BY <1>1, <1>2, <1>3, <1>4, <1>5, <1>6, <1>7, <1>8, <1>9, <1>10, <1>11 DEF Next

(* "Owners always use packed C-order storage at offset zero", and no two   *)
(* owners ever hold the same storage, even in a program that goes on using *)
(* objects it has moved from.                                              *)
THEOREM HandlesOwners == Spec => []OwnersPacked
<1>1. Init => HInv /\ OInv
  <2>1. Init => OInv
    BY DEF Init, OInv, PackedOwners
  <2> QED BY <2>1, InitValid
<1>2. OInv => OwnersPacked
  <2> SUFFICES ASSUME OInv, NEW o \in Owners \cap DOMAIN handles
               PROVE  /\ handles[o].offset = 0 /\ handles[o].contiguous
                      /\ handles[o].strides = PackedStrides(handles[o].sizes)
                      /\ \A x \in Owners \cap DOMAIN handles :
                           x # o /\ ~Moved(o) => handles[x].storage # handles[o].storage
    BY DEF OwnersPacked
  <2> QED BY OwnedStorage DEF OInv, PackedOwner, Moved
<1>3. HInv /\ OInv /\ [Next]_vars => HInv' /\ OInv'
  BY NextValid, NextPacked
<1> QED BY <1>1, <1>2, <1>3, PTL DEF Spec

----------------------------------------------------------------------------
(* The cached flags.                                                       *)
\* A layout whose flag says that it does not overlap has a reason not to.
Spread(l) == l.non_overlapping /\ l.numel > 0 => is_non_overlapping(l) \/ is_packed(l)
AllSpread(hs) == \A h \in DOMAIN hs : Spread(hs[h])
CInv == AllSpread(handles)

LEMMA SameOverlap ==
  ASSUME NEW k, NEW l, k.sizes = l.sizes, k.strides = l.strides
  PROVE  is_packed(k) = is_packed(l) /\ is_non_overlapping(k) = is_non_overlapping(l)
<1>1. numel(k) = numel(l) /\ rank(k) = rank(l)
  BY DEF numel, rank
<1>2. \A d \in 1 .. rank(l) : Inside(k, d) = Inside(l, d)
  BY <1>1 DEF Inside, Axes
<1>3. \A d \in 1 .. rank(l) : Extent(k, d) = Extent(l, d)
  BY <1>1, <1>2 DEF Extent
<1>4. is_packed(k) = is_packed(l)
  BY <1>1 DEF is_packed
<1>5. is_non_overlapping(k) = is_non_overlapping(l)
  BY <1>1, <1>3 DEF is_non_overlapping
<1> QED BY <1>4, <1>5

LEMMA RecomputeSpread ==
  ASSUME NEW h, NEW l, h \in Views \/ is_packed(l)
  PROVE  Spread(recompute(h, l))
<1> DEFINE k == recompute(h, l)
<1>1. /\ k.sizes = l.sizes /\ k.strides = l.strides
      /\ k.non_overlapping = (h \in Views => is_non_overlapping(l))
  BY DEF recompute
<1> HIDE DEF k
<1>2. is_packed(k) = is_packed(l) /\ is_non_overlapping(k) = is_non_overlapping(l)
  BY <1>1, SameOverlap
<1>3. k.non_overlapping => is_non_overlapping(k) \/ is_packed(k)
  BY <1>1, <1>2, Zenon
<1> QED BY <1>3 DEF Spread, k

LEMMA PutSpread ==
  ASSUME NEW hs, AllSpread(hs), NEW h, NEW l, Spread(l)
  PROVE  AllSpread(Put(hs, h, l))
<1> DEFINE a == Put(hs, h, l)
<1>1. Updated(a, hs, h, l)
  BY PutIs
<1> HIDE DEF a
<1>2. ASSUME NEW x \in DOMAIN a PROVE Spread(a[x])
  <2>1. CASE x = h
    BY <1>1, <2>1 DEF Updated
  <2>2. CASE x # h
    <3>1. x \in DOMAIN hs /\ a[x] = hs[x]
      BY <1>1, <2>2 DEF Updated
    <3> QED BY <3>1 DEF AllSpread
  <2> QED BY <2>1, <2>2
<1> QED BY <1>2 DEF AllSpread, a

LEMMA NextSpread == CInv /\ HInv /\ [Next]_vars => CInv'
<1> SUFFICES ASSUME CInv, HInv, [Next]_vars PROVE CInv'
  OBVIOUS
<1>0. ASSUME NEW h, NEW l, Spread(l), handles' = Put(handles, h, l) PROVE CInv'
  BY <1>0, PutSpread DEF CInv
<1>1. ASSUME NEW h, NEW sizes \in Seq(Nat), NEW values, Own(h, sizes, values) PROVE CInv'
  <2> DEFINE p == Packed(Allocation, sizes)
  <2>1. p.sizes = sizes /\ p.strides = PackedStrides(sizes)
    BY DEF Packed
  <2>2. is_packed(p)
    BY <2>1, PackedShape DEF is_packed, rank
  <2>3. handles' = Put(handles, h, recompute(h, p))
    BY <1>1 DEF Own, Become
  <2> HIDE DEF p
  <2> QED BY <1>0, <2>2, <2>3, RecomputeSpread
<1>2. ASSUME NEW v \in Views, NEW l, handles' = Put(handles, v, recompute(v, l)) PROVE CInv'
  BY <1>0, <1>2, RecomputeSpread
<1>3. \A x \in Usable : x \in DOMAIN handles /\ handles[x].sizes \in Seq(Nat) /\ Spread(handles[x])
  BY UsableIs DEF CInv, AllSpread
<1>4. ASSUME NEW o \in Owners, Construct(o) PROVE CInv'
  <2>1. PICK dims \in Shapes : Own(o, dims, Numbered(Product(dims)))
    BY <1>4 DEF Construct
  <2>2. dims \in Seq(Nat)
    BY GeometryAssumption
  <2> QED BY <1>1, <2>1, <2>2
<1>5. ASSUME NEW o \in Owners, NEW x \in Usable, CopyOwner(o, x) PROVE CInv'
  BY <1>1, <1>3, <1>5 DEF CopyOwner
<1>6. ASSUME NEW v \in Views, NEW x \in Usable, Share(v, x) PROVE CInv'
  BY <1>2, <1>6 DEF Share, Become
<1>7. ASSUME NEW v \in Views, NEW x \in Usable, Derive(v, x) PROVE CInv'
  <2>1. PICK l \in Derived(handles[x]) : handles' = Put(handles, v, recompute(v, l))
    BY <1>7 DEF Derive, Become
  <2> QED BY <1>2, <2>1
<1>8. ASSUME NEW v \in Views, NEW x \in Usable, reshape(v, x) PROVE CInv'
  <2>1. PICK dims \in SameSize(handles[x]) : Own(v, dims, gather_logical(handles[x]))
    BY <1>8 DEF reshape
  <2>2. dims \in Seq(Nat)
    BY GeometryAssumption DEF SameSize
  <2> QED BY <1>1, <2>1, <2>2
<1>9. ASSUME NEW v \in Views, NEW x \in Usable, contiguous(v, x) PROVE CInv'
  BY <1>1, <1>3, <1>9 DEF contiguous
<1>10. ASSUME NEW v \in Views, Borrow(v) PROVE CInv'
  <2>1. \E l : handles' = Put(handles, v, recompute(v, l))
    BY <1>10 DEF Borrow, Become
  <2> QED BY <1>2, <2>1
<1>11. ASSUME NEW h, NEW x \in Usable, MoveFrom(h, x) PROVE CInv'
  <2>1. AllSpread(Put(handles, h, handles[x]))
    BY <1>3, PutSpread DEF CInv
  <2>2. Spread(MovedFrom)
    BY DEF Spread, MovedFrom
  <2>3. AllSpread(Put(Put(handles, h, handles[x]), x, MovedFrom))
    BY <2>1, <2>2, PutSpread
  <2>4. handles' = Put(Put(handles, h, handles[x]), x, MovedFrom)
    BY <1>11 DEF MoveFrom, Become
  <2> QED BY <2>3, <2>4 DEF CInv
<1>12. ASSUME NEW h \in DOMAIN handles, Destroy(h) PROVE CInv'
  <2>1. handles' = [x \in DOMAIN handles \ {h} |-> handles[x]]
    BY <1>12 DEF Destroy, Become
  <2> QED BY <2>1 DEF CInv, AllSpread
<1>13. ASSUME UNCHANGED handles PROVE CInv'
  BY <1>13 DEF CInv
<1>14. (\E h \in Usable : Fill(h) \/ \E x \in Usable : Assign(h, x)) \/ UNCHANGED vars
         => UNCHANGED handles
  BY DEF Fill, Assign, vars
<1> QED BY <1>4, <1>5, <1>6, <1>7, <1>8, <1>9, <1>10, <1>11, <1>12, <1>13, <1>14 DEF Next

(* The flags are cached beside a layout that every call may replace, and   *)
(* they stay true of it: a flat index reaches the element that the strides *)
(* do, and elements of a layout flagged non_overlapping are distinct.      *)
THEOREM HandlesCaches == Spec => []CachesTruthful
<1>1. HInv /\ CInv => CachesTruthful
  <2> SUFFICES ASSUME HInv, CInv, NEW h \in DOMAIN handles
               PROVE  /\ ~Moved(h) => handles[h].numel = numel(handles[h])
                      /\ \A i \in 0 .. handles[h].numel - 1 :
                           Cell(handles[h], i) = handles[h].offset + ElementOffset(handles[h], i) + 1
                      /\ handles[h].non_overlapping /\ handles[h].numel > 0 => Injective(handles[h])
    BY DEF CachesTruthful
  <2> DEFINE l == handles[h]
  <2>1. Handle(l, memory) /\ Spread(l)
    BY DEF HInv, Valid, CInv, AllSpread
  <2>2. ~Moved(h) => l.numel = numel(l)
    BY <2>1 DEF Handle, Moved
  <2> HIDE DEF l
  <2>3. Strided(l) /\ l.numel \in Nat
    BY <2>1 DEF Handle, Shaped
  <2>4. ASSUME NEW i \in 0 .. l.numel - 1 PROVE Cell(l, i) = l.offset + ElementOffset(l, i) + 1
    <3>1. i \in Nat /\ i < l.numel /\ l.numel > 0
      BY <2>3
    <3>2. l.numel = numel(l) /\ l.contiguous = Contiguous(l) /\ l.contiguous \in BOOLEAN
      BY <2>1, <3>1 DEF Handle
    <3>3. CASE l.contiguous
      <4>1. is_packed(l)
        <5>1. Contiguous(l)
          BY <3>2, <3>3, Zenon
        <5>2. numel(l) # 0
          BY <2>3, <3>1, <3>2
        <5> QED BY <5>1, <5>2 DEF Contiguous
      <4>2. ElementOffset(l, i) = i
        BY <2>3, <3>1, <3>2, <4>1, PackedElement
      <4>3. strided_offset(l, l.contiguous, i) = i
        BY <3>3 DEF strided_offset
      <4> QED BY <4>2, <4>3 DEF Cell
    <3>4. CASE ~l.contiguous
      <4>1. l.contiguous = FALSE
        BY <3>2, <3>4
      <4>2. strided_offset(l, l.contiguous, i) = ElementOffset(l, i)
        BY <2>3, <3>1, <3>2, <4>1, StridedOffsetIs
      <4> QED BY <4>2 DEF Cell
    <3> QED BY <3>3, <3>4
  <2>5. l.non_overlapping /\ l.numel > 0 => Injective(l)
    BY <2>1, <2>3, LayoutsInjective DEF Spread
  <2> QED BY <2>2, <2>4, <2>5 DEF l
<1>2. Init => HInv /\ CInv
  <2>1. Init => CInv
    BY DEF Init, CInv, AllSpread
  <2> QED BY <2>1, InitValid
<1>3. HInv /\ CInv /\ [Next]_vars => HInv' /\ CInv'
  BY NextValid, NextSpread
<1> QED BY <1>1, <1>2, <1>3, PTL DEF Spec

----------------------------------------------------------------------------
(* Why views stay writable.  is_non_overlapping looks at the dimensions in *)
(* the order of their strides; the invariant must not, since every view     *)
(* changes that order.  It is that the dimensions can be stacked: each gets *)
(* the offsets that lie inside one of its elements, and of two dimensions   *)
(* that move, one lies inside an element of the other.                      *)
\* n elements t apart, each the start of offsets that reach up to e.
Span == [n : Nat, t : Nat, e : Nat]
Top(i) == i.e + (i.n - 1) * i.t
Room(i) == i.n > 1 => i.e < i.t
Apart(i, j) == i.n > 1 /\ j.n > 1 => Top(i) <= j.e \/ Top(j) <= i.e
Point == [n |-> 1, t |-> 0, e |-> 0]
Stack(f) ==
  /\ f \in [Int -> Span]
  /\ \A i \in Int : Room(f[i])
  /\ \A i, j \in Int : i # j => Apart(f[i], f[j])
Spans(f, i, size, stride) == f[i].n = size /\ f[i].t = stride
StackOf(f, l) == Stack(f) /\ \A d \in 1 .. rank(l) : Spans(f, d, l.sizes[d], l.strides[d])
Stacked(l) == (\E d \in 1 .. rank(l) : l.sizes[d] = 0) \/ \E f : StackOf(f, l)

LEMMA TopIs ==
  ASSUME NEW i \in Span
  PROVE  /\ i.n \in Nat /\ i.t \in Nat /\ i.e \in Nat
         /\ Top(i) \in Int /\ Top(i) = i.e + (i.n - 1) * i.t
         /\ i.n > 1 => Top(i) \in Nat /\ Top(i) >= i.e + i.t
<1>1. i.n \in Nat /\ i.t \in Nat /\ i.e \in Nat
  BY DEF Span
<1>2. \A n, t \in Nat : (n - 1) * t \in Int
  OBVIOUS
<1>3. \A n, t \in Nat : n > 1 => (n - 1) * t \in Nat /\ (n - 1) * t >= t
  <2> SUFFICES ASSUME NEW n \in Nat, NEW t \in Nat, n > 1 PROVE (n - 1) * t \in Nat /\ (n - 1) * t >= t
    OBVIOUS
  <2>1. PICK k \in Nat : k = n - 2
    OBVIOUS
  <2>2. (n - 1) * t = k * t + t /\ k * t \in Nat
    BY <2>1
  <2> QED BY <2>2
<1>4. PICK p \in Int : p = (i.n - 1) * i.t
  BY <1>1, <1>2
<1>5. i.n > 1 => p \in Nat /\ p >= i.t
  BY <1>1, <1>3, <1>4
<1>6. Top(i) = i.e + p
  BY <1>4 DEF Top
<1> QED BY <1>1, <1>4, <1>5, <1>6

LEMMA StackRoom ==
  ASSUME NEW f, Stack(f), NEW i \in Int
  PROVE  f[i] \in Span /\ (f[i].n > 1 => f[i].e < f[i].t)
BY DEF Stack, Room

LEMMA StackApart ==
  ASSUME NEW f, Stack(f), NEW i \in Int, NEW j \in Int, i # j, f[i].n > 1, f[j].n > 1
  PROVE  Top(f[i]) <= f[j].e \/ Top(f[j]) <= f[i].e
BY DEF Stack, Apart

(* Of two dimensions, the one inside in the order of the strides is the lower. *)
LEMMA InsideBelow ==
  ASSUME NEW l, Strided(l), NEW f, StackOf(f, l), NEW d \in Axes(l), NEW e \in Inside(l, d)
  PROVE  Top(f[e]) <= f[d].e
<1>1. /\ d \in 1 .. rank(l) /\ e \in 1 .. rank(l) /\ e # d
      /\ l.sizes[d] > 1 /\ l.sizes[e] > 1 /\ l.strides[e] <= l.strides[d]
  <2>1. rank(l) \in Nat /\ \A x \in 1 .. rank(l) : l.strides[x] \in Nat
    BY Strides
  <2> QED BY <2>1, SMTT(60) DEF Inside, Axes
<1>2. Stack(f) /\ f[d].n > 1 /\ f[e].n > 1 /\ f[e].t <= f[d].t /\ d \in Int /\ e \in Int
  BY <1>1 DEF StackOf, Spans
<1>3. f[d] \in Span /\ f[e] \in Span /\ f[e].e < f[e].t
  BY <1>2, StackRoom
<1>4. Top(f[d]) >= f[d].e + f[d].t /\ f[d].e \in Nat /\ f[d].t \in Nat /\ f[e].t \in Nat /\ f[e].e \in Nat
      /\ Top(f[d]) \in Int
  BY <1>2, <1>3, TopIs
<1>5. Top(f[e]) <= f[d].e \/ Top(f[d]) <= f[e].e
  BY <1>1, <1>2, StackApart
<1> QED BY <1>2, <1>3, <1>4, <1>5

(* A stack is what is_non_overlapping looks for.                           *)
LEMMA StackWritable ==
  ASSUME NEW l, Strided(l), NEW f, StackOf(f, l)
  PROVE  is_non_overlapping(l)
<1> DEFINE ax == overlap_axes(l)
           n == Cardinality(Axes(l))
           w == Moves(ax, Tops(ax))
           S == {k \in 0 .. n : k > 0 => Sum(w, k - 1) <= f[Axis(l, k)].e}
<1>1. /\ n \in Nat /\ Len(ax) = n
      /\ \A k \in 1 .. n : /\ Axis(l, k) \in 1 .. rank(l) /\ Axis(l, k) \in Axes(l)
                          /\ ax[k].size = l.sizes[Axis(l, k)] /\ ax[k].stride = l.strides[Axis(l, k)]
                          /\ ax[k].size \in Nat \ {0, 1} /\ ax[k].stride \in Nat
  BY AxesOf
<1>2. rank(l) \in Nat /\ Stack(f)
  BY Strides DEF StackOf
<1>3. \A k \in 1 .. n : Axis(l, k) \in Int /\ f[Axis(l, k)] \in Span
  BY <1>1, <1>2, StackRoom
<1>4. \A k \in 1 .. n : Top(f[Axis(l, k)]) = f[Axis(l, k)].e + w[k]
  <2> SUFFICES ASSUME NEW k \in 1 .. n PROVE Top(f[Axis(l, k)]) = f[Axis(l, k)].e + w[k]
    OBVIOUS
  <2>1. w[k] = (ax[k].size - 1) * ax[k].stride
    BY <1>1 DEF Moves, Tops
  <2>2. f[Axis(l, k)].n = ax[k].size /\ f[Axis(l, k)].t = ax[k].stride
    BY <1>1 DEF StackOf, Spans
  <2> QED BY <2>1, <2>2 DEF Top
<1>5. w \in Seq(Int) /\ Len(w) = n
  <2>1. Tops(ax) \in [1 .. Len(ax) -> Int]
    BY <1>1 DEF Tops
  <2> HIDE DEF ax
  <2> QED BY <1>1, <2>1, MovesAre
<1>6. /\ Sum(w, 0) = 0 /\ \A k \in 1 .. n : Sum(w, k) = Sum(w, k - 1) + w[k]
      /\ \A k \in 0 .. n : Sum(w, k) \in Int
  <2> HIDE DEF w, n
  <2> QED BY <1>5, SumIs
<1>7. \A k \in 1 .. n : f[Axis(l, k)].e \in Nat /\ w[k] \in Int
  <2>1. \A k \in 1 .. n : w[k] \in Int
    BY <1>5
  <2> QED BY <1>3, <2>1, TopIs
<1>8. \A k \in 1 .. n : k > 1 => Top(f[Axis(l, k - 1)]) <= f[Axis(l, k)].e
  <2> SUFFICES ASSUME NEW k \in 1 .. n, k > 1 PROVE Top(f[Axis(l, k - 1)]) <= f[Axis(l, k)].e
    OBVIOUS
  <2>1. k - 1 \in 1 .. n
    BY <1>1
  <2>2. Axis(l, k - 1) \in Inside(l, Axis(l, k))
    BY <2>1, AxesAre
  <2> QED BY <1>1, <2>2, InsideBelow
<1> HIDE DEF w, n, ax
<1>9. 0 \in S
  BY <1>1
<1>10. ASSUME NEW k \in 1 .. n, k - 1 \in S PROVE k \in S
  <2>1. CASE k = 1
    BY <1>1, <1>6, <1>7, <2>1
  <2>2. CASE k # 1
    <3>1. k - 1 \in 1 .. n /\ k > 1
      BY <1>1, <2>2
    <3>2. PICK j \in 1 .. n : j = k - 1
      BY <3>1
    <3>3. Sum(w, j - 1) <= f[Axis(l, j)].e
      BY <1>10, <3>1, <3>2
    <3>4. Sum(w, j) = Sum(w, j - 1) + w[j] /\ Sum(w, j - 1) \in Int /\ Sum(w, j) \in Int
      <4>1. j - 1 \in 0 .. n /\ j \in 0 .. n
        BY <1>1
      <4> QED BY <1>6, <4>1
    <3>5. f[Axis(l, j)].e + w[j] <= f[Axis(l, k)].e
      BY <1>4, <1>8, <3>1, <3>2
    <3>6. Sum(w, j) <= f[Axis(l, k)].e
      BY <1>7, <3>3, <3>4, <3>5
    <3> QED BY <3>2, <3>6
  <2> QED BY <2>1, <2>2
<1>11. 0 .. n \subseteq S
  <2> HIDE DEF S
  <2> QED BY <1>1, <1>9, <1>10, Induction
<1>12. ASSUME NEW d \in 1 .. rank(l), l.sizes[d] > 1 PROVE l.strides[d] > 0 /\ l.strides[d] > Extent(l, d)
  <2>1. d \in Axes(l)
    BY <1>12 DEF Axes
  <2>2. PICK k \in 1 .. n : Axis(l, k) = d
    BY <2>1, AxesAre DEF n
  <2>3. Extent(l, d) = Sum(w, k - 1)
    BY <2>2, ExtentOnAxes DEF n, w, ax
  <2>4. Sum(w, k - 1) <= f[d].e
    <3>1. k \in S /\ k > 0
      BY <1>1, <1>11
    <3> QED BY <2>2, <3>1
  <2>5. f[d].e < l.strides[d] /\ f[d].e \in Nat /\ l.strides[d] \in Nat
    <3>1. f[d].n = l.sizes[d] /\ f[d].t = l.strides[d] /\ d \in Int
      BY <1>2 DEF StackOf, Spans
    <3> QED BY <1>2, <1>12, <3>1, StackRoom, TopIs
  <2>6. Sum(w, k - 1) \in Int
    <3>1. k - 1 \in 0 .. n
      BY <1>1
    <3> QED BY <1>6, <3>1
  <2> QED BY <2>3, <2>4, <2>5, <2>6
<1> QED BY <1>12 DEF is_non_overlapping

LEMMA EmptyIs ==
  ASSUME NEW s \in Seq(Nat)
  PROVE  Product(s) > 0 <=> \A d \in 1 .. Len(s) : s[d] > 0
<1>1. Product(s) > 0 => \A d \in 1 .. Len(s) : s[d] > 0
  BY VolumePositive
<1>2. ASSUME \A d \in 1 .. Len(s) : s[d] > 0
      PROVE  \A d \in 1 .. Len(s) + 1 : Volume(s, d) > 0
  <2> DEFINE n == Len(s)
             S == {d \in 1 .. n + 1 : Volume(s, d) > 0}
  <2>1. /\ n \in Nat /\ Volume(s, n + 1) = 1
        /\ \A d \in 1 .. n : Volume(s, d) = s[d] * Volume(s, d + 1) /\ s[d] \in Nat \ {0}
    BY <1>2, VolumeIs
  <2>2. \A d \in 1 .. n + 1 : Volume(s, d) \in Nat
    BY VolumeIs
  <2> HIDE DEF n
  <2>3. n + 1 \in S
    BY <2>1
  <2>4. \A d \in 1 .. n : d + 1 \in S => d \in S
    <3> SUFFICES ASSUME NEW d \in 1 .. n, d + 1 \in S PROVE d \in S
      OBVIOUS
    <3>1. PICK v \in Nat : v = Volume(s, d + 1)
      BY <2>2
    <3>2. PICK x \in Nat \ {0} : x = s[d]
      BY <2>1
    <3>3. v > 0 /\ Volume(s, d) = x * v /\ d \in 1 .. n + 1
      BY <2>1, <3>1, <3>2
    <3>4. x * v > 0
      BY <3>3
    <3> QED BY <3>3, <3>4
  <2>5. 1 .. n + 1 \subseteq S
    <3> HIDE DEF S
    <3> QED BY <2>1, <2>3, <2>4, Descent
  <2> QED BY <2>5 DEF n
<1>3. 1 \in 1 .. Len(s) + 1
  OBVIOUS
<1> QED BY <1>1, <1>2, <1>3 DEF Product

\* So a layout that is empty or stacked is one that the flag accepts.
LEMMA StackedWritable ==
  ASSUME NEW l, Strided(l), Stacked(l)
  PROVE  is_non_overlapping(l)
<1>1. CASE \E d \in 1 .. rank(l) : l.sizes[d] = 0
  <2>1. l.sizes \in Seq(Nat)
    BY DEF Strided
  <2>2. ~(Product(l.sizes) > 0)
    BY <1>1, <2>1, EmptyIs DEF rank
  <2>3. Product(l.sizes) \in Nat
    BY <2>1, PackedShape
  <2> QED BY <2>2, <2>3 DEF is_non_overlapping, numel
<1>2. CASE \E f : StackOf(f, l)
  BY <1>2, StackWritable
<1> QED BY <1>1, <1>2 DEF Stacked

(* Packed layouts are stacked: a dimension starts after the inner ones.    *)
LEMMA PackedStacked ==
  ASSUME NEW l, l.sizes \in Seq(Nat), l.strides = PackedStrides(l.sizes)
  PROVE  Stacked(l)
<1> DEFINE s == l.sizes
           n == Len(s)
           item(d) == IF d \in 1 .. n
                      THEN [n |-> s[d], t |-> Volume(s, d + 1), e |-> Volume(s, d + 1) - 1]
                      ELSE Point
           f == [d \in Int |-> item(d)]
<1> SUFFICES ASSUME ~(\E d \in 1 .. rank(l) : l.sizes[d] = 0) PROVE StackOf(f, l)
  BY DEF Stacked
<1>1. n \in Nat /\ rank(l) = n /\ \A d \in 1 .. n : s[d] \in Nat /\ s[d] > 0
  BY DEF rank
<1>2. /\ \A d \in 1 .. n : Volume(s, d) = s[d] * Volume(s, d + 1)
      /\ \A d \in 1 .. n + 1 : Volume(s, d) \in Nat
  BY VolumeIs
<1>3. \A d \in 1 .. n + 1 : Volume(s, d) > 0
  <2>1. Product(s) > 0
    BY <1>1, EmptyIs
  <2> QED BY <2>1, VolumePositive
<1>4. \A d \in 1 .. n : l.strides[d] = Volume(s, d + 1)
  BY PackedShape
<1> HIDE DEF s, n
<1>5. \A d \in Int : item(d) \in Span /\ Room(item(d))
  <2>1. ASSUME NEW d \in 1 .. n PROVE item(d) \in Span /\ Room(item(d))
    <3>1. PICK v \in Nat \ {0} : v = Volume(s, d + 1)
      BY <1>1, <1>2, <1>3, SMTT(60)
    <3>2. item(d) = [n |-> s[d], t |-> v, e |-> v - 1]
      BY <3>1
    <3> HIDE DEF item
    <3> QED BY <1>1, <3>2 DEF Span, Room
  <2>2. Point \in Span /\ Room(Point)
    BY DEF Point, Span, Room
  <2> QED BY <2>1, <2>2
\* The volumes of outer dimensions are no smaller.
<1>6. \A d \in 1 .. n : \A e \in d + 1 .. n + 1 : Volume(s, e) <= Volume(s, d + 1)
  <2> SUFFICES ASSUME NEW d \in 1 .. n
               PROVE  \A e \in d + 1 .. n + 1 : Volume(s, e) <= Volume(s, d + 1)
    OBVIOUS
  <2> DEFINE S == {k \in 0 .. n - d : Volume(s, d + 1 + k) <= Volume(s, d + 1)}
  <2>1. 0 \in S
    BY <1>1, <1>2
  <2>2. ASSUME NEW k \in 1 .. n - d, k - 1 \in S PROVE k \in S
    <3>1. PICK e \in 1 .. n : e = d + k
      BY <1>1
    <3>2. Volume(s, e) <= Volume(s, d + 1)
      BY <1>1, <2>2, <3>1
    <3>3. Volume(s, e) = s[e] * Volume(s, e + 1)
      BY <1>2
    <3>4. PICK v \in Nat : v = Volume(s, e + 1)
      BY <1>1, <1>2
    <3>5. PICK x \in Nat \ {0} : x = s[e]
      BY <1>1
    <3>6. v <= x * v
      <4>1. 1 \in Nat /\ x \in Nat /\ 1 <= x
        OBVIOUS
      <4>2. 1 * v <= x * v
        BY <4>1, Products
      <4> QED BY <4>2
    <3>7. Volume(s, e) \in Nat /\ Volume(s, d + 1) \in Nat
      BY <1>1, <1>2
    <3>8. Volume(s, e + 1) <= Volume(s, d + 1)
      BY <3>2, <3>3, <3>4, <3>5, <3>6, <3>7
    <3>9. d + 1 + k = e + 1 /\ k \in 0 .. n - d
      BY <1>1, <3>1
    <3> QED BY <3>8, <3>9
  <2>3. 0 .. n - d \subseteq S
    <3>1. n - d \in Nat
      BY <1>1
    <3> HIDE DEF S
    <3> QED BY <2>1, <2>2, <3>1, Induction
  <2>4. ASSUME NEW e \in d + 1 .. n + 1 PROVE Volume(s, e) <= Volume(s, d + 1)
    <3>1. e - d - 1 \in 0 .. n - d /\ d + 1 + (e - d - 1) = e
      BY <1>1
    <3>2. e - d - 1 \in S
      BY <2>3, <3>1
    <3> QED BY <3>1, <3>2
  <2> QED BY <2>4
<1>7. ASSUME NEW d \in 1 .. n, NEW e \in 1 .. n, d < e PROVE Top(item(e)) <= item(d).e
  <2>1. PICK v \in Nat \ {0} : v = Volume(s, e + 1)
    BY <1>1, <1>2, <1>3
  <2>2. PICK x \in Nat \ {0} : x = s[e]
    BY <1>1
  <2>3. item(e) = [n |-> x, t |-> v, e |-> v - 1]
    BY <2>1, <2>2
  <2>4. Top(item(e)) = (v - 1) + (x - 1) * v
    BY <2>3 DEF Top
  <2>5. (v - 1) + (x - 1) * v = x * v - 1 /\ x * v \in Nat
    BY <2>1, <2>2, SMTT(60)
  <2>6. x * v <= Volume(s, d + 1)
    <3>1. Volume(s, e) = x * v
      BY <1>2, <2>1, <2>2
    <3>2. e \in d + 1 .. n + 1
      BY <1>1, <1>7
    <3> QED BY <1>6, <3>1, <3>2
  <2>7. item(d).e = Volume(s, d + 1) - 1 /\ Volume(s, d + 1) \in Nat
    BY <1>1, <1>2
  <2> QED BY <2>4, <2>5, <2>6, <2>7
<1>8. \A d, e \in Int : d # e => Apart(item(d), item(e))
  <2> SUFFICES ASSUME NEW d \in Int, NEW e \in Int, d # e, item(d).n > 1, item(e).n > 1
               PROVE  Top(item(d)) <= item(e).e \/ Top(item(e)) <= item(d).e
    BY DEF Apart
  <2>1. \A x \in Int : x \notin 1 .. n => item(x).n = 1
    BY DEF Point
  <2>2. d \in 1 .. n /\ e \in 1 .. n
    <3> HIDE DEF item
    <3> QED BY <2>1
  <2>3. d < e \/ e < d
    OBVIOUS
  <2> HIDE DEF item
  <2> QED BY <1>7, <2>2, <2>3
<1>9. Stack(f)
  <2> HIDE DEF item
  <2> QED BY <1>5, <1>8 DEF Stack
<1>10. \A d \in 1 .. n : Spans(f, d, s[d], l.strides[d])
  BY <1>4 DEF Spans
<1> HIDE DEF f
<1> QED BY <1>1, <1>9, <1>10 DEF StackOf, s

(* A layout whose dimensions are some of a stacked layout's, each of the   *)
(* same reach or less and in steps no smaller, is stacked in the same way. *)
Picks(l, k, p) ==
  /\ \A d \in Axes(k) : /\ p[d] \in Axes(l) /\ l.strides[p[d]] <= k.strides[d]
                        /\ (k.sizes[d] - 1) * k.strides[d] <= (l.sizes[p[d]] - 1) * l.strides[p[d]]
  /\ \A d, e \in Axes(k) : p[d] = p[e] => d = e

LEMMA PickedStack ==
  ASSUME NEW l, Strided(l), NEW f, StackOf(f, l), NEW k, Strided(k), NEW p, Picks(l, k, p)
  PROVE  \E g : StackOf(g, k)
<1> DEFINE item(d) == IF d \in 1 .. rank(k)
                      THEN [n |-> k.sizes[d], t |-> k.strides[d],
                            e |-> IF d \in Axes(k) THEN f[p[d]].e ELSE 0]
                      ELSE Point
           g == [d \in Int |-> item(d)]
<1>1. /\ rank(k) \in Nat /\ \A d \in 1 .. rank(k) : k.sizes[d] \in Nat /\ k.strides[d] \in Nat
      /\ rank(l) \in Nat /\ \A d \in 1 .. rank(l) : l.sizes[d] \in Nat /\ l.strides[d] \in Nat
  BY Strides
<1>2. Stack(f) /\ \A d \in 1 .. rank(l) : f[d].n = l.sizes[d] /\ f[d].t = l.strides[d]
  BY DEF StackOf, Spans
<1>3. ASSUME NEW d \in Axes(k)
      PROVE  /\ p[d] \in Int /\ f[p[d]].n > 1 /\ item(d).e = f[p[d]].e /\ item(d).e \in Nat
             /\ item(d).n = k.sizes[d] /\ item(d).t = k.strides[d] /\ d \in 1 .. rank(k)
             /\ item(d).e < item(d).t
             /\ Top(item(d)) <= Top(f[p[d]])
             /\ Top(item(d)) \in Int /\ Top(f[p[d]]) \in Int
  <2>1. d \in 1 .. rank(k) /\ k.sizes[d] > 1
    BY DEF Axes
  <2>2. p[d] \in 1 .. rank(l) /\ l.sizes[p[d]] > 1 /\ l.strides[p[d]] <= k.strides[d]
        /\ (k.sizes[d] - 1) * k.strides[d] <= (l.sizes[p[d]] - 1) * l.strides[p[d]]
    BY DEF Picks, Axes
  <2>3. PICK q \in 1 .. rank(l) : q = p[d]
    BY <2>2
  <2>4. q \in Int /\ f[q].n = l.sizes[q] /\ f[q].t = l.strides[q] /\ f[q].n > 1
    BY <1>2, <2>2, <2>3
  <2>5. f[q] \in Span /\ f[q].e < f[q].t
    BY <1>2, <2>4, StackRoom
  <2>6. f[q].e \in Nat /\ Top(f[q]) \in Int /\ Top(f[q]) = f[q].e + (f[q].n - 1) * f[q].t
    BY <2>5, TopIs
  <2>7. item(d) = [n |-> k.sizes[d], t |-> k.strides[d], e |-> f[q].e]
    BY <2>1, <2>3
  <2>8. item(d) \in Span
    BY <1>1, <2>1, <2>6, <2>7 DEF Span
  <2>9. Top(item(d)) \in Int /\ Top(item(d)) = f[q].e + (k.sizes[d] - 1) * k.strides[d]
    <3> HIDE DEF item
    <3> QED BY <2>7, <2>8, TopIs
  <2>10. PICK x \in Int : x = (k.sizes[d] - 1) * k.strides[d]
    <3>1. k.sizes[d] \in Nat /\ k.strides[d] \in Nat
      BY <1>1, <2>1
    <3> QED BY <3>1
  <2>11. PICK y \in Int : y = (l.sizes[q] - 1) * l.strides[q]
    <3>1. l.sizes[q] \in Nat /\ l.strides[q] \in Nat
      BY <1>1
    <3> QED BY <3>1
  <2>12. x <= y
    BY <2>2, <2>3, <2>10, <2>11
  <2>13. Top(item(d)) <= Top(f[q])
    <3>1. Top(item(d)) = f[q].e + x
      BY <2>9, <2>10
    <3>2. Top(f[q]) = f[q].e + y
      BY <2>4, <2>6, <2>11
    <3> HIDE DEF item
    <3> QED BY <2>6, <2>12, <3>1, <3>2
  <2>14. f[q].e < k.strides[d]
    BY <1>1, <2>1, <2>2, <2>3, <2>4, <2>5, <2>6
  <2>15. /\ item(d).e = f[q].e /\ item(d).n = k.sizes[d] /\ item(d).t = k.strides[d]
    BY <2>7
  <2> HIDE DEF item
  <2> QED BY <2>1, <2>3, <2>4, <2>6, <2>9, <2>13, <2>14, <2>15
<1>4. \A d \in Int : item(d).n > 1 => d \in Axes(k)
  <2> SUFFICES ASSUME NEW d \in Int, item(d).n > 1 PROVE d \in Axes(k)
    OBVIOUS
  <2>1. d \in 1 .. rank(k)
    <3>1. d \notin 1 .. rank(k) => item(d).n = 1
      BY DEF Point
    <3> HIDE DEF item
    <3> QED BY <3>1
  <2>2. item(d).n = k.sizes[d]
    BY <2>1
  <2> HIDE DEF item
  <2> QED BY <2>1, <2>2 DEF Axes
<1>5. \A d \in Int : item(d) \in Span
  <2>1. Point \in Span
    BY DEF Point, Span
  <2>2. ASSUME NEW d \in 1 .. rank(k) PROVE item(d) \in Span
    <3>1. d \in Axes(k) => f[p[d]].e \in Nat
      BY <1>3
    <3> QED BY <1>1, <3>1 DEF Span
  <2> QED BY <2>1, <2>2
<1> HIDE DEF item
<1>6. \A d \in Int : Room(item(d))
  BY <1>3, <1>4 DEF Room
<1>7. \A d, e \in Int : d # e => Apart(item(d), item(e))
  <2> SUFFICES ASSUME NEW d \in Int, NEW e \in Int, d # e, item(d).n > 1, item(e).n > 1
               PROVE  Top(item(d)) <= item(e).e \/ Top(item(e)) <= item(d).e
    BY DEF Apart
  <2>1. d \in Axes(k) /\ e \in Axes(k)
    BY <1>4
  <2>2. p[d] # p[e]
    BY <2>1 DEF Picks
  <2>3. Top(f[p[d]]) <= f[p[e]].e \/ Top(f[p[e]]) <= f[p[d]].e
    BY <1>2, <1>3, <2>1, <2>2, StackApart
  <2> QED BY <1>3, <2>1, <2>3
<1>8. Stack(g)
  BY <1>5, <1>6, <1>7 DEF Stack
<1>9. \A d \in 1 .. rank(k) : Spans(g, d, k.sizes[d], k.strides[d])
  BY <1>1 DEF Spans, item
<1> HIDE DEF g
<1> QED BY <1>8, <1>9 DEF StackOf

\* The recursion of Ascending: the dimensions of a set up to one of them.
AscendingSteps(dims, n, u) ==
  /\ u \in [0 .. n -> Seq(1 .. n)] /\ u[0] = <<>>
  /\ \A d \in 1 .. n : u[d] = IF d \in dims THEN Append(u[d - 1], d) ELSE u[d - 1]
  /\ Ascending(dims, n) = u[n]

LEMMA AscendingUnfolds ==
  ASSUME NEW n \in Nat, NEW dims \in SUBSET (1 .. n)
  PROVE  \E u : AscendingSteps(dims, n, u)
<1> DEFINE X == Seq(1 .. n)
           Next1(x, d) == IF d \in dims THEN Append(x, d) ELSE x
           step == [d \in 1 .. n |-> [x \in X |-> Next1(x, d)]]
           Body(f) == [d \in 0 .. n |-> IF d = 0 THEN <<>> ELSE Next1(f[d - 1], d)]
<1>1. ASSUME NEW x \in X, NEW d \in 1 .. n PROVE Next1(x, d) \in X
  <2>1. \A y \in 1 .. n : Append(x, y) \in X
    BY Sequence
  <2> QED BY <2>1
<1>2. step \in [1 .. n -> [X -> X]]
  BY <1>1
<1>3. <<>> \in X
  OBVIOUS
<1>4. PICK f \in [0 .. n -> X] : Up(f, n, <<>>, step)
  <2> HIDE DEF step, X
  <2> QED BY <1>2, <1>3, Ascent
<1>5. ASSUME NEW d \in 1 .. n PROVE f[d] = Next1(f[d - 1], d)
  <2>1. d - 1 \in 0 .. n
    OBVIOUS
  <2>2. f[d - 1] \in X
    BY <1>4, <2>1
  <2>3. step[d] = [x \in X |-> Next1(x, d)]
    OBVIOUS
  <2> HIDE DEF Next1, X
  <2>4. step[d][f[d - 1]] = Next1(f[d - 1], d)
    BY <2>2, <2>3
  <2> HIDE DEF step
  <2> QED BY <1>4, <2>4 DEF Up
<1>6. \E g : g = Body(g)
  <2>1. ASSUME NEW d \in 0 .. n PROVE f[d] = IF d = 0 THEN <<>> ELSE Next1(f[d - 1], d)
    <3>1. d # 0 => d \in 1 .. n
      OBVIOUS
    <3> HIDE DEF Next1
    <3> QED BY <1>4, <1>5, <3>1 DEF Up
  <2>2. f = [d \in 0 .. n |-> f[d]]
    BY <1>4
  <2> HIDE DEF Next1
  <2> QED BY <2>1, <2>2
<1> DEFINE u == CHOOSE g : g = Body(g)
<1>7. u = Body(u)
  <2> HIDE DEF Body
  <2> QED BY <1>6
<1>8. Ascending(dims, n) = u[n]
  BY DEF Ascending
<1> HIDE DEF u
<1>9. u[0] = <<>> /\ \A d \in 1 .. n : u[d] = Next1(u[d - 1], d)
  <2>1. \A d \in 0 .. n : u[d] = IF d = 0 THEN <<>> ELSE Next1(u[d - 1], d)
    <3> HIDE DEF Next1
    <3> QED BY <1>7
  <2>2. 0 \in 0 .. n /\ \A d \in 1 .. n : d \in 0 .. n /\ d # 0
    OBVIOUS
  <2> HIDE DEF Next1
  <2> QED BY <2>1, <2>2
<1> DEFINE S == {d \in 0 .. n : u[d] \in X}
<1>10. 0 \in S
  <2>1. 0 \in 0 .. n
    OBVIOUS
  <2> HIDE DEF X
  <2> QED BY <1>3, <1>9, <2>1
<1>11. ASSUME NEW d \in 1 .. n, d - 1 \in S PROVE d \in S
  <2>1. u[d - 1] \in X /\ u[d] = Next1(u[d - 1], d) /\ d \in 0 .. n
    BY <1>9, <1>11
  <2> HIDE DEF X, Next1
  <2> QED BY <1>1, <2>1
<1>12. 0 .. n \subseteq S
  <2> HIDE DEF S
  <2> QED BY <1>10, <1>11, Induction
<1>13. u \in [0 .. n -> X]
  <2>1. \A d \in 0 .. n : u[d] \in X
    BY <1>12
  <2>2. u = [d \in 0 .. n |-> u[d]]
    BY <1>7
  <2> HIDE DEF X
  <2> QED BY <2>1, <2>2
<1> HIDE DEF X
<1>14. AscendingSteps(dims, n, u)
  BY <1>8, <1>9, <1>13 DEF AscendingSteps, X
<1> QED BY <1>14

\* y lists the dimensions of a set up to d, each above the one before.
Lists(y, dims, d) ==
  /\ \A i \in 1 .. Len(y) : y[i] <= d
  /\ \A i, j \in 1 .. Len(y) : i < j => y[i] < y[j]
  /\ \A e \in dims : e <= d => \E i \in 1 .. Len(y) : y[i] = e

\* It is ascending, and misses none of the set.
LEMMA AscendingAll ==
  ASSUME NEW n \in Nat, NEW dims \in SUBSET (1 .. n), NEW x, x = Ascending(dims, n)
  PROVE  /\ x \in [1 .. Len(x) -> 1 .. n] /\ Len(x) \in Nat
         /\ \A i, j \in 1 .. Len(x) : x[i] = x[j] => i = j
         /\ \A d \in dims : \E i \in 1 .. Len(x) : x[i] = d
<1>1. PICK u : AscendingSteps(dims, n, u)
  BY AscendingUnfolds
<1> DEFINE S == {d \in 0 .. n : Lists(u[d], dims, d)}
<1>2. 0 \in S
  <2>1. u[0] = <<>> /\ Len(<<>>) = 0
    BY <1>1 DEF AscendingSteps
  <2> QED BY <2>1 DEF Lists
<1>3. ASSUME NEW d \in 1 .. n, d - 1 \in S PROVE d \in S
  <2>1. PICK y \in Seq(1 .. n) : y = u[d - 1]
    <3>1. d - 1 \in 0 .. n
      OBVIOUS
    <3> QED BY <1>1, <3>1 DEF AscendingSteps
  <2>2. Lists(y, dims, d - 1)
    BY <1>3, <2>1
  <2>3. u[d] = IF d \in dims THEN Append(y, d) ELSE y
    BY <1>1, <2>1 DEF AscendingSteps
  <2>4. Len(y) \in Nat /\ \A i \in 1 .. Len(y) : y[i] \in 1 .. n
    OBVIOUS
  <2>5. CASE d \in dims
    <3>0. PICK n1 \in Nat : n1 = Len(y)
      BY <2>4
    <3>1. PICK z : z = Append(y, d)
      OBVIOUS
    <3>2. Len(z) = n1 + 1 /\ z[n1 + 1] = d /\ \A i \in 1 .. n1 : z[i] = y[i]
      BY <3>0, <3>1
    <3>4. /\ \A i \in 1 .. n1 : y[i] <= d - 1 /\ y[i] \in Nat
          /\ \A i, j \in 1 .. n1 : i < j => y[i] < y[j]
          /\ \A e \in dims : e <= d - 1 => \E i \in 1 .. n1 : y[i] = e
      BY <2>2, <2>4, <3>0 DEF Lists
    <3>3. Lists(z, dims, d)
      <4>1. \A i \in 1 .. n1 + 1 : z[i] <= d
        BY <3>2, <3>4, SMTT(60)
      <4>2. \A i, j \in 1 .. n1 + 1 : i < j => z[i] < z[j]
        <5> SUFFICES ASSUME NEW i \in 1 .. n1 + 1, NEW j \in 1 .. n1 + 1, i < j PROVE z[i] < z[j]
          OBVIOUS
        <5>1. i \in 1 .. n1 /\ z[i] = y[i] /\ y[i] <= d - 1 /\ y[i] \in Nat
          BY <3>2, <3>4
        <5>2. CASE j = n1 + 1
          BY <3>2, <5>1, <5>2
        <5>3. CASE j # n1 + 1
          <6>1. j \in 1 .. n1
            BY <3>2, <5>3
          <6> QED BY <3>2, <3>4, <5>1, <6>1
        <5> QED BY <5>2, <5>3
      <4>3. \A e \in dims : e <= d => \E i \in 1 .. n1 + 1 : z[i] = e
        <5> SUFFICES ASSUME NEW e \in dims, e <= d PROVE \E i \in 1 .. n1 + 1 : z[i] = e
          OBVIOUS
        <5>1. CASE e = d
          <6>1. n1 + 1 \in 1 .. n1 + 1
            BY <3>2
          <6> QED BY <3>2, <5>1, <6>1
        <5>2. CASE e # d
          <6>1. PICK i \in 1 .. n1 : y[i] = e
            BY <3>4, <5>2
          <6>2. i \in 1 .. n1 + 1
            BY <3>2
          <6> QED BY <3>2, <6>1, <6>2
        <5> QED BY <5>1, <5>2
      <4> QED BY <3>2, <4>1, <4>2, <4>3 DEF Lists
    <3>5. u[d] = z /\ d \in 0 .. n
      BY <2>3, <2>5, <3>1
    <3> QED BY <3>3, <3>5
  <2>6. CASE d \notin dims
    <3>1. Lists(y, dims, d)
      <4>1. \A i \in 1 .. Len(y) : y[i] <= d
        BY <2>2, <2>4 DEF Lists
      <4>2. \A e \in dims : e <= d => e <= d - 1
        BY <2>6
      <4> QED BY <2>2, <4>1, <4>2 DEF Lists
    <3>2. u[d] = y /\ d \in 0 .. n
      BY <2>3, <2>6
    <3> QED BY <3>1, <3>2
  <2> QED BY <2>5, <2>6
<1>4. 0 .. n \subseteq S
  <2> HIDE DEF S
  <2> QED BY <1>2, <1>3, Induction
<1>5. n \in S
  BY <1>4
<1>6. x = u[n] /\ x \in Seq(1 .. n) /\ Lists(x, dims, n)
  BY <1>1, <1>5 DEF AscendingSteps
<1>7. x \in [1 .. Len(x) -> 1 .. n] /\ Len(x) \in Nat
  BY <1>6, Sequence
<1>8. ASSUME NEW i \in 1 .. Len(x), NEW j \in 1 .. Len(x), x[i] = x[j] PROVE i = j
  <2>1. ~(i < j) /\ ~(j < i)
    BY <1>6, <1>7, <1>8 DEF Lists
  <2> QED BY <1>7, <2>1
<1>9. \A d \in dims : \E i \in 1 .. Len(x) : x[i] = d
  BY <1>6 DEF Lists
<1> QED BY <1>7, <1>8, <1>9

(* Dimensions in another order, those of size 1 left out or not.           *)
LEMMA PermuteStacked ==
  ASSUME NEW l, Shaped(l), Stacked(l), NEW m \in Nat, NEW order \in [1 .. m -> 1 .. rank(l)],
         \A i, j \in 1 .. m : order[i] = order[j] => i = j,
         \A d \in 1 .. rank(l) : l.sizes[d] = 0 => \E i \in 1 .. m : order[i] = d
  PROVE  Stacked(permute(l, order))
<1>1. PICK k : k = permute(l, order)
  OBVIOUS
<1>2. /\ k.sizes = [d \in 1 .. m |-> l.sizes[order[d]]]
      /\ k.strides = [d \in 1 .. m |-> l.strides[order[d]]]
  BY <1>1 DEF permute, Shaped
<1>3. Strided(k) /\ Strided(l)
  BY <1>1, PermuteShape DEF Reshaped, Shaped
<1>4. rank(k) = m
  BY <1>2 DEF rank
<1>5. \A d \in 1 .. m : k.sizes[d] = l.sizes[order[d]] /\ k.strides[d] = l.strides[order[d]]
  BY <1>2
<1>6. CASE \E d \in 1 .. rank(l) : l.sizes[d] = 0
  BY <1>1, <1>4, <1>5, <1>6 DEF Stacked
<1>7. CASE \E f : StackOf(f, l)
  <2>1. PICK f : StackOf(f, l)
    BY <1>7
  <2>2. ASSUME NEW d \in Axes(k)
        PROVE  /\ order[d] \in Axes(l) /\ l.strides[order[d]] <= k.strides[d]
               /\ (k.sizes[d] - 1) * k.strides[d] <= (l.sizes[order[d]] - 1) * l.strides[order[d]]
    <3>1. d \in 1 .. m /\ k.sizes[d] > 1
      BY <1>4 DEF Axes
    <3>2. PICK e \in 1 .. rank(l) : e = order[d]
      BY <3>1
    <3>3. k.sizes[d] = l.sizes[e] /\ k.strides[d] = l.strides[e]
      BY <1>5, <3>1, <3>2
    <3>4. l.sizes[e] \in Nat /\ l.strides[e] \in Nat
      BY <1>3, Strides
    <3>5. PICK x \in Int : x = (l.sizes[e] - 1) * l.strides[e]
      BY <3>4, SMTT(60)
    <3>6. e \in Axes(l)
      BY <3>1, <3>3 DEF Axes
    <3> QED BY <3>2, <3>3, <3>4, <3>5, <3>6
  <2>3. Picks(l, k, order)
    <3>1. Axes(k) \subseteq 1 .. m
      BY <1>4 DEF Axes
    <3> QED BY <2>2, <3>1 DEF Picks
  <2>4. \E g : StackOf(g, k)
    BY <1>3, <2>1, <2>3, PickedStack
  <2> QED BY <1>1, <2>4 DEF Stacked
<1> QED BY <1>6, <1>7 DEF Stacked

LEMMA KeptStacked ==
  ASSUME NEW l, Shaped(l), Stacked(l), NEW dims \in SUBSET (1 .. rank(l)),
         \A d \in 1 .. rank(l) : l.sizes[d] = 0 => d \in dims
  PROVE  Stacked(Kept(l, dims))
<1>1. rank(l) \in Nat
  BY Strides DEF Shaped
<1>2. PICK order : order = Ascending(dims, rank(l))
  OBVIOUS
<1>3. /\ order \in [1 .. Len(order) -> 1 .. rank(l)] /\ Len(order) \in Nat
      /\ \A i, j \in 1 .. Len(order) : order[i] = order[j] => i = j
      /\ \A d \in dims : \E i \in 1 .. Len(order) : order[i] = d
  BY <1>1, <1>2, AscendingAll
<1>4. Stacked(permute(l, order))
  BY <1>3, PermuteStacked
<1> QED BY <1>2, <1>4 DEF Kept

LEMMA OrderStacked ==
  ASSUME NEW l, Shaped(l), Stacked(l), NEW p \in Orders(rank(l))
  PROVE  Stacked(permute(l, p))
<1> DEFINE T == 1 .. rank(l)
<1>1. rank(l) \in Nat
  BY Strides DEF Shaped
<1>2. p \in [T -> T] /\ DOMAIN p = T /\ \A i, j \in T : p[i] = p[j] => i = j
  BY DEF Orders, IsInjective
<1>3. p \in Injection(T, T)
  BY DEF Orders, Injection
<1>4. IsFiniteSet(T)
  BY <1>1, FS_Interval
<1> HIDE DEF T
<1>5. p \in Surjection(T, T)
  BY <1>3, <1>4, FS_Injection
<1>6. \A d \in T : \E i \in T : p[i] = d
  BY <1>5 DEF Surjection
<1> QED BY <1>1, <1>2, <1>6, PermuteStacked DEF T

LEMMA SqueezeStacked ==
  ASSUME NEW l, Shaped(l), Stacked(l)
  PROVE  /\ Stacked(squeeze(l))
         /\ \A d \in 1 .. rank(l) : Stacked(squeeze_dim(l, d))
<1>1. Stacked(squeeze(l))
  <2>1. PICK dims \in SUBSET (1 .. rank(l)) : dims = {d \in 1 .. rank(l) : l.sizes[d] # 1}
    OBVIOUS
  <2>2. \A d \in 1 .. rank(l) : l.sizes[d] = 0 => d \in dims
    BY <2>1
  <2> QED BY <2>1, <2>2, KeptStacked DEF squeeze
<1>2. ASSUME NEW d \in 1 .. rank(l) PROVE Stacked(squeeze_dim(l, d))
  <2>1. CASE l.sizes[d] # 1
    BY <2>1 DEF squeeze_dim
  <2>2. CASE l.sizes[d] = 1
    <3>1. PICK dims \in SUBSET (1 .. rank(l)) : dims = (1 .. rank(l)) \ {d}
      OBVIOUS
    <3>2. \A e \in 1 .. rank(l) : l.sizes[e] = 0 => e \in dims
      BY <2>2, <3>1
    <3> QED BY <2>2, <3>1, <3>2, KeptStacked DEF squeeze_dim
  <2> QED BY <2>1, <2>2
<1> QED BY <1>1, <1>2

\* Parts of sequences, and sequences joined.
LEMMA Between ==
  ASSUME NEW x \in Seq(Nat), NEW i \in 1 .. Len(x) + 1, NEW j \in 0 .. Len(x), j >= i - 1,
         NEW y, y = SubSeq(x, i, j)
  PROVE  /\ y \in Seq(Nat) /\ Len(y) = j - i + 1
         /\ \A m \in 1 .. j - i + 1 : y[m] = x[i + m - 1]
<1>1. SubSeq(x, i, j) \in Seq(Nat)
  OBVIOUS
<1>2. Len(SubSeq(x, i, j)) = j - i + 1
  OBVIOUS
<1>3. \A m \in 1 .. j - i + 1 : SubSeq(x, i, j)[m] = x[i + m - 1]
  OBVIOUS
<1> QED BY <1>1, <1>2, <1>3

Appended(x, y, z) ==
  /\ z \in Seq(Nat) /\ Len(z) = Len(x) + Len(y)
  /\ \A j \in 1 .. Len(x) : z[j] = x[j]
  /\ \A j \in 1 .. Len(y) : z[Len(x) + j] = y[j]
LEMMA Joined ==
  ASSUME NEW x \in Seq(Nat), NEW y \in Seq(Nat), NEW z, z = x \o y
  PROVE  Appended(x, y, z)
BY DEF Appended

\* An inserted element moves those after it.
LEMMA InsertElements ==
  ASSUME NEW x \in Seq(Nat), NEW i \in 1 .. Len(x) + 1, NEW e \in Nat, NEW y, y = InsertAt(x, i, e)
  PROVE  /\ y[i] = e /\ Len(y) = Len(x) + 1
         /\ \A j \in 1 .. Len(x) : j < i => y[j] = x[j]
         /\ \A j \in 1 .. Len(x) : j >= i => y[j + 1] = x[j]
<1>1. PICK n \in Nat : n = Len(x)
  OBVIOUS
<1>2. i - 1 \in 0 .. n /\ i \in 1 .. n + 1
  BY <1>1
<1>3. PICK low : low = SubSeq(x, 1, i - 1)
  OBVIOUS
<1>4. low \in Seq(Nat) /\ Len(low) = i - 1 /\ \A j \in 1 .. i - 1 : low[j] = x[j]
  <2>1. 1 \in 1 .. Len(x) + 1 /\ i - 1 \in 0 .. Len(x) /\ i - 1 >= 1 - 1
    BY <1>1, <1>2
  <2>2. /\ low \in Seq(Nat) /\ Len(low) = (i - 1) - 1 + 1
        /\ \A j \in 1 .. (i - 1) - 1 + 1 : low[j] = x[1 + j - 1]
    BY <1>3, <2>1, Between
  <2>3. (i - 1) - 1 + 1 = i - 1 /\ \A j \in 1 .. i - 1 : 1 + j - 1 = j
    BY <1>2
  <2> QED BY <2>2, <2>3
<1>5. PICK high : high = SubSeq(x, i, n)
  OBVIOUS
<1>6. high \in Seq(Nat) /\ Len(high) = n - i + 1 /\ \A j \in 1 .. n - i + 1 : high[j] = x[i + j - 1]
  <2>1. n \in 0 .. Len(x) /\ n >= i - 1
    BY <1>1, <1>2
  <2> QED BY <1>5, <2>1, Between, ZenonT(120)
<1>7. PICK mid : mid = low \o <<e>>
  OBVIOUS
<1>8. mid \in Seq(Nat) /\ Len(mid) = i /\ mid[i] = e /\ \A j \in 1 .. i - 1 : mid[j] = x[j]
  <2>1. <<e>> \in Seq(Nat) /\ Len(<<e>>) = 1 /\ <<e>>[1] = e /\ 1 \in 1 .. 1
    OBVIOUS
  <2>2. PICK last \in Seq(Nat) : last = <<e>>
    BY <2>1
  <2>3. mid = low \o last
    BY <1>7, <2>2
  <2>4. /\ mid \in Seq(Nat) /\ Len(mid) = Len(low) + Len(last)
        /\ \A j \in 1 .. Len(low) : mid[j] = low[j]
        /\ \A j \in 1 .. Len(last) : mid[Len(low) + j] = last[j]
    <3>1. low \in Seq(Nat)
      BY <1>4
    <3>2. Appended(low, last, mid)
      BY <2>3, <3>1, Joined
    <3> QED BY <3>2 DEF Appended
  <2>5. Len(last) = 1 /\ last[1] = e
    BY <2>1, <2>2
  <2>6. (i - 1) + 1 = i /\ 1 \in 1 .. 1
    BY <1>2
  <2>7. Len(mid) = i /\ \A j \in 1 .. i - 1 : mid[j] = x[j]
    BY <1>4, <2>4, <2>5, <2>6
  <2>8. mid[i] = e
    <3>1. mid[Len(low) + 1] = last[1]
      BY <2>4, <2>5, <2>6
    <3> QED BY <1>4, <2>5, <2>6, <3>1
  <2> QED BY <2>4, <2>7, <2>8
<1>9. y = mid \o high
  BY <1>1, <1>3, <1>5, <1>7 DEF InsertAt
<1>10. /\ Len(y) = n + 1 /\ \A j \in 1 .. i : y[j] = mid[j]
       /\ \A j \in 1 .. n - i + 1 : y[i + j] = high[j]
  <2>1. /\ Len(y) = Len(mid) + Len(high) /\ \A j \in 1 .. Len(mid) : y[j] = mid[j]
        /\ \A j \in 1 .. Len(high) : y[Len(mid) + j] = high[j]
    <3>1. mid \in Seq(Nat) /\ high \in Seq(Nat)
      BY <1>6, <1>8
    <3>2. Appended(mid, high, y)
      BY <1>9, <3>1, Joined
    <3> QED BY <3>2 DEF Appended
  <2>2. i + (n - i + 1) = n + 1
    BY <1>2
  <2>3. Len(mid) = i /\ Len(high) = n - i + 1
    BY <1>6, <1>8
  <2> QED BY <2>1, <2>2, <2>3
<1>11. \A j \in 1 .. n : j < i => y[j] = x[j]
  BY <1>2, <1>8, <1>10
<1>12. ASSUME NEW j \in 1 .. n, j >= i PROVE y[j + 1] = x[j]
  <2>1. PICK m \in 1 .. n - i + 1 : j = i + m - 1 /\ i + m = j + 1
    <3>1. j + 1 - i \in 1 .. n - i + 1 /\ j = i + (j + 1 - i) - 1 /\ i + (j + 1 - i) = j + 1
      BY <1>2, <1>12
    <3> QED BY <3>1
  <2> QED BY <1>6, <1>10, <2>1
<1> QED BY <1>1, <1>2, <1>8, <1>10, <1>11, <1>12

(* A new dimension of size 1 is in nobody's way.                           *)
LEMMA UnsqueezeStacked ==
  ASSUME NEW l, Shaped(l), Stacked(l), NEW dim \in 1 .. rank(l) + 1
  PROVE  Stacked(unsqueeze(l, dim))
<1>1. PICK stride : stride = IF dim <= rank(l) THEN l.sizes[dim] * l.strides[dim] ELSE 1
  OBVIOUS
<1>2. PICK k : k = unsqueeze(l, dim)
  OBVIOUS
<1>3. k.sizes = InsertAt(l.sizes, dim, 1) /\ k.strides = InsertAt(l.strides, dim, stride)
  BY <1>1, <1>2 DEF unsqueeze, Shaped
<1>4. PICK n \in Nat : n = rank(l)
  BY Strides DEF Shaped
<1>5. /\ Len(l.sizes) = n /\ Len(l.strides) = n
      /\ \A d \in 1 .. n : l.sizes[d] \in Nat /\ l.strides[d] \in Nat
      /\ l.sizes \in Seq(Nat) /\ l.strides \in Seq(Nat)
  BY <1>4, Strides DEF Shaped, Strided
<1>6. stride \in Nat
  <2>1. dim <= n => dim \in 1 .. n
    BY <1>4
  <2>2. \A x, y \in Nat : x * y \in Nat
    OBVIOUS
  <2> QED BY <1>1, <1>4, <1>5, <2>1, <2>2
<1>7. /\ k.sizes[dim] = 1 /\ rank(k) = n + 1
      /\ \A j \in 1 .. n : j < dim => k.sizes[j] = l.sizes[j]
      /\ \A j \in 1 .. n : j >= dim => k.sizes[j + 1] = l.sizes[j]
  <2>1. 1 \in Nat /\ dim \in 1 .. Len(l.sizes) + 1
    BY <1>4, <1>5
  <2>0. PICK x \in Seq(Nat) : x = l.sizes
    BY <1>5
  <2>2. PICK y : y = k.sizes
    OBVIOUS
  <2>3. y = InsertAt(x, dim, 1) /\ dim \in 1 .. Len(x) + 1
    BY <1>3, <2>0, <2>1, <2>2
  <2>4. /\ y[dim] = 1 /\ Len(y) = Len(x) + 1
        /\ \A j \in 1 .. Len(x) : j < dim => y[j] = x[j]
        /\ \A j \in 1 .. Len(x) : j >= dim => y[j + 1] = x[j]
    BY <2>1, <2>3, InsertElements, SMTT(60)
  <2> QED BY <1>5, <2>0, <2>2, <2>4 DEF rank
<1>8. /\ \A j \in 1 .. n : j < dim => k.strides[j] = l.strides[j]
      /\ \A j \in 1 .. n : j >= dim => k.strides[j + 1] = l.strides[j]
  <2>1. dim \in 1 .. Len(l.strides) + 1
    BY <1>4, <1>5
  <2>0. PICK x \in Seq(Nat) : x = l.strides
    BY <1>5
  <2>2. PICK y : y = k.strides
    OBVIOUS
  <2>3. y = InsertAt(x, dim, stride) /\ dim \in 1 .. Len(x) + 1
    BY <1>3, <2>0, <2>1, <2>2
  <2>4. /\ \A j \in 1 .. Len(x) : j < dim => y[j] = x[j]
        /\ \A j \in 1 .. Len(x) : j >= dim => y[j + 1] = x[j]
    BY <1>6, <2>3, InsertElements, SMTT(60)
  <2> QED BY <1>5, <2>0, <2>2, <2>4
<1>9. Strided(k) /\ Strided(l)
  BY <1>2, UnsqueezeShape DEF Reshaped, Shaped
<1>10. dim \in 1 .. n + 1
  BY <1>4
<1>11. CASE \E d \in 1 .. rank(l) : l.sizes[d] = 0
  <2>1. PICK d \in 1 .. n : l.sizes[d] = 0
    BY <1>4, <1>11
  <2>2. d \in 1 .. n + 1 /\ d + 1 \in 1 .. n + 1 /\ (d < dim \/ d >= dim)
    BY <1>10
  <2>3. k.sizes[d] = 0 \/ k.sizes[d + 1] = 0
    BY <1>7, <2>1, <2>2
  <2> QED BY <1>2, <1>7, <2>2, <2>3 DEF Stacked
<1>12. CASE \E f : StackOf(f, l)
  <2>1. PICK f : StackOf(f, l)
    BY <1>12
  <2>2. PICK p : p = [d \in 1 .. n + 1 |-> IF d < dim THEN d ELSE d - 1]
    OBVIOUS
  <2>3. ASSUME NEW d \in Axes(k)
        PROVE  /\ d \in 1 .. n + 1 /\ d # dim /\ p[d] \in 1 .. n
               /\ k.sizes[d] = l.sizes[p[d]] /\ k.strides[d] = l.strides[p[d]] /\ k.sizes[d] > 1
    <3>1. d \in 1 .. n + 1 /\ k.sizes[d] > 1
      BY <1>7 DEF Axes
    <3>2. d # dim
      BY <1>7, <3>1
    <3>3. CASE d < dim
      BY <1>7, <1>8, <1>10, <2>2, <3>1, <3>3
    <3>4. CASE d > dim
      <4>1. PICK j \in 1 .. n : j = d - 1
        BY <1>10, <3>1, <3>4
      <4>2. j >= dim /\ j + 1 = d /\ p[d] = j
        BY <1>10, <2>2, <3>1, <3>4, <4>1
      <4>3. k.sizes[j + 1] = l.sizes[j] /\ k.strides[j + 1] = l.strides[j]
        BY <1>7, <1>8, <4>2
      <4> QED BY <3>1, <3>2, <4>2, <4>3
    <3>5. d < dim \/ d > dim
      BY <1>10, <3>1, <3>2
    <3> QED BY <3>3, <3>4, <3>5
  <2>4. Picks(l, k, p)
    <3>1. ASSUME NEW d \in Axes(k)
          PROVE  /\ p[d] \in Axes(l) /\ l.strides[p[d]] <= k.strides[d]
                 /\ (k.sizes[d] - 1) * k.strides[d] <= (l.sizes[p[d]] - 1) * l.strides[p[d]]
      <4>1. PICK e \in 1 .. n : e = p[d]
        BY <2>3
      <4>2. k.sizes[d] = l.sizes[e] /\ k.strides[d] = l.strides[e] /\ l.sizes[e] > 1
        BY <2>3, <4>1
      <4>3. PICK x \in Int : x = (l.sizes[e] - 1) * l.strides[e]
        BY <1>5, SMTT(60)
      <4>4. l.strides[e] \in Nat
        BY <1>5
      <4> QED BY <1>4, <4>1, <4>2, <4>3, <4>4 DEF Axes
    <3>2. ASSUME NEW d \in Axes(k), NEW e \in Axes(k), p[d] = p[e] PROVE d = e
      <4>1. d \in 1 .. n + 1 /\ e \in 1 .. n + 1 /\ d # dim /\ e # dim
        BY <2>3
      <4> QED BY <1>10, <2>2, <3>2, <4>1
    <3> QED BY <3>1, <3>2 DEF Picks
  <2>5. \E g : StackOf(g, k)
    BY <1>9, <2>1, <2>4, PickedStack
  <2> QED BY <1>2, <2>5 DEF Stacked
<1> QED BY <1>11, <1>12 DEF Stacked

(* Steps k apart reach no further than steps of one.                       *)
Thinned(n, t, step, q) ==
  /\ q \in Nat /\ (n = 0 => q = 0)
  /\ q > 1 => n > 1 /\ (q - 1) * (t * step) <= (n - 1) * t
  /\ t * step \in Nat /\ t <= t * step
LEMMA SliceReach ==
  ASSUME NEW n \in Nat, NEW first \in 0 .. n, NEW last \in 0 .. n, NEW step \in Nat \ {0},
         NEW t \in Nat, NEW q, q = slice_size(first, last, step)
  PROVE  Thinned(n, t, step, q)
<1>1. q \in Nat
  BY SliceSizeIs
<1>2. n = 0 => q = 0
  BY DEF slice_size
<1>3. t * step \in Nat /\ t <= t * step
  <2>1. PICK j \in Nat : step = j + 1
    <3>1. step - 1 \in Nat /\ step = step - 1 + 1
      OBVIOUS
    <3> QED BY <3>1
  <2>2. t * step = t * j + t /\ t * j \in Nat
    BY <2>1
  <2> QED BY <2>2
<1>4. ASSUME q > 1 PROVE n > 1 /\ (q - 1) * (t * step) <= (n - 1) * t
  <2>1. last > first
    BY <1>4 DEF slice_size
  <2>2. PICK m \in Nat : m = last - first + step - 1
    BY <2>1
  <2>3. q = m \div step
    BY <2>1, <2>2 DEF slice_size
  <2>4. m = step * q + (m % step) /\ m % step \in 0 .. step - 1
    BY <2>3, Division
  <2>5. PICK j \in Nat : j = q - 1
    BY <1>1, <1>4
  <2>6. step * q = step * j + step /\ step * j \in Nat
    <3>1. q = j + 1
      BY <1>1, <2>5
    <3> QED BY <3>1
  <2>7. step * j <= n - 1
    BY <2>2, <2>4, <2>6
  <2>8. step * j >= j
    <3>1. PICK i \in Nat : step = i + 1
      <4>1. step - 1 \in Nat /\ step = step - 1 + 1
        OBVIOUS
      <4> QED BY <4>1
    <3>2. step * j = i * j + j /\ i * j \in Nat
      BY <3>1
    <3> QED BY <3>2
  <2>9. j >= 1
    BY <1>1, <1>4, <2>5
  <2>10. n - 1 \in Nat /\ n > 1
    BY <2>6, <2>7, <2>8, <2>9
  <2>11. (step * j) * t <= (n - 1) * t
    BY <2>6, <2>7, <2>10, Products
  <2>12. (q - 1) * (t * step) = (step * j) * t
    BY <2>5
  <2> QED BY <2>10, <2>11, <2>12
<1> QED BY <1>1, <1>2, <1>3, <1>4 DEF Thinned

LEMMA SliceStacked ==
  ASSUME NEW l, Shaped(l), Stacked(l), NEW d \in 1 .. rank(l), NEW start \in Int, NEW stop \in Int,
         NEW step \in Nat \ {0}
  PROVE  Stacked(slice(l, d, start, stop, step))
<1>1. PICK k : k = slice(l, d, start, stop, step)
  OBVIOUS
<1>2. PICK n \in Nat : n = rank(l)
  BY Strides DEF Shaped
<1>3. /\ l.sizes \in [1 .. n -> Nat] /\ l.strides \in [1 .. n -> Nat] /\ d \in 1 .. n
      /\ l.sizes[d] \in Nat /\ l.strides[d] \in Nat
  BY <1>2, Strides, SMTT(60) DEF Shaped, Strided
<1>4. PICK first \in 0 .. l.sizes[d] : first = clamp(start, l.sizes[d])
  BY <1>3, ClampIs
<1>5. PICK last \in 0 .. l.sizes[d] : last = clamp(stop, l.sizes[d])
  BY <1>3, ClampIs
<1>6. PICK q : q = slice_size(first, last, step)
  OBVIOUS
<1>7. /\ q \in Nat /\ (l.sizes[d] = 0 => q = 0)
      /\ q > 1 => l.sizes[d] > 1 /\ (q - 1) * (l.strides[d] * step) <= (l.sizes[d] - 1) * l.strides[d]
      /\ l.strides[d] * step \in Nat /\ l.strides[d] <= l.strides[d] * step
  <2>1. PICK a \in Nat : a = l.sizes[d]
    BY <1>3
  <2>2. PICK b \in Nat : b = l.strides[d]
    BY <1>3
  <2>3. first \in 0 .. a /\ last \in 0 .. a
    BY <2>1
  <2>4. Thinned(a, b, step, q)
    BY <1>6, <2>3, SliceReach
  <2> QED BY <2>1, <2>2, <2>4, Zenon DEF Thinned
<1>8. k.sizes = [l.sizes EXCEPT ![d] = q] /\ k.strides = [l.strides EXCEPT ![d] = @ * step]
  BY <1>1, <1>4, <1>5, <1>6 DEF slice, Shaped
<1>9. PICK t : t = l.strides[d] * step
  OBVIOUS
<1>10. /\ k.sizes[d] = q /\ k.strides[d] = t
       /\ \A e \in 1 .. n : e # d => k.sizes[e] = l.sizes[e] /\ k.strides[e] = l.strides[e]
  BY <1>3, <1>8, <1>9
<1>11. Strided(k) /\ Strided(l)
  BY <1>1, SliceShape DEF Reshaped, Shaped
<1>12. rank(k) = n
  <2>1. k.sizes \in [1 .. n -> Nat]
    BY <1>3, <1>7, <1>8, ZenonT(120)
  <2> QED BY <1>2, <2>1 DEF rank
<1>13. CASE \E e \in 1 .. rank(l) : l.sizes[e] = 0
  <2>1. PICK e \in 1 .. n : l.sizes[e] = 0
    BY <1>2, <1>13
  <2>2. k.sizes[e] = 0
    BY <1>7, <1>10, <2>1
  <2> QED BY <1>1, <1>12, <2>2 DEF Stacked
<1>14. CASE \E f : StackOf(f, l)
  <2>1. PICK f : StackOf(f, l)
    BY <1>14
  <2>2. PICK p : p = [e \in 1 .. n |-> e]
    OBVIOUS
  <2>3. ASSUME NEW e \in Axes(k)
        PROVE  /\ e \in 1 .. n /\ p[e] = e /\ e \in Axes(l) /\ l.strides[e] <= k.strides[e]
               /\ (k.sizes[e] - 1) * k.strides[e] <= (l.sizes[e] - 1) * l.strides[e]
    <3>1. e \in 1 .. n /\ k.sizes[e] > 1
      BY <1>12 DEF Axes
    <3>2. p[e] = e
      BY <2>2, <3>1
    <3>3. CASE e = d
      BY <1>2, <1>7, <1>9, <1>10, <3>1, <3>2, <3>3 DEF Axes
    <3>4. CASE e # d
      <4>1. k.sizes[e] = l.sizes[e] /\ k.strides[e] = l.strides[e]
        BY <1>10, <3>1, <3>4
      <4>2. l.sizes[e] \in Nat /\ l.strides[e] \in Nat
        BY <1>3, <3>1
      <4>3. PICK x \in Int : x = (l.sizes[e] - 1) * l.strides[e]
        BY <4>2
      <4> QED BY <1>2, <3>1, <3>2, <4>1, <4>2, <4>3 DEF Axes
    <3> QED BY <3>3, <3>4
  <2>4. Picks(l, k, p)
    BY <2>3 DEF Picks
  <2>5. \E g : StackOf(g, k)
    BY <1>11, <2>1, <2>4, PickedStack
  <2> QED BY <1>1, <2>5 DEF Stacked
<1> QED BY <1>13, <1>14 DEF Stacked

(* compute_view_strides.  A chunk is the dimensions it has swallowed joined *)
(* into one span, and the new dimensions carve that span up.               *)
LEMMA JoinedSpan ==
  ASSUME NEW a \in Span, NEW b \in Span, Room(a), a.n > 1, b.n > 1, b.t = a.n * a.t, b.e < b.t,
         Apart(a, b), NEW m, m = [n |-> a.n * b.n, t |-> a.t, e |-> a.e]
  PROVE  m \in Span /\ Room(m) /\ Top(a) <= b.e /\ Top(m) <= Top(b) /\ m.e = a.e
<1>1. /\ a.n \in Nat /\ a.t \in Nat /\ a.e \in Nat /\ b.n \in Nat /\ b.t \in Nat /\ b.e \in Nat
      /\ Top(a) \in Nat /\ Top(a) = a.e + (a.n - 1) * a.t
      /\ Top(b) \in Nat /\ Top(b) = b.e + (b.n - 1) * b.t /\ Top(b) >= b.e + b.t
  BY TopIs
<1>2. PICK n \in Nat : n = a.n - 1
  BY <1>1
<1>3. PICK s \in Nat : s = b.n - 1
  BY <1>1
<1>4. PICK t \in Nat : t = a.t
  BY <1>1
<1>5. a.n = n + 1 /\ b.n = s + 1 /\ n >= 1 /\ s >= 1
  BY <1>1, <1>2, <1>3
<1>6. /\ m.n = (n + 1) * (s + 1) /\ m.t = t /\ m.e = a.e
      /\ Top(a) = a.e + n * t /\ b.t = (n + 1) * t /\ Top(b) = b.e + s * ((n + 1) * t)
  BY <1>1, <1>2, <1>3, <1>4, <1>5
<1>7. (n + 1) * (s + 1) \in Nat
  OBVIOUS
<1>8. m \in Span
  BY <1>1, <1>4, <1>5, <1>7 DEF Span
<1>9. Room(m)
  <2>1. a.e < a.t
    BY DEF Room
  <2> QED BY <1>4, <1>6, <2>1 DEF Room
<1>10. Top(a) <= b.e
  <2>1. Top(a) <= b.e \/ Top(b) <= a.e
    BY DEF Apart
  <2>2. a.e < a.t
    BY DEF Room
  <2>3. a.t <= b.t
    <3>1. (n + 1) * t = n * t + t /\ n * t \in Nat
      OBVIOUS
    <3> QED BY <1>4, <1>6, <3>1
  <2>4. ~(Top(b) <= a.e)
    BY <1>1, <2>2, <2>3
  <2> QED BY <2>1, <2>4
<1>11. Top(m) <= Top(b)
  <2>1. Top(m) = a.e + ((n + 1) * (s + 1) - 1) * t
    BY <1>6 DEF Top
  <2>2. ((n + 1) * (s + 1) - 1) * t = n * t + s * ((n + 1) * t)
    OBVIOUS
  <2>3. n * t \in Nat /\ s * ((n + 1) * t) \in Nat
    OBVIOUS
  <2>4. PICK x \in Nat : x = n * t
    BY <2>3
  <2>5. PICK y \in Nat : y = s * ((n + 1) * t)
    BY <2>3
  <2>6. Top(m) = a.e + (x + y) /\ Top(a) = a.e + x /\ Top(b) = b.e + y
    BY <1>6, <2>1, <2>2, <2>4, <2>5
  <2> QED BY <1>1, <1>10, <2>6
<1> QED BY <1>6, <1>8, <1>9, <1>10, <1>11

\* What is apart from both of two dimensions in a row is apart from the one
\* they join into: there is no room for a dimension between them.
LEMMA JoinedApart ==
  ASSUME NEW a \in Span, NEW b \in Span, NEW c \in Span, Room(a), Room(c), a.n > 1, b.n > 1,
         b.t = a.n * a.t, b.e < b.t, Apart(a, b), Apart(a, c), Apart(b, c),
         NEW m, m = [n |-> a.n * b.n, t |-> a.t, e |-> a.e]
  PROVE  Apart(m, c)
<1> SUFFICES ASSUME m.n > 1, c.n > 1 PROVE Top(m) <= c.e \/ Top(c) <= m.e
  BY DEF Apart
<1>1. m \in Span /\ Top(a) <= b.e /\ Top(m) <= Top(b) /\ m.e = a.e
  BY JoinedSpan
<1>2. /\ a.n \in Nat /\ a.t \in Nat /\ a.e \in Nat /\ b.e \in Nat /\ b.t \in Nat /\ Top(b) \in Nat
      /\ Top(a) \in Nat /\ Top(a) = a.e + (a.n - 1) * a.t
      /\ c.e \in Nat /\ c.t \in Nat /\ Top(c) \in Nat /\ Top(c) >= c.e + c.t
  BY TopIs
<1>3. Top(m) \in Int
  BY <1>1, TopIs
<1>4. Top(a) <= c.e \/ Top(c) <= a.e
  BY DEF Apart
<1>5. Top(b) <= c.e \/ Top(c) <= b.e
  BY DEF Apart
<1>6. ~(Top(a) <= c.e /\ Top(c) <= b.e)
  <2> SUFFICES ASSUME Top(a) <= c.e, Top(c) <= b.e PROVE FALSE
    OBVIOUS
  <2>1. c.e < c.t
    BY DEF Room
  <2>2. PICK n \in Nat : a.n = n + 2
    <3>1. a.n - 2 \in Nat /\ a.n = (a.n - 2) + 2
      BY <1>2
    <3> QED BY <3>1
  <2>3. PICK t \in Nat : t = a.t
    BY <1>2
  <2>4. b.t = (n + 2) * t /\ Top(a) = a.e + (n + 1) * t
    <3>1. a.n - 1 = n + 1
      BY <2>2
    <3> QED BY <1>2, <2>2, <2>3, <3>1
  <2>5. PICK x \in Nat : x = n * t
    OBVIOUS
  <2>6. (n + 2) * t = x + t + t /\ (n + 1) * t = x + t
    BY <2>5
  <2> QED BY <1>2, <2>1, <2>4, <2>5, <2>6
<1> QED BY <1>1, <1>2, <1>3, <1>4, <1>5, <1>6

\* A single element keeps nothing out.
LEMMA SingleApart ==
  ASSUME NEW a, NEW b, a.n = 1 \/ b.n = 1
  PROVE  Apart(a, b)
BY DEF Apart

LEMMA ApartSymmetric ==
  ASSUME NEW a, NEW b, Apart(a, b)
  PROVE  Apart(b, a)
BY DEF Apart

\* g is the stack f with span j replaced by m.
Replaced(f, j, m, g) == Stack(g) /\ g[j] = m /\ \A i \in Int : i # j => g[i] = f[i]

LEMMA StackReplace ==
  ASSUME NEW f, Stack(f), NEW j \in Int, NEW m \in Span, Room(m),
         \A i \in Int : i # j => Apart(m, f[i])
  PROVE  \E g : Replaced(f, j, m, g)
<1>1. PICK g : g = [f EXCEPT ![j] = m]
  OBVIOUS
<1>2. f \in [Int -> Span]
  BY DEF Stack
<1>3. g \in [Int -> Span] /\ g[j] = m /\ \A i \in Int : i # j => g[i] = f[i]
  BY <1>1, <1>2
<1>4. \A i \in Int : Room(g[i])
  BY <1>3 DEF Stack
<1>5. ASSUME NEW i \in Int, NEW k \in Int, i # k PROVE Apart(g[i], g[k])
  <2>1. CASE i = j
    BY <1>3, <1>5, <2>1
  <2>2. CASE k = j
    BY <1>3, <1>5, <2>2, ApartSymmetric
  <2>3. CASE i # j /\ k # j
    BY <1>3, <1>5, <2>3 DEF Stack
  <2> QED BY <2>1, <2>2, <2>3
<1>6. Stack(g)
  BY <1>3, <1>4, <1>5 DEF Stack
<1> QED BY <1>3, <1>6 DEF Replaced

\* A dimension of one element fits anywhere, whatever its stride.
LEMMA StackSingle ==
  ASSUME NEW f, Stack(f), NEW j \in Int, NEW t \in Nat
  PROVE  \E g, m : Replaced(f, j, m, g) /\ m.n = 1 /\ m.t = t
<1>1. PICK m \in Span : m = [n |-> 1, t |-> t, e |-> 0]
  BY DEF Span
<1>2. Room(m) /\ m.n = 1 /\ m.t = t
  BY <1>1 DEF Room
<1>3. \A i \in Int : i # j => Apart(m, f[i])
  BY <1>2, SingleApart
<1> QED BY <1>2, <1>3, StackReplace

\* g is the stack f with its dimension k joined to dimension 0.
Merges(f, k, g) ==
  /\ Stack(g) /\ Spans(g, 0, f[0].n * f[k].n, f[0].t)
  /\ \A i \in Int \ {0, k} : g[i] = f[i]

LEMMA StackMerges ==
  ASSUME NEW f, Stack(f), NEW k \in Int \ {0}, f[0].n >= 1, f[k].n >= 1,
         f[k].n = 1 \/ f[k].t = f[0].n * f[0].t
  PROVE  \E g : Merges(f, k, g)
<1>1. PICK a \in Span : a = f[0]
  BY StackRoom
<1>2. PICK b \in Span : b = f[k]
  BY StackRoom
<1>3. a.n \in Nat /\ a.t \in Nat /\ a.e \in Nat /\ b.n \in Nat /\ b.t \in Nat /\ b.e \in Nat
  BY DEF Span
<1>4. Room(a) /\ Room(b) /\ Apart(a, b)
  BY <1>1, <1>2 DEF Stack
<1>5. \A i \in Int \ {0, k} : Apart(a, f[i]) /\ Apart(b, f[i]) /\ f[i] \in Span /\ Room(f[i])
  BY <1>1, <1>2 DEF Stack
<1>6. \E m \in Span : /\ Room(m) /\ m.n = a.n * b.n /\ m.t = a.t
                      /\ \A i \in Int \ {0, k} : Apart(m, f[i])
  <2>1. CASE a.n = 1
    <3>1. PICK m \in Span : m = [n |-> b.n, t |-> a.t, e |-> b.e]
      BY <1>3 DEF Span
    <3>2. m.n = b.n /\ m.t = a.t /\ m.e = b.e
      BY <3>1
    <3>3. CASE b.n = 1
      <4>1. Room(m)
        BY <3>2, <3>3 DEF Room
      <4>2. \A i \in Int \ {0, k} : Apart(m, f[i])
        BY <3>2, <3>3, SingleApart
      <4> QED BY <2>1, <3>2, <3>3, <4>1, <4>2
    <3>4. CASE b.n # 1
      <4>1. b.t = a.t
        BY <1>1, <1>2, <1>3, <2>1, <3>4
      <4>2. m = b
        BY <3>1, <4>1 DEF Span
      <4> QED BY <1>3, <1>4, <1>5, <2>1, <3>2, <4>2
    <3> QED BY <3>3, <3>4
  <2>2. CASE b.n = 1
    BY <1>3, <1>4, <1>5, <2>2
  <2>3. CASE a.n # 1 /\ b.n # 1
    <3>1. a.n > 1 /\ b.n > 1 /\ b.t = a.n * a.t
      BY <1>1, <1>2, <1>3, <2>3
    <3>2. PICK m : m = [n |-> a.n * b.n, t |-> a.t, e |-> a.e]
      OBVIOUS
    <3>3. b.e < b.t
      BY <1>4, <3>1 DEF Room
    <3>4. m \in Span /\ Room(m)
      BY <1>4, <3>1, <3>2, <3>3, JoinedSpan
    <3>5. \A i \in Int \ {0, k} : Apart(m, f[i])
      BY <1>4, <1>5, <3>1, <3>2, <3>3, JoinedApart
    <3>6. m.n = a.n * b.n /\ m.t = a.t
      BY <3>2
    <3> QED BY <3>4, <3>5, <3>6
  <2> QED BY <2>1, <2>2, <2>3
<1>7. PICK m \in Span : /\ Room(m) /\ m.n = a.n * b.n /\ m.t = a.t
                        /\ \A i \in Int \ {0, k} : Apart(m, f[i])
  BY <1>6
<1>8. PICK g, w : Replaced(f, k, w, g) /\ w.n = 1
  <2>1. 0 \in Nat /\ k \in Int
    OBVIOUS
  <2> QED BY <2>1, StackSingle
<1>9. Stack(g) /\ g[k].n = 1 /\ \A i \in Int : i # k => g[i] = f[i]
  BY <1>8 DEF Replaced
<1>10. \A i \in Int : i # 0 => Apart(m, g[i])
  <2> SUFFICES ASSUME NEW i \in Int, i # 0 PROVE Apart(m, g[i])
    OBVIOUS
  <2>1. CASE i = k
    BY <1>9, <2>1, SingleApart
  <2>2. CASE i # k
    BY <1>7, <1>9, <2>2
  <2> QED BY <2>1, <2>2
<1>11. PICK h : Replaced(g, 0, m, h)
  BY <1>7, <1>9, <1>10, StackReplace
<1>12. Stack(h) /\ h[0] = m /\ \A i \in Int \ {0, k} : h[i] = f[i]
  BY <1>9, <1>11 DEF Replaced
<1>13. Spans(h, 0, a.n * b.n, a.t)
  BY <1>7, <1>12 DEF Spans
<1> QED BY <1>1, <1>2, <1>12, <1>13 DEF Merges

\* c is the chunk c0 after new dimensions that carve it up: the elements of
\* dimension d are pieces[d] of the chunk's elements apart.
Pieces(dims, c0, c, pieces) ==
  /\ pieces \in [1 .. Len(dims) -> Nat]
  /\ \A d \in c.left + 1 .. c0.left :
       /\ pieces[d] >= 1 /\ pieces[d] * dims[d] <= c.view
       /\ c.strides[d] = pieces[d] * c0.base
  /\ \A d, e \in c.left + 1 .. c0.left : d < e => pieces[e] * dims[e] <= pieces[d]
Carves(dims, c0, c) ==
  /\ c.left <= c0.left /\ c.ok = c0.ok /\ c.base = c0.base /\ c.numel = c0.numel /\ c.view >= 1
  /\ \A d \in 1 .. Len(dims) : d > c0.left => c.strides[d] = c0.strides[d]
  /\ \E pieces : Pieces(dims, c0, c, pieces)

LEMMA CoveredCarves ==
  ASSUME NEW dims \in Seq(Nat), \A d \in 1 .. Len(dims) : dims[d] >= 1,
         NEW c0 \in Chunked(Len(dims)), NEW c \in Chunked(Len(dims)), Carves(dims, c0, c),
         NEW d \in 1 .. Len(dims)
  PROVE  Carves(dims, c0, Covered(dims, c, d))
<1> DEFINE m == Len(dims)
<1>1. CASE ~(d = c.left /\ (c.view < c.numel \/ dims[d] = 1))
  BY <1>1 DEF Covered
<1>2. CASE d = c.left /\ (c.view < c.numel \/ dims[d] = 1)
  <2>1. PICK k : k = Covered(dims, c, d)
    OBVIOUS
  <2>2. /\ c.left \in 0 .. m /\ c0.left \in 0 .. m /\ c.view \in Nat /\ c.base \in Nat
        /\ c.strides \in [1 .. m -> Nat] /\ m \in Nat /\ dims[d] \in Nat /\ dims[d] >= 1
    BY SMTT(60) DEF Chunked
  <2>3. k = [c EXCEPT !.left = d - 1, !.view = @ * dims[d], !.strides = [@ EXCEPT ![d] = c.view * c.base]]
    BY <1>2, <2>1 DEF Covered
  <2>4. PICK s : s = [c.strides EXCEPT ![d] = c.view * c.base]
    OBVIOUS
  <2>5. s[d] = c.view * c.base /\ \A e \in 1 .. m : e # d => s[e] = c.strides[e]
    BY <2>2, <2>4
  <2>6. /\ k.left = d - 1 /\ k.view = c.view * dims[d] /\ k.strides = s
        /\ k.ok = c.ok /\ k.base = c.base /\ k.numel = c.numel
    BY <2>3, <2>4 DEF Chunked
  <2>7. k.view >= c.view /\ k.view \in Nat
    <3>1. PICK x \in Nat : x = c.view
      BY <2>2
    <3>2. PICK y \in Nat : dims[d] = y + 1
      <4>1. dims[d] - 1 \in Nat /\ dims[d] = (dims[d] - 1) + 1
        BY <2>2, SMTT(60)
      <4> QED BY <4>1
    <3>3. x * (y + 1) = x * y + x /\ x * y \in Nat
      OBVIOUS
    <3>4. PICK z \in Nat : z = x * y
      BY <3>3
    <3>5. k.view = z + x
      BY <2>6, <3>1, <3>2, <3>3, <3>4
    <3>6. z + x >= x /\ z + x \in Nat
      OBVIOUS
    <3> QED BY <3>1, <3>5, <3>6, Zenon
  <2>8. PICK v : Pieces(dims, c0, c, v)
    BY DEF Carves
  <2>9. PICK w : w = [v EXCEPT ![d] = c.view]
    OBVIOUS
  <2>10. v \in [1 .. m -> Nat]
    BY <2>8 DEF Pieces
  <2>11. w \in [1 .. m -> Nat] /\ w[d] = c.view /\ \A e \in 1 .. m : e # d => w[e] = v[e]
    BY <2>2, <2>9, <2>10
  <2>12. c.left <= c0.left /\ c.base = c0.base /\ c.view >= 1
    BY DEF Carves
  <2>13. \A e \in k.left + 1 .. c0.left : e # d => e \in c.left + 1 .. c0.left /\ e > d /\ e \in 1 .. m
    <3>1. PICK top \in 0 .. m : top = c0.left
      BY <2>2
    <3>2. k.left + 1 = d /\ c.left = d
      BY <1>2, <2>2, <2>6
    <3>3. \A e \in d .. top : e # d => e \in d + 1 .. top /\ e > d /\ e \in 1 .. m
      BY <2>2, <3>1, SMTT(60)
    <3> QED BY <3>1, <3>2, <3>3
  <2>14. ASSUME NEW e \in k.left + 1 .. c0.left
         PROVE  w[e] >= 1 /\ w[e] * dims[e] <= k.view /\ k.strides[e] = w[e] * c0.base
    <3>1. CASE e = d
      <4>1. c.view * dims[d] <= k.view
        BY <2>6, <2>7
      <4> QED BY <2>5, <2>6, <2>11, <2>12, <3>1, <4>1
    <3>2. CASE e # d
      <4>1. e \in c.left + 1 .. c0.left /\ e \in 1 .. m
        BY <2>13, <3>2
      <4>2. v[e] >= 1 /\ v[e] * dims[e] <= c.view /\ c.strides[e] = v[e] * c0.base
        BY <2>8, <4>1 DEF Pieces
      <4>3. v[e] \in Nat /\ dims[e] \in Nat
        BY <2>10, <4>1, SMTT(60)
      <4>4. PICK x \in Nat : x = v[e] * dims[e]
        BY <4>3
      <4>5. x <= k.view
        BY <2>2, <2>7, <4>2, <4>4, SMTT(60)
      <4>6. w[e] = v[e] /\ k.strides[e] = c.strides[e]
        BY <2>5, <2>6, <2>11, <3>2, <4>1
      <4> QED BY <4>2, <4>4, <4>5, <4>6
    <3> QED BY <3>1, <3>2
  <2>15. ASSUME NEW i \in k.left + 1 .. c0.left, NEW e \in k.left + 1 .. c0.left, i < e
         PROVE  w[e] * dims[e] <= w[i]
    <3>0. i >= d /\ e # d /\ e \in Int /\ i \in Int
      BY <2>2, <2>6, <2>15
    <3>1. e \in c.left + 1 .. c0.left /\ e \in 1 .. m /\ w[e] = v[e]
      BY <2>11, <2>13, <3>0
    <3>2. CASE i = d
      BY <2>8, <2>11, <3>1, <3>2 DEF Pieces
    <3>3. CASE i # d
      <4>1. i \in c.left + 1 .. c0.left /\ w[i] = v[i]
        BY <2>11, <2>13, <3>3
      <4> QED BY <2>8, <2>15, <3>1, <4>1 DEF Pieces
    <3> QED BY <3>2, <3>3
  <2>16. Pieces(dims, c0, k, w)
    BY <2>11, <2>14, <2>15 DEF Pieces
  <2>17. k.left <= c0.left /\ k.view >= 1
    BY <1>2, <2>2, <2>6, <2>7, <2>12, SMTT(60)
  <2>18. ASSUME NEW e \in 1 .. m, e > c0.left PROVE k.strides[e] = c0.strides[e]
    <3>1. e # d
      BY <1>2, <2>2, <2>12, <2>18
    <3>2. c.strides[e] = c0.strides[e]
      BY <2>18 DEF Carves
    <3> QED BY <2>5, <2>6, <3>1, <3>2
  <2>19. k.ok = c0.ok /\ k.base = c0.base /\ k.numel = c0.numel
    BY <2>6 DEF Carves
  <2> QED BY <2>1, <2>16, <2>17, <2>18, <2>19 DEF Carves
<1> QED BY <1>1, <1>2

LEMMA CoverCarves ==
  ASSUME NEW dims \in Seq(Nat), \A d \in 1 .. Len(dims) : dims[d] >= 1,
         NEW c0 \in Chunked(Len(dims)), c0.view = 1
  PROVE  Cover(dims, c0) \in Chunked(Len(dims)) /\ Carves(dims, c0, Cover(dims, c0))
<1> DEFINE m == Len(dims)
           D == 1 .. m + 1
<1>1. PICK u : Covering(dims, c0, u)
  BY CoverSteps
<1> DEFINE S == {d \in D : Carves(dims, c0, u[d])}
<1>2. m \in Nat /\ 1 \in D /\ m + 1 \in D
  OBVIOUS
<1>3. Carves(dims, c0, c0)
  <2>1. c0.left \in Int
    BY DEF Chunked
  <2>2. PICK v : v = [d \in 1 .. m |-> 0]
    OBVIOUS
  <2>3. v \in [1 .. m -> Nat]
    BY <2>2
  <2>4. \A d \in c0.left + 1 .. c0.left : FALSE
    BY <2>1
  <2>5. Pieces(dims, c0, c0, v)
    BY <2>3, <2>4 DEF Pieces
  <2> QED BY <2>1, <2>5 DEF Carves
<1>4. m + 1 \in S
  BY <1>1, <1>2, <1>3 DEF Covering
<1>5. ASSUME NEW d \in 1 .. m, d + 1 \in S PROVE d \in S
  <2>1. d \in D /\ d + 1 \in D
    BY <1>2
  <2>2. u[d + 1] \in Chunked(m) /\ u[d] = Covered(dims, u[d + 1], d)
    BY <1>1, <2>1 DEF Covering
  <2>3. Carves(dims, c0, u[d + 1])
    BY <1>5
  <2>4. Carves(dims, c0, Covered(dims, u[d + 1], d))
    BY <2>2, <2>3, CoveredCarves
  <2> QED BY <2>1, <2>2, <2>4
<1>6. D \subseteq S
  <2> HIDE DEF S
  <2> QED BY <1>2, <1>4, <1>5, Descent
<1>7. Carves(dims, c0, u[1]) /\ u[1] \in Chunked(m) /\ Cover(dims, c0) = u[1]
  BY <1>1, <1>2, <1>6 DEF Covering
<1> QED BY <1>7

(* The part of span a that a new dimension of `size` elements, `piece`     *)
(* elements of a apart, goes over.                                         *)
Part(a, piece, size) == [n |-> size, t |-> piece * a.t, e |-> a.e + (piece - 1) * a.t]

LEMMA PartIs ==
  ASSUME NEW a \in Span, Room(a), NEW v \in Nat, v >= 1, NEW s \in Nat, v * s <= a.n,
         NEW p, p = Part(a, v, s)
  PROVE  /\ p \in Span /\ Room(p) /\ p.n = s /\ p.t = v * a.t
         /\ s > 1 => /\ p.e = a.e + (v - 1) * a.t /\ a.e <= p.e
                     /\ Top(p) = a.e + (v * s - 1) * a.t /\ Top(p) <= Top(a)
<1>1. /\ a.n \in Nat /\ a.t \in Nat /\ a.e \in Nat /\ Top(a) = a.e + (a.n - 1) * a.t
  BY TopIs
<1>2. PICK u \in Nat : v = u + 1
  <2>1. v - 1 \in Nat /\ v = (v - 1) + 1
    OBVIOUS
  <2> QED BY <2>1
<1>3. PICK t \in Nat : t = a.t
  BY <1>1
<1>4. PICK y \in Nat : y = u * t
  OBVIOUS
<1>5. v * t = y + t /\ (v - 1) * t = y
  BY <1>2, <1>4
<1>6. p = [n |-> s, t |-> y + t, e |-> a.e + y]
  BY <1>3, <1>5 DEF Part
<1>7. p \in Span /\ p.n = s /\ p.t = y + t /\ p.e = a.e + y
  BY <1>1, <1>6 DEF Span
<1>8. Room(p) /\ (s > 1 => a.e <= p.e)
  <2> SUFFICES ASSUME s > 1 PROVE p.e < p.t /\ a.e <= p.e
    BY <1>7 DEF Room
  <2>1. v * s >= s
    <3>1. PICK z \in Nat : z = u * s
      OBVIOUS
    <3>2. v * s = z + s
      BY <1>2, <3>1
    <3> QED BY <3>2
  <2>2. v * s \in Nat
    OBVIOUS
  <2>3. a.n > 1
    BY <1>1, <2>1, <2>2
  <2>4. a.e < t
    BY <1>3, <2>3 DEF Room
  <2> QED BY <1>1, <1>7, <2>4
<1>9. ASSUME s > 1
      PROVE  Top(p) = a.e + (v * s - 1) * a.t /\ Top(p) <= Top(a)
  <2>1. PICK w \in Nat : w = v * s
    OBVIOUS
  <2>2. Top(p) = (a.e + y) + (s - 1) * (v * t)
    BY <1>5, <1>7 DEF Top
  <2>3. y + (s - 1) * (v * t) = (v * s - 1) * t
    <3>1. (s - 1) * (v * t) = (v * s) * t - v * t
      OBVIOUS
    <3>2. (v * s - 1) * t = (v * s) * t - t
      OBVIOUS
    <3>3. PICK x \in Int : x = (v * s) * t
      OBVIOUS
    <3> QED BY <1>5, <3>1, <3>2, <3>3
  <2>4. PICK x \in Int : x = (s - 1) * (v * t)
    OBVIOUS
  <2>5. Top(p) = a.e + (v * s - 1) * t
    <3>1. PICK r \in Int : r = (v * s - 1) * t
      OBVIOUS
    <3>2. y + x = r /\ Top(p) = (a.e + y) + x
      BY <2>2, <2>3, <2>4, <3>1
    <3>3. PICK e \in Nat : e = a.e
      BY <1>1
    <3>4. (e + y) + x = e + (y + x)
      OBVIOUS
    <3> QED BY <3>1, <3>2, <3>3, <3>4, Zenon
  <2>6. w - 1 \in Int /\ a.n - 1 \in Int /\ w - 1 <= a.n - 1 /\ w - 1 \in Nat /\ a.n - 1 \in Nat
    <3>1. w >= 1
      <4>1. PICK z \in Nat : z = u * s
        OBVIOUS
      <4>2. w = z + s
        BY <1>2, <2>1, <4>1
      <4> QED BY <1>9, <4>2
    <3> QED BY <1>1, <2>1, <3>1
  <2>7. (w - 1) * t <= (a.n - 1) * t
    BY <2>6, Products
  <2>8. (w - 1) * t \in Int /\ (a.n - 1) * t \in Int
    BY <2>6
  <2>9. Top(p) <= Top(a)
    <3>1. PICK r \in Int : r = (w - 1) * t
      BY <2>8
    <3>2. PICK q \in Int : q = (a.n - 1) * t
      BY <2>8
    <3>3. Top(p) = a.e + r /\ Top(a) = a.e + q /\ r <= q
      BY <1>1, <1>3, <2>1, <2>5, <2>7, <3>1, <3>2
    <3> QED BY <1>1, <3>3
  <2> QED BY <1>3, <2>5, <2>9
<1>10. p.t = v * a.t /\ p.e = a.e + (v - 1) * a.t
  BY <1>3, <1>5, <1>7
<1> QED BY <1>7, <1>8, <1>9, <1>10

\* What is apart from a span is apart from its parts.
LEMMA PartApart ==
  ASSUME NEW a \in Span, Room(a), NEW v \in Nat, v >= 1, NEW s \in Nat, v * s <= a.n,
         NEW p, p = Part(a, v, s), NEW c \in Span, Apart(a, c)
  PROVE  Apart(p, c)
<1> SUFFICES ASSUME p.n > 1, c.n > 1 PROVE Top(p) <= c.e \/ Top(c) <= p.e
  BY DEF Apart
<1>1. /\ p \in Span /\ p.n = s /\ Top(p) <= Top(a) /\ a.e <= p.e
  BY PartIs
<1>2. /\ Top(p) \in Int /\ Top(a) \in Int /\ Top(c) \in Int
      /\ a.e \in Nat /\ p.e \in Nat /\ c.e \in Nat /\ a.n \in Nat
  BY <1>1, TopIs
<1>3. a.n > 1
  <2>1. PICK u \in Nat : v = u + 1
    <3>1. v - 1 \in Nat /\ v = (v - 1) + 1
      OBVIOUS
    <3> QED BY <3>1
  <2>2. PICK z \in Nat : z = u * s
    OBVIOUS
  <2>3. v * s = z + s
    BY <2>1, <2>2
  <2>4. z + s <= a.n /\ s > 1
    BY <1>1, <2>3
  <2> QED BY <1>2, <2>4
<1>4. Top(a) <= c.e \/ Top(c) <= a.e
  BY <1>3 DEF Apart
<1> QED BY <1>1, <1>2, <1>4

\* Of two parts, the one with the smaller pieces fits in a piece of the other.
LEMMA PartsApart ==
  ASSUME NEW a \in Span, Room(a), NEW v \in Nat, v >= 1, NEW s \in Nat, v * s <= a.n,
         NEW w \in Nat, w >= 1, NEW r \in Nat, w * r <= v,
         NEW p, p = Part(a, v, s), NEW q, q = Part(a, w, r), w * r <= a.n
  PROVE  Apart(p, q)
<1> SUFFICES ASSUME p.n > 1, q.n > 1 PROVE Top(q) <= p.e
  BY DEF Apart
<1>1. a.e \in Nat /\ a.t \in Nat
  BY DEF Span
<1>2. p \in Span /\ p.n = s /\ p.e = a.e + (v - 1) * a.t
  BY PartIs
<1>3. q \in Span /\ q.n = r /\ Top(q) = a.e + (w * r - 1) * a.t
  BY PartIs
<1>4. PICK x \in Nat : x = w * r
  OBVIOUS
<1>5. x >= 1
  <2>1. PICK u \in Nat : w = u + 1
    <3>1. w - 1 \in Nat /\ w = (w - 1) + 1
      OBVIOUS
    <3> QED BY <3>1
  <2>2. PICK z \in Nat : z = u * r
    OBVIOUS
  <2>3. x = z + r /\ r > 1
    BY <1>3, <1>4, <2>1, <2>2
  <2> QED BY <2>3
<1>6. x - 1 \in Nat /\ v - 1 \in Nat /\ x - 1 <= v - 1
  BY <1>4, <1>5
<1>7. (x - 1) * a.t <= (v - 1) * a.t /\ (x - 1) * a.t \in Nat /\ (v - 1) * a.t \in Nat
  BY <1>1, <1>6, Products
<1>8. PICK i \in Nat : i = (x - 1) * a.t
  BY <1>7
<1>9. PICK j \in Nat : j = (v - 1) * a.t
  BY <1>7
<1>10. Top(q) = a.e + i /\ p.e = a.e + j /\ i <= j
  BY <1>2, <1>3, <1>4, <1>7, <1>8, <1>9
<1> QED BY <1>1, <1>10

\* g is the stack f with dimension 0 split into the new dimensions of c, and
\* a single element of stride t in its place.
Splits(dims, c0, c, t, f, g) ==
  /\ Stack(g) /\ Spans(g, 0, 1, t)
  /\ \A d \in c.left + 1 .. c0.left : Spans(g, -d, dims[d], c.strides[d])
  /\ \A i \in Int : i # 0 /\ -i \notin c.left + 1 .. c0.left => g[i] = f[i]

LEMMA StackSplits ==
  ASSUME NEW dims \in Seq(Nat), NEW c0 \in Chunked(Len(dims)), NEW c \in Chunked(Len(dims)),
         Carves(dims, c0, c), c.view = c0.numel, NEW f, Stack(f), Spans(f, 0, c0.numel, c0.base),
         NEW t \in Nat
  PROVE  \E g : Splits(dims, c0, c, t, f, g)
<1> DEFINE m == Len(dims)
           N == c.left + 1 .. c0.left
<1>1. PICK a \in Span : a = f[0]
  BY StackRoom
<1>2. a.n = c.view /\ a.t = c0.base /\ Room(a) /\ \A i \in Int : i # 0 => Apart(a, f[i])
  BY <1>1 DEF Spans, Stack
<1>3. PICK v : Pieces(dims, c0, c, v)
  BY DEF Carves
<1>4. /\ c.left \in 0 .. m /\ c0.left \in 0 .. m /\ m \in Nat
      /\ \A d \in 1 .. m : dims[d] \in Nat
  BY DEF Chunked
<1>5. \A d \in N : d \in 1 .. m /\ d \in Int
  BY <1>4
<1>6. \A d \in N : /\ v[d] \in Nat /\ dims[d] \in Nat /\ v[d] >= 1
                   /\ v[d] * dims[d] <= a.n /\ c.strides[d] = v[d] * a.t
  BY <1>2, <1>3, <1>4, <1>5 DEF Pieces
<1> HIDE DEF N
<1>7. PICK q : q = [d \in N |-> Part(a, v[d], dims[d])]
  OBVIOUS
<1>8. ASSUME NEW d \in N
      PROVE  q[d] \in Span /\ Room(q[d]) /\ q[d].n = dims[d] /\ q[d].t = c.strides[d]
  <2>1. q[d] = Part(a, v[d], dims[d])
    BY <1>7
  <2>2. v[d] \in Nat /\ dims[d] \in Nat /\ v[d] >= 1 /\ v[d] * dims[d] <= a.n
    BY <1>6
  <2>3. PICK x \in Nat : x = v[d]
    BY <2>2
  <2>4. PICK s \in Nat : s = dims[d]
    BY <2>2
  <2>5. x >= 1 /\ x * s <= a.n /\ q[d] = Part(a, x, s)
    BY <2>1, <2>2, <2>3, <2>4
  <2>6. q[d] \in Span /\ Room(q[d]) /\ q[d].n = s /\ q[d].t = x * a.t
    BY <1>2, <2>5, PartIs
  <2> QED BY <1>6, <2>3, <2>4, <2>6
<1>9. ASSUME NEW d \in N, NEW b \in Span, Apart(a, b) PROVE Apart(q[d], b)
  <2>1. PICK x \in Nat : x = v[d]
    BY <1>6
  <2>2. PICK s \in Nat : s = dims[d]
    BY <1>6
  <2>3. x >= 1 /\ x * s <= a.n /\ q[d] = Part(a, x, s)
    BY <1>6, <1>7, <2>1, <2>2
  <2> QED BY <1>2, <1>9, <2>3, PartApart
<1>10. ASSUME NEW d \in N, NEW e \in N, d < e PROVE Apart(q[d], q[e])
  <2>1. PICK x \in Nat : x = v[d]
    BY <1>6
  <2>2. PICK s \in Nat : s = dims[d]
    BY <1>6
  <2>3. x >= 1 /\ x * s <= a.n /\ q[d] = Part(a, x, s)
    BY <1>6, <1>7, <2>1, <2>2
  <2>4. PICK y \in Nat : y = v[e]
    BY <1>6
  <2>5. PICK r \in Nat : r = dims[e]
    BY <1>6
  <2>6. y >= 1 /\ y * r <= a.n /\ q[e] = Part(a, y, r)
    BY <1>6, <1>7, <2>4, <2>5
  <2>7. y * r <= x
    BY <1>3, <1>10, <2>1, <2>4, <2>5 DEF Pieces, N
  <2> QED BY <1>2, <2>3, <2>6, <2>7, PartsApart
<1>11. PICK o \in Span : o = [n |-> 1, t |-> t, e |-> 0]
  BY DEF Span
<1>12. o.n = 1 /\ o.t = t /\ Room(o)
  BY <1>11 DEF Room
<1>13. PICK g : g = [i \in Int |-> IF i = 0 THEN o ELSE IF -i \in N THEN q[-i] ELSE f[i]]
  OBVIOUS
<1>14. /\ g[0] = o
       /\ \A i \in Int : i # 0 /\ -i \in N => g[i] = q[-i]
       /\ \A i \in Int : i # 0 /\ -i \notin N => g[i] = f[i]
  BY <1>13
<1>15. ASSUME NEW i \in Int PROVE g[i] \in Span /\ Room(g[i])
  <2>1. CASE i = 0
    BY <1>12, <1>14, <2>1
  <2>2. CASE i # 0 /\ -i \in N
    BY <1>8, <1>14, <2>2
  <2>3. CASE i # 0 /\ -i \notin N
    BY <1>14, <2>3 DEF Stack
  <2> QED BY <2>1, <2>2, <2>3
<1>16. ASSUME NEW i \in Int, NEW j \in Int, i # j PROVE Apart(g[i], g[j])
  <2>1. CASE i = 0 \/ j = 0
    BY <1>12, <1>14, <2>1, SingleApart
  <2>2. CASE i # 0 /\ -i \in N /\ j # 0 /\ -j \notin N
    BY <1>2, <1>9, <1>14, <2>2 DEF Stack
  <2>3. CASE i # 0 /\ -i \notin N /\ j # 0 /\ -j \in N
    <3>1. Apart(q[-j], f[i])
      BY <1>2, <1>9, <2>3 DEF Stack
    <3> QED BY <1>14, <2>3, <3>1, ApartSymmetric
  <2>4. CASE i # 0 /\ -i \notin N /\ j # 0 /\ -j \notin N
    BY <1>14, <1>16, <2>4 DEF Stack
  <2>5. CASE i # 0 /\ -i \in N /\ j # 0 /\ -j \in N
    <3>1. PICK d \in N : d = -i
      BY <2>5
    <3>2. PICK e \in N : e = -j
      BY <2>5
    <3>3. d < e \/ e < d
      BY <1>16, <3>1, <3>2
    <3>4. Apart(q[d], q[e])
      BY <1>10, <3>3, ApartSymmetric
    <3> QED BY <1>14, <2>5, <3>1, <3>2, <3>4
  <2> QED BY <2>1, <2>2, <2>3, <2>4, <2>5
<1>17. Stack(g)
  <2>1. g \in [Int -> Span]
    <3>1. g = [i \in Int |-> g[i]]
      BY <1>13
    <3> QED BY <1>15, <3>1
  <2> QED BY <1>15, <1>16, <2>1 DEF Stack
<1>18. ASSUME NEW d \in N PROVE Spans(g, -d, dims[d], c.strides[d])
  <2>1. -d \in Int /\ -d # 0 /\ -(-d) = d
    BY <1>4, <1>5
  <2>2. g[-d] = q[d]
    BY <1>14, <2>1
  <2> QED BY <1>8, <2>2 DEF Spans
<1>19. Spans(g, 0, 1, t)
  BY <1>12, <1>14 DEF Spans
<1> QED BY <1>14, <1>17, <1>18, <1>19 DEF Splits, N

(* A stack of what is left of the old dimensions, the chunk, and the new   *)
(* dimensions so far, in which old dimension k joins the chunk.            *)
BuiltOf(l, dims, k, c, f) ==
  /\ Stack(f)
  /\ \A b \in 1 .. k : Spans(f, b, l.sizes[b], l.strides[b])
  /\ \A d \in 1 .. Len(dims) : d > c.left => Spans(f, -d, dims[d], c.strides[d])
  /\ k > 0 => Spans(f, 0, c.numel, c.base)
Joins(l, k, c) ==
  k > 0 => /\ c.view = 1 /\ c.numel >= 1
           /\ l.sizes[k] = 1 \/ l.strides[k] = c.numel * c.base
Building(l, dims, k, c) == c.ok => (\E f : BuiltOf(l, dims, k, c, f)) /\ Joins(l, k, c)

LEMMA ChunkBuilds ==
  ASSUME NEW l, Strided(l), \A d \in 1 .. rank(l) : l.sizes[d] >= 1,
         NEW dims \in Seq(Nat), \A d \in 1 .. Len(dims) : dims[d] >= 1,
         NEW k \in 1 .. rank(l), NEW c \in Chunked(Len(dims)), Building(l, dims, k, c)
  PROVE  Building(l, dims, k - 1, Chunk(l, dims, k, c))
<1> DEFINE m == Len(dims)
<1>1. m \in Nat /\ rank(l) \in Nat /\ \A d \in 1 .. rank(l) : l.sizes[d] \in Nat /\ l.strides[d] \in Nat
  BY Strides
<1>2. PICK n \in Nat : n = c.numel * l.sizes[k]
  <2>1. c.numel \in Nat /\ l.sizes[k] \in Nat
    BY <1>1 DEF Chunked
  <2> QED BY <2>1
<1>3. PICK g \in Chunked(m) : g = Growing(c, n)
  BY <1>1, ChunkUpdates
<1>4. PICK s \in Chunked(m) : s = Cover(dims, g)
  BY CoverIs
<1>5. PICK r : r = Chunk(l, dims, k, c)
  OBVIOUS
<1>6. r = IF ~c.ok THEN c
          ELSE IF ~ChunkEnds(l, k, g) THEN g
          ELSE IF s.view # s.numel THEN Failing(s)
          ELSE IF k = 1 THEN s
          ELSE Starting(s, l.strides[k - 1])
  BY <1>2, <1>3, <1>4, <1>5 DEF Chunk, Growing, Failing, Starting
<1> SUFFICES ASSUME r.ok
             PROVE  (\E f : BuiltOf(l, dims, k - 1, r, f)) /\ Joins(l, k - 1, r)
  BY <1>5 DEF Building
<1>7. c.ok
  BY <1>6
<1>8. PICK f : BuiltOf(l, dims, k, c, f)
  BY <1>7 DEF Building
<1>9. /\ k > 0 /\ c.view = 1 /\ c.numel >= 1
      /\ l.sizes[k] = 1 \/ l.strides[k] = c.numel * c.base
  BY <1>7 DEF Building, Joins
<1>10. /\ g.numel = n /\ g.base = c.base /\ g.view = 1 /\ g.left = c.left /\ g.strides = c.strides
       /\ c.numel \in Nat /\ c.base \in Nat /\ c.left \in 0 .. m
  BY <1>3, <1>9 DEF Growing, Chunked
<1>11. n >= 1
  <2>1. PICK x \in Nat : c.numel = x + 1
    <3>1. c.numel - 1 \in Nat /\ c.numel = (c.numel - 1) + 1
      BY <1>9, <1>10
    <3> QED BY <3>1
  <2>2. PICK y \in Nat : y = l.sizes[k]
    BY <1>1
  <2>3. PICK z \in Nat : z = x * y
    OBVIOUS
  <2>4. (x + 1) * y = x * y + y
    OBVIOUS
  <2>5. n = z + y
    BY <1>2, <2>1, <2>2, <2>3, <2>4, Zenon
  <2>6. y >= 1
    BY <2>2
  <2> QED BY <2>5, <2>6
<1>12. PICK h : Merges(f, k, h)
  <2>1. Stack(f) /\ Spans(f, 0, c.numel, c.base) /\ Spans(f, k, l.sizes[k], l.strides[k])
    BY <1>8, <1>9 DEF BuiltOf
  <2>2. f[0].n >= 1 /\ f[k].n >= 1 /\ (f[k].n = 1 \/ f[k].t = f[0].n * f[0].t)
    BY <1>9, <2>1 DEF Spans
  <2>3. k \in Int \ {0}
    BY <1>1
  <2> QED BY <2>1, <2>2, <2>3, StackMerges
<1>13. /\ Stack(h) /\ Spans(h, 0, n, c.base)
       /\ \A b \in 1 .. k - 1 : Spans(h, b, l.sizes[b], l.strides[b])
       /\ \A d \in 1 .. m : d > c.left => Spans(h, -d, dims[d], c.strides[d])
  <2>1. Stack(h) /\ Spans(h, 0, f[0].n * f[k].n, f[0].t) /\ \A i \in Int \ {0, k} : h[i] = f[i]
    BY <1>12 DEF Merges
  <2>2. f[0].n = c.numel /\ f[0].t = c.base /\ f[k].n = l.sizes[k]
    BY <1>8, <1>9 DEF BuiltOf, Spans
  <2>3. ASSUME NEW b \in 1 .. k - 1 PROVE Spans(h, b, l.sizes[b], l.strides[b])
    <3>1. b \in 1 .. k /\ b \in Int \ {0, k}
      BY <1>1
    <3> QED BY <1>8, <2>1, <3>1, ZenonT(120) DEF BuiltOf, Spans
  <2>4. ASSUME NEW d \in 1 .. m, d > c.left PROVE Spans(h, -d, dims[d], c.strides[d])
    <3>1. -d \in Int \ {0, k}
      BY <1>1
    <3> QED BY <1>8, <2>1, <2>4, <3>1, SMTT(60) DEF BuiltOf, Spans
  <2> QED BY <1>2, <2>1, <2>2, <2>3, <2>4
<1>14. CASE ~ChunkEnds(l, k, g)
  <2>1. r = g
    BY <1>6, <1>7, <1>14
  <2>2. k # 1 /\ (l.sizes[k - 1] = 1 \/ l.strides[k - 1] = g.numel * g.base)
    BY <1>14 DEF ChunkEnds
  <2>3. BuiltOf(l, dims, k - 1, r, h)
    BY <1>10, <1>13, <2>1 DEF BuiltOf
  <2>4. Joins(l, k - 1, r)
    BY <1>10, <1>11, <2>1, <2>2 DEF Joins
  <2> QED BY <2>3, <2>4
<1>15. CASE ChunkEnds(l, k, g)
  <2>1. s.view = s.numel
    BY <1>6, <1>7, <1>15 DEF Failing, Chunked
  <2>2. Carves(dims, g, s)
    BY <1>4, <1>10, CoverCarves
  <2>3. s.numel = n /\ s.view = g.numel
    BY <1>10, <2>1, <2>2 DEF Carves
  <2>4. /\ s.left \in 0 .. m /\ s.left <= c.left
        /\ \A d \in 1 .. m : d > c.left => s.strides[d] = c.strides[d]
    BY <1>10, <2>2 DEF Carves, Chunked
  <2>5. ASSUME NEW t \in Nat
        PROVE  \E x : /\ Stack(x) /\ Spans(x, 0, 1, t)
                      /\ \A b \in 1 .. k - 1 : Spans(x, b, l.sizes[b], l.strides[b])
                      /\ \A d \in 1 .. m : d > s.left => Spans(x, -d, dims[d], s.strides[d])
    <3>1. Spans(h, 0, g.numel, g.base)
      BY <1>10, <1>13
    <3>2. PICK x : Splits(dims, g, s, t, h, x)
      BY <1>13, <2>2, <2>3, <3>1, StackSplits
    <3>3. /\ Stack(x) /\ Spans(x, 0, 1, t)
          /\ \A d \in s.left + 1 .. c.left : Spans(x, -d, dims[d], s.strides[d])
          /\ \A i \in Int : i # 0 /\ -i \notin s.left + 1 .. c.left => x[i] = h[i]
      BY <1>10, <3>2 DEF Splits
    <3>4. ASSUME NEW b \in 1 .. k - 1 PROVE Spans(x, b, l.sizes[b], l.strides[b])
      <4>1. b \in Int /\ b # 0 /\ -b \notin s.left + 1 .. c.left
        BY <1>1, <1>10, <2>4
      <4> QED BY <1>13, <3>3, <4>1, ZenonT(120) DEF Spans
    <3>5. ASSUME NEW d \in 1 .. m, d > s.left PROVE Spans(x, -d, dims[d], s.strides[d])
      <4>1. CASE d <= c.left
        <5>1. d \in s.left + 1 .. c.left
          BY <1>10, <2>4, <3>5, <4>1
        <5> QED BY <3>3, <5>1
      <4>2. CASE ~(d <= c.left)
        <5>1. d > c.left /\ -d \in Int /\ -d # 0 /\ -(-d) \notin s.left + 1 .. c.left
          BY <1>10, <2>4, <4>2, SMTT(60)
        <5>2. x[-d] = h[-d]
          BY <3>3, <5>1
        <5> QED BY <1>13, <2>4, <5>1, <5>2 DEF Spans
      <4> QED BY <4>1, <4>2
    <3> QED BY <3>3, <3>4, <3>5
  <2>6. CASE k = 1
    <3>1. r = s
      BY <1>6, <1>7, <1>15, <2>1, <2>6
    <3>2. PICK x : /\ Stack(x)
                   /\ \A b \in 1 .. k - 1 : Spans(x, b, l.sizes[b], l.strides[b])
                   /\ \A d \in 1 .. m : d > s.left => Spans(x, -d, dims[d], s.strides[d])
      <4>1. 0 \in Nat
        OBVIOUS
      <4> QED BY <2>5, <4>1
    <3>3. ~(k - 1 > 0)
      BY <2>6
    <3>4. BuiltOf(l, dims, k - 1, r, x)
      BY <3>1, <3>2, <3>3 DEF BuiltOf
    <3> QED BY <3>3, <3>4 DEF Joins
  <2>7. CASE k # 1
    <3>1. PICK t \in Nat : t = l.strides[k - 1]
      BY <1>1, <2>7, SMTT(60)
    <3>2. r = Starting(s, t)
      BY <1>6, <1>7, <1>15, <2>1, <2>7, <3>1
    <3>3. r.base = t /\ r.numel = 1 /\ r.view = 1 /\ r.left = s.left /\ r.strides = s.strides
      BY <3>2 DEF Starting, Chunked
    <3>4. PICK x : /\ Stack(x) /\ Spans(x, 0, 1, t)
                   /\ \A b \in 1 .. k - 1 : Spans(x, b, l.sizes[b], l.strides[b])
                   /\ \A d \in 1 .. m : d > s.left => Spans(x, -d, dims[d], s.strides[d])
      BY <2>5
    <3>5. BuiltOf(l, dims, k - 1, r, x)
      BY <3>3, <3>4 DEF BuiltOf
    <3>6. Joins(l, k - 1, r)
      BY <3>1, <3>3 DEF Joins
    <3> QED BY <3>5, <3>6
  <2> QED BY <2>6, <2>7
<1> QED BY <1>14, <1>15

LEMMA ChunksStacked ==
  ASSUME NEW l, Strided(l), rank(l) # 0, \A d \in 1 .. rank(l) : l.sizes[d] >= 1,
         \E f : StackOf(f, l), NEW dims \in Seq(Nat), \A d \in 1 .. Len(dims) : dims[d] >= 1,
         NEW all, all = Chunks(l, dims), all.ok, all.left = 0
  PROVE  \E g : Stack(g) /\ \A d \in 1 .. Len(dims) : Spans(g, d, dims[d], all.strides[d])
<1> DEFINE m == Len(dims)
           n == rank(l)
           D == 1 .. n + 1
<1>1. m \in Nat /\ n \in Nat /\ n \in 1 .. n /\ \A d \in 1 .. n : l.strides[d] \in Nat
  BY Strides
<1>2. PICK u : Chunking(l, dims, u)
  BY ChunkSteps
<1>3. PICK start : start = u[n + 1]
  OBVIOUS
<1>4. /\ start.left = m /\ start.base = l.strides[n] /\ start.numel = 1 /\ start.view = 1
  BY <1>2, <1>3 DEF Chunking
<1>5. Building(l, dims, n, start)
  <2>1. PICK f : StackOf(f, l)
    OBVIOUS
  <2>2. PICK t \in Nat : t = l.strides[n]
    BY <1>1
  <2>3. PICK g, w : Replaced(f, 0, w, g) /\ w.n = 1 /\ w.t = t
    <3>1. Stack(f)
      BY <2>1 DEF StackOf
    <3> QED BY <3>1, StackSingle
  <2>4. Stack(g) /\ Spans(g, 0, 1, t) /\ \A i \in Int : i # 0 => g[i] = f[i]
    BY <2>3 DEF Replaced, Spans
  <2>5. ASSUME NEW b \in 1 .. n PROVE Spans(g, b, l.sizes[b], l.strides[b])
    <3>1. b \in Int /\ b # 0
      BY <1>1
    <3> QED BY <2>1, <2>4, <3>1 DEF StackOf, Spans
  <2>6. \A d \in 1 .. m : ~(d > start.left)
    BY <1>1, <1>4
  <2>7. BuiltOf(l, dims, n, start, g)
    BY <1>4, <2>2, <2>4, <2>5, <2>6 DEF BuiltOf
  <2>8. Joins(l, n, start)
    BY <1>4, <2>2 DEF Joins
  <2> QED BY <2>7, <2>8 DEF Building
<1> DEFINE S == {k \in D : Building(l, dims, k - 1, u[k])}
<1>6. n + 1 \in S
  <2>1. (n + 1) - 1 = n /\ n + 1 \in D
    BY <1>1
  <2> QED BY <1>3, <1>5, <2>1
<1>7. ASSUME NEW k \in 1 .. n, k + 1 \in S PROVE k \in S
  <2>1. k \in D /\ k + 1 \in D /\ (k + 1) - 1 = k
    BY <1>1
  <2>2. Building(l, dims, k, u[k + 1])
    BY <1>7, <2>1
  <2>3. u[k + 1] \in Chunked(m) /\ u[k] = Chunk(l, dims, k, u[k + 1])
    BY <1>2, <2>1 DEF Chunking
  <2>4. Building(l, dims, k - 1, Chunk(l, dims, k, u[k + 1]))
    BY <2>2, <2>3, ChunkBuilds
  <2> QED BY <2>1, <2>3, <2>4
<1>8. D \subseteq S
  <2> HIDE DEF S
  <2> QED BY <1>1, <1>6, <1>7, Descent
<1>9. 1 \in D /\ 1 - 1 = 0
  BY <1>1
<1>10. Building(l, dims, 0, all)
  BY <1>2, <1>8, <1>9, SMTT(60) DEF Chunking
<1>11. PICK f : BuiltOf(l, dims, 0, all, f)
  BY <1>10 DEF Building
<1>12. PICK g : g = [i \in Int |-> f[-i]]
  OBVIOUS
<1>13. \A i \in Int : g[i] = f[-i] /\ -i \in Int
  BY <1>12
<1>14. Stack(f)
  BY <1>11 DEF BuiltOf
<1>15. Stack(g)
  <2>1. ASSUME NEW i \in Int PROVE g[i] \in Span /\ Room(g[i])
    BY <1>13, <1>14 DEF Stack
  <2>2. ASSUME NEW i \in Int, NEW j \in Int, i # j PROVE Apart(g[i], g[j])
    <3>1. -i \in Int /\ -j \in Int /\ -i # -j
      BY <2>2
    <3> QED BY <1>13, <1>14, <3>1 DEF Stack
  <2>3. g \in [Int -> Span]
    <3>1. g = [i \in Int |-> g[i]]
      BY <1>12
    <3> QED BY <2>1, <3>1
  <2> QED BY <2>1, <2>2, <2>3 DEF Stack
<1>16. ASSUME NEW d \in 1 .. m PROVE Spans(g, d, dims[d], all.strides[d])
  <2>1. d \in Int /\ d > all.left
    BY <1>1
  <2>2. Spans(f, -d, dims[d], all.strides[d])
    BY <1>11, <2>1 DEF BuiltOf
  <2> QED BY <1>13, <2>1, <2>2 DEF Spans
<1> QED BY <1>15, <1>16

LEMMA ViewStacked ==
  ASSUME NEW l, Shaped(l), Stacked(l), l.numel \in Nat, l.numel > 0 => l.numel = numel(l),
         NEW dims \in Seq(Nat), Product(dims) = l.numel, compute_view_strides(l, dims) # NoStrides
  PROVE  Stacked(view(l, dims))
<1>1. PICK k : k = view(l, dims)
  OBVIOUS
<1>2. k.sizes = dims /\ k.strides = compute_view_strides(l, dims)
  BY <1>1 DEF view, Shaped
<1>3. CASE l.numel = 0 \/ rank(l) = 0 \/ l.contiguous
  <2>1. k.strides = PackedStrides(k.sizes)
    BY <1>2, <1>3 DEF compute_view_strides
  <2> QED BY <1>1, <1>2, <2>1, PackedStacked
<1>4. CASE ~(l.numel = 0 \/ rank(l) = 0 \/ l.contiguous)
  <2>1. PICK all : all = Chunks(l, dims)
    OBVIOUS
  <2>2. all.ok /\ all.left = 0 /\ k.strides = all.strides
    BY <1>2, <1>4, <2>1 DEF compute_view_strides
  <2>3. Strided(l) /\ rank(l) # 0 /\ l.sizes \in Seq(Nat)
    BY <1>4 DEF Shaped, Strided
  <2>4. Product(l.sizes) > 0 /\ Product(dims) > 0
    BY <1>4 DEF numel
  <2>5. \A d \in 1 .. rank(l) : l.sizes[d] > 0
    BY <2>3, <2>4, EmptyIs DEF rank
  <2>6. \A d \in 1 .. Len(dims) : dims[d] > 0
    BY <2>4, EmptyIs
  <2>7. \A d \in 1 .. rank(l) : l.sizes[d] >= 1
    BY <2>3, <2>5, Strides
  <2>8. \A d \in 1 .. Len(dims) : dims[d] >= 1
    BY <2>6
  <2>9. \E f : StackOf(f, l)
    <3>1. ~(\E d \in 1 .. rank(l) : l.sizes[d] = 0)
      BY <2>5
    <3> QED BY <3>1 DEF Stacked
  <2>10. PICK g : Stack(g) /\ \A d \in 1 .. Len(dims) : Spans(g, d, dims[d], all.strides[d])
    BY <2>1, <2>2, <2>3, <2>7, <2>8, <2>9, ChunksStacked
  <2>11. StackOf(g, k)
    BY <1>2, <2>2, <2>10 DEF StackOf, rank
  <2> QED BY <1>1, <2>11 DEF Stacked
<1> QED BY <1>3, <1>4

(* Every view that keeps derived_from_packed is made of something that has *)
(* it, and keeps a stack.                                                  *)
LEMMA DerivedStacked ==
  ASSUME NEW l, Shaped(l), l.numel \in Nat, l.numel > 0 => l.numel = numel(l),
         NEW k \in Derived(l), k.derived
  PROVE  l.derived /\ (Stacked(l) => Stacked(k))
<1>1. CASE k = l
  BY <1>1
<1>2. CASE k = squeeze(l)
  <2>1. k.derived = l.derived
    BY <1>2 DEF squeeze, Kept, permute, Shaped
  <2> QED BY <1>2, <2>1, SqueezeStacked
<1>3. ASSUME NEW p \in Orders(rank(l)), k = permute(l, p) PROVE l.derived /\ (Stacked(l) => Stacked(k))
  <2>1. k.derived = l.derived
    BY <1>3 DEF permute, Shaped
  <2> QED BY <1>3, <2>1, OrderStacked
<1>4. ASSUME NEW d \in 1 .. rank(l), k = squeeze_dim(l, d) PROVE l.derived /\ (Stacked(l) => Stacked(k))
  <2>1. k.derived = l.derived
    BY <1>4 DEF squeeze_dim, Kept, permute, Shaped
  <2> QED BY <1>4, <2>1, SqueezeStacked
<1>5. ASSUME NEW d \in 1 .. rank(l) + 1, k = unsqueeze(l, d) PROVE l.derived /\ (Stacked(l) => Stacked(k))
  <2>1. k.derived = l.derived
    BY <1>5 DEF unsqueeze, Shaped
  <2> QED BY <1>5, <2>1, UnsqueezeStacked
<1>6. ASSUME NEW d \in 1 .. rank(l), NEW i \in Indices, NEW j \in Indices, NEW s \in Steps,
             k = slice(l, d, i, j, s)
      PROVE  l.derived /\ (Stacked(l) => Stacked(k))
  <2>1. i \in Int /\ j \in Int /\ s \in Nat \ {0}
    BY GeometryAssumption
  <2>2. k.derived = l.derived
    BY <1>6 DEF slice, Shaped
  <2> QED BY <1>6, <2>1, <2>2, SliceStacked
<1>7. ASSUME NEW dims \in Shapes, k = expand(l, dims) PROVE FALSE
  <2>1. k.derived = FALSE
    BY <1>7 DEF expand, Shaped
  <2> QED BY <2>1
<1>8. ASSUME NEW dims \in SameSize(l), compute_view_strides(l, dims) # NoStrides, k = view(l, dims)
      PROVE  l.derived /\ (Stacked(l) => Stacked(k))
  <2>1. dims \in Seq(Nat) /\ Product(dims) = l.numel
    BY GeometryAssumption DEF SameSize
  <2>2. k.derived = l.derived
    BY <1>8 DEF view, Shaped
  <2> QED BY <1>8, <2>1, <2>2, ViewStacked
<1> QED BY <1>1, <1>2, <1>3, <1>4, <1>5, <1>6, <1>7, <1>8 DEF Derived

\* What derived_from_packed promises, and why it can be kept.
Writable(l) == l.derived => l.non_overlapping /\ Stacked(l)
AllWritable(hs) == \A h \in DOMAIN hs : Writable(hs[h])
WInv == AllWritable(handles)

LEMMA SameStack ==
  ASSUME NEW k, NEW l, k.sizes = l.sizes, k.strides = l.strides, Stacked(l)
  PROVE  Stacked(k)
<1>1. rank(k) = rank(l)
  BY DEF rank
<1>2. ASSUME NEW f, StackOf(f, l) PROVE StackOf(f, k)
  BY <1>1, <1>2 DEF StackOf
<1> QED BY <1>1, <1>2 DEF Stacked

LEMMA RecomputeWritable ==
  ASSUME NEW h, NEW l, Strided(l), l.derived => Stacked(l)
  PROVE  Writable(recompute(h, l))
<1>1. PICK k : k = recompute(h, l)
  OBVIOUS
<1>2. /\ k.sizes = l.sizes /\ k.strides = l.strides /\ k.derived = l.derived
      /\ k.non_overlapping = (h \in Views => is_non_overlapping(l))
  BY <1>1 DEF recompute
<1>3. ASSUME k.derived PROVE k.non_overlapping /\ Stacked(k)
  <2>1. Stacked(l)
    BY <1>2, <1>3
  <2>2. is_non_overlapping(l)
    BY <2>1, StackedWritable
  <2>3. Stacked(k)
    BY <1>2, <2>1, SameStack
  <2>4. k.non_overlapping
    BY <1>2, <2>2, Zenon
  <2> QED BY <2>3, <2>4
<1> QED BY <1>1, <1>3 DEF Writable

LEMMA PutWritable ==
  ASSUME NEW hs, AllWritable(hs), NEW h, NEW l, Writable(l)
  PROVE  AllWritable(Put(hs, h, l))
<1>1. PICK a : a = Put(hs, h, l)
  OBVIOUS
<1>2. Updated(a, hs, h, l)
  BY <1>1, PutIs
<1>3. ASSUME NEW x \in DOMAIN a PROVE Writable(a[x])
  <2>1. CASE x = h
    BY <1>2, <2>1 DEF Updated
  <2>2. CASE x # h
    <3>1. x \in DOMAIN hs /\ a[x] = hs[x]
      BY <1>2, <2>2 DEF Updated
    <3> QED BY <3>1 DEF AllWritable
  <2> QED BY <2>1, <2>2
<1> QED BY <1>1, <1>3 DEF AllWritable

LEMMA NextWritable == WInv /\ HInv /\ [Next]_vars => WInv'
<1> SUFFICES ASSUME WInv, HInv, [Next]_vars PROVE WInv'
  OBVIOUS
<1>0. ASSUME NEW h, NEW l, Writable(l), handles' = Put(handles, h, l) PROVE WInv'
  BY <1>0, PutWritable DEF WInv
<1>1. ASSUME NEW h, NEW sizes \in Seq(Nat), NEW values, Own(h, sizes, values) PROVE WInv'
  <2>1. PICK p : p = Packed(Allocation, sizes)
    OBVIOUS
  <2>2. p.sizes = sizes /\ p.strides = PackedStrides(sizes)
    BY <2>1 DEF Packed
  <2>3. Strided(p) /\ Stacked(p)
    BY <2>2, PackedShape, PackedStacked DEF Strided
  <2>4. handles' = Put(handles, h, recompute(h, p))
    BY <1>1, <2>1 DEF Own, Become
  <2> QED BY <1>0, <2>3, <2>4, RecomputeWritable
<1>2. ASSUME NEW v \in Views, NEW l, Strided(l), l.derived => Stacked(l),
             handles' = Put(handles, v, recompute(v, l))
      PROVE  WInv'
  BY <1>0, <1>2, RecomputeWritable
<1>3. ASSUME NEW x \in Usable
      PROVE  /\ x \in DOMAIN handles /\ handles[x].sizes \in Seq(Nat) /\ Writable(handles[x])
             /\ Shaped(handles[x]) /\ Strided(handles[x]) /\ handles[x].numel \in Nat
             /\ handles[x].numel > 0 => handles[x].numel = numel(handles[x])
  <2>1. x \in DOMAIN handles /\ Handle(handles[x], memory) /\ handles[x].sizes \in Seq(Nat)
    BY UsableIs
  <2> QED BY <2>1 DEF WInv, AllWritable, Handle, Shaped
<1>4. ASSUME NEW o \in Owners, Construct(o) PROVE WInv'
  <2>1. PICK dims \in Shapes : Own(o, dims, Numbered(Product(dims)))
    BY <1>4 DEF Construct
  <2>2. dims \in Seq(Nat)
    BY GeometryAssumption
  <2> QED BY <1>1, <2>1, <2>2
<1>5. ASSUME NEW o \in Owners, NEW x \in Usable, CopyOwner(o, x) PROVE WInv'
  BY <1>1, <1>3, <1>5 DEF CopyOwner
<1>6. ASSUME NEW v \in Views, NEW x \in Usable, Share(v, x) PROVE WInv'
  <2>1. Strided(handles[x]) /\ (handles[x].derived => Stacked(handles[x]))
    BY <1>3 DEF Writable
  <2> QED BY <1>2, <1>6, <2>1 DEF Share, Become
<1>7. ASSUME NEW v \in Views, NEW x \in Usable, Derive(v, x) PROVE WInv'
  <2>1. PICK l \in Derived(handles[x]) : handles' = Put(handles, v, recompute(v, l))
    BY <1>7 DEF Derive, Become
  <2>2. Strided(l)
    BY <1>3, DerivedShape DEF Reshaped
  <2>3. l.derived => Stacked(l)
    BY <1>3, DerivedStacked DEF Writable
  <2> QED BY <1>2, <2>1, <2>2, <2>3
<1>8. ASSUME NEW v \in Views, NEW x \in Usable, reshape(v, x) PROVE WInv'
  <2>1. PICK dims \in SameSize(handles[x]) : Own(v, dims, gather_logical(handles[x]))
    BY <1>8 DEF reshape
  <2>2. dims \in Seq(Nat)
    BY GeometryAssumption DEF SameSize
  <2> QED BY <1>1, <2>1, <2>2
<1>9. ASSUME NEW v \in Views, NEW x \in Usable, contiguous(v, x) PROVE WInv'
  BY <1>1, <1>3, <1>9 DEF contiguous
<1>10. ASSUME NEW v \in Views, Borrow(v) PROVE WInv'
  <2>1. PICK e \in Explicit :
          handles' = Put(handles, v, recompute(v,
            [storage |-> Buffer, offset |-> e.offset, sizes |-> e.sizes, strides |-> e.strides,
             derived |-> FALSE]))
    BY <1>10 DEF Borrow, Become
  <2>2. PICK l : l = [storage |-> Buffer, offset |-> e.offset, sizes |-> e.sizes,
                      strides |-> e.strides, derived |-> FALSE]
    OBVIOUS
  <2>3. l.sizes = e.sizes /\ l.strides = e.strides /\ l.derived = FALSE
    BY <2>2
  <2>4. Strided(l)
    BY <2>3, GeometryAssumption DEF Strided
  <2> QED BY <1>2, <2>1, <2>2, <2>3, <2>4
<1>11. ASSUME NEW h, NEW x \in Usable, MoveFrom(h, x) PROVE WInv'
  <2>1. AllWritable(Put(handles, h, handles[x]))
    BY <1>3, PutWritable DEF WInv
  <2>2. Writable(MovedFrom)
    <3>1. MovedFrom.sizes = <<>> /\ MovedFrom.strides = <<>> /\ MovedFrom.non_overlapping
      BY DEF MovedFrom
    <3>2. PackedStrides(<<>>) = <<>> /\ <<>> \in Seq(Nat)
      <4>1. <<>> \in Seq(Nat) /\ Len(<<>>) = 0
        OBVIOUS
      <4>2. PackedStrides(<<>>) \in Seq(Nat) /\ Len(PackedStrides(<<>>)) = 0
        BY <4>1, PackedShape
      <4> QED BY <4>1, <4>2
    <3>3. Stacked(MovedFrom)
      BY <3>1, <3>2, PackedStacked
    <3> QED BY <3>1, <3>3 DEF Writable
  <2>3. AllWritable(Put(Put(handles, h, handles[x]), x, MovedFrom))
    BY <2>1, <2>2, PutWritable
  <2>4. handles' = Put(Put(handles, h, handles[x]), x, MovedFrom)
    BY <1>11 DEF MoveFrom, Become
  <2> QED BY <2>3, <2>4 DEF WInv
<1>12. ASSUME NEW h \in DOMAIN handles, Destroy(h) PROVE WInv'
  <2>1. handles' = [x \in DOMAIN handles \ {h} |-> handles[x]]
    BY <1>12 DEF Destroy, Become
  <2> QED BY <2>1 DEF WInv, AllWritable
<1>13. ASSUME UNCHANGED handles PROVE WInv'
  BY <1>13 DEF WInv
<1>14. (\E h \in Usable : Fill(h) \/ \E x \in Usable : Assign(h, x)) \/ UNCHANGED vars
         => UNCHANGED handles
  BY DEF Fill, Assign, vars
<1> QED BY <1>4, <1>5, <1>6, <1>7, <1>8, <1>9, <1>10, <1>11, <1>12, <1>13, <1>14 DEF Next

(* "Views derived from a packed tensor by slice, t, permute, squeeze,      *)
(* unsqueeze and view keep the property": whatever chain of those calls,   *)
(* copies and moves made it, no such view is refused as a destination.     *)
THEOREM HandlesWritable == Spec => []DerivedStayWritable
<1>1. Init => HInv /\ WInv
  <2>1. Init => WInv
    BY DEF Init, WInv, AllWritable
  <2> QED BY <2>1, InitValid
<1>2. WInv => DerivedStayWritable
  BY DEF WInv, AllWritable, Writable, DerivedStayWritable
<1>3. HInv /\ WInv /\ [Next]_vars => HInv' /\ WInv'
  BY NextValid, NextWritable
<1> QED BY <1>1, <1>2, <1>3, PTL DEF Spec

----------------------------------------------------------------------------
(* The chunks of compute_view_strides tile the elements: old dimensions    *)
(* after k and new dimensions after c.left give every index the same       *)
(* offset, but for the part of the chunk that is not covered yet.          *)
Agrees(dims, c, n) ==
  /\ Strided(n) /\ n.sizes = dims
  /\ \A d \in 1 .. Len(dims) : d > c.left /\ dims[d] # 1 => n.strides[d] = c.strides[d]
Balanced(l, n, k, c, p, i) ==
  OffsetFrom(l, i, k + 1) + Digit(i, p, c.view) * c.base
    = OffsetFrom(n, i, c.left + 1) + Digit(i, p, c.numel) * c.base
Tiles(l, dims, k, c, p) ==
  /\ Volume(l.sizes, k + 1) = c.numel * p /\ Volume(dims, c.left + 1) = c.view * p
  /\ \A n : \A i \in Nat : Agrees(dims, c, n) => Balanced(l, n, k, c, p, i)

\* An old dimension joins the chunk.
LEMMA TilesGrow ==
  ASSUME NEW l, Strided(l), numel(l) > 0, NEW dims \in Seq(Nat), Product(dims) > 0,
         NEW k \in 1 .. rank(l), NEW c \in Chunked(Len(dims)), NEW p \in Nat \ {0},
         c.view >= 1, c.numel >= 1, Tiles(l, dims, k, c, p),
         l.sizes[k] = 1 \/ l.strides[k] = c.numel * c.base,
         NEW g, g = Growing(c, c.numel * l.sizes[k])
  PROVE  Tiles(l, dims, k - 1, g, p)
<1>1. PICK s \in Nat \ {0} : s = l.sizes[k]
  BY Coordinates
<1>2. PICK t \in Nat : t = l.strides[k]
  BY Strides
<1>3. PICK N \in Nat \ {0} : N = c.numel
  BY DEF Chunked
<1>4. PICK B \in Nat : B = c.base
  BY DEF Chunked
<1>5. PICK v \in Nat \ {0} : v = c.view
  BY DEF Chunked
<1>6. /\ g.numel = N * s /\ g.view = v /\ g.base = B /\ g.left = c.left /\ g.strides = c.strides
      /\ c.left \in 0 .. Len(dims)
  BY <1>1, <1>3, <1>4, <1>5 DEF Growing, Chunked
<1>7. PICK r \in Nat : r = rank(l)
  BY Strides
<1>8. /\ l.sizes \in Seq(Nat) /\ Len(l.sizes) = r /\ k \in 1 .. r /\ (k - 1) + 1 = k
      /\ k \in 1 .. r + 1 /\ k + 1 \in 1 .. r + 1
  BY <1>7, Strides, SMTT(60) DEF Strided
<1>9. Volume(l.sizes, k + 1) = N * p
  BY <1>3 DEF Tiles
<1>10. Volume(l.sizes, k) = (N * s) * p
  <2>1. Volume(l.sizes, k) = s * (N * p)
    BY <1>1, <1>8, <1>9, VolumeIs
  <2>2. s * (N * p) = (N * s) * p
    OBVIOUS
  <2> QED BY <2>1, <2>2
<1>11. ASSUME NEW n, NEW i \in Nat, Agrees(dims, g, n) PROVE Balanced(l, n, k - 1, g, p, i)
  <2>1. Agrees(dims, c, n)
    BY <1>6, <1>11 DEF Agrees
  <2>2. Balanced(l, n, k, c, p, i)
    BY <2>1 DEF Tiles
  <2>3. PICK D \in Nat : D = Digit(i, N * p, s)
    <3>1. N * p \in Nat \ {0}
      OBVIOUS
    <3> QED BY <3>1, DigitIs
  <2>4. s = 1 => D = 0
    <3>1. N * p \in Nat \ {0}
      OBVIOUS
    <3>2. D \in 0 .. s - 1
      BY <2>3, <3>1, DigitIs
    <3> QED BY <3>2
  <2>5. PICK a \in Nat : a = Digit(i, p, N)
    BY DigitIs
  <2>6. PICK b \in Nat : b = Digit(i, p, v)
    BY DigitIs
  <2>7. Digit(i, p, N * s) = a + N * D
    BY <2>3, <2>5, DigitJoin, SMTT(60)
  <2>8. OffsetFrom(l, i, k) = OffsetFrom(l, i, k + 1) + D * t
    <3>1. OffsetFrom(l, i, k)
            = OffsetFrom(l, i, k + 1) + Digit(i, Volume(l.sizes, k + 1), l.sizes[k]) * l.strides[k]
      BY OffsetFromIs
    <3> QED BY <1>1, <1>2, <1>9, <2>3, <3>1
  <2>9. PICK x \in Int : x = OffsetFrom(l, i, k + 1)
    BY <1>7, <1>8, OffsetFromIs
  <2>10. PICK y : y = OffsetFrom(n, i, c.left + 1)
    OBVIOUS
  <2>11. x + b * B = y + a * B
    BY <1>3, <1>4, <1>5, <2>2, <2>5, <2>6, <2>9, <2>10 DEF Balanced
  <2>12. y \in Int
    <3>1. rank(n) = Len(dims) /\ Strided(n) /\ numel(n) > 0
      BY <2>1 DEF Agrees, rank, numel
    <3>2. c.left + 1 \in 1 .. rank(n) + 1
      BY <1>6, <3>1
    <3> QED BY <2>10, <3>1, <3>2, OffsetFromIs
  <2>13. D * t = (N * D) * B
    <3>1. CASE s = 1
      BY <2>4, <3>1
    <3>2. CASE s # 1
      <4>1. t = N * B
        BY <1>1, <1>2, <1>3, <1>4, <3>2
      <4>2. D * (N * B) = (N * D) * B
        OBVIOUS
      <4> QED BY <4>1, <4>2
    <3> QED BY <3>1, <3>2
  <2>14. PICK e \in Int : e = (N * D) * B
    OBVIOUS
  <2>15. PICK f \in Int : f = a * B
    OBVIOUS
  <2>16. (a + N * D) * B = a * B + (N * D) * B
    OBVIOUS
  <2>17. PICK h \in Int : h = b * B
    OBVIOUS
  <2>18. OffsetFrom(l, i, k) = x + e
    BY <2>8, <2>9, <2>13, <2>14
  <2>19. (x + e) + h = y + (f + e)
    <3>1. x + h = y + f
      BY <2>11, <2>15, <2>17
    <3> QED BY <2>12, <3>1
  <2>20. Digit(i, p, g.numel) * g.base = f + e
    BY <1>6, <2>7, <2>14, <2>15, <2>16
  <2>21. Digit(i, p, g.view) * g.base = h
    BY <1>6, <2>6, <2>17
  <2> QED BY <1>6, <1>8, <2>10, <2>18, <2>19, <2>20, <2>21 DEF Balanced
<1>12. Volume(dims, g.left + 1) = g.view * p
  BY <1>5, <1>6 DEF Tiles
<1> QED BY <1>6, <1>8, <1>10, <1>11, <1>12 DEF Tiles

LEMMA Above ==
  ASSUME NEW m \in Nat, NEW d \in 1 .. m
  PROVE  /\ d > d - 1 /\ d + 1 \in 1 .. m + 1 /\ d \in Nat
         /\ \A e \in 1 .. m : e > d => e > d - 1 /\ e # d
  OBVIOUS

LEMMA Distributes ==
  ASSUME NEW x \in Nat, NEW y \in Nat, NEW z \in Nat
  PROVE  (x + y) * z = x * z + y * z
  OBVIOUS

LEMMA AddToBoth ==
  ASSUME NEW x \in Int, NEW y \in Int, NEW f \in Int, NEW h \in Int, NEW e \in Int, x + h = y + f
  PROVE  x + (h + e) = (y + e) + f
  OBVIOUS

\* A new dimension covers part of the chunk.
Took(dims, c, d) ==
  [c EXCEPT !.left = d - 1, !.view = @ * dims[d], !.strides = [@ EXCEPT ![d] = c.view * c.base]]

LEMMA TilesTake ==
  ASSUME NEW l, Strided(l), numel(l) > 0, NEW dims \in Seq(Nat), Product(dims) > 0,
         NEW k \in 0 .. rank(l), NEW c \in Chunked(Len(dims)), NEW p \in Nat \ {0},
         c.view >= 1, c.numel >= 1, Tiles(l, dims, k, c, p), NEW d \in 1 .. Len(dims), d = c.left,
         NEW g, g = Took(dims, c, d)
  PROVE  Tiles(l, dims, k, g, p)
<1>1. PICK m \in Nat : m = Len(dims)
  OBVIOUS
<1>2. PICK s \in Nat \ {0} : s = dims[d]
  <2>1. dims[d] \in Nat /\ dims[d] > 0
    BY EmptyIs
  <2> QED BY <2>1
<1>3. PICK N \in Nat \ {0} : N = c.numel
  BY DEF Chunked
<1>4. PICK B \in Nat : B = c.base
  BY DEF Chunked
<1>5. PICK v \in Nat \ {0} : v = c.view
  BY DEF Chunked
<1>6. PICK z : z = [c.strides EXCEPT ![d] = v * B]
  OBVIOUS
<1>7. z[d] = v * B /\ \A e \in 1 .. m : e # d => z[e] = c.strides[e]
  BY <1>1, <1>6 DEF Chunked
<1>8. /\ g.numel = N /\ g.view = v * s /\ g.base = B /\ g.left = d - 1 /\ g.strides = z
      /\ g.left + 1 = d /\ c.left + 1 = d + 1
  BY <1>2, <1>3, <1>4, <1>5, <1>6 DEF Chunked, Took
<1>9. Volume(dims, d + 1) = v * p
  BY <1>5 DEF Tiles
<1>10. Volume(dims, d) = (v * s) * p
  <2>1. Volume(dims, d) = s * (v * p)
    BY <1>2, <1>9, VolumeIs
  <2>2. s * (v * p) = (v * s) * p
    OBVIOUS
  <2> QED BY <2>1, <2>2
<1>11. PICK r \in Nat : r = rank(l) /\ k + 1 \in 1 .. r + 1
  BY Strides
<1>12. ASSUME NEW n, NEW i \in Nat, Agrees(dims, g, n) PROVE Balanced(l, n, k, g, p, i)
  <2>1. Strided(n) /\ n.sizes = dims /\ rank(n) = m /\ numel(n) > 0
    BY <1>1, <1>12 DEF Agrees, rank, numel
  <2>2. Agrees(dims, c, n)
    <3>1. ASSUME NEW e \in 1 .. m, e > c.left, dims[e] # 1 PROVE n.strides[e] = c.strides[e]
      <4>1. e > d
        BY <1>1, <3>1
      <4>2. e > g.left /\ e # d
        BY <1>8, <4>1, Above
      <4> QED BY <1>1, <1>7, <1>8, <1>12, <3>1, <4>2 DEF Agrees
    <3> QED BY <1>1, <2>1, <3>1 DEF Agrees
  <2>3. Balanced(l, n, k, c, p, i)
    BY <2>2 DEF Tiles
  <2>4. v * p \in Nat \ {0}
    OBVIOUS
  <2>5. PICK D \in Nat : D = Digit(i, v * p, s) /\ (s = 1 => D = 0)
    <3>1. Digit(i, v * p, s) \in Nat /\ Digit(i, v * p, s) \in 0 .. s - 1
      BY <2>4, DigitIs
    <3> QED BY <3>1
  <2>6. PICK a \in Nat : a = Digit(i, p, N)
    BY DigitIs
  <2>7. PICK b \in Nat : b = Digit(i, p, v)
    BY DigitIs
  <2>8. Digit(i, p, v * s) = b + v * D
    BY <2>5, <2>7, DigitJoin, SMTT(60)
  <2>9. PICK t \in Nat : t = n.strides[d]
    BY <1>1, <2>1, Strides
  <2>10. s # 1 => t = v * B
    <3>1. d > g.left
      BY <1>8, Above
    <3>2. s # 1 => n.strides[d] = g.strides[d]
      BY <1>2, <1>12, <3>1 DEF Agrees
    <3> QED BY <1>7, <1>8, <2>9, <3>2
  <2>11. OffsetFrom(n, i, d) = OffsetFrom(n, i, d + 1) + D * t
    <3>1. d \in 1 .. rank(n)
      BY <1>1, <2>1
    <3>2. OffsetFrom(n, i, d)
            = OffsetFrom(n, i, d + 1) + Digit(i, Volume(n.sizes, d + 1), n.sizes[d]) * n.strides[d]
      BY <2>1, <3>1, OffsetFromIs
    <3> QED BY <1>2, <1>9, <2>1, <2>5, <2>9, <3>2
  <2>12. PICK x \in Int : x = OffsetFrom(l, i, k + 1)
    BY <1>11, OffsetFromIs
  <2>13. PICK y \in Int : y = OffsetFrom(n, i, d + 1)
    <3>1. d + 1 \in 1 .. rank(n) + 1
      BY <1>1, <2>1, Above
    <3> QED BY <2>1, <3>1, OffsetFromIs
  <2>14. x + b * B = y + a * B
    BY <1>3, <1>4, <1>5, <1>8, <2>3, <2>6, <2>7, <2>12, <2>13 DEF Balanced
  <2>15. D * t = (v * D) * B
    <3>1. CASE s = 1
      BY <2>5, <3>1
    <3>2. CASE s # 1
      <4>1. D * (v * B) = (v * D) * B
        OBVIOUS
      <4> QED BY <2>10, <3>2, <4>1
    <3> QED BY <3>1, <3>2
  <2>16. PICK e \in Int : e = (v * D) * B
    OBVIOUS
  <2>17. PICK f \in Int : f = a * B
    OBVIOUS
  <2>18. (b + v * D) * B = b * B + (v * D) * B
    <3>1. PICK w \in Nat : w = v * D
      OBVIOUS
    <3>2. (b + w) * B = b * B + w * B
      BY Distributes
    <3> QED BY <3>1, <3>2, Zenon
  <2>19. PICK h \in Int : h = b * B
    OBVIOUS
  <2>20. OffsetFrom(n, i, d) = y + e
    BY <2>11, <2>13, <2>15, <2>16
  <2>21. x + (h + e) = (y + e) + f
    <3>1. x + h = y + f
      BY <2>14, <2>17, <2>19, Zenon
    <3> QED BY <3>1, AddToBoth
  <2>22. Digit(i, p, g.view) * g.base = h + e
    BY <1>8, <2>8, <2>16, <2>18, <2>19
  <2>23. Digit(i, p, g.numel) * g.base = f
    BY <1>8, <2>6, <2>17
  <2> QED BY <1>8, <2>12, <2>20, <2>21, <2>22, <2>23 DEF Balanced
<1>13. Volume(l.sizes, k + 1) = g.numel * p
  BY <1>3, <1>8 DEF Tiles
<1> QED BY <1>8, <1>10, <1>12, <1>13 DEF Tiles

\* The next chunk starts where the new dimensions cover all of this one.
LEMMA TilesStart ==
  ASSUME NEW l, Strided(l), numel(l) > 0, NEW dims \in Seq(Nat), Product(dims) > 0,
         NEW k \in 0 .. rank(l), NEW c \in Chunked(Len(dims)), NEW p \in Nat \ {0},
         c.view >= 1, c.view = c.numel, Tiles(l, dims, k, c, p),
         NEW b \in Nat, NEW g, g = Starting(c, b)
  PROVE  c.view * p \in Nat \ {0} /\ Tiles(l, dims, k, g, c.view * p)
<1>1. PICK v \in Nat \ {0} : v = c.view
  BY DEF Chunked
<1>2. /\ g.left = c.left /\ g.strides = c.strides /\ g.base = b /\ g.numel = 1 /\ g.view = 1
      /\ c.base \in Nat /\ c.left \in 0 .. Len(dims)
  BY DEF Starting, Chunked
<1>3. PICK q \in Nat \ {0} : q = v * p
  OBVIOUS
<1>4. Volume(l.sizes, k + 1) = 1 * q /\ Volume(dims, c.left + 1) = 1 * q
  <2>1. Volume(l.sizes, k + 1) = q /\ Volume(dims, c.left + 1) = q
    BY <1>1, <1>3 DEF Tiles
  <2> QED BY <2>1
<1>5. PICK r \in Nat : r = rank(l) /\ k + 1 \in 1 .. r + 1
  BY Strides
<1>6. ASSUME NEW n, NEW i \in Nat, Agrees(dims, g, n) PROVE Balanced(l, n, k, g, q, i)
  <2>1. Strided(n) /\ n.sizes = dims /\ rank(n) = Len(dims) /\ numel(n) > 0
    BY <1>6 DEF Agrees, rank, numel
  <2>2. Agrees(dims, c, n)
    BY <1>2, <1>6 DEF Agrees
  <2>3. Balanced(l, n, k, c, p, i)
    BY <2>2 DEF Tiles
  <2>4. PICK x \in Int : x = OffsetFrom(l, i, k + 1)
    BY <1>5, OffsetFromIs
  <2>5. PICK y \in Int : y = OffsetFrom(n, i, c.left + 1)
    <3>1. c.left + 1 \in 1 .. rank(n) + 1
      BY <1>2, <2>1
    <3> QED BY <2>1, <3>1, OffsetFromIs
  <2>6. PICK h \in Int : h = Digit(i, p, v) * c.base
    <3>1. Digit(i, p, v) \in Nat
      BY DigitIs
    <3> QED BY <1>2, <3>1
  <2>7. x + h = y + h
    BY <1>1, <2>3, <2>4, <2>5, <2>6 DEF Balanced
  <2>8. x = y
    BY <2>7
  <2> QED BY <1>2, <2>4, <2>5, <2>8 DEF Balanced
<1> QED BY <1>1, <1>2, <1>3, <1>4, <1>6 DEF Tiles

\* The only strides that a view with dimensions could have.
Forced(l, dims) == [sizes |-> dims, strides |-> ForcedStrides(l, dims)]

LEMMA ForcedIs ==
  ASSUME NEW l, Strided(l), numel(l) > 0, NEW dims \in Seq(Nat), NEW n, n = Forced(l, dims)
  PROVE  /\ Strided(n) /\ n.sizes = dims /\ rank(n) = Len(dims) /\ numel(n) = Product(dims)
         /\ \A d \in 1 .. Len(dims) : dims[d] # 1 => n.strides[d] = ElementOffset(l, Volume(dims, d + 1))
<1>1. PICK m \in Nat : m = Len(dims) /\ DOMAIN dims = 1 .. m
  OBVIOUS
<1>2. n.sizes = dims /\ n.strides = ForcedStrides(l, dims)
  BY DEF Forced
<1>3. PICK b : b = ForcedStrides(l, dims)
  OBVIOUS
<1>4. \A d \in 1 .. m : ElementOffset(l, Volume(dims, d + 1)) \in Nat
  <2> SUFFICES ASSUME NEW d \in 1 .. m PROVE ElementOffset(l, Volume(dims, d + 1)) \in Nat
    OBVIOUS
  <2>1. d + 1 \in 1 .. Len(dims) + 1
    BY <1>1, Above
  <2>2. Volume(dims, d + 1) \in Nat
    BY <2>1, VolumeIs
  <2> QED BY <2>2, ElementInExtent
<1>5. b = [d \in 1 .. m |-> IF dims[d] = 1 THEN 1 ELSE ElementOffset(l, Volume(dims, d + 1))]
  BY <1>1, <1>3 DEF ForcedStrides
<1>6. b \in [1 .. m -> Nat]
  BY <1>4, <1>5
<1>7. b \in Seq(Nat) /\ Len(b) = m
  BY <1>6, Arranged
<1>8. \A d \in 1 .. m : dims[d] # 1 => b[d] = ElementOffset(l, Volume(dims, d + 1))
  BY <1>5
<1> QED BY <1>1, <1>2, <1>3, <1>7, <1>8 DEF Strided, rank, numel

\* The next new dimension takes the stride that it must have.
LEMMA ForcedTake ==
  ASSUME NEW l, Strided(l), numel(l) > 0, NEW dims \in Seq(Nat), Product(dims) > 0,
         NEW k \in 0 .. rank(l), NEW c \in Chunked(Len(dims)), NEW p \in Nat \ {0},
         c.view >= 1, c.numel >= 1, Tiles(l, dims, k, c, p), NEW d \in 1 .. Len(dims), d = c.left,
         c.view < c.numel \/ dims[d] = 1,
         NEW n, n = Forced(l, dims), Agrees(dims, c, n), NEW g, g = Took(dims, c, d)
  PROVE  Agrees(dims, g, n)
<1>1. PICK m \in Nat : m = Len(dims)
  OBVIOUS
<1>2. PICK N \in Nat \ {0} : N = c.numel
  BY DEF Chunked
<1>3. PICK B \in Nat : B = c.base
  BY DEF Chunked
<1>4. PICK v \in Nat \ {0} : v = c.view
  BY DEF Chunked
<1>5. PICK z : z = [c.strides EXCEPT ![d] = v * B]
  OBVIOUS
<1>6. z[d] = v * B /\ \A e \in 1 .. m : e # d => z[e] = c.strides[e]
  BY <1>1, <1>5 DEF Chunked
<1>7. g.left = d - 1 /\ g.strides = z
  BY <1>3, <1>4, <1>5 DEF Chunked, Took
<1>8. /\ Strided(n) /\ n.sizes = dims /\ rank(n) = m /\ numel(n) > 0
      /\ dims[d] # 1 => n.strides[d] = ElementOffset(l, Volume(dims, d + 1))
  <2>1. /\ Strided(n) /\ n.sizes = dims /\ rank(n) = Len(dims) /\ numel(n) = Product(dims)
        /\ \A e \in 1 .. Len(dims) : dims[e] # 1 => n.strides[e] = ElementOffset(l, Volume(dims, e + 1))
    BY ForcedIs
  <2>2. numel(n) > 0
    BY <2>1
  <2> QED BY <1>1, <2>1, <2>2, Zenon
<1>9. ASSUME dims[d] # 1 PROVE n.strides[d] = v * B
  <2>1. v < N
    BY <1>2, <1>4, <1>9
  <2>2. PICK i \in Nat : i = v * p
    OBVIOUS
  <2>3. Volume(dims, d + 1) = i /\ Volume(l.sizes, k + 1) = N * p
    BY <1>2, <1>4, <2>2 DEF Tiles
  <2>4. i < N * p
    <3>1. PICK j \in Nat : N = v + 1 + j
      <4>1. N - v - 1 \in Nat /\ N = v + 1 + (N - v - 1)
        BY <2>1
      <4> QED BY <4>1
    <3>2. (v + 1 + j) * p = v * p + p + j * p
      OBVIOUS
    <3>3. PICK x \in Nat : x = j * p
      OBVIOUS
    <3>4. N * p = i + p + x
      BY <2>2, <3>1, <3>2, <3>3, Zenon
    <3> QED BY <3>4
  <2>5. PICK r \in Nat : r = rank(l) /\ k + 1 \in 1 .. r + 1
    BY Strides
  <2>6. ElementOffset(l, i) = OffsetFrom(l, i, k + 1)
    BY <2>3, <2>4, <2>5, ZeroAbove
  <2>7. OffsetFrom(n, i, d + 1) = 0
    <3>1. d + 1 \in 1 .. rank(n) + 1
      BY <1>1, <1>8, Above
    <3>2. 1 \in Nat /\ i = 1 * Volume(n.sizes, d + 1)
      BY <1>8, <2>3
    <3> QED BY <1>8, <3>1, <3>2, ZeroBelow
  <2>8. Balanced(l, n, k, c, p, i)
    BY DEF Tiles
  <2>9. Digit(i, p, v) = 0 /\ Digit(i, p, N) = v
    BY <2>1, <2>2, DigitOf
  <2>10. PICK x \in Int : x = OffsetFrom(l, i, k + 1)
    BY <2>5, OffsetFromIs
  <2>11. x + 0 * B = 0 + v * B
    BY <1>2, <1>3, <1>4, <2>7, <2>8, <2>9, <2>10 DEF Balanced
  <2>12. x = v * B
    <3>1. PICK y \in Nat : y = v * B
      OBVIOUS
    <3>2. 0 * B = 0
      OBVIOUS
    <3>3. x + 0 = 0 + y
      BY <2>11, <3>1, <3>2
    <3> QED BY <3>1, <3>3
  <2> QED BY <1>8, <1>9, <2>3, <2>6, <2>10, <2>12
<1>10. ASSUME NEW e \in 1 .. m, e > g.left, dims[e] # 1 PROVE n.strides[e] = g.strides[e]
  <2>1. CASE e = d
    BY <1>6, <1>7, <1>9, <1>10, <2>1
  <2>2. CASE e # d
    <3>1. e > c.left
      BY <1>1, <1>7, <1>10, <2>2
    <3>2. n.strides[e] = c.strides[e]
      BY <1>1, <1>10, <3>1 DEF Agrees
    <3> QED BY <1>6, <1>7, <2>2, <3>2
  <2> QED BY <2>1, <2>2
<1> QED BY <1>1, <1>8, <1>10 DEF Agrees

\* The chunk is complete: old dimension k does not go on where it ends.
Ended(l, k, c) == k = 0 \/ (l.sizes[k] # 1 /\ l.strides[k] # c.numel * c.base)
Same(l, n) == \A i \in Nat : i < numel(l) => ElementOffset(n, i) = ElementOffset(l, i)

\* No new dimension reaches past a complete chunk, as its stride would have
\* to be the one that old dimension k does not have.
LEMMA ForcedBound ==
  ASSUME NEW l, Strided(l), numel(l) > 0, NEW dims \in Seq(Nat), Product(dims) = numel(l),
         NEW k \in 0 .. rank(l), NEW c \in Chunked(Len(dims)), NEW p \in Nat \ {0},
         c.numel >= 1, Tiles(l, dims, k, c, p), Ended(l, k, c),
         NEW n, Strided(n), n.sizes = dims, Agrees(dims, c, n), Same(l, n)
  PROVE  c.view <= c.numel
<1> SUFFICES ASSUME c.view > c.numel PROVE FALSE
  BY DEF Chunked
<1>1. PICK m \in Nat : m = Len(dims) /\ c.left + 1 \in 1 .. m + 1
  <2>1. PICK m \in Nat : m = Len(dims)
    OBVIOUS
  <2>2. c.left \in 0 .. m
    BY <2>1 DEF Chunked
  <2>3. c.left + 1 \in 1 .. m + 1
    BY <2>2
  <2> QED BY <2>1, <2>3
<1>2. PICK N \in Nat \ {0} : N = c.numel
  BY DEF Chunked
<1>3. PICK B \in Nat : B = c.base
  BY DEF Chunked
<1>4. PICK v \in Nat \ {0} : v = c.view /\ N < v
  BY <1>2 DEF Chunked
<1>5. PICK i \in Nat : i = N * p
  OBVIOUS
<1>6. Volume(dims, c.left + 1) = v * p /\ Volume(l.sizes, k + 1) = i
  BY <1>2, <1>4, <1>5 DEF Tiles
<1>7. i < v * p /\ v * p \in Nat
  <2>1. PICK j \in Nat : v = N + 1 + j
    <3>1. v - N - 1 \in Nat /\ v = N + 1 + (v - N - 1)
      BY <1>4
    <3> QED BY <3>1
  <2>2. (N + 1 + j) * p = N * p + p + j * p
    OBVIOUS
  <2>3. PICK x \in Nat : x = j * p
    OBVIOUS
  <2>4. v * p = i + p + x
    BY <1>5, <2>1, <2>2, <2>3, Zenon
  <2> QED BY <2>4
<1>8. v * p <= numel(l) /\ rank(n) = m /\ numel(n) = numel(l) /\ numel(l) \in Nat
  <2>1. Volume(dims, c.left + 1) <= Product(dims)
    BY <1>1, VolumeBound
  <2>2. Product(dims) \in Nat
    BY VolumeIs DEF Product
  <2> QED BY <1>1, <1>6, <2>1, <2>2 DEF rank, numel
<1>9. i < numel(l)
  BY <1>7, <1>8
<1>10. PICK r \in Nat : r = rank(l) /\ k + 1 \in 1 .. r + 1
  BY Strides
<1>11. ElementOffset(n, i) = OffsetFrom(n, i, c.left + 1)
  BY <1>1, <1>6, <1>7, <1>8, ZeroAbove
<1>12. OffsetFrom(l, i, k + 1) = 0
  <2>1. 1 \in Nat /\ i = 1 * Volume(l.sizes, k + 1)
    BY <1>6
  <2> QED BY <1>10, <2>1, ZeroBelow
<1>13. Balanced(l, n, k, c, p, i)
  BY DEF Tiles
<1>14. Digit(i, p, N) = 0 /\ Digit(i, p, v) = N
  BY <1>4, <1>5, DigitOf, SMTT(60)
<1>15. ElementOffset(n, i) = N * B
  <2>1. PICK x \in Int : x = OffsetFrom(n, i, c.left + 1)
    BY <1>1, <1>8, OffsetFromIs
  <2>2. 0 + N * B = x + 0 * B
    BY <1>2, <1>3, <1>4, <1>12, <1>13, <1>14, <2>1 DEF Balanced
  <2>3. PICK y \in Nat : y = N * B
    OBVIOUS
  <2>4. 0 * B = 0
    OBVIOUS
  <2>5. 0 + y = x + 0
    BY <2>2, <2>3, <2>4
  <2> QED BY <1>11, <2>1, <2>3, <2>5
<1>16. ElementOffset(l, i) = N * B
  BY <1>9, <1>15 DEF Same
<1>17. CASE k = 0
  <2>1. Volume(l.sizes, 1) = i
    BY <1>6, <1>17
  <2> QED BY <1>9, <2>1 DEF numel, Product
<1>18. CASE k # 0
  <2>1. l.sizes[k] # 1 /\ l.strides[k] # N * B /\ k \in 1 .. rank(l)
    BY <1>2, <1>3, <1>10, <1>18 DEF Ended
  <2>2. l.sizes[k] > 1
    <3>1. l.sizes[k] \in Nat \ {0}
      BY <2>1, Coordinates
    <3> QED BY <2>1, <3>1, SMTT(60)
  <2>3. ElementOffset(l, i) = l.strides[k]
    BY <1>6, <2>1, <2>2, OneStep
  <2> QED BY <1>16, <2>1, <2>3
<1> QED BY <1>17, <1>18

(* What the new dimensions that cover a chunk keep: the tiling, and, where *)
(* a view exists, the strides that it must have and no more than a chunk.  *)
Following(l, dims, k, c0, c, p) ==
  /\ c.ok = c0.ok /\ c.numel = c0.numel /\ c.base = c0.base /\ c.view >= 1
  /\ Tiles(l, dims, k, c, p)
Fitting(l, dims, c) == Agrees(dims, c, Forced(l, dims)) /\ c.view <= c.numel
Stuck(dims, c) == c.left = 0 \/ (c.view >= c.numel /\ dims[c.left] # 1)

LEMMA CoveredTiles ==
  ASSUME NEW l, Strided(l), numel(l) > 0, NEW dims \in Seq(Nat), Product(dims) = numel(l),
         NEW k \in 0 .. rank(l), NEW c0 \in Chunked(Len(dims)), c0.numel >= 1,
         NEW p \in Nat \ {0}, NEW c \in Chunked(Len(dims)), Following(l, dims, k, c0, c, p),
         NEW d \in 1 .. Len(dims), NEW g, g = Covered(dims, c, d)
  PROVE  /\ Following(l, dims, k, c0, g, p)
         /\ Fitting(l, dims, c) /\ Ended(l, k, c0) /\ Same(l, Forced(l, dims)) => Fitting(l, dims, g)
         /\ c.left < d + 1 \/ Stuck(dims, c) => g.left < d \/ Stuck(dims, g)
<1>1. PICK m \in Nat : m = Len(dims)
  OBVIOUS
<1>2. CASE ~(d = c.left /\ (c.view < c.numel \/ dims[d] = 1))
  <2>1. g = c
    BY <1>2 DEF Covered
  <2>2. ASSUME c.left < d + 1 PROVE c.left < d \/ Stuck(dims, c)
    <3>1. c.left \in 0 .. m /\ c.view \in Nat /\ c.numel \in Nat
      BY <1>1 DEF Chunked
    <3>2. CASE c.left < d
      BY <3>2
    <3>3. CASE ~(c.left < d)
      <4>1. d = c.left
        BY <1>1, <2>2, <3>1, <3>3
      <4>2. ~(c.view < c.numel) /\ dims[d] # 1
        BY <1>2, <4>1
      <4>3. c.view >= c.numel
        BY <3>1, <4>2
      <4> QED BY <4>1, <4>2, <4>3 DEF Stuck
    <3> QED BY <3>2, <3>3
  <2> QED BY <2>1, <2>2
<1>3. CASE d = c.left /\ (c.view < c.numel \/ dims[d] = 1)
  <2>1. g = Took(dims, c, d)
    BY <1>3 DEF Covered, Took
  <2>2. g \in Chunked(Len(dims))
    BY CoveredIs
  <2>3. c.view >= 1 /\ c.numel >= 1 /\ Tiles(l, dims, k, c, p) /\ Product(dims) > 0
    BY DEF Following
  <2>4. Tiles(l, dims, k, g, p)
    BY <1>3, <2>1, <2>3, TilesTake
  <2>5. g.ok = c.ok /\ g.numel = c.numel /\ g.base = c.base /\ g.left = d - 1
    BY <2>1 DEF Took, Chunked
  <2>6. g.view >= 1
    <3>1. g.view = c.view * dims[d]
      BY <2>1 DEF Took, Chunked
    <3>2. PICK s \in Nat \ {0} : s = dims[d]
      <4>1. dims[d] \in Nat /\ dims[d] > 0
        BY <2>3, EmptyIs
      <4> QED BY <4>1
    <3>3. PICK v \in Nat \ {0} : v = c.view
      BY <2>3 DEF Chunked
    <3>4. v * s \in Nat \ {0}
      OBVIOUS
    <3>5. PICK x \in Nat \ {0} : x = v * s
      BY <3>4
    <3>6. g.view = x
      BY <3>1, <3>2, <3>3, <3>5
    <3> QED BY <3>6
  <2>7. Following(l, dims, k, c0, g, p)
    BY <2>4, <2>5, <2>6 DEF Following
  <2>8. ASSUME Fitting(l, dims, c), Ended(l, k, c0), Same(l, Forced(l, dims)) PROVE Fitting(l, dims, g)
    <3>1. PICK n : n = Forced(l, dims)
      OBVIOUS
    <3>2. Agrees(dims, c, n)
      BY <2>8, <3>1 DEF Fitting
    <3>3. Agrees(dims, g, n)
      BY <1>3, <2>1, <2>3, <3>1, <3>2, ForcedTake
    <3>4. Strided(n) /\ n.sizes = dims
      BY <3>3 DEF Agrees
    <3>5. Ended(l, k, g)
      BY <2>5, <2>8 DEF Following, Ended
    <3>6. g.numel >= 1
      BY <2>3, <2>5
    <3>7. g.view <= g.numel
      BY <2>2, <2>4, <2>8, <3>1, <3>3, <3>4, <3>5, <3>6, ForcedBound
    <3> QED BY <3>1, <3>3, <3>7 DEF Fitting
  <2>9. g.left < d
    BY <2>5
  <2> QED BY <2>7, <2>8, <2>9
<1> QED BY <1>2, <1>3

LEMMA CoverTiles ==
  ASSUME NEW l, Strided(l), numel(l) > 0, NEW dims \in Seq(Nat), Product(dims) = numel(l),
         NEW k \in 0 .. rank(l), NEW c0 \in Chunked(Len(dims)), c0.numel >= 1, c0.view >= 1,
         NEW p \in Nat \ {0}, Tiles(l, dims, k, c0, p), NEW g, g = Cover(dims, c0)
  PROVE  /\ g \in Chunked(Len(dims)) /\ Following(l, dims, k, c0, g, p) /\ Stuck(dims, g)
         /\ Fitting(l, dims, c0) /\ Ended(l, k, c0) /\ Same(l, Forced(l, dims)) => Fitting(l, dims, g)
<1>1. PICK m \in Nat : m = Len(dims)
  OBVIOUS
<1>2. PICK u : Covering(dims, c0, u)
  BY CoverSteps
<1>3. /\ u[m + 1] = c0 /\ g = u[1]
      /\ \A d \in 1 .. m + 1 : u[d] \in Chunked(Len(dims))
      /\ \A d \in 1 .. m : u[d] = Covered(dims, u[d + 1], d)
  BY <1>1, <1>2 DEF Covering
<1> DEFINE Forces == Fitting(l, dims, c0) /\ Ended(l, k, c0) /\ Same(l, Forced(l, dims))
           Good(d) == /\ Following(l, dims, k, c0, u[d], p)
                      /\ Forces => Fitting(l, dims, u[d])
                      /\ u[d].left < d \/ Stuck(dims, u[d])
           S == {d \in 1 .. m + 1 : Good(d)}
<1>4. m + 1 \in S
  <2>1. c0.left < m + 1
    <3>1. c0.left \in 0 .. m
      BY <1>1 DEF Chunked
    <3> QED BY <3>1
  <2>2. Following(l, dims, k, c0, c0, p)
    BY DEF Following
  <2>3. m + 1 \in 1 .. m + 1
    OBVIOUS
  <2> QED BY <1>3, <2>1, <2>2, <2>3
<1>5. ASSUME NEW d \in 1 .. m, d + 1 \in S PROVE d \in S
  <2>1. Good(d + 1) /\ d + 1 \in 1 .. m + 1 /\ d \in 1 .. m + 1
    BY <1>5
  <2>2. PICK c : c = u[d + 1]
    OBVIOUS
  <2>3. c \in Chunked(Len(dims)) /\ u[d] = Covered(dims, c, d) /\ d \in 1 .. Len(dims)
    BY <1>1, <1>3, <2>1, <2>2
  <2>4. Following(l, dims, k, c0, c, p) /\ (c.left < d + 1 \/ Stuck(dims, c))
    BY <2>1, <2>2
  <2>5. /\ Following(l, dims, k, c0, u[d], p)
        /\ Fitting(l, dims, c) /\ Ended(l, k, c0) /\ Same(l, Forced(l, dims)) => Fitting(l, dims, u[d])
        /\ u[d].left < d \/ Stuck(dims, u[d])
    BY <2>3, <2>4, CoveredTiles
  <2>6. Forces => Fitting(l, dims, c)
    BY <2>1, <2>2
  <2>7. Good(d)
    BY <2>5, <2>6, Zenon
  <2> QED BY <2>1, <2>7
<1>6. 1 .. m + 1 \subseteq S
  <2> HIDE DEF S
  <2> QED BY <1>4, <1>5, Descent
<1>7. Good(1) /\ 1 \in 1 .. m + 1
  <2>1. 1 \in 1 .. m + 1
    OBVIOUS
  <2> QED BY <1>6, <2>1
<1>8. Stuck(dims, g)
  <2>1. CASE g.left < 1
    <3>1. g.left \in 0 .. m
      BY <1>1, <1>3, <1>7 DEF Chunked
    <3>2. g.left = 0
      BY <2>1, <3>1
    <3> QED BY <3>2 DEF Stuck
  <2> QED BY <1>3, <1>7, <2>1
<1> QED BY <1>3, <1>7, <1>8

(* After every old dimension from k + 1 on.                                *)
TiledAt(l, dims, k, c) ==
  c.ok => /\ c.numel >= 1 /\ c.view >= 1 /\ Joins(l, k, c)
          /\ k = 0 => c.view = c.numel /\ Stuck(dims, c)
          /\ \E p \in Nat \ {0} : Tiles(l, dims, k, c, p)
Forcing(l, dims, c) == c.ok /\ Agrees(dims, c, Forced(l, dims))

LEMMA ChunkTiles ==
  ASSUME NEW l, Strided(l), numel(l) > 0, NEW dims \in Seq(Nat), Product(dims) = numel(l),
         NEW k \in 1 .. rank(l), NEW c \in Chunked(Len(dims)), TiledAt(l, dims, k, c),
         NEW r, r = Chunk(l, dims, k, c)
  PROVE  /\ TiledAt(l, dims, k - 1, r)
         /\ Forcing(l, dims, c) /\ Same(l, Forced(l, dims)) => Forcing(l, dims, r)
<1>1. PICK m \in Nat : m = Len(dims)
  OBVIOUS
<1>2. rank(l) \in Nat /\ \A d \in 1 .. rank(l) : l.sizes[d] \in Nat /\ l.strides[d] \in Nat
  BY Strides
<1>3. PICK x \in Nat \ {0} : x = l.sizes[k]
  BY Coordinates
<1>4. PICK n \in Nat : n = c.numel * l.sizes[k]
  <2>1. c.numel \in Nat
    BY DEF Chunked
  <2> QED BY <1>3, <2>1
<1>5. PICK g \in Chunked(Len(dims)) : g = Growing(c, n)
  BY <1>1, ChunkUpdates
<1>6. PICK s : s = Cover(dims, g)
  OBVIOUS
<1>7. r = IF ~c.ok THEN c
          ELSE IF ~ChunkEnds(l, k, g) THEN g
          ELSE IF s.view # s.numel THEN Failing(s)
          ELSE IF k = 1 THEN s
          ELSE Starting(s, l.strides[k - 1])
  BY <1>4, <1>5, <1>6 DEF Chunk, Growing, Failing, Starting
<1>8. CASE ~c.ok
  BY <1>7, <1>8 DEF TiledAt, Forcing
<1>9. CASE c.ok
  <2>1. /\ k > 0 /\ c.view = 1 /\ c.numel >= 1
        /\ l.sizes[k] = 1 \/ l.strides[k] = c.numel * c.base
    BY <1>9 DEF TiledAt, Joins
  <2>2. PICK p \in Nat \ {0} : Tiles(l, dims, k, c, p)
    BY <1>9 DEF TiledAt
  <2>3. Product(dims) > 0 /\ c.view >= 1
    BY <2>1
  <2>4. Tiles(l, dims, k - 1, g, p)
    BY <1>4, <1>5, <2>1, <2>2, <2>3, TilesGrow
  <2>5. /\ g.numel = n /\ g.base = c.base /\ g.view = 1 /\ g.left = c.left /\ g.strides = c.strides
        /\ g.ok /\ c.numel \in Nat /\ c.base \in Nat /\ c.left \in 0 .. m
    BY <1>1, <1>5, <1>9, <2>1 DEF Growing, Chunked
  <2>6. n >= 1
    <3>1. PICK y \in Nat \ {0} : y = c.numel
      BY <2>1, <2>5
    <3>2. y * x \in Nat \ {0}
      OBVIOUS
    <3>3. n = y * x
      BY <1>3, <1>4, <3>1
    <3>4. PICK z \in Nat \ {0} : z = y * x
      BY <3>2
    <3> QED BY <3>3, <3>4
  <2>7. Forcing(l, dims, c) => Agrees(dims, g, Forced(l, dims))
    BY <2>5 DEF Forcing, Agrees
  <2>8. k - 1 \in 0 .. rank(l)
    BY <1>2
  <2>9. CASE ~ChunkEnds(l, k, g)
    <3>1. r = g
      BY <1>7, <1>9, <2>9
    <3>2. k # 1 /\ (l.sizes[k - 1] = 1 \/ l.strides[k - 1] = g.numel * g.base)
      BY <2>9 DEF ChunkEnds
    <3>3. k - 1 # 0
      BY <3>2
    <3>4. g.numel >= 1 /\ g.view >= 1 /\ Joins(l, k - 1, g)
      BY <2>5, <2>6, <3>2 DEF Joins
    <3>5. TiledAt(l, dims, k - 1, g)
      BY <2>4, <3>3, <3>4 DEF TiledAt
    <3> QED BY <2>5, <2>7, <3>1, <3>5 DEF Forcing
  <2>10. CASE ChunkEnds(l, k, g)
    <3>1. g.numel >= 1 /\ g.view >= 1
      BY <2>5, <2>6
    <3>2. /\ s \in Chunked(Len(dims)) /\ Following(l, dims, k - 1, g, s, p) /\ Stuck(dims, s)
          /\ Fitting(l, dims, g) /\ Ended(l, k - 1, g) /\ Same(l, Forced(l, dims)) => Fitting(l, dims, s)
      BY <1>6, <2>4, <2>8, <3>1, CoverTiles
    <3>3. s.ok /\ s.numel = n /\ s.base = c.base /\ s.view >= 1 /\ Tiles(l, dims, k - 1, s, p)
      BY <2>5, <3>2 DEF Following
    <3>4. Ended(l, k - 1, g)
      <4>1. k = 1 => k - 1 = 0
        OBVIOUS
      <4> QED BY <2>10, <4>1 DEF Ended, ChunkEnds
    <3>5. Forcing(l, dims, c) /\ Same(l, Forced(l, dims)) => Fitting(l, dims, s)
      <4>1. g.view <= g.numel
        BY <2>5, <2>6
      <4> QED BY <2>7, <3>2, <3>4, <4>1 DEF Fitting
    <3>6. CASE s.view # s.numel
      <4>1. r = Failing(s)
        BY <1>7, <1>9, <2>10, <3>6
      <4>2. ~r.ok
        BY <3>2, <4>1 DEF Failing, Chunked
      <4>3. TiledAt(l, dims, k - 1, r)
        BY <4>2 DEF TiledAt
      <4>4. ASSUME Fitting(l, dims, s) PROVE FALSE
        <5>1. s.view < s.numel /\ s.view \in Nat /\ s.numel \in Nat
          BY <3>2, <3>6, <4>4, SMTT(60) DEF Fitting, Chunked
        <5>2. s.left = 0
          BY <3>2, <5>1 DEF Stuck
        <5>3. numel(l) = s.view * p /\ Volume(l.sizes, k) = s.numel * p
          <6>1. (k - 1) + 1 = k /\ s.left + 1 = 1
            BY <5>2
          <6> QED BY <3>3, <6>1 DEF Tiles, Product
        <5>4. Volume(l.sizes, k) <= numel(l)
          <6>1. l.sizes \in Seq(Nat) /\ Len(l.sizes) = rank(l)
            BY Strides DEF Strided
          <6>2. k \in 1 .. Len(l.sizes) + 1
            BY <1>2, <6>1
          <6> QED BY <6>1, <6>2, VolumeBound DEF numel
        <5>5. PICK v \in Nat : v = s.view
          BY <5>1
        <5>6. PICK j \in Nat : s.numel = v + 1 + j
          <6>1. s.numel - v - 1 \in Nat /\ s.numel = v + 1 + (s.numel - v - 1)
            BY <5>1, <5>5, SMTT(60)
          <6> QED BY <6>1
        <5>7. (v + 1 + j) * p = v * p + p + j * p
          OBVIOUS
        <5>8. PICK a \in Nat : a = v * p
          OBVIOUS
        <5>9. PICK b \in Nat : b = j * p
          OBVIOUS
        <5>10. numel(l) = a /\ Volume(l.sizes, k) = a + p + b
          BY <5>3, <5>5, <5>6, <5>7, <5>8, <5>9, Zenon
        <5> QED BY <5>4, <5>10
      <4> QED BY <3>5, <4>3, <4>4
    <3>7. CASE s.view = s.numel /\ k = 1
      <4>1. r = s
        BY <1>7, <1>9, <2>10, <3>7
      <4>2. k - 1 = 0 /\ ~(k - 1 > 0)
        BY <3>7
      <4>3. Joins(l, k - 1, s)
        BY <4>2 DEF Joins
      <4>4. s.numel >= 1
        BY <2>6, <3>3
      <4>5. TiledAt(l, dims, k - 1, s)
        BY <3>2, <3>3, <3>7, <4>3, <4>4 DEF TiledAt
      <4> QED BY <3>3, <3>5, <4>1, <4>5 DEF Forcing, Fitting
    <3>8. CASE s.view = s.numel /\ k # 1
      <4>1. PICK t \in Nat : t = l.strides[k - 1]
        <5>1. k - 1 \in 1 .. rank(l)
          BY <1>2, <3>8
        <5> QED BY <1>2, <5>1
      <4>2. r = Starting(s, t)
        BY <1>7, <1>9, <2>10, <3>8, <4>1
      <4>3. /\ r.base = t /\ r.numel = 1 /\ r.view = 1 /\ r.left = s.left /\ r.strides = s.strides
            /\ r.ok
        BY <3>2, <3>3, <4>2 DEF Starting, Chunked
      <4>4. s.view * p \in Nat \ {0} /\ Tiles(l, dims, k - 1, r, s.view * p)
        BY <2>3, <2>8, <3>2, <3>3, <3>8, <4>2, TilesStart
      <4>5. Joins(l, k - 1, r)
        BY <4>1, <4>3 DEF Joins
      <4>6. k - 1 # 0
        BY <3>8
      <4>7. TiledAt(l, dims, k - 1, r)
        BY <4>3, <4>4, <4>5, <4>6 DEF TiledAt
      <4>8. Fitting(l, dims, s) => Forcing(l, dims, r)
        BY <4>3, SMTT(60) DEF Fitting, Forcing, Agrees
      <4> QED BY <3>5, <4>7, <4>8
    <3> QED BY <3>6, <3>7, <3>8
  <2> QED BY <2>9, <2>10
<1> QED BY <1>8, <1>9

LEMMA ChunksExact ==
  ASSUME NEW l, Strided(l), rank(l) # 0, numel(l) > 0, NEW dims \in Seq(Nat),
         Product(dims) = numel(l), NEW all, all = Chunks(l, dims)
  PROVE  /\ all.ok /\ all.left = 0 => Same(l, [sizes |-> dims, strides |-> all.strides])
         /\ Same(l, Forced(l, dims)) => all.ok /\ all.left = 0
<1>1. PICK m \in Nat : m = Len(dims)
  OBVIOUS
<1>2. PICK n \in Nat : n = rank(l) /\ n \in 1 .. n
  BY Strides
<1>3. PICK u : Chunking(l, dims, u)
  BY ChunkSteps
<1>4. /\ all = u[1]
      /\ \A k \in 1 .. n + 1 : u[k] \in Chunked(Len(dims))
      /\ \A k \in 1 .. n : u[k] = Chunk(l, dims, k, u[k + 1])
  BY <1>2, <1>3 DEF Chunking
<1>5. PICK start : start = u[n + 1]
  OBVIOUS
<1>6. /\ start.ok /\ start.left = m /\ start.base = l.strides[n] /\ start.numel = 1 /\ start.view = 1
  BY <1>1, <1>2, <1>3, <1>5 DEF Chunking
<1>7. l.sizes \in Seq(Nat) /\ Len(l.sizes) = n
  BY <1>2, Strides DEF Strided
<1>8. Product(dims) > 0
  OBVIOUS
<1>9. TiledAt(l, dims, n, start)
  <2>1. PICK t \in Nat : t = l.strides[n]
    BY <1>2, Strides
  <2>2. Joins(l, n, start)
    BY <1>6, <2>1 DEF Joins
  <2>3. Volume(l.sizes, n + 1) = 1 * 1 /\ Volume(dims, m + 1) = 1 * 1
    BY <1>1, <1>7, VolumeIs
  <2>4. ASSUME NEW x, NEW i \in Nat, Agrees(dims, start, x) PROVE Balanced(l, x, n, start, 1, i)
    <3>1. Strided(x) /\ rank(x) = m /\ numel(x) > 0
      BY <1>1, <1>8, <2>4 DEF Agrees, rank, numel
    <3>2. OffsetFrom(l, i, n + 1) = 0
      BY <1>2, OffsetFromIs
    <3>3. OffsetFrom(x, i, m + 1) = 0
      BY <3>1, OffsetFromIs
    <3> QED BY <1>6, <3>2, <3>3 DEF Balanced
  <2>5. Tiles(l, dims, n, start, 1)
    BY <1>6, <2>3, <2>4 DEF Tiles
  <2>6. 1 \in Nat \ {0} /\ n # 0
    BY <1>2
  <2> QED BY <1>6, <2>2, <2>5, <2>6 DEF TiledAt
<1>10. Same(l, Forced(l, dims)) => Forcing(l, dims, start)
  <2>1. Strided(Forced(l, dims)) /\ Forced(l, dims).sizes = dims
    BY ForcedIs
  <2>2. \A d \in 1 .. Len(dims) : ~(d > start.left)
    BY <1>1, <1>6
  <2> QED BY <1>6, <2>1, <2>2 DEF Forcing, Agrees
<1> DEFINE Good(k) == /\ TiledAt(l, dims, k - 1, u[k])
                      /\ Same(l, Forced(l, dims)) => Forcing(l, dims, u[k])
           S == {k \in 1 .. n + 1 : Good(k)}
<1>11. n + 1 \in S
  <2>1. (n + 1) - 1 = n /\ n + 1 \in 1 .. n + 1
    OBVIOUS
  <2> QED BY <1>5, <1>9, <1>10, <2>1
<1>12. ASSUME NEW k \in 1 .. n, k + 1 \in S PROVE k \in S
  <2>1. k \in 1 .. n + 1 /\ k + 1 \in 1 .. n + 1 /\ (k + 1) - 1 = k
    OBVIOUS
  <2>2. PICK c : c = u[k + 1]
    OBVIOUS
  <2>3. TiledAt(l, dims, k, c) /\ (Same(l, Forced(l, dims)) => Forcing(l, dims, c))
    BY <1>12, <2>1, <2>2
  <2>4. c \in Chunked(Len(dims)) /\ u[k] = Chunk(l, dims, k, c) /\ k \in 1 .. rank(l)
    BY <1>2, <1>4, <2>1, <2>2
  <2>5. /\ TiledAt(l, dims, k - 1, u[k])
        /\ Forcing(l, dims, c) /\ Same(l, Forced(l, dims)) => Forcing(l, dims, u[k])
    BY <2>3, <2>4, ChunkTiles
  <2>6. Good(k)
    BY <2>3, <2>5, Zenon
  <2> QED BY <2>1, <2>6
<1>13. 1 .. n + 1 \subseteq S
  <2> HIDE DEF S
  <2> QED BY <1>11, <1>12, Descent
<1>14. Good(1) /\ 1 \in 1 .. n + 1
  <2>1. 1 \in 1 .. n + 1
    OBVIOUS
  <2> QED BY <1>13, <2>1
<1>15. /\ TiledAt(l, dims, 0, all) /\ (Same(l, Forced(l, dims)) => Forcing(l, dims, all))
       /\ all \in Chunked(Len(dims))
  <2>1. 1 - 1 = 0
    OBVIOUS
  <2> QED BY <1>4, <1>14, <2>1
<1>16. ASSUME all.ok
       PROVE  /\ all.view >= 1 /\ all.view = all.numel /\ Stuck(dims, all)
              /\ \E p \in Nat \ {0} : Tiles(l, dims, 0, all, p)
  BY <1>15, <1>16 DEF TiledAt
<1>17. ASSUME all.ok, all.left = 0 PROVE Same(l, [sizes |-> dims, strides |-> all.strides])
  <2>1. PICK x : x = [sizes |-> dims, strides |-> all.strides]
    OBVIOUS
  <2>2. x.sizes = dims /\ x.strides = all.strides
    BY <2>1
  <2>3. all.strides \in Seq(Nat) /\ Len(all.strides) = m
    <3>1. all.strides \in [1 .. m -> Nat]
      BY <1>1, <1>15 DEF Chunked
    <3> QED BY <3>1, Arranged
  <2>4. Strided(x) /\ rank(x) = m /\ numel(x) > 0
    BY <1>1, <1>8, <2>2, <2>3 DEF Strided, rank, numel
  <2>5. Agrees(dims, all, x)
    BY <2>2, <2>4 DEF Agrees
  <2>6. PICK p \in Nat \ {0} : Tiles(l, dims, 0, all, p)
    BY <1>16, <1>17
  <2>7. ASSUME NEW i \in Nat PROVE ElementOffset(x, i) = ElementOffset(l, i)
    <3>1. Balanced(l, x, 0, all, p, i)
      BY <2>5, <2>6 DEF Tiles
    <3>2. PICK a \in Int : a = OffsetFrom(l, i, 1) /\ a = ElementOffset(l, i)
      <4>1. OffsetFrom(l, i, 1) = ElementOffset(l, i) /\ ElementOffset(l, i) \in Nat
        BY OffsetFromIs, ElementInExtent
      <4> QED BY <4>1
    <3>3. PICK b \in Int : b = OffsetFrom(x, i, 1) /\ b = ElementOffset(x, i)
      <4>1. OffsetFrom(x, i, 1) = ElementOffset(x, i) /\ ElementOffset(x, i) \in Nat
        BY <2>4, OffsetFromIs, ElementInExtent
      <4> QED BY <4>1
    <3>4. all.numel = all.view /\ all.numel \in Nat \ {0} /\ all.base \in Nat
      BY <1>15, <1>16, <1>17 DEF Chunked
    <3>5. PICK h \in Int : h = Digit(i, p, all.numel) * all.base
      <4>1. Digit(i, p, all.numel) \in Nat
        BY <3>4, DigitIs
      <4> QED BY <3>4, <4>1
    <3>6. a + h = b + h
      <4>1. 0 + 1 = 1
        OBVIOUS
      <4> QED BY <1>17, <3>1, <3>2, <3>3, <3>4, <3>5, <4>1 DEF Balanced
    <3> QED BY <3>2, <3>3, <3>6
  <2> QED BY <2>1, <2>7 DEF Same
<1>18. ASSUME Same(l, Forced(l, dims)) PROVE all.ok /\ all.left = 0
  <2>1. all.ok
    BY <1>15, <1>18 DEF Forcing
  <2>2. PICK p \in Nat \ {0} : Tiles(l, dims, 0, all, p)
    BY <1>16, <2>1
  <2> SUFFICES ASSUME all.left # 0 PROVE FALSE
    BY <2>1
  <2>3. PICK d \in 1 .. m : d = all.left
    BY <1>1, <1>15 DEF Chunked
  <2>4. dims[d] # 1
    BY <1>16, <2>1, <2>3 DEF Stuck
  <2>5. Volume(dims, d + 1) = numel(l)
    BY <1>16, <2>1, <2>2, <2>3 DEF Tiles, numel, Product
  <2>6. Volume(dims, d) <= numel(l) /\ Volume(dims, d) = dims[d] * Volume(dims, d + 1)
    <3>1. d \in 1 .. Len(dims) + 1 /\ d \in 1 .. Len(dims)
      BY <1>1
    <3> QED BY <1>8, <3>1, VolumeBound, VolumeIs
  <2>7. PICK j \in Nat : dims[d] = j + 2
    <3>1. dims[d] \in Nat /\ dims[d] > 0
      BY <1>1, <1>8, EmptyIs
    <3>2. dims[d] - 2 \in Nat /\ dims[d] = (dims[d] - 2) + 2
      BY <2>4, <3>1
    <3> QED BY <3>2
  <2>8. PICK w \in Nat \ {0} : w = numel(l)
    <3>1. Product(dims) \in Nat
      BY VolumeIs DEF Product
    <3> QED BY <1>8, <3>1
  <2>9. (j + 2) * w = j * w + w + w
    OBVIOUS
  <2>10. PICK a \in Nat : a = j * w
    OBVIOUS
  <2>11. Volume(dims, d) = a + w + w
    BY <2>5, <2>6, <2>7, <2>8, <2>9, <2>10, Zenon
  <2> QED BY <2>6, <2>8, <2>11
<1> QED BY <1>17, <1>18

LEMMA FitsIs ==
  ASSUME NEW l, l.numel = numel(l), numel(l) \in Nat, NEW dims, NEW strides,
         NEW n, n.sizes = dims, n.strides = strides
  PROVE  Fits(l, dims, strides) <=> Same(l, n)
<1>1. \A i : ElementOffset(n, i) = Dot(Coord(dims, i), strides)
  BY DEF ElementOffset
<1>2. \A i \in Nat : i < numel(l) <=> i \in 0 .. l.numel - 1
  OBVIOUS
<1>3. \A i \in 0 .. l.numel - 1 : i \in Nat
  OBVIOUS
<1>4. ASSUME Fits(l, dims, strides) PROVE Same(l, n)
  BY <1>1, <1>2, <1>4 DEF Fits, Same
<1>5. ASSUME Same(l, n) PROVE Fits(l, dims, strides)
  BY <1>1, <1>2, <1>3, <1>5 DEF Fits, Same
<1> QED BY <1>4, <1>5

LEMMA FoundStrides ==
  ASSUME NEW b \in Seq(Nat)
  PROVE  b # NoStrides
<1>1. NoStrides[1] = -1 /\ Len(NoStrides) = 1
  BY DEF NoStrides
<1>2. Len(b) = 1 => b[1] \in Nat
  <2>1. b \in [1 .. Len(b) -> Nat] /\ 1 \in 1 .. 1
    BY Sequence
  <2> QED BY <2>1
<1>3. -1 \notin Nat
  OBVIOUS
<1> QED BY <1>1, <1>2, <1>3

LEMMA ViewStrides ==
  ASSUME NEW l, Strided(l), l.numel \in Nat, l.numel > 0, l.numel = numel(l),
         l.contiguous \in BOOLEAN, l.contiguous = Contiguous(l),
         NEW dims \in Seq(Nat), Product(dims) = l.numel,
         NEW strides, strides = compute_view_strides(l, dims)
  PROVE  IF strides = NoStrides THEN ~Fits(l, dims, ForcedStrides(l, dims))
         ELSE Fits(l, dims, strides)
<1>1. PICK m \in Nat : m = Len(dims)
  OBVIOUS
<1>2. \A b \in Seq(Nat) : b # NoStrides
  BY FoundStrides
<1>3. CASE rank(l) = 0 \/ l.contiguous
  <2>1. strides = PackedStrides(dims)
    BY <1>3 DEF compute_view_strides
  <2>2. PICK n : n = [sizes |-> dims, strides |-> strides]
    OBVIOUS
  <2>3. n.sizes = dims /\ n.strides = PackedStrides(dims)
    BY <2>1, <2>2
  <2>4. PackedStrides(dims) \in Seq(Nat) /\ \A d \in 1 .. m : PackedStrides(dims)[d] = Volume(dims, d + 1)
    BY <1>1, PackedShape
  <2>5. Strided(n) /\ rank(n) = m /\ numel(n) = numel(l)
    BY <1>1, <2>3, PackedShape DEF Strided, rank, numel
  <2>6. is_packed(n)
    BY <2>3, <2>4, <2>5 DEF is_packed
  <2>7. is_packed(l)
    <3>1. CASE rank(l) = 0
      BY <3>1 DEF is_packed
    <3>2. CASE l.contiguous
      <4>1. Contiguous(l)
        BY <3>2, Zenon
      <4>2. numel(l) # 0
        OBVIOUS
      <4> QED BY <4>1, <4>2 DEF Contiguous
    <3> QED BY <1>3, <3>1, <3>2
  <2>8. Same(l, n)
    <3> SUFFICES ASSUME NEW i \in Nat, i < numel(l) PROVE ElementOffset(n, i) = ElementOffset(l, i)
      BY DEF Same
    <3>1. ElementOffset(n, i) = i
      BY <2>5, <2>6, PackedElement
    <3>2. ElementOffset(l, i) = i
      BY <2>7, PackedElement
    <3> QED BY <3>1, <3>2
  <2>9. Fits(l, dims, strides)
    BY <2>1, <2>3, <2>8, FitsIs
  <2> QED BY <1>2, <2>1, <2>4, <2>9
<1>4. CASE ~(rank(l) = 0 \/ l.contiguous)
  <2>1. PICK all : all = Chunks(l, dims)
    OBVIOUS
  <2>2. strides = IF all.ok /\ all.left = 0 THEN all.strides ELSE NoStrides
    BY <1>4, <2>1 DEF compute_view_strides
  <2>3. numel(l) > 0 /\ rank(l) # 0 /\ Product(dims) = numel(l)
    BY <1>4
  <2>4. /\ all.ok /\ all.left = 0 => Same(l, [sizes |-> dims, strides |-> all.strides])
        /\ Same(l, Forced(l, dims)) => all.ok /\ all.left = 0
    BY <2>1, <2>3, ChunksExact
  <2>5. CASE all.ok /\ all.left = 0
    <3>1. strides = all.strides
      BY <2>2, <2>5
    <3>2. strides \in Seq(Nat)
      <4>1. all \in Chunked(Len(dims))
        BY <2>1, <2>3, ChunksIs
      <4>2. all.strides \in [1 .. m -> Nat]
        BY <1>1, <4>1 DEF Chunked
      <4> QED BY <3>1, <4>2, Arranged
    <3>3. PICK n : n = [sizes |-> dims, strides |-> strides]
      OBVIOUS
    <3>4. Same(l, n) /\ n.sizes = dims /\ n.strides = strides
      BY <2>4, <2>5, <3>1, <3>3
    <3>5. Fits(l, dims, strides)
      BY <3>4, FitsIs
    <3> QED BY <1>2, <3>2, <3>5
  <2>6. CASE ~(all.ok /\ all.left = 0)
    <3>1. strides = NoStrides
      BY <2>2, <2>6
    <3>2. PICK n : n = Forced(l, dims)
      OBVIOUS
    <3>3. n.sizes = dims /\ n.strides = ForcedStrides(l, dims)
      BY <3>2 DEF Forced
    <3>4. ~Same(l, n)
      BY <2>4, <2>6, <3>2
    <3>5. ~Fits(l, dims, ForcedStrides(l, dims))
      BY <3>3, <3>4, FitsIs
    <3> QED BY <3>1, <3>5
  <2> QED BY <2>5, <2>6
<1> QED BY <1>3, <1>4

(* view() finds strides exactly when there are some: where it refuses a    *)
(* shape no strides keep the order of the elements, and where it does not  *)
(* its strides do, whatever chain of calls made the layout.                *)
THEOREM HandlesViews == Spec => []ViewExact
<1>1. HInv => ViewExact
  <2> SUFFICES ASSUME HInv, NEW h \in DOMAIN handles, NEW l, l = handles[h], l.numel > 0,
                      NEW dims \in SameSize(l), NEW strides, strides = compute_view_strides(l, dims)
               PROVE  IF strides = NoStrides THEN ~Fits(l, dims, ForcedStrides(l, dims))
                      ELSE Fits(l, dims, strides)
    BY DEF ViewExact
  <2>1. Handle(l, memory)
    BY DEF HInv, Valid
  <2>2. /\ Strided(l) /\ l.numel \in Nat /\ l.numel = numel(l)
        /\ l.contiguous \in BOOLEAN /\ l.contiguous = Contiguous(l)
    BY <2>1 DEF Handle, Shaped
  <2>3. dims \in Seq(Nat) /\ Product(dims) = l.numel
    BY GeometryAssumption DEF SameSize
  <2> QED BY <2>2, <2>3, ViewStrides
<1>2. Init => HInv
  BY InitValid
<1>3. HInv /\ [Next]_vars => HInv'
  BY NextValid
<1> QED BY <1>1, <1>2, <1>3, PTL DEF Spec
=============================================================================
