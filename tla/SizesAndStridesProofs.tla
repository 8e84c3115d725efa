----------------------- MODULE SizesAndStridesProofs -----------------------
(***************************************************************************)
(* Proofs about SizesAndStrides, for any MAX_INLINE_SIZE, any largest rank *)
(* and any containers and blocks, with and without allocation failures:    *)
(* no container is left with a dangling or shared pointer, and no cell     *)
(* that nobody wrote becomes a size or a stride.                           *)
(***************************************************************************)
EXTENDS SizesAndStrides, TLAPS

(* The cells that hold the dimensions of a container: where its sizes      *)
(* begin is 0, where its strides begin is StridesOffset.                   *)
Storage(r, h) == IF isInline(r) THEN r.cells ELSE h[outOfLineStorage(r)]
Sizes(r, h) == [k \in 1 .. r.size |-> Storage(r, h)[k]]
Strides(r, h) == [k \in 1 .. r.size |-> Storage(r, h)[StridesOffset(r) + k]]

Member == [size : Ranks, cells : [1 .. 2 * M -> Cells]]

\* An inline container has values in its cells; one past M points to a block
\* of values, of its size, unless an allocation failed.
Good(r, h, f) ==
  /\ r \in Member
  /\ isInline(r) => \A k \in 1 .. r.size : r.cells[k] \in Values /\ r.cells[M + k] \in Values
  /\ ~isInline(r) =>
       \/ outOfLineStorage(r) = nullptr /\ f
       \/ /\ outOfLineStorage(r) \in DOMAIN h
          /\ h[outOfLineStorage(r)] \in [1 .. storageBytes(r.size) -> Values]

(* The inductive invariant, of containers ob and blocks h, where f says    *)
(* whether allocations may fail: every container is good, no two share a   *)
(* block, and no block is leaked as long as no allocation fails.           *)
Inv(ob, h, f) ==
  /\ DOMAIN ob \subseteq Objects
  /\ \A o \in DOMAIN ob : Good(ob[o], h, f)
  /\ \A o, x \in DOMAIN ob : o # x => Owned(ob[o]) \cap Owned(ob[x]) \subseteq {nullptr}
  /\ DOMAIN h \subseteq Blocks
  /\ \A b \in DOMAIN h : h[b] \in Seq(Cells)
  /\ f \/ \A b \in DOMAIN h : \E o \in DOMAIN ob : b \in Owned(ob[o])

IInv ==
  /\ fails \in BOOLEAN
  /\ objs = [o \in DOMAIN objs |-> objs[o]]
  /\ heap = [b \in DOMAIN heap |-> heap[b]]
  /\ Inv(objs, heap, fails)

LEMMA Constants ==
  /\ M \in Nat /\ M >= 1 /\ MaxRank \in Nat /\ MaxRank >= 1
  /\ 0 \in Values /\ 1 \in Values /\ Values \subseteq Nat /\ Values \subseteq Cells
  /\ nullptr = 0 /\ nullptr \notin Blocks
BY MAssumption, ValuesAssumption, BlocksAssumption DEF Cells, nullptr

(* The first cell of a container, and what it owns. *)
LEMMA Pointer ==
  ASSUME NEW r \in Member
  PROVE  /\ r.size \in Nat /\ r.size <= MaxRank
         /\ r.cells \in [1 .. 2 * M -> Cells] /\ 1 \in DOMAIN r.cells
         /\ outOfLineStorage(r) = r.cells[1]
         /\ isInline(r) <=> r.size <= M
         /\ isInline(r) => Owned(r) = {}
         /\ ~isInline(r) => Owned(r) = {outOfLineStorage(r)}
BY Constants DEF Member, Ranks, outOfLineStorage, isInline, Owned

(* WithPointer sets the first cell of the members and nothing else. *)
LEMMA Pointed ==
  ASSUME NEW r \in Member, NEW p \in Cells
  PROVE  /\ WithPointer(r, p) \in Member
         /\ WithPointer(r, p).size = r.size
         /\ outOfLineStorage(WithPointer(r, p)) = p
         /\ WithPointer(r, p).cells = [r.cells EXCEPT ![1] = p]
BY Constants, Pointer DEF Member, WithPointer, outOfLineStorage

LEMMA PointToIs ==
  ASSUME NEW r \in Member, NEW p \in Cells
  PROVE  PointTo(r, p) \in [1 .. 2 * M -> Cells] /\ PointTo(r, p)[1] = p
BY Pointed DEF PointTo, Member, outOfLineStorage

(* What a container reads through sizes_data() and strides_data(). *)
LEMMA ArraysAre ==
  ASSUME NEW r, NEW f \in BOOLEAN, Good(r, heap, f),
         isInline(r) \/ outOfLineStorage(r) # nullptr
  PROVE  /\ Arrays(r) = [sizes |-> Sizes(r, heap), strides |-> Strides(r, heap)]
         /\ Sizes(r, heap) \in [1 .. r.size -> Values]
         /\ Strides(r, heap) \in [1 .. r.size -> Values]
<1>1. r \in Member /\ r.size \in Nat /\ r.cells \in [1 .. 2 * M -> Cells]
  BY Pointer DEF Good
<1>2. CASE isInline(r)
  <2>1. r.size <= M
    BY <1>1, <1>2, Pointer
  <2>2. SubSeq(r.cells, 1, r.size) = Sizes(r, heap)
    BY <1>1, <1>2, <2>1, Constants DEF Sizes, Storage
  <2>3. SubSeq(SubSeq(r.cells, M + 1, 2 * M), 1, r.size) = Strides(r, heap)
    BY <1>1, <1>2, <2>1, Constants DEF Strides, Storage, StridesOffset
  <2>4. \A k \in 1 .. r.size : r.cells[k] \in Values /\ r.cells[M + k] \in Values
    BY <1>2 DEF Good
  <2>5. Sizes(r, heap) \in [1 .. r.size -> Values] /\ Strides(r, heap) \in [1 .. r.size -> Values]
    BY <1>2, <2>4 DEF Sizes, Strides, Storage, StridesOffset
  <2> QED BY <1>2, <2>2, <2>3, <2>5 DEF Arrays, sizes_data, strides_data
<1>3. CASE ~isInline(r)
  <2> DEFINE q == heap[outOfLineStorage(r)]
  <2>1. q \in [1 .. 2 * r.size -> Values] /\ Outline(r) = q
    BY <1>3 DEF Good, Outline, storageBytes
  <2>2. SubSeq(q, 1, r.size) = Sizes(r, heap)
    BY <1>1, <1>3, <2>1 DEF Sizes, Storage
  <2>3. SubSeq(SubSeq(q, r.size + 1, 2 * r.size), 1, r.size) = Strides(r, heap)
    BY <1>1, <1>3, <2>1 DEF Strides, Storage, StridesOffset
  <2>4. Sizes(r, heap) \in [1 .. r.size -> Values] /\ Strides(r, heap) \in [1 .. r.size -> Values]
    BY <1>1, <1>3, <2>1 DEF Sizes, Strides, Storage, StridesOffset
  <2> QED BY <1>3, <2>1, <2>2, <2>3, <2>4 DEF Arrays, sizes_data, strides_data, storageBytes
<1> QED BY <1>2, <1>3
----------------------------------------------------------------------------
(* One container changes.  Handover says that one which owned `old` is now *)
(* r, and the blocks went from h to h2: nobody else's block is touched, r  *)
(* owns a block of its own or a fresh one, and nothing is left behind      *)
(* unless an allocation may fail.                                          *)
Handover(old, r, h, h2, f) ==
  /\ Good(r, h2, f)
  /\ Owned(r) \subseteq Fresh(h) \cup old \cup {nullptr}
  /\ h2 = [b \in DOMAIN h2 |-> h2[b]]
  /\ DOMAIN h2 \subseteq Blocks /\ \A b \in DOMAIN h2 : h2[b] \in Seq(Cells)
  /\ DOMAIN h2 \subseteq DOMAIN h \cup Owned(r)
  /\ \A b \in DOMAIN h \ old : b \in DOMAIN h2 /\ h2[b] = h[b]
  /\ f \/ old \cap DOMAIN h2 \subseteq Owned(r)

OwnedBy(ob, o) == IF o \in DOMAIN ob THEN Owned(ob[o]) ELSE {}

LEMMA SetIs ==
  ASSUME NEW f, NEW x, NEW v
  PROVE  /\ DOMAIN Set(f, x, v) = DOMAIN f \cup {x}
         /\ Set(f, x, v)[x] = v
         /\ \A y \in DOMAIN f : y # x => Set(f, x, v)[y] = f[y]
         /\ Set(f, x, v) = [y \in DOMAIN Set(f, x, v) |-> Set(f, x, v)[y]]
         /\ DOMAIN Drop(f, x) = DOMAIN f \ {x}
         /\ \A y \in DOMAIN f : y # x => Drop(f, x)[y] = f[y]
         /\ Drop(f, x) = [y \in DOMAIN Drop(f, x) |-> Drop(f, x)[y]]
BY DEF Set, Drop

(* A container that exists is replaced by EXCEPT. *)
LEMMA ExceptIs ==
  ASSUME NEW f, f = [y \in DOMAIN f |-> f[y]], NEW x \in DOMAIN f, NEW v
  PROVE  [f EXCEPT ![x] = v] = Set(f, x, v)
BY DEF Set

(* A good container stays good, and reads the same, while its block does. *)
LEMMA GoodKept ==
  ASSUME NEW r, NEW h, NEW h2, NEW f, Good(r, h, f), nullptr \notin DOMAIN h,
         \A b \in Owned(r) \ {nullptr} : b \in DOMAIN h => b \in DOMAIN h2 /\ h2[b] = h[b]
  PROVE  /\ Good(r, h2, f)
         /\ ~f => Sizes(r, h2) = Sizes(r, h) /\ Strides(r, h2) = Strides(r, h)
<1>1. r \in Member
  BY DEF Good
<1>2. CASE isInline(r)
  BY <1>2 DEF Good, Sizes, Strides, Storage
<1>3. CASE ~isInline(r)
  <2>1. Owned(r) = {outOfLineStorage(r)}
    BY <1>1, <1>3, Pointer
  <2>2. CASE outOfLineStorage(r) = nullptr /\ f
    BY <1>3, <2>2 DEF Good
  <2>3. CASE /\ outOfLineStorage(r) \in DOMAIN h
             /\ h[outOfLineStorage(r)] \in [1 .. storageBytes(r.size) -> Values]
    <3>1. outOfLineStorage(r) \in DOMAIN h2 /\ h2[outOfLineStorage(r)] = h[outOfLineStorage(r)]
      BY <2>1, <2>3
    <3> QED BY <1>1, <1>3, <2>3, <3>1 DEF Good, Sizes, Strides, Storage
  <2> QED BY <1>3, <2>2, <2>3 DEF Good
<1> QED BY <1>2, <1>3

(* A handover keeps the invariant, and what the other containers read. *)
LEMMA Replaced ==
  ASSUME NEW ob, NEW h, NEW f, Inv(ob, h, f), NEW o \in Objects, NEW r, NEW h2,
         Handover(OwnedBy(ob, o), r, h, h2, f)
  PROVE  /\ Inv(Set(ob, o, r), h2, f)
         /\ ~f => \A x \in DOMAIN ob \ {o} :
                    Sizes(ob[x], h2) = Sizes(ob[x], h) /\ Strides(ob[x], h2) = Strides(ob[x], h)
<1> DEFINE new == Set(ob, o, r)
<1>1. /\ DOMAIN new = DOMAIN ob \cup {o} /\ new[o] = r
      /\ \A x \in DOMAIN ob : x # o => new[x] = ob[x]
  BY DEF Set
<1>2. \A x \in DOMAIN ob : x # o => Owned(ob[x]) \cap OwnedBy(ob, o) \subseteq {nullptr}
  BY DEF Inv, OwnedBy
<1>3. \A x \in DOMAIN ob : x # o =>
        \A b \in Owned(ob[x]) \ {nullptr} : b \in DOMAIN h => b \in DOMAIN h2 /\ h2[b] = h[b]
  BY <1>2 DEF Handover
<1>4. nullptr \notin DOMAIN h
  BY Constants DEF Inv
<1>5. \A x \in DOMAIN ob : x # o =>
        /\ Good(ob[x], h2, f)
        /\ ~f => Sizes(ob[x], h2) = Sizes(ob[x], h) /\ Strides(ob[x], h2) = Strides(ob[x], h)
  BY <1>3, <1>4, GoodKept DEF Inv
<1>6. \A x \in DOMAIN ob : x # o => Owned(ob[x]) \subseteq DOMAIN h \cup {nullptr}
  <2> SUFFICES ASSUME NEW x \in DOMAIN ob PROVE Owned(ob[x]) \subseteq DOMAIN h \cup {nullptr}
    OBVIOUS
  <2>1. Good(ob[x], h, f) /\ ob[x] \in Member
    BY DEF Inv, Good
  <2> QED BY <2>1, Pointer DEF Good
<1>7. \A x \in DOMAIN ob : x # o => Owned(ob[x]) \cap Owned(r) \subseteq {nullptr}
  BY <1>2, <1>6 DEF Handover, Fresh
<1>8. \A x, y \in DOMAIN new : x # y => Owned(new[x]) \cap Owned(new[y]) \subseteq {nullptr}
  <2> SUFFICES ASSUME NEW x \in DOMAIN new, NEW y \in DOMAIN new, x # y
               PROVE  Owned(new[x]) \cap Owned(new[y]) \subseteq {nullptr}
    OBVIOUS
  <2> HIDE DEF new
  <2>1. CASE x # o /\ y # o
    BY <1>1, <2>1 DEF Inv
  <2>2. CASE x = o
    BY <1>1, <1>7, <2>2
  <2>3. CASE y = o
    BY <1>1, <1>7, <2>3
  <2> QED BY <2>1, <2>2, <2>3
<1>9. f \/ \A b \in DOMAIN h2 : \E x \in DOMAIN new : b \in Owned(new[x])
  <2> SUFFICES ASSUME ~f, NEW b \in DOMAIN h2 PROVE \E x \in DOMAIN new : b \in Owned(new[x])
    OBVIOUS
  <2> HIDE DEF new
  <2>1. CASE b \in Owned(r)
    BY <1>1, <2>1
  <2>2. CASE b \notin Owned(r)
    <3>1. b \in DOMAIN h /\ b \notin OwnedBy(ob, o)
      BY <2>2 DEF Handover
    <3>2. PICK x \in DOMAIN ob : b \in Owned(ob[x])
      BY <3>1 DEF Inv
    <3>3. x # o
      BY <3>1, <3>2 DEF OwnedBy
    <3> QED BY <1>1, <3>2, <3>3
  <2> QED BY <2>1, <2>2
<1>10. \A x \in DOMAIN new : Good(new[x], h2, f)
  BY <1>1, <1>5 DEF Handover
<1>11. DOMAIN new \subseteq Objects /\ DOMAIN h2 \subseteq Blocks /\ \A b \in DOMAIN h2 : h2[b] \in Seq(Cells)
  BY <1>1 DEF Inv, Handover
<1> QED
  <2> HIDE DEF new
  <2>1. Inv(new, h2, f)
    BY <1>8, <1>9, <1>10, <1>11 DEF Inv
  <2>2. Inv(Set(ob, o, r), h2, f)
    BY <2>1 DEF new
  <2> QED BY <1>5, <2>2

(* So does the end of a container that frees what it owned. *)
LEMMA Removed ==
  ASSUME NEW ob, NEW h, NEW f, Inv(ob, h, f), NEW o \in DOMAIN ob, NEW h2,
         DOMAIN h2 = DOMAIN h \ Owned(ob[o]),
         \A b \in DOMAIN h2 : h2[b] = h[b]
  PROVE  /\ Inv(Drop(ob, o), h2, f)
         /\ ~f => \A x \in DOMAIN ob \ {o} :
                    Sizes(ob[x], h2) = Sizes(ob[x], h) /\ Strides(ob[x], h2) = Strides(ob[x], h)
<1> DEFINE new == Drop(ob, o)
<1>1. DOMAIN new = DOMAIN ob \ {o} /\ \A x \in DOMAIN new : new[x] = ob[x]
  BY DEF Drop
<1>2. nullptr \notin DOMAIN h
  BY Constants DEF Inv
<1>3. \A x \in DOMAIN ob : x # o =>
        \A b \in Owned(ob[x]) \ {nullptr} : b \in DOMAIN h => b \in DOMAIN h2 /\ h2[b] = h[b]
  BY DEF Inv
<1>4. \A x \in DOMAIN ob : x # o =>
        /\ Good(ob[x], h2, f)
        /\ ~f => Sizes(ob[x], h2) = Sizes(ob[x], h) /\ Strides(ob[x], h2) = Strides(ob[x], h)
  BY <1>2, <1>3, GoodKept DEF Inv
<1> HIDE DEF new
<1>5. f \/ \A b \in DOMAIN h2 : \E x \in DOMAIN new : b \in Owned(new[x])
  <2> SUFFICES ASSUME ~f, NEW b \in DOMAIN h2 PROVE \E x \in DOMAIN new : b \in Owned(new[x])
    OBVIOUS
  <2>1. PICK x \in DOMAIN ob : b \in Owned(ob[x])
    BY DEF Inv
  <2> QED BY <1>1, <2>1
<1>6. Inv(new, h2, f)
  BY <1>1, <1>4, <1>5 DEF Inv
<1>7. Inv(Drop(ob, o), h2, f)
  BY <1>6 DEF new
<1> QED BY <1>4, <1>7
----------------------------------------------------------------------------
(* The blocks h1 are those of the heap without the ones of `old`.          *)
Frees(old, h1) ==
  /\ h1 = [a \in DOMAIN h1 |-> h1[a]]
  /\ DOMAIN h1 = DOMAIN heap \ old
  /\ \A a \in DOMAIN h1 : h1[a] = heap[a]

Made(n, cells) == [size |-> n, cells |-> cells]
OutlineCells(n, q) == q \in [1 .. 2 * n -> Values]
PointsTo(cells, b) == cells \in [1 .. 2 * M -> Cells] /\ cells[1] = b
InlineCells(n, cells) ==
  /\ cells \in [1 .. 2 * M -> Cells]
  /\ \A k \in 1 .. n : cells[k] \in Values /\ cells[M + k] \in Values

(* The container gets a block b, fresh or its own, of 2n values.           *)
LEMMA NewBlock ==
  ASSUME IInv, NEW old, NEW h1, Frees(old, h1),
         NEW b \in Blocks, b \in Fresh(heap) \cup old,
         NEW n \in Ranks, n > M, NEW q, OutlineCells(n, q),
         NEW cells, PointsTo(cells, b),
         NEW r, r = Made(n, cells),
         NEW h2, h2 = Set(h1, b, q)
  PROVE  /\ Handover(old, r, heap, h2, fails)
         /\ r.size = n /\ ~isInline(r) /\ outOfLineStorage(r) = b /\ b # nullptr
         /\ Storage(r, h2) = q /\ StridesOffset(r) = n
<1>1. r \in Member /\ r.size = n /\ r.cells = cells
  BY DEF Member, Made, PointsTo
<1>2. ~isInline(r) /\ outOfLineStorage(r) = b /\ Owned(r) = {b} /\ StridesOffset(r) = n
  BY <1>1, Constants DEF PointsTo, Ranks, isInline, outOfLineStorage, Owned, StridesOffset
<1>3. /\ DOMAIN h2 = DOMAIN h1 \cup {b} /\ h2[b] = q
      /\ \A a \in DOMAIN h1 : a # b => h2[a] = h1[a]
      /\ h2 = [a \in DOMAIN h2 |-> h2[a]]
  BY DEF Set, Frees
<1>4. q \in Seq(Cells)
  <2>1. 2 * n \in Nat
    BY Constants DEF Ranks
  <2>2. q \in [1 .. 2 * n -> Cells]
    BY Constants DEF OutlineCells
  <2> QED BY <2>1, <2>2
<1>5. Good(r, h2, fails)
  BY <1>1, <1>2, <1>3 DEF Good, storageBytes, OutlineCells
<1>6. b # nullptr
  BY Constants
<1>7. Storage(r, h2) = q
  BY <1>2, <1>3 DEF Storage
<1>8. /\ DOMAIN h2 \subseteq Blocks
      /\ \A a \in DOMAIN h2 : h2[a] \in Seq(Cells)
      /\ DOMAIN h2 \subseteq DOMAIN heap \cup Owned(r)
      /\ \A a \in DOMAIN heap \ old : a \in DOMAIN h2 /\ h2[a] = heap[a]
      /\ old \cap DOMAIN h2 \subseteq Owned(r)
      /\ Owned(r) \subseteq Fresh(heap) \cup old \cup {nullptr}
  BY <1>2, <1>3, <1>4 DEF IInv, Inv, Fresh, Frees
<1>9. Handover(old, r, heap, h2, fails)
  BY <1>3, <1>5, <1>8 DEF Handover
<1> QED BY <1>1, <1>2, <1>6, <1>7, <1>9

(* The container becomes inline, and frees what it owned. *)
LEMMA NewInline ==
  ASSUME IInv, NEW old, NEW h1, Frees(old, h1),
         NEW n \in Ranks, n <= M, NEW cells, InlineCells(n, cells),
         NEW r, r = Made(n, cells)
  PROVE  /\ Handover(old, r, heap, h1, fails)
         /\ r.size = n /\ isInline(r) /\ Storage(r, h1) = cells /\ StridesOffset(r) = M
<1>1. r \in Member /\ r.size = n /\ r.cells = cells
  BY DEF Member, Made, InlineCells
<1>2. isInline(r) /\ Owned(r) = {} /\ StridesOffset(r) = M
  BY <1>1, Constants DEF Ranks, isInline, Owned, StridesOffset
<1>3. Good(r, h1, fails) /\ Storage(r, h1) = cells
  BY <1>1, <1>2 DEF Good, Storage, InlineCells
<1> QED BY <1>1, <1>2, <1>3 DEF Handover, IInv, Inv, Frees

(* What free leaves, where the blocks of r are freed. *)
LEMMA AfterFree ==
  ASSUME IInv, NEW r \in Member, NEW h1,
         h1 = IF isInline(r) THEN heap ELSE free(heap, outOfLineStorage(r))
  PROVE  Frees(Owned(r), h1)
<1>1. CASE isInline(r)
  BY <1>1, Pointer DEF IInv, Frees
<1>2. CASE ~isInline(r)
  BY <1>2, Pointer DEF free, Drop, Frees
<1> QED BY <1>1, <1>2
----------------------------------------------------------------------------
(* resize of r to n dimensions comes out as w: the storage is handed over, *)
(* and both arrays keep their common prefix and are zero after it; unless  *)
(* an allocation failed.                                                   *)
Usable(r) == isInline(r) \/ outOfLineStorage(r) # nullptr

\* n sizes at the start of q and strides at offset `at`, n0 of them as in s.
Extends(q, at, s, from, n0, n) ==
  \A k \in 1 .. n : /\ q[k] = IF k <= n0 THEN s[k] ELSE 0
                    /\ q[at + k] = IF k <= n0 THEN s[from + k] ELSE 0

Resizes(r, n, w) ==
  /\ Handover(Owned(r), w.obj, heap, w.heap, fails)
  /\ w.ok \in BOOLEAN /\ (fails \/ w.ok)
  /\ w.ok =>
       /\ w.obj.size = n /\ Usable(w.obj)
       /\ Extends(Storage(w.obj, w.heap), StridesOffset(w.obj),
                  Storage(r, heap), StridesOffset(r), r.size, n)

(* A container keeps what it owns. *)
LEMMA SameHandover ==
  ASSUME IInv, NEW r, Good(r, heap, fails)
  PROVE  Handover(Owned(r), r, heap, heap, fails)
<1>1. r \in Member
  BY DEF Good
<1> QED BY <1>1, Pointer DEF Handover, IInv, Inv

LEMMA ResizeInlineIs ==
  ASSUME IInv, NEW r, Good(r, heap, fails), isInline(r), NEW n \in Ranks, n <= M,
         NEW w \in ResizeInline(r, n)
  PROVE  Resizes(r, n, w)
<1>1. r \in Member /\ r.size \in Nat /\ r.size <= M /\ r.cells \in [1 .. 2 * M -> Cells]
  BY Pointer DEF Good
<1>2. \A k \in 1 .. r.size : r.cells[k] \in Values /\ r.cells[M + k] \in Values
  BY DEF Good
<1> DEFINE grown == memset(memset(r.cells, r.size, n - r.size), M + r.size, n - r.size)
           cells == IF r.size < n THEN grown ELSE r.cells
<1>3. n \in Nat
  BY Constants DEF Ranks
<1>4. cells \in [1 .. 2 * M -> Cells]
  BY <1>1, <1>3, Constants DEF memset
<1>5. Extends(cells, M, r.cells, M, r.size, n)
  BY <1>1, <1>3, Constants DEF memset, Extends
<1>6. w.obj = Made(n, cells) /\ w.heap = heap /\ w.ok = TRUE
  BY DEF ResizeInline, Out, Made
<1> HIDE DEF cells
<1>7. InlineCells(n, cells)
  <2>1. SUFFICES ASSUME NEW k \in 1 .. n PROVE cells[k] \in Values /\ cells[M + k] \in Values
    BY <1>4 DEF InlineCells
  <2>2. /\ cells[k] = IF k <= r.size THEN r.cells[k] ELSE 0
        /\ cells[M + k] = IF k <= r.size THEN r.cells[M + k] ELSE 0
    BY <1>5 DEF Extends
  <2>3. CASE k <= r.size
    <3>1. k \in 1 .. r.size
      BY <2>3, <1>1, <1>3
    <3> QED BY <2>2, <2>3, <3>1, <1>2
  <2>4. CASE ~(k <= r.size)
    BY <2>2, <2>4, Constants
  <2> QED BY <2>3, <2>4
<1>8. Owned(r) = {}
  BY <1>1, Pointer
<1>9. Frees(Owned(r), heap)
  BY <1>8 DEF IInv, Frees
<1>10. /\ Handover(Owned(r), w.obj, heap, w.heap, fails)
       /\ w.obj.size = n /\ isInline(w.obj) /\ Storage(w.obj, w.heap) = cells
       /\ StridesOffset(w.obj) = M
  BY <1>6, <1>7, <1>9, NewInline
<1>11. Storage(r, heap) = r.cells /\ StridesOffset(r) = M
  BY DEF Storage, StridesOffset
<1> QED BY <1>5, <1>6, <1>10, <1>11 DEF Resizes, Usable

LEMMA ResizeToInlineIs ==
  ASSUME IInv, NEW r, Good(r, heap, fails), ~isInline(r), Usable(r), NEW n \in Ranks, n <= M,
         NEW w \in ResizeToInline(r, n)
  PROVE  Resizes(r, n, w)
<1>1. /\ r \in Member /\ r.size \in Nat /\ r.size > M /\ r.cells \in [1 .. 2 * M -> Cells]
      /\ n \in Nat
  BY Pointer, Constants DEF Good, Ranks
<1> DEFINE t == heap[outOfLineStorage(r)]
           cells == memmove(memmove(r.cells, 0, t, 0, M), M, t, r.size, M)
           h1 == free(heap, outOfLineStorage(r))
<1>2. t \in [1 .. 2 * r.size -> Values] /\ Outline(r) = t
  BY DEF Good, Usable, Outline, storageBytes
<1>3. Storage(r, heap) = t /\ StridesOffset(r) = r.size
  BY DEF Storage, StridesOffset
<1>4. w.obj = Made(n, cells) /\ w.heap = h1 /\ w.ok = TRUE
  BY <1>2 DEF ResizeToInline, Out, Made
<1>5. \A k \in 1 .. 2 * M : cells[k] = IF k <= M THEN t[k] ELSE t[k - M + r.size]
  BY <1>1, <1>2, Constants DEF memmove
<1>6. cells \in [1 .. 2 * M -> Cells]
  <2>1. DOMAIN cells = 1 .. 2 * M /\ cells = [k \in DOMAIN cells |-> cells[k]]
    BY <1>1 DEF memmove
  <2>2. ASSUME NEW k \in 1 .. 2 * M PROVE cells[k] \in Cells
    <3>1. CASE k <= M
      <4>1. k \in 1 .. 2 * r.size
        BY <1>1, <3>1, Constants
      <4> QED BY <1>2, <1>5, <3>1, <4>1, Constants
    <3>2. CASE ~(k <= M)
      <4>1. k - M + r.size \in 1 .. 2 * r.size
        BY <1>1, <3>2, Constants
      <4> QED BY <1>2, <1>5, <3>2, <4>1, Constants
    <3> QED BY <3>1, <3>2
  <2> HIDE DEF cells
  <2> QED BY <2>1, <2>2
<1>7. Frees(Owned(r), h1)
  BY <1>1, AfterFree
<1> HIDE DEF cells, h1, t
<1>8. \A k \in 1 .. n : cells[k] = t[k] /\ cells[M + k] = t[r.size + k]
  <2> SUFFICES ASSUME NEW k \in 1 .. n PROVE cells[k] = t[k] /\ cells[M + k] = t[r.size + k]
    OBVIOUS
  <2>1. k \in 1 .. 2 * M /\ k <= M /\ M + k \in 1 .. 2 * M /\ ~(M + k <= M)
    BY <1>1, Constants
  <2>2. (M + k) - M + r.size = r.size + k
    BY <1>1, Constants
  <2> QED BY <1>5, <2>1, <2>2
<1>9. InlineCells(n, cells)
  <2>1. ASSUME NEW k \in 1 .. n PROVE cells[k] \in Values /\ cells[M + k] \in Values
    <3>1. k \in 1 .. 2 * r.size /\ r.size + k \in 1 .. 2 * r.size
      BY <1>1, Constants
    <3> QED BY <1>2, <1>8, <3>1
  <2> QED BY <1>6, <2>1 DEF InlineCells
<1>10. /\ Handover(Owned(r), w.obj, heap, w.heap, fails)
       /\ w.obj.size = n /\ isInline(w.obj) /\ Storage(w.obj, w.heap) = cells
       /\ StridesOffset(w.obj) = M
  BY <1>4, <1>7, <1>9, NewInline
<1>11. Extends(cells, M, t, r.size, r.size, n)
  BY <1>1, <1>8, Constants DEF Extends
<1> QED BY <1>3, <1>4, <1>10, <1>11 DEF Resizes, Usable

(* A block that extends values with zeroes holds values. *)
Block(n, q) == q = [k \in 1 .. 2 * n |-> q[k]]

LEMMA ExtendsValues ==
  ASSUME NEW n \in Nat, NEW n0 \in Nat, NEW q, Block(n, q), NEW s, NEW from,
         \A k \in 1 .. n0 : s[k] \in Values /\ s[from + k] \in Values,
         Extends(q, n, s, from, n0, n)
  PROVE  OutlineCells(n, q)
<1>1. ASSUME NEW k \in 1 .. n PROVE q[k] \in Values /\ q[n + k] \in Values
  <2>1. CASE k <= n0
    <3>1. k \in 1 .. n0
      BY <2>1
    <3> QED BY <2>1, <3>1 DEF Extends
  <2>2. CASE ~(k <= n0)
    BY <2>2, Constants DEF Extends
  <2> QED BY <2>1, <2>2
<1>2. ASSUME NEW k \in 1 .. 2 * n PROVE q[k] \in Values
  <2>1. CASE k <= n
    BY <1>1, <2>1
  <2>2. CASE ~(k <= n)
    <3>1. k - n \in 1 .. n /\ n + (k - n) = k
      BY <2>2
    <3> QED BY <1>1, <3>1
  <2> QED BY <2>1, <2>2
<1> QED BY <1>2 DEF OutlineCells, Block

LEMMA ResizeToOutlineIs ==
  ASSUME IInv, NEW r, Good(r, heap, fails), isInline(r), NEW n \in Ranks, n > M,
         NEW w \in ResizeToOutline(r, n)
  PROVE  Resizes(r, n, w)
<1>1. /\ r \in Member /\ r.size \in Nat /\ r.size <= M /\ r.cells \in [1 .. 2 * M -> Cells]
      /\ n \in Nat /\ Owned(r) = {}
  BY Pointer, Constants DEF Good, Ranks
<1>2. \A k \in 1 .. r.size : r.cells[k] \in Values /\ r.cells[M + k] \in Values
  BY DEF Good
<1> DEFINE start == memset(memmove(Uninit(storageBytes(n)), 0, r.cells, 0, r.size), r.size, n - r.size)
           both == memset(memmove(start, n, r.cells, M, r.size), n + r.size, n - r.size)
<1>3. /\ DOMAIN start = 1 .. 2 * n
      /\ \A k \in 1 .. n : start[k] = IF k <= r.size THEN r.cells[k] ELSE 0
  BY <1>1, Constants DEF memset, memmove, Uninit, storageBytes
<1>4. /\ Block(n, both)
      /\ \A k \in 1 .. 2 * n :
           both[k] = IF k <= n THEN start[k]
                     ELSE IF k <= n + r.size THEN r.cells[k - n + M] ELSE 0
  <2> HIDE DEF start
  <2> QED BY <1>1, <1>3, Constants DEF memset, memmove, Block
<1> HIDE DEF start, both
<1>5. Extends(both, n, r.cells, M, r.size, n)
  <2> SUFFICES ASSUME NEW k \in 1 .. n
               PROVE  /\ both[k] = IF k <= r.size THEN r.cells[k] ELSE 0
                      /\ both[n + k] = IF k <= r.size THEN r.cells[M + k] ELSE 0
    BY DEF Extends
  <2>1. /\ k \in 1 .. 2 * n /\ k <= n /\ n + k \in 1 .. 2 * n /\ ~(n + k <= n)
        /\ (n + k <= n + r.size) = (k <= r.size) /\ (n + k) - n + M = M + k
    BY <1>1, Constants
  <2> QED BY <1>3, <1>4, <2>1
<1>6. OutlineCells(n, both)
  BY <1>1, <1>2, <1>4, <1>5, ExtendsValues
<1>7. CASE /\ fails /\ w.obj = r /\ w.heap = heap /\ w.ok = FALSE
  BY <1>7, SameHandover DEF Resizes
<1>8. ASSUME NEW b \in Fresh(heap),
             w.obj = Made(n, PointTo(r, b)) /\ w.heap = Set(heap, b, both) /\ w.ok = TRUE
      PROVE  Resizes(r, n, w)
  <2>1. b \in Blocks /\ b \in Cells
    BY DEF Fresh, Cells
  <2>2. PointsTo(PointTo(r, b), b) /\ b \in Fresh(heap) \cup Owned(r)
    BY <1>1, <2>1, PointToIs DEF PointsTo
  <2>3. Frees(Owned(r), heap)
    BY <1>1 DEF IInv, Frees
  <2>4. /\ Handover(Owned(r), w.obj, heap, w.heap, fails)
        /\ w.obj.size = n /\ outOfLineStorage(w.obj) # nullptr
        /\ Storage(w.obj, w.heap) = both /\ StridesOffset(w.obj) = n
    BY <1>6, <1>8, <2>1, <2>2, <2>3, NewBlock
  <2>5. Storage(r, heap) = r.cells /\ StridesOffset(r) = M
    BY DEF Storage, StridesOffset
  <2> QED BY <1>5, <1>8, <2>4, <2>5 DEF Resizes, Usable
<1>9. \/ \E b \in Fresh(heap) :
           w.obj = Made(n, PointTo(r, b)) /\ w.heap = Set(heap, b, both) /\ w.ok = TRUE
      \/ fails /\ w.obj = [size |-> r.size, cells |-> r.cells] /\ w.heap = heap /\ w.ok = FALSE
  BY DEF ResizeToOutline, Out, Failure, both, start, Made
<1>10. r = [size |-> r.size, cells |-> r.cells]
  BY <1>1 DEF Member
<1> QED BY <1>7, <1>8, <1>9, <1>10

(* A failed realloc: the pointer is null, the old block may be left, with  *)
(* other cells, and nothing else is touched.                               *)
LEMMA NullHandover ==
  ASSUME IInv, fails, NEW r, Good(r, heap, fails), ~isInline(r), NEW h2,
         h2 = [a \in DOMAIN h2 |-> h2[a]], DOMAIN h2 = DOMAIN heap,
         \A a \in DOMAIN heap : h2[a] \in Seq(Cells) /\ (a \notin Owned(r) => h2[a] = heap[a]),
         NEW x, x = Made(r.size, PointTo(r, nullptr))
  PROVE  Handover(Owned(r), x, heap, h2, fails)
<1>1. r \in Member /\ r.size > M /\ nullptr \in Cells /\ r.size \in Ranks
  BY Pointer, Constants DEF Good, Member
<1>2. x.size = r.size /\ x.cells = PointTo(r, nullptr)
  BY DEF Made
<1>3. x \in Member
  BY <1>1, PointToIs DEF Made, Member
<1>4. ~isInline(x) /\ outOfLineStorage(x) = nullptr /\ Owned(x) = {nullptr}
  BY <1>1, <1>2, PointToIs DEF isInline, outOfLineStorage, Owned
<1>5. Good(x, h2, fails)
  BY <1>3, <1>4 DEF Good
<1> QED BY <1>4, <1>5 DEF Handover, IInv, Inv

(* The block of an outline container, and the offset of its strides. *)
LEMMA OutlineIs ==
  ASSUME NEW r, Good(r, heap, fails), ~isInline(r), Usable(r)
  PROVE  /\ Outline(r) \in [1 .. 2 * r.size -> Values]
         /\ Storage(r, heap) = Outline(r) /\ StridesOffset(r) = r.size
         /\ outOfLineStorage(r) \in DOMAIN heap /\ outOfLineStorage(r) \in Owned(r)
         /\ r \in Member /\ r.size \in Nat /\ r.size > M
         /\ \A k \in 1 .. r.size : Outline(r)[k] \in Values /\ Outline(r)[r.size + k] \in Values
<1>1. r \in Member /\ r.size \in Nat /\ r.size > M /\ Owned(r) = {outOfLineStorage(r)}
  BY Pointer, Constants DEF Good
<1>2. /\ Outline(r) = heap[outOfLineStorage(r)] /\ outOfLineStorage(r) \in DOMAIN heap
      /\ Outline(r) \in [1 .. 2 * r.size -> Values]
  BY DEF Good, Usable, Outline, storageBytes
<1>3. Storage(r, heap) = Outline(r) /\ StridesOffset(r) = r.size
  BY <1>2 DEF Storage, StridesOffset
<1>4. ASSUME NEW k \in 1 .. r.size
      PROVE  Outline(r)[k] \in Values /\ Outline(r)[r.size + k] \in Values
  <2>1. k \in 1 .. 2 * r.size /\ r.size + k \in 1 .. 2 * r.size
    BY <1>1
  <2> QED BY <1>2, <2>1
<1> QED BY <1>1, <1>2, <1>3, <1>4

(* A realloc that succeeds: the block, moved or not, has the new cells.    *)
LEMMA Reallocated ==
  ASSUME IInv, NEW r, Good(r, heap, fails), ~isInline(r), Usable(r), NEW n \in Ranks, n > M,
         NEW b \in Fresh(heap) \cup {outOfLineStorage(r)}, NEW q, Block(n, q),
         Extends(q, n, Outline(r), r.size, r.size, n),
         NEW w, w.obj = Made(n, PointTo(r, b)), w.ok = TRUE,
         w.heap = Set(free(heap, outOfLineStorage(r)), b, q)
  PROVE  Resizes(r, n, w)
<1>1. n \in Nat
  BY Constants DEF Ranks
<1>2. OutlineCells(n, q)
  BY <1>1, OutlineIs, ExtendsValues
<1>3. b \in Fresh(heap) \cup Owned(r) /\ b \in Blocks /\ b \in Cells
  BY OutlineIs DEF Fresh, Cells, IInv, Inv
<1>4. PointsTo(PointTo(r, b), b)
  BY <1>3, OutlineIs, PointToIs DEF PointsTo
<1>5. Frees(Owned(r), free(heap, outOfLineStorage(r)))
  BY OutlineIs, AfterFree
<1>6. /\ Handover(Owned(r), w.obj, heap, w.heap, fails)
      /\ w.obj.size = n /\ outOfLineStorage(w.obj) # nullptr
      /\ Storage(w.obj, w.heap) = q /\ StridesOffset(w.obj) = n
  BY <1>2, <1>3, <1>4, <1>5, NewBlock
<1>7. Storage(r, heap) = Outline(r) /\ StridesOffset(r) = r.size
  BY OutlineIs
<1> QED BY <1>6, <1>7 DEF Resizes, Usable

LEMMA ResizeShrinkIs ==
  ASSUME IInv, NEW r, Good(r, heap, fails), ~isInline(r), Usable(r),
         NEW n \in Ranks, n > M, n < r.size, NEW w \in ResizeShrink(r, n)
  PROVE  Resizes(r, n, w)
<1> DEFINE p == outOfLineStorage(r)
           t == Outline(r)
           shifted == memmove(t, n, t, r.size, n)
           q == Realloc(shifted, storageBytes(n))
<1>1. n \in Nat /\ r.size \in Nat /\ t \in [1 .. 2 * r.size -> Values]
  BY OutlineIs, Constants DEF Ranks
<1> HIDE DEF t
<1>2. /\ shifted \in [1 .. 2 * r.size -> Values]
      /\ \A k \in 1 .. 2 * n : shifted[k] = IF k <= n THEN t[k] ELSE t[k - n + r.size]
  <2>1. ASSUME NEW k \in 1 .. 2 * r.size, n < k, k <= 2 * n
        PROVE  k - n + r.size \in 1 .. 2 * r.size
    BY <1>1, <2>1
  <2>2. n + n = 2 * n
    BY <1>1
  <2>3. shifted = [k \in 1 .. 2 * r.size |-> IF n < k /\ k <= 2 * n THEN t[k - n + r.size] ELSE t[k]]
    BY <1>1, <2>2 DEF memmove
  <2>4. ASSUME NEW k \in 1 .. 2 * r.size PROVE shifted[k] \in Values
    BY <1>1, <2>1, <2>3
  <2>5. ASSUME NEW k \in 1 .. 2 * n
        PROVE  shifted[k] = IF k <= n THEN t[k] ELSE t[k - n + r.size]
    BY <1>1, <2>3
  <2> QED BY <2>3, <2>4, <2>5
<1> HIDE DEF shifted
<1>3. Block(n, q) /\ \A k \in 1 .. 2 * n : q[k] = shifted[k]
  <2>1. Len(shifted) = 2 * r.size
    BY <1>1, <1>2
  <2> QED BY <1>1, <2>1 DEF Realloc, Block, storageBytes
<1> HIDE DEF q
<1>4. Extends(q, n, t, r.size, r.size, n)
  <2> SUFFICES ASSUME NEW k \in 1 .. n
               PROVE  k <= r.size /\ q[k] = t[k] /\ q[n + k] = t[r.size + k]
    BY DEF Extends
  <2>1. /\ k <= r.size /\ k \in 1 .. 2 * n /\ k <= n
        /\ n + k \in 1 .. 2 * n /\ ~(n + k <= n) /\ (n + k) - n + r.size = r.size + k
    BY <1>1
  <2> QED BY <1>2, <1>3, <2>1
<1>5. ASSUME NEW b \in Fresh(heap) \cup {p},
             w.obj = Made(n, PointTo(r, b)) /\ w.heap = Set(free(heap, p), b, q) /\ w.ok = TRUE
      PROVE  Resizes(r, n, w)
  BY <1>3, <1>4, <1>5, Reallocated DEF t
<1>6. ASSUME fails, w.obj = Made(r.size, PointTo(r, nullptr)),
             w.heap = [heap EXCEPT ![p] = shifted], w.ok = FALSE
      PROVE  Resizes(r, n, w)
  <2>1. /\ w.heap = [a \in DOMAIN w.heap |-> w.heap[a]] /\ DOMAIN w.heap = DOMAIN heap
        /\ \A a \in DOMAIN heap : a # p => w.heap[a] = heap[a]
        /\ w.heap[p] = shifted
    BY <1>6, OutlineIs DEF IInv
  <2>2. shifted \in Seq(Cells)
    <3>1. 2 * r.size \in Nat
      BY <1>1
    <3>2. shifted \in [1 .. 2 * r.size -> Cells]
      BY <1>2, Constants
    <3> QED BY <3>1, <3>2
  <2>3. p \in Owned(r)
    BY OutlineIs
  <2>4. \A a \in DOMAIN heap : w.heap[a] \in Seq(Cells) /\ (a \notin Owned(r) => w.heap[a] = heap[a])
    BY <2>1, <2>2, <2>3 DEF IInv, Inv
  <2>5. Handover(Owned(r), w.obj, heap, w.heap, fails)
    BY <1>6, <2>1, <2>4, NullHandover
  <2> QED BY <1>6, <2>5 DEF Resizes
<1>7. \/ \E b \in Fresh(heap) \cup {p} :
           w.obj = Made(n, PointTo(r, b)) /\ w.heap = Set(free(heap, p), b, q) /\ w.ok = TRUE
      \/ /\ fails /\ w.obj = Made(r.size, PointTo(r, nullptr))
         /\ w.heap = [heap EXCEPT ![p] = shifted] /\ w.ok = FALSE
  BY DEF ResizeShrink, Out, Failure, Made, q, shifted, t
<1> QED BY <1>5, <1>6, <1>7

LEMMA ResizeGrowIs ==
  ASSUME IInv, NEW r, Good(r, heap, fails), ~isInline(r), Usable(r),
         NEW n \in Ranks, n > r.size, NEW w \in ResizeGrow(r, n)
  PROVE  Resizes(r, n, w)
<1> DEFINE p == outOfLineStorage(r)
           t == Outline(r)
           bigger == Realloc(t, storageBytes(n))
           shifted == memmove(bigger, n, bigger, r.size, r.size)
           q == memset(memset(shifted, r.size, n - r.size), n + r.size, n - r.size)
<1>1. n \in Nat /\ r.size \in Nat /\ t \in [1 .. 2 * r.size -> Values] /\ n > M
  BY OutlineIs, Constants DEF Ranks
<1> HIDE DEF t
<1>2. /\ DOMAIN bigger = 1 .. 2 * n
      /\ \A k \in 1 .. 2 * r.size : bigger[k] = t[k]
  <2>1. Len(t) = 2 * r.size
    BY <1>1
  <2>2. bigger = [k \in 1 .. 2 * n |-> IF k <= 2 * r.size THEN t[k] ELSE Garbage]
    BY <2>1 DEF Realloc, storageBytes
  <2> QED BY <1>1, <2>2
<1> HIDE DEF bigger
<1>3. /\ DOMAIN shifted = 1 .. 2 * n
      /\ \A k \in 1 .. 2 * n :
           shifted[k] = IF n < k /\ k <= n + r.size THEN bigger[k - n + r.size] ELSE bigger[k]
  BY <1>2 DEF memmove
<1> HIDE DEF shifted
<1>4. /\ Block(n, q)
      /\ \A k \in 1 .. 2 * n :
           q[k] = IF n + r.size < k \/ (r.size < k /\ k <= n) THEN 0 ELSE shifted[k]
  <2>1. r.size + (n - r.size) = n /\ n + r.size + (n - r.size) = 2 * n
    BY <1>1
  <2> QED BY <1>1, <1>3, <2>1 DEF memset, Block
<1> HIDE DEF q
<1>5. Extends(q, n, t, r.size, r.size, n)
  <2> SUFFICES ASSUME NEW k \in 1 .. n
               PROVE  /\ q[k] = IF k <= r.size THEN t[k] ELSE 0
                      /\ q[n + k] = IF k <= r.size THEN t[r.size + k] ELSE 0
    BY DEF Extends
  <2>1. CASE k <= r.size
    <3>1. /\ k \in 1 .. 2 * n /\ n + k \in 1 .. 2 * n
          /\ k \in 1 .. 2 * r.size /\ r.size + k \in 1 .. 2 * r.size
          /\ (n + k) - n + r.size = r.size + k
          /\ ~(n < k) /\ n < n + k /\ n + k <= n + r.size
          /\ ~(n + r.size < k) /\ ~(n + r.size < n + k) /\ ~(r.size < k) /\ ~(n + k <= n)
      BY <1>1, <2>1
    <3>2. q[k] = shifted[k] /\ shifted[k] = bigger[k] /\ bigger[k] = t[k]
      BY <1>2, <1>3, <1>4, <3>1
    <3>3. q[n + k] = shifted[n + k] /\ shifted[n + k] = bigger[r.size + k] /\ bigger[r.size + k] = t[r.size + k]
      BY <1>2, <1>3, <1>4, <3>1
    <3> QED BY <2>1, <3>2, <3>3
  <2>2. CASE ~(k <= r.size)
    <3>1. /\ k \in 1 .. 2 * n /\ n + k \in 1 .. 2 * n
          /\ r.size < k /\ k <= n /\ n + r.size < n + k
      BY <1>1, <2>2
    <3> QED BY <1>4, <2>2, <3>1
  <2> QED BY <2>1, <2>2
<1>6. ASSUME NEW b \in Fresh(heap) \cup {p},
             w.obj = Made(n, PointTo(r, b)) /\ w.heap = Set(free(heap, p), b, q) /\ w.ok = TRUE
      PROVE  Resizes(r, n, w)
  BY <1>1, <1>4, <1>5, <1>6, Reallocated DEF t
<1>7. ASSUME fails, w.obj = Made(r.size, PointTo(r, nullptr)), w.heap = heap, w.ok = FALSE
      PROVE  Resizes(r, n, w)
  <2>1. /\ heap = [a \in DOMAIN heap |-> heap[a]]
        /\ \A a \in DOMAIN heap : heap[a] \in Seq(Cells) /\ (a \notin Owned(r) => heap[a] = heap[a])
    BY DEF IInv, Inv
  <2>2. Handover(Owned(r), w.obj, heap, w.heap, fails)
    BY <1>7, <2>1, NullHandover
  <2> QED BY <1>7, <2>2 DEF Resizes
<1>8. \/ \E b \in Fresh(heap) \cup {p} :
           w.obj = Made(n, PointTo(r, b)) /\ w.heap = Set(free(heap, p), b, q) /\ w.ok = TRUE
      \/ /\ fails /\ w.obj = Made(r.size, PointTo(r, nullptr))
         /\ w.heap = heap /\ w.ok = FALSE
  BY DEF ResizeGrow, Out, Failure, Made, q, shifted, bigger, t
<1> QED BY <1>6, <1>7, <1>8

(* resize, whatever the two sizes. *)
LEMMA ResizedIs ==
  ASSUME IInv, NEW r, Good(r, heap, fails), Usable(r), NEW n \in Ranks, NEW w \in Resized(r, n)
  PROVE  Resizes(r, n, w)
<1>1. r \in Member /\ r.size \in Nat /\ n \in Nat /\ (isInline(r) <=> r.size <= M)
  BY Pointer, Constants DEF Good, Ranks
<1>2. CASE n = r.size
  <2>1. w.obj = r /\ w.heap = heap /\ w.ok = TRUE
    BY <1>1, <1>2 DEF Resized, Out, Member
  <2>2. Extends(Storage(r, heap), StridesOffset(r), Storage(r, heap), StridesOffset(r), r.size, n)
    BY <1>1, <1>2 DEF Extends
  <2> QED BY <1>2, <2>1, <2>2, SameHandover DEF Resizes
<1>3. CASE n # r.size /\ isInline(r) /\ n <= M
  <2>1. w \in ResizeInline(r, n)
    BY <1>3 DEF Resized
  <2> QED BY <1>3, <2>1, ResizeInlineIs
<1>4. CASE ~isInline(r) /\ n <= M
  <2>1. w \in ResizeToInline(r, n)
    BY <1>1, <1>4, Constants DEF Resized
  <2> QED BY <1>4, <2>1, ResizeToInlineIs
<1>5. CASE isInline(r) /\ n > M
  <2>1. n # r.size /\ ~(n <= M) /\ isInline(r)
    BY <1>1, <1>5, Constants
  <2>2. w \in ResizeToOutline(r, n)
    BY <2>1 DEF Resized
  <2> QED BY <1>5, <2>2, ResizeToOutlineIs
<1>6. CASE ~isInline(r) /\ n > M /\ n < r.size
  <2>1. n # r.size /\ ~(n <= M) /\ ~isInline(r) /\ n < r.size
    BY <1>1, <1>6, Constants
  <2>2. w \in ResizeShrink(r, n)
    BY <2>1 DEF Resized
  <2> QED BY <1>6, <2>2, ResizeShrinkIs
<1>7. CASE ~isInline(r) /\ n > r.size
  <2>1. n # r.size /\ ~(n <= M) /\ ~isInline(r) /\ ~(n < r.size)
    BY <1>1, <1>7, Constants
  <2>2. w \in ResizeGrow(r, n)
    BY <2>1 DEF Resized
  <2> QED BY <1>7, <2>2, ResizeGrowIs
<1> QED BY <1>1, <1>2, <1>3, <1>4, <1>5, <1>6, <1>7, Constants
----------------------------------------------------------------------------
(* The steps.  What the containers hold, as values:                        *)
Contents(r, h) == [sizes |-> Sizes(r, h), strides |-> Strides(r, h)]
Held(ob, h) == [o \in DOMAIN ob |-> Contents(ob[o], h)]

(* Container o becomes r, by a handover, and nothing else changes.         *)
Becomes(o, r) ==
  /\ objs' = Set(objs, o, r)
  /\ Handover(OwnedBy(objs, o), r, heap, heap', fails)
  /\ UNCHANGED fails

LEMMA BecomesInv ==
  ASSUME IInv, NEW o \in Objects, NEW r, Becomes(o, r)
  PROVE  IInv' /\ (~fails => Held(objs, heap)' = Set(Held(objs, heap), o, Contents(r, heap')))
<1>1. /\ Inv(objs', heap', fails)
      /\ ~fails => \A x \in DOMAIN objs \ {o} :
           Sizes(objs[x], heap') = Sizes(objs[x], heap) /\ Strides(objs[x], heap') = Strides(objs[x], heap)
  BY Replaced DEF IInv, Becomes
<1>2. /\ objs' = [x \in DOMAIN objs' |-> objs'[x]] /\ heap' = [b \in DOMAIN heap' |-> heap'[b]]
      /\ DOMAIN objs' = DOMAIN objs \cup {o} /\ objs'[o] = r
      /\ \A x \in DOMAIN objs : x # o => objs'[x] = objs[x]
  BY DEF Becomes, Handover, Set
<1>3. IInv'
  BY <1>1, <1>2 DEF IInv, Becomes
<1>4. ASSUME ~fails PROVE Held(objs, heap)' = Set(Held(objs, heap), o, Contents(r, heap'))
  <2>1. \A x \in DOMAIN objs : x # o => Contents(objs[x], heap') = Contents(objs[x], heap)
    BY <1>1, <1>4 DEF Contents
  <2> QED BY <1>2, <2>1 DEF Held, Set
<1> QED BY <1>3, <1>4

LEMMA DestroyInv ==
  ASSUME IInv, NEW o \in DOMAIN objs, Destroy(o), UNCHANGED fails
  PROVE  IInv' /\ (~fails => Held(objs, heap)' = Drop(Held(objs, heap), o))
<1>1. objs[o] \in Member
  BY DEF IInv, Inv, Good
<1>2. Frees(Owned(objs[o]), heap') /\ objs' = Drop(objs, o)
  BY <1>1, AfterFree DEF Destroy
<1>3. /\ Inv(objs', heap', fails)
      /\ ~fails => \A x \in DOMAIN objs \ {o} :
           Sizes(objs[x], heap') = Sizes(objs[x], heap) /\ Strides(objs[x], heap') = Strides(objs[x], heap)
  BY <1>2, Removed DEF IInv, Frees
<1>4. /\ objs' = [x \in DOMAIN objs' |-> objs'[x]]
      /\ DOMAIN objs' = DOMAIN objs \ {o}
      /\ \A x \in DOMAIN objs : x # o => objs'[x] = objs[x]
  BY <1>2 DEF Drop
<1>5. IInv'
  BY <1>2, <1>3, <1>4 DEF IInv, Frees
<1>6. ASSUME ~fails PROVE Held(objs, heap)' = Drop(Held(objs, heap), o)
  <2>1. \A x \in DOMAIN objs : x # o => Contents(objs[x], heap') = Contents(objs[x], heap)
    BY <1>3, <1>6 DEF Contents
  <2> QED BY <1>4, <2>1 DEF Held, Drop
<1> QED BY <1>5, <1>6

(* A move: o frees its storage and takes the one of rhs, which is empty.   *)
LEMMA MoveInv ==
  ASSUME IInv, NEW o \in Objects, NEW rhs \in DOMAIN objs, o # rhs,
         NEW new \in Member, NEW old \in Member,
         objs' = Set(Set(objs, o, new), rhs, old), Frees(OwnedBy(objs, o), heap'), UNCHANGED fails,
         old.size = 0, new.size = objs[rhs].size,
         isInline(objs[rhs]) => new.cells = objs[rhs].cells,
         ~isInline(objs[rhs]) => outOfLineStorage(new) = outOfLineStorage(objs[rhs])
  PROVE  /\ IInv'
         /\ ~fails => Held(objs, heap)' =
              Set(Set(Held(objs, heap), o, Contents(objs[rhs], heap)), rhs, [sizes |-> <<>>, strides |-> <<>>])
<1> DEFINE r == objs[rhs]
<1>1. /\ DOMAIN objs' = DOMAIN objs \cup {o} /\ objs'[o] = new /\ objs'[rhs] = old
      /\ \A x \in DOMAIN objs : x # o /\ x # rhs => objs'[x] = objs[x]
      /\ objs' = [x \in DOMAIN objs' |-> objs'[x]]
  BY DEF Set
<1>2. nullptr \notin DOMAIN heap
  BY Constants DEF IInv, Inv
<1>3. ASSUME NEW x \in DOMAIN objs, x # o
      PROVE  /\ Good(objs[x], heap', fails)
             /\ ~fails => Sizes(objs[x], heap') = Sizes(objs[x], heap) /\ Strides(objs[x], heap') = Strides(objs[x], heap)
  <2>1. Owned(objs[x]) \cap OwnedBy(objs, o) \subseteq {nullptr}
    BY <1>3 DEF IInv, Inv, OwnedBy
  <2>2. \A b \in Owned(objs[x]) \ {nullptr} : b \in DOMAIN heap => b \in DOMAIN heap' /\ heap'[b] = heap[b]
    BY <2>1 DEF Frees
  <2>3. Good(objs[x], heap, fails)
    BY DEF IInv, Inv
  <2> QED BY <1>2, <2>2, <2>3, GoodKept
<1>4. r \in Member
  BY DEF IInv, Inv, Good
<1>5. isInline(old) /\ Owned(old) = {} /\ isInline(new) = isInline(r) /\ Owned(new) = Owned(r)
  BY <1>4, Constants DEF isInline, Owned
<1>6. /\ Good(new, heap', fails)
      /\ ~fails => Contents(new, heap') = Contents(r, heap)
  <2>1. Good(r, heap', fails)
    BY <1>3
  <2>2. CASE isInline(r)
    BY <1>3, <1>5, <2>1, <2>2 DEF Good, Contents, Sizes, Strides, Storage, StridesOffset
  <2>3. CASE ~isInline(r)
    BY <1>3, <1>5, <2>1, <2>3 DEF Good, Contents, Sizes, Strides, Storage, StridesOffset
  <2> QED BY <2>2, <2>3
<1>7. Good(old, heap', fails) /\ Contents(old, heap') = [sizes |-> <<>>, strides |-> <<>>]
  <2>1. \A k \in 1 .. old.size : FALSE
    OBVIOUS
  <2> QED BY <1>5, <2>1 DEF Good, Contents, Sizes, Strides
<1>8. \A x \in DOMAIN objs' : Good(objs'[x], heap', fails)
  BY <1>1, <1>3, <1>6, <1>7
<1>9. ASSUME NEW x \in DOMAIN objs', NEW y \in DOMAIN objs', x # y
      PROVE  Owned(objs'[x]) \cap Owned(objs'[y]) \subseteq {nullptr}
  <2>1. CASE x = rhs \/ y = rhs
    BY <1>1, <1>5, <2>1
  <2>2. CASE x # rhs /\ y # rhs /\ x # o /\ y # o
    BY <1>1, <1>9, <2>2 DEF IInv, Inv
  <2>3. CASE x = o /\ y # rhs
    BY <1>1, <1>5, <1>9, <2>3 DEF IInv, Inv
  <2>4. CASE y = o /\ x # rhs
    BY <1>1, <1>5, <1>9, <2>4 DEF IInv, Inv
  <2> QED BY <2>1, <2>2, <2>3, <2>4
<1>10. ASSUME ~fails, NEW b \in DOMAIN heap' PROVE \E x \in DOMAIN objs' : b \in Owned(objs'[x])
  <2>1. PICK x \in DOMAIN objs : b \in Owned(objs[x])
    BY <1>10 DEF IInv, Inv, Frees
  <2>2. x # o
    BY <2>1 DEF OwnedBy, Frees
  <2>3. CASE x = rhs
    BY <1>1, <1>5, <2>1, <2>3
  <2>4. CASE x # rhs
    BY <1>1, <2>1, <2>2, <2>4
  <2> QED BY <2>3, <2>4
<1>11. IInv'
  <2>1. /\ DOMAIN objs' \subseteq Objects /\ DOMAIN heap' \subseteq Blocks
        /\ \A b \in DOMAIN heap' : heap'[b] \in Seq(Cells)
    BY <1>1 DEF IInv, Inv, Frees
  <2> QED BY <1>1, <1>8, <1>9, <1>10, <2>1 DEF IInv, Inv, Frees
<1>12. ASSUME ~fails
       PROVE  Held(objs, heap)' =
                Set(Set(Held(objs, heap), o, Contents(r, heap)), rhs, [sizes |-> <<>>, strides |-> <<>>])
  <2>1. \A x \in DOMAIN objs : x # o => Contents(objs[x], heap') = Contents(objs[x], heap)
    BY <1>3, <1>12 DEF Contents
  <2> QED BY <1>1, <1>6, <1>7, <1>12, <2>1 DEF Held, Set
<1> QED BY <1>11, <1>12
----------------------------------------------------------------------------
(* The operations.                                                         *)
(* Containers whose cells are the same hold the same dimensions. *)
LEMMA SameDimensions ==
  ASSUME NEW r, NEW h, NEW x, NEW h2, x.size = r.size,
         Storage(x, h2) = Storage(r, h), StridesOffset(x) = StridesOffset(r)
  PROVE  Contents(x, h2) = Contents(r, h)
BY DEF Contents, Sizes, Strides

LEMMA DefaultIs ==
  ASSUME IInv, NEW o \in Objects \ DOMAIN objs, DefaultConstruct(o), UNCHANGED fails
  PROVE  \E r : Becomes(o, r) /\ Contents(r, heap') = [sizes |-> <<0>>, strides |-> <<1>>]
<1> DEFINE cells == [k \in 1 .. 2 * M |-> IF k = M + 1 THEN 1 ELSE 0]
           r == Made(1, cells)
<1>1. objs' = Set(objs, o, r) /\ heap' = heap
  BY DEF DefaultConstruct, Made
<1>2. OwnedBy(objs, o) = {}
  BY DEF OwnedBy
<1>3. Frees(OwnedBy(objs, o), heap)
  BY <1>2 DEF Frees, IInv
<1>4. InlineCells(1, cells)
  BY Constants DEF InlineCells
<1>5. 1 \in Ranks /\ 1 <= M
  BY Constants DEF Ranks
<1> HIDE DEF cells, r
<1>6. r = Made(1, cells)
  BY DEF r
<1>7. /\ Handover(OwnedBy(objs, o), r, heap, heap, fails)
      /\ r.size = 1 /\ Storage(r, heap) = cells /\ StridesOffset(r) = M
  BY <1>3, <1>4, <1>5, <1>6, NewInline
<1>8. cells[1] = 0 /\ cells[M + 1] = 1
  BY Constants DEF cells
<1>9. Sizes(r, heap) = <<0>> /\ Strides(r, heap) = <<1>>
  BY <1>7, <1>8 DEF Sizes, Strides
<1> QED BY <1>1, <1>7, <1>9 DEF Becomes, Contents

(* A block that copies the one of r, an outline container.                 *)
LEMMA CopiedBlock ==
  ASSUME IInv, NEW r, Good(r, heap, fails), ~isInline(r), Usable(r),
         NEW old, NEW h1, Frees(old, h1), NEW b \in Blocks, b \in Fresh(heap) \cup old,
         NEW cells, PointsTo(cells, b), NEW x, x = Made(r.size, cells),
         NEW h2, h2 = Set(h1, b, Outline(r))
  PROVE  Handover(old, x, heap, h2, fails) /\ Contents(x, h2) = Contents(r, heap)
<1>1. r.size \in Ranks /\ r.size > M /\ OutlineCells(r.size, Outline(r))
  BY OutlineIs DEF Member, OutlineCells
<1>2. /\ Handover(old, x, heap, h2, fails)
      /\ x.size = r.size /\ Storage(x, h2) = Outline(r) /\ StridesOffset(x) = r.size
  BY <1>1, NewBlock
<1>3. Storage(r, heap) = Outline(r) /\ StridesOffset(r) = r.size
  BY OutlineIs
<1> QED BY <1>2, <1>3, SameDimensions

LEMMA CopyConstructIs ==
  ASSUME IInv, NEW o \in Objects \ DOMAIN objs, NEW rhs \in DOMAIN objs,
         Usable(objs[rhs]), CopyConstruct(o, rhs), UNCHANGED fails
  PROVE  \E x : Becomes(o, x) /\ Contents(x, heap') = Contents(objs[rhs], heap)
<1> DEFINE r == objs[rhs]
<1>1. Good(r, heap, fails) /\ OwnedBy(objs, o) = {}
  BY DEF IInv, Inv, OwnedBy
<1>2. r \in Member
  BY <1>1 DEF Good
<1>3. CASE isInline(r) /\ objs' = Set(objs, o, r) /\ UNCHANGED heap
  <2>1. Handover(OwnedBy(objs, o), r, heap, heap, fails)
    BY <1>1, <1>2, <1>3, Pointer DEF Handover, IInv, Inv
  <2> QED BY <1>3, <2>1 DEF Becomes
<1>4. ASSUME ~isInline(r), NEW b \in Fresh(heap), heap' = Set(heap, b, Outline(r)),
             objs' = Set(objs, o, WithPointer(Blank(r.size), b))
      PROVE  \E x : Becomes(o, x) /\ Contents(x, heap') = Contents(objs[rhs], heap)
  <2> DEFINE x == WithPointer(Blank(r.size), b)
  <2>1. b \in Blocks /\ b \in Cells /\ b \in Fresh(heap) \cup OwnedBy(objs, o)
    BY DEF Fresh, Cells
  <2>2. Blank(r.size) \in Member /\ Blank(r.size).size = r.size
    BY <1>2, Constants DEF Blank, Member
  <2>3. x \in Member /\ x.size = r.size /\ x.cells[1] = b
    BY <2>1, <2>2, Pointed DEF outOfLineStorage
  <2>4. x = Made(r.size, x.cells) /\ PointsTo(x.cells, b)
    BY <2>3 DEF Made, Member, PointsTo
  <2> HIDE DEF x
  <2>5. Frees(OwnedBy(objs, o), heap)
    BY <1>1 DEF IInv, Frees
  <2>6. Handover(OwnedBy(objs, o), x, heap, heap', fails) /\ Contents(x, heap') = Contents(r, heap)
    BY <1>1, <1>4, <2>1, <2>4, <2>5, CopiedBlock
  <2>7. objs' = Set(objs, o, x)
    BY <1>4 DEF x
  <2> QED BY <2>6, <2>7 DEF Becomes
<1> QED BY <1>3, <1>4 DEF CopyConstruct

LEMMA CopyAssignIs ==
  ASSUME IInv, NEW o \in DOMAIN objs, NEW rhs \in DOMAIN objs,
         Usable(objs[rhs]), CopyAssign(o, rhs), UNCHANGED fails
  PROVE  \E x : Becomes(o, x) /\ (~fails => Contents(x, heap') = Contents(objs[rhs], heap))
<1> DEFINE l == objs[o]
           r == objs[rhs]
           p == outOfLineStorage(l)
           h1 == IF isInline(l) THEN heap ELSE free(heap, p)
<1>1. Good(r, heap, fails) /\ Good(l, heap, fails) /\ OwnedBy(objs, o) = Owned(l)
  BY DEF IInv, Inv, OwnedBy
<1>2. r \in Member /\ l \in Member
  BY <1>1 DEF Good
<1>3. Frees(Owned(l), h1)
  BY <1>2, AfterFree
<1>4. \A x : [objs EXCEPT ![o] = x] = Set(objs, o, x)
  BY ExceptIs DEF IInv
<1>5. CASE isInline(r) /\ heap' = h1 /\ objs' = [objs EXCEPT ![o] = r]
  <2>1. r.size \in Ranks /\ r.size <= M /\ r = Made(r.size, r.cells) /\ InlineCells(r.size, r.cells)
    BY <1>1, <1>2, <1>5, Pointer DEF Good, Made, Member, InlineCells
  <2>2. /\ Handover(Owned(l), r, heap, h1, fails)
        /\ Storage(r, h1) = r.cells /\ StridesOffset(r) = M
    BY <1>3, <2>1, NewInline
  <2>3. Contents(r, h1) = Contents(r, heap)
    BY <1>5 DEF Contents, Sizes, Strides, Storage
  <2> QED BY <1>1, <1>4, <1>5, <2>2, <2>3 DEF Becomes
<1>7. ASSUME ~isInline(r),
             NEW b \in IF isInline(l) THEN Fresh(heap) ELSE Fresh(heap) \cup ({p} \ {nullptr}),
             heap' = Set(h1, b, Outline(r)),
             objs' = [objs EXCEPT ![o] = [WithPointer(l, b) EXCEPT !.size = r.size]]
      PROVE  \E x : Becomes(o, x) /\ Contents(x, heap') = Contents(r, heap)
  <2> DEFINE x == [WithPointer(l, b) EXCEPT !.size = r.size]
  <2>1. b \in Blocks /\ b \in Fresh(heap) \cup Owned(l)
    <3>1. CASE isInline(l)
      BY <3>1 DEF Fresh
    <3>2. CASE ~isInline(l)
      BY <1>1, <1>2, <3>2, Pointer DEF Fresh, Good, IInv, Inv
    <3> QED BY <3>1, <3>2
  <2>2. b \in Cells
    BY <2>1 DEF Cells
  <2>3. x = Made(r.size, PointTo(l, b))
    <3>1. WithPointer(l, b) \in Member /\ WithPointer(l, b).cells = PointTo(l, b)
      BY <1>2, <2>2, Pointed DEF PointTo
    <3> QED BY <3>1 DEF Member, Made
  <2>4. PointsTo(PointTo(l, b), b)
    BY <1>2, <2>2, PointToIs DEF PointsTo
  <2> HIDE DEF x
  <2>5. Handover(Owned(l), x, heap, heap', fails) /\ Contents(x, heap') = Contents(r, heap)
    BY <1>1, <1>3, <1>7, <2>1, <2>3, <2>4, CopiedBlock
  <2>6. objs' = Set(objs, o, x)
    BY <1>4, <1>7 DEF x
  <2> QED BY <1>1, <2>5, <2>6 DEF Becomes
<1>8. CASE ~isInline(r) /\ fails /\ objs' = [objs EXCEPT ![o] = WithPointer(l, nullptr)] /\ UNCHANGED heap
  <2> DEFINE x == WithPointer(l, nullptr)
  <2>1. x = Made(l.size, PointTo(l, nullptr)) /\ PointTo(l, nullptr) = [l.cells EXCEPT ![1] = nullptr]
    BY <1>2, Pointed, Constants DEF Member, Made, PointTo
  <2> HIDE DEF x
  <2>2. CASE isInline(l)
    <3>1. l.size \in Ranks /\ l.size <= M /\ InlineCells(l.size, PointTo(l, nullptr))
      BY <1>1, <1>2, <2>1, <2>2, Pointer, PointToIs, Constants DEF Good, InlineCells, Member
    <3>2. Handover(Owned(l), x, heap, h1, fails)
      BY <1>3, <2>1, <3>1, NewInline
    <3>3. h1 = heap
      BY <2>2
    <3> QED BY <1>1, <1>4, <1>8, <3>2, <3>3 DEF Becomes, x
  <2>3. CASE ~isInline(l)
    <3>1. /\ heap = [a \in DOMAIN heap |-> heap[a]]
          /\ \A a \in DOMAIN heap : heap[a] \in Seq(Cells) /\ (a \notin Owned(l) => heap[a] = heap[a])
      BY DEF IInv, Inv
    <3>2. Handover(Owned(l), x, heap, heap, fails)
      BY <1>1, <1>8, <2>1, <2>3, <3>1, NullHandover
    <3> QED BY <1>1, <1>4, <1>8, <3>2 DEF Becomes, x
  <2> QED BY <2>2, <2>3
<1> QED BY <1>5, <1>7, <1>8 DEF CopyAssign

(* What is left of a container that was moved from: inline, without size.  *)
LEMMA MovedFrom ==
  ASSUME NEW r \in Member, NEW x \in Member, x = r \/ x = WithPointer(r, nullptr)
  PROVE  [x EXCEPT !.size = 0] \in Member /\ [x EXCEPT !.size = 0].size = 0
BY Constants DEF Member, Ranks

Emptied == [sizes |-> <<>>, strides |-> <<>>]

LEMMA MoveConstructIs ==
  ASSUME IInv, NEW o \in Objects \ DOMAIN objs, NEW rhs \in DOMAIN objs,
         MoveConstruct(o, rhs), UNCHANGED fails
  PROVE  /\ IInv'
         /\ ~fails => Held(objs, heap)' =
              Set(Set(Held(objs, heap), o, Contents(objs[rhs], heap)), rhs, Emptied)
<1> DEFINE r == objs[rhs]
           new == IF isInline(r) THEN r ELSE WithPointer(Blank(r.size), outOfLineStorage(r))
           left == IF isInline(r) THEN r ELSE WithPointer(r, nullptr)
           old == [left EXCEPT !.size = 0]
<1>1. r \in Member /\ o # rhs
  BY DEF IInv, Inv, Good
<1>2. outOfLineStorage(r) \in Cells /\ nullptr \in Cells
  BY <1>1, Pointer, Constants
<1>3. Blank(r.size) \in Member /\ Blank(r.size).size = r.size
  BY <1>1, Constants DEF Blank, Member
<1>4. /\ new \in Member /\ new.size = r.size
      /\ isInline(r) => new.cells = r.cells
      /\ ~isInline(r) => outOfLineStorage(new) = outOfLineStorage(r)
  BY <1>1, <1>2, <1>3, Pointed
<1>5. left \in Member
  BY <1>1, <1>2, Pointed
<1>6. old \in Member /\ old.size = 0
  BY <1>1, <1>5, MovedFrom
<1>7. objs' = Set(Set(objs, o, new), rhs, old) /\ heap' = heap
  BY DEF MoveConstruct
<1>8. Frees(OwnedBy(objs, o), heap')
  BY <1>7 DEF Frees, OwnedBy, IInv
<1> HIDE DEF new, old, left
<1> QED BY <1>1, <1>4, <1>6, <1>7, <1>8, MoveInv DEF Emptied

LEMMA MoveAssignIs ==
  ASSUME IInv, NEW o \in DOMAIN objs, NEW rhs \in DOMAIN objs, o # rhs,
         MoveAssign(o, rhs), UNCHANGED fails
  PROVE  /\ IInv'
         /\ ~fails => Held(objs, heap)' =
              Set(Set(Held(objs, heap), o, Contents(objs[rhs], heap)), rhs, Emptied)
<1> DEFINE l == objs[o]
           r == objs[rhs]
           cells == IF isInline(r) THEN r.cells ELSE WithPointer(l, outOfLineStorage(r)).cells
           new == [size |-> r.size, cells |-> cells]
           left == IF isInline(r) THEN r ELSE WithPointer(r, nullptr)
           old == [left EXCEPT !.size = 0]
<1>1. r \in Member /\ l \in Member
  BY DEF IInv, Inv, Good
<1>2. outOfLineStorage(r) \in Cells /\ nullptr \in Cells
  BY <1>1, Pointer, Constants
<1>3. /\ new \in Member /\ new.size = r.size
      /\ isInline(r) => new.cells = r.cells
      /\ ~isInline(r) => outOfLineStorage(new) = outOfLineStorage(r)
  <2>1. /\ WithPointer(l, outOfLineStorage(r)) \in Member
        /\ WithPointer(l, outOfLineStorage(r)).cells[1] = outOfLineStorage(r)
    BY <1>1, <1>2, Pointed DEF outOfLineStorage
  <2>2. cells \in [1 .. 2 * M -> Cells]
    BY <1>1, <2>1, Pointer
  <2> HIDE DEF cells
  <2>3. new \in Member /\ new.size = r.size /\ new.cells = cells
    BY <1>1, <2>2 DEF Member
  <2> QED BY <2>1, <2>3 DEF cells, outOfLineStorage
<1>4. left \in Member
  BY <1>1, <1>2, Pointed
<1>5. old \in Member /\ old.size = 0
  BY <1>1, <1>4, MovedFrom
<1>6. /\ objs' = [objs EXCEPT ![o] = new, ![rhs] = old]
      /\ heap' = IF isInline(l) THEN heap ELSE free(heap, outOfLineStorage(l))
  BY DEF MoveAssign
<1> HIDE DEF new, old, left
<1>7. objs' = Set(Set(objs, o, new), rhs, old)
  BY <1>6 DEF Set, IInv
<1>8. Frees(OwnedBy(objs, o), heap')
  BY <1>1, <1>6, AfterFree DEF OwnedBy
<1>9. o \in Objects
  BY DEF IInv, Inv
<1> QED BY <1>3, <1>5, <1>7, <1>8, <1>9, MoveInv DEF Emptied

(* An outcome is a record of the members, the heap and the check. *)
Outcome(w) == w = [obj |-> w.obj, heap |-> w.heap, ok |-> w.ok]

LEMMA ResizedShape ==
  ASSUME NEW r, NEW n, NEW w \in Resized(r, n)
  PROVE  Outcome(w)
BY DEF Resized, ResizeInline, ResizeToInline, ResizeToOutline, ResizeShrink, ResizeGrow,
       Failure, Out, Outcome

(* Values stored into an array go where the pointer points, the heap or    *)
(* the container, and leave the other cells alone.                         *)
Stores(old, w, at, q, v) ==
  /\ Outcome(w) /\ Handover(old, w.obj, heap, w.heap, fails) /\ Usable(w.obj)
  /\ at \in Nat /\ q \in Seq(Values) /\ v = Store(w, at, q)

LEMMA StoreIs ==
  ASSUME IInv, NEW old, NEW w, NEW at, NEW q, NEW v, Stores(old, w, at, q, v)
  PROVE  /\ Handover(old, v.obj, heap, v.heap, fails)
         /\ v.obj.size = w.obj.size /\ StridesOffset(v.obj) = StridesOffset(w.obj)
         /\ Storage(v.obj, v.heap) = memmove(Storage(w.obj, w.heap), at, q, 0, Len(q))
<1> USE DEF Stores
<1> DEFINE r == w.obj
           p == outOfLineStorage(r)
<1>1. Good(r, w.heap, fails) /\ r \in Member
  BY DEF Handover, Good
<1>2. \A k \in Nat : at < k /\ k <= at + Len(q) => q[k - at + 0] \in Values
  <2> SUFFICES ASSUME NEW k \in Nat, at < k, k <= at + Len(q) PROVE q[k - at + 0] \in Values
    OBVIOUS
  <2>1. Len(q) \in Nat
    OBVIOUS
  <2>2. k - at + 0 \in 1 .. Len(q)
    BY <2>1
  <2> QED BY <2>2
<1>3. CASE isInline(r)
  <2> DEFINE cells == memmove(r.cells, at, q, 0, Len(q))
  <2>1. v.obj = [r EXCEPT !.cells = cells] /\ v.heap = w.heap
    BY <1>3 DEF Store, Outcome
  <2>2. r.cells \in [1 .. 2 * M -> Cells] /\ r.size <= M
    BY <1>1, <1>3, Pointer
  <2>3. /\ cells = [k \in 1 .. 2 * M |-> IF at < k /\ k <= at + Len(q) THEN q[k - at + 0] ELSE r.cells[k]]
    BY <2>2 DEF memmove
  <2> HIDE DEF cells
  <2>4. cells \in [1 .. 2 * M -> Cells]
    <3>1. ASSUME NEW k \in 1 .. 2 * M PROVE cells[k] \in Cells
      <4>1. CASE at < k /\ k <= at + Len(q)
        <5>1. k \in Nat /\ q[k - at + 0] \in Values
          BY <1>2, <4>1, Constants
        <5>2. cells[k] = q[k - at + 0]
          BY <2>3, <4>1
        <5> QED BY <5>1, <5>2, Constants
      <4>2. CASE ~(at < k /\ k <= at + Len(q))
        <5>1. cells[k] = r.cells[k]
          BY <2>3, <4>2
        <5> QED BY <2>2, <5>1
      <4> QED BY <4>1, <4>2
    <3> QED BY <2>3, <3>1
  <2>5. v.obj \in Member /\ v.obj.size = r.size /\ v.obj.cells = cells
    BY <1>1, <2>1, <2>4 DEF Member
  <2>6. \A k \in 1 .. r.size : cells[k] \in Values /\ cells[M + k] \in Values
    <3> SUFFICES ASSUME NEW k \in 1 .. r.size PROVE cells[k] \in Values /\ cells[M + k] \in Values
      OBVIOUS
    <3>1. k \in 1 .. 2 * M /\ M + k \in 1 .. 2 * M /\ k \in Nat /\ M + k \in Nat
      BY <1>1, <2>2, Pointer, Constants
    <3>2. r.cells[k] \in Values /\ r.cells[M + k] \in Values
      BY <1>1, <1>3 DEF Good
    <3> QED BY <1>2, <2>3, <3>1, <3>2
  <2>7. isInline(v.obj) /\ Owned(v.obj) = {} /\ Owned(r) = {} /\ StridesOffset(v.obj) = StridesOffset(r)
    BY <1>3, <2>5 DEF isInline, Owned, StridesOffset
  <2>8. Good(v.obj, v.heap, fails)
    BY <2>5, <2>6, <2>7 DEF Good
  <2>9. Handover(old, v.obj, heap, v.heap, fails)
    BY <2>1, <2>7, <2>8 DEF Handover
  <2>10. Storage(v.obj, v.heap) = cells /\ Storage(r, w.heap) = r.cells
    BY <1>3, <2>5, <2>7 DEF Storage
  <2> QED BY <2>5, <2>7, <2>9, <2>10 DEF cells
<1>4. CASE ~isInline(r)
  <2> DEFINE t == w.heap[p]
             u == memmove(t, at, q, 0, Len(q))
  <2>1. v.obj = r /\ v.heap = [w.heap EXCEPT ![p] = u]
    BY <1>4 DEF Store, Outcome
  <2>2. p \in DOMAIN w.heap /\ t \in [1 .. 2 * r.size -> Values] /\ r.size \in Nat /\ Owned(r) = {p}
    BY <1>1, <1>4, Pointer DEF Good, Usable, storageBytes
  <2>3. u = [k \in 1 .. 2 * r.size |-> IF at < k /\ k <= at + Len(q) THEN q[k - at + 0] ELSE t[k]]
    BY <2>2 DEF memmove
  <2> HIDE DEF u, t
  <2>4. u \in [1 .. 2 * r.size -> Values]
    BY <1>2, <2>2, <2>3
  <2>5. u \in Seq(Cells)
    <3>1. 2 * r.size \in Nat
      BY <2>2
    <3>2. u \in [1 .. 2 * r.size -> Cells]
      BY <2>4, Constants
    <3> QED BY <3>1, <3>2
  <2>6. /\ DOMAIN v.heap = DOMAIN w.heap /\ v.heap[p] = u
        /\ \A b \in DOMAIN w.heap : b # p => v.heap[b] = w.heap[b]
        /\ v.heap = [b \in DOMAIN v.heap |-> v.heap[b]]
    BY <2>1, <2>2 DEF Handover
  <2>7. Good(v.obj, v.heap, fails)
    BY <1>1, <1>4, <2>1, <2>2, <2>4, <2>6 DEF Good, storageBytes
  <2>8. \A b \in DOMAIN heap \ old : b \in DOMAIN v.heap /\ v.heap[b] = heap[b]
    <3> SUFFICES ASSUME NEW b \in DOMAIN heap, b \notin old
                 PROVE  b \in DOMAIN v.heap /\ v.heap[b] = heap[b]
      OBVIOUS
    <3>1. b # p
      BY <2>2, Constants DEF Handover, Fresh, IInv, Inv
    <3> QED BY <2>6, <3>1 DEF Handover
  <2>9. Handover(old, v.obj, heap, v.heap, fails)
    BY <2>1, <2>5, <2>6, <2>7, <2>8 DEF Handover
  <2>10. Storage(v.obj, v.heap) = u /\ Storage(r, w.heap) = t
    BY <1>4, <2>1, <2>6 DEF Storage, t
  <2> QED BY <2>1, <2>9, <2>10 DEF u
<1> QED BY <1>3, <1>4

(* Where the strides begin there is room for the sizes before them.        *)
LEMMA StorageIs ==
  ASSUME NEW r, NEW h, NEW f, Good(r, h, f), Usable(r)
  PROVE  /\ DOMAIN Storage(r, h) = 1 .. 2 * StridesOffset(r)
         /\ StridesOffset(r) \in Nat \ {0} /\ r.size \in Nat /\ r.size <= StridesOffset(r)
<1>1. r \in Member /\ r.size \in Nat
  BY Pointer DEF Good
<1>2. CASE isInline(r)
  <2>1. r.size <= M /\ r.cells \in [1 .. 2 * M -> Cells]
    BY <1>1, <1>2, Pointer
  <2> QED BY <1>1, <1>2, <2>1, Constants DEF Storage, StridesOffset
<1>3. CASE ~isInline(r)
  <2>1. h[outOfLineStorage(r)] \in [1 .. 2 * r.size -> Values] /\ r.size > M
    BY <1>1, <1>3, Pointer, Constants DEF Good, Usable, storageBytes
  <2> QED BY <1>1, <1>3, <2>1, Constants DEF Storage, StridesOffset
<1> QED BY <1>2, <1>3

\* The array s after the values q are written behind its first j elements.
Written(s, j, q, n) ==
  [k \in 1 .. n |-> IF j < k /\ k <= j + Len(q) THEN q[k - j] ELSE s[k]]

\* Behind j elements there is room for q.
Within(j, q, w) == j \in Nat /\ j + Len(q) <= w.obj.size

\* v is w with its sizes, or its strides, written.
SizesStored(w, j, q, v) ==
  /\ Sizes(v.obj, v.heap) = Written(Sizes(w.obj, w.heap), j, q, w.obj.size)
  /\ Strides(v.obj, v.heap) = Strides(w.obj, w.heap)
StridesStored(w, j, q, v) ==
  /\ Sizes(v.obj, v.heap) = Sizes(w.obj, w.heap)
  /\ Strides(v.obj, v.heap) = Written(Strides(w.obj, w.heap), j, q, w.obj.size)

(* A store within the sizes, or within the strides, changes no other array.*)
LEMMA StoredIs ==
  ASSUME IInv, NEW old, NEW w, NEW at, NEW q, NEW v, Stores(old, w, at, q, v),
         NEW j, Within(j, q, w)
  PROVE  /\ Handover(old, v.obj, heap, v.heap, fails)
         /\ at = j => SizesStored(w, j, q, v)
         /\ at = StridesOffset(w.obj) + j => StridesStored(w, j, q, v)
<1> DEFINE c == StridesOffset(w.obj)
           n == w.obj.size
           s == Storage(w.obj, w.heap)
<1>1. DOMAIN s = 1 .. 2 * c /\ c \in Nat \ {0} /\ n \in Nat /\ n <= c
  BY StorageIs DEF Handover, Stores
<1>2. Len(q) \in Nat /\ at \in Nat /\ j \in Nat /\ j + Len(q) <= n
  BY DEF Stores, Within
<1>3. \A k \in 1 .. n : k \in 1 .. 2 * c /\ c + k \in 1 .. 2 * c
  BY <1>1
<1>4. /\ Handover(old, v.obj, heap, v.heap, fails)
      /\ v.obj.size = n /\ StridesOffset(v.obj) = c
      /\ Storage(v.obj, v.heap) = memmove(s, at, q, 0, Len(q))
  BY StoreIs
<1>5. ASSUME NEW k \in 1 .. 2 * c
      PROVE  Storage(v.obj, v.heap)[k] = IF at < k /\ k <= at + Len(q) THEN q[k - at] ELSE s[k]
  <2>1. k - at + 0 = k - at
    BY <1>1, <1>2
  <2> QED BY <1>1, <1>4, <2>1 DEF memmove
<1> HIDE DEF c, n, s
<1>6. ASSUME at = j PROVE SizesStored(w, j, q, v)
  <2>1. \A k \in 1 .. n : /\ Storage(v.obj, v.heap)[k] = (IF j < k /\ k <= j + Len(q) THEN q[k - j] ELSE s[k])
                          /\ Storage(v.obj, v.heap)[c + k] = s[c + k]
    <3> SUFFICES ASSUME NEW k \in 1 .. n
                 PROVE  /\ Storage(v.obj, v.heap)[k] = (IF j < k /\ k <= j + Len(q) THEN q[k - j] ELSE s[k])
                        /\ Storage(v.obj, v.heap)[c + k] = s[c + k]
      OBVIOUS
    <3>1. k \in 1 .. 2 * c /\ c + k \in 1 .. 2 * c /\ ~(c + k <= at + Len(q))
      BY <1>1, <1>2, <1>3, <1>6 DEF n
    <3> QED BY <1>5, <1>6, <3>1
  <2> QED BY <1>4, <1>6, <2>1 DEF SizesStored, Sizes, Strides, Written, n, c, s
<1>7. ASSUME at = c + j PROVE StridesStored(w, j, q, v)
  <2>2. \A k \in 1 .. n : /\ Storage(v.obj, v.heap)[k] = s[k]
                          /\ Storage(v.obj, v.heap)[c + k] =
                               (IF j < k /\ k <= j + Len(q) THEN q[k - j] ELSE s[c + k])
    <3> SUFFICES ASSUME NEW k \in 1 .. n
                 PROVE  /\ Storage(v.obj, v.heap)[k] = s[k]
                        /\ Storage(v.obj, v.heap)[c + k] =
                               (IF j < k /\ k <= j + Len(q) THEN q[k - j] ELSE s[c + k])
      OBVIOUS
    <3>1. /\ k \in 1 .. 2 * c /\ c + k \in 1 .. 2 * c /\ ~(at < k)
          /\ (at < c + k) = (j < k) /\ (c + k <= at + Len(q)) = (k <= j + Len(q))
          /\ (c + k) - at = k - j
      BY <1>1, <1>2, <1>3, <1>7
    <3> QED BY <1>5, <3>1
  <2> QED BY <1>4, <2>2 DEF StridesStored, Sizes, Strides, Written, n, c, s
<1> QED
  <2>1. at = j => SizesStored(w, j, q, v)
    BY <1>6
  <2>2. at = c + j => StridesStored(w, j, q, v)
    BY <1>7
  <2>3. at = StridesOffset(w.obj) + j => StridesStored(w, j, q, v)
    BY <2>2 DEF c
  <2> QED BY <1>4, <2>1, <2>3 DEF n, c, s

(* What resize does to an array of n0 values.                              *)
Cut(s, n0, n) == [k \in 1 .. n |-> IF k <= n0 THEN s[k] ELSE 0]

LEMMA ResizedContents ==
  ASSUME IInv, NEW r, Good(r, heap, fails), NEW n \in Ranks, NEW w, Resizes(r, n, w), w.ok
  PROVE  Contents(w.obj, w.heap) = [sizes   |-> Cut(Sizes(r, heap), r.size, n),
                                    strides |-> Cut(Strides(r, heap), r.size, n)]
<1>1. r.size \in Nat /\ n \in Nat
  BY Pointer, Constants DEF Good, Ranks
<1>2. w.obj.size = n
  BY DEF Resizes
<1>3. \A k \in 1 .. n :
        /\ Storage(w.obj, w.heap)[k] = IF k <= r.size THEN Storage(r, heap)[k] ELSE 0
        /\ Storage(w.obj, w.heap)[StridesOffset(w.obj) + k] =
             IF k <= r.size THEN Storage(r, heap)[StridesOffset(r) + k] ELSE 0
  BY DEF Resizes, Extends
<1>4. \A k \in 1 .. n : k <= r.size => k \in 1 .. r.size
  BY <1>1
<1> QED BY <1>2, <1>3, <1>4 DEF Contents, Sizes, Strides, Cut

LEMMA BecomeIs ==
  ASSUME IInv, NEW o \in DOMAIN objs, NEW w, Become(o, w),
         Handover(Owned(objs[o]), w.obj, heap, w.heap, fails), UNCHANGED fails
  PROVE  Becomes(o, w.obj) /\ heap' = w.heap
BY ExceptIs DEF Become, Becomes, OwnedBy, IInv

LEMMA ResizeIs ==
  ASSUME IInv, NEW o \in DOMAIN objs, NEW n \in Ranks, Usable(objs[o]),
         resize(o, n), UNCHANGED fails
  PROVE  \E x : /\ Becomes(o, x)
                /\ ~fails => Contents(x, heap') =
                     [sizes   |-> Cut(Sizes(objs[o], heap), objs[o].size, n),
                      strides |-> Cut(Strides(objs[o], heap), objs[o].size, n)]
<1>1. PICK w \in Resized(objs[o], n) : Become(o, w)
  BY DEF resize
<1>2. Good(objs[o], heap, fails)
  BY DEF IInv, Inv
<1>3. Resizes(objs[o], n, w)
  BY <1>2, ResizedIs
<1>4. Becomes(o, w.obj) /\ heap' = w.heap
  BY <1>1, <1>3, BecomeIs DEF Resizes
<1>5. ~fails => w.ok
  BY <1>3 DEF Resizes
<1> QED BY <1>2, <1>3, <1>4, <1>5, ResizedContents

LEMMA SetSizesIs ==
  ASSUME IInv, NEW o \in DOMAIN objs, NEW q \in Lists, Usable(objs[o]),
         set_sizes(o, q), UNCHANGED fails
  PROVE  \E x : /\ Becomes(o, x)
                /\ ~fails => Contents(x, heap') =
                     [sizes |-> q, strides |-> Cut(Strides(objs[o], heap), objs[o].size, Len(q))]
<1> DEFINE r == objs[o]
<1>1. q \in Seq(Values) /\ Len(q) \in Ranks /\ Len(q) \in Nat
  BY ListsAssumption, Constants DEF Ranks
<1>2. PICK w \in Resized(r, Len(q)) : Become(o, IF w.ok THEN Store(w, 0, q) ELSE w)
  BY DEF set_sizes
<1>3. Good(r, heap, fails)
  BY DEF IInv, Inv
<1>4. Resizes(r, Len(q), w) /\ Outcome(w)
  BY <1>1, <1>3, ResizedIs, ResizedShape
<1>5. CASE ~w.ok
  <2>1. fails /\ Become(o, w)
    BY <1>2, <1>4, <1>5 DEF Resizes
  <2>2. Becomes(o, w.obj)
    BY <1>4, <2>1, BecomeIs DEF Resizes
  <2> QED BY <2>1, <2>2
<1>6. CASE w.ok
  <2> DEFINE v == Store(w, 0, q)
  <2>1. Stores(Owned(r), w, 0, q, v) /\ w.obj.size = Len(q)
    BY <1>1, <1>4, <1>6 DEF Resizes, Stores
  <2>2. Become(o, v)
    BY <1>2, <1>6
  <2> HIDE DEF v
  <2>3. Within(0, q, w)
    BY <1>1, <2>1 DEF Within
  <2>4. Handover(Owned(r), v.obj, heap, v.heap, fails) /\ SizesStored(w, 0, q, v)
    BY <2>1, <2>3, StoredIs
  <2>5. Strides(w.obj, w.heap) = Cut(Strides(r, heap), r.size, Len(q))
    BY <1>1, <1>3, <1>4, <1>6, ResizedContents DEF Contents
  <2>6. Written(Sizes(w.obj, w.heap), 0, q, w.obj.size) = q
    <3>1. q = [k \in 1 .. Len(q) |-> q[k]]
      BY <1>1
    <3>2. \A k \in 1 .. Len(q) : k - 0 = k /\ 0 < k /\ k <= 0 + Len(q)
      BY <1>1
    <3> QED BY <2>1, <3>1, <3>2 DEF Written
  <2>7. Becomes(o, v.obj) /\ heap' = v.heap
    BY <2>2, <2>4, BecomeIs
  <2> QED BY <2>4, <2>5, <2>6, <2>7 DEF SizesStored, Contents
<1> QED BY <1>5, <1>6

(* A store through the pointers of a container as it is.                   *)
LEMMA NowIs ==
  ASSUME IInv, NEW o \in DOMAIN objs, Usable(objs[o]), NEW at \in Nat, NEW q \in Seq(Values)
  PROVE  /\ Stores(Owned(objs[o]), Now(o), at, q, Store(Now(o), at, q))
         /\ Now(o).obj = objs[o] /\ Now(o).heap = heap
<1>1. Good(objs[o], heap, fails) /\ objs[o] \in Member
  BY DEF IInv, Inv, Good
<1>2. Now(o).obj = objs[o] /\ Now(o).heap = heap /\ Outcome(Now(o))
  BY <1>1 DEF Now, Out, Outcome, Member
<1> QED BY <1>1, <1>2, SameHandover DEF Stores

LEMMA SetStridesIs ==
  ASSUME IInv, NEW o \in DOMAIN objs, NEW q \in Lists, Usable(objs[o]),
         set_strides(o, q), UNCHANGED fails
  PROVE  /\ Len(q) = objs[o].size
         /\ \E x : /\ Becomes(o, x)
                   /\ Contents(x, heap') = [sizes |-> Sizes(objs[o], heap), strides |-> q]
<1> DEFINE r == objs[o]
           at == StridesOffset(r)
           v == Store(Now(o), at, q)
<1>1. q \in Seq(Values) /\ Len(q) = r.size /\ Become(o, v) /\ Len(q) \in Nat
  BY ListsAssumption DEF set_strides
<1>2. Good(r, heap, fails)
  BY DEF IInv, Inv
<1>3. at \in Nat /\ at = at + 0
  BY <1>2, StorageIs
<1>4. Stores(Owned(r), Now(o), at, q, v) /\ Now(o).obj = r /\ Now(o).heap = heap
  BY <1>1, <1>3, NowIs
<1> HIDE DEF v
<1>5. Within(0, q, Now(o))
  BY <1>1, <1>4 DEF Within
<1>6. at = StridesOffset(Now(o).obj) + 0
  BY <1>3, <1>4
<1>7. Handover(Owned(r), v.obj, heap, v.heap, fails) /\ StridesStored(Now(o), 0, q, v)
  BY <1>4, <1>5, <1>6, StoredIs
<1>8. Written(Strides(r, heap), 0, q, r.size) = q
  <2>1. q = [k \in 1 .. Len(q) |-> q[k]]
    BY <1>1
  <2>2. \A k \in 1 .. Len(q) : k - 0 = k /\ 0 < k /\ k <= 0 + Len(q)
    BY <1>1
  <2> QED BY <1>1, <2>1, <2>2 DEF Written
<1>9. Becomes(o, v.obj) /\ heap' = v.heap
  BY <1>1, <1>7, BecomeIs
<1> QED BY <1>1, <1>4, <1>7, <1>8, <1>9 DEF StridesStored, Contents

Array(s, n) == n \in Nat /\ s = [k \in 1 .. n |-> s[k]]

LEMMA WrittenOne ==
  ASSUME NEW s, NEW n, Array(s, n), NEW i \in 1 .. n, NEW v
  PROVE  Written(s, i - 1, <<v>>, n) = [s EXCEPT ![i] = v]
<1> USE DEF Array
<1>1. Len(<<v>>) = 1 /\ <<v>>[1] = v
  OBVIOUS
<1>2. ASSUME NEW k \in 1 .. n
      PROVE  (i - 1 < k /\ k <= (i - 1) + 1) = (k = i)
  OBVIOUS
<1>3. i - (i - 1) = 1
  OBVIOUS
<1>4. \A k \in 1 .. n : Written(s, i - 1, <<v>>, n)[k] = IF k = i THEN v ELSE s[k]
  BY <1>1, <1>2, <1>3 DEF Written
<1>5. Written(s, i - 1, <<v>>, n) = [k \in 1 .. n |-> Written(s, i - 1, <<v>>, n)[k]]
  BY DEF Written
<1> QED BY <1>4, <1>5

LEMMA SizeAtIs ==
  ASSUME IInv, NEW o \in DOMAIN objs, Usable(objs[o]), NEW i \in 1 .. objs[o].size,
         NEW v \in Values, size_at(o, i, v), UNCHANGED fails
  PROVE  \E x : /\ Becomes(o, x)
                /\ Contents(x, heap') = [sizes   |-> [Sizes(objs[o], heap) EXCEPT ![i] = v],
                                         strides |-> Strides(objs[o], heap)]
<1> DEFINE r == objs[o]
           w == Store(Now(o), i - 1, <<v>>)
<1>1. Good(r, heap, fails) /\ r.size \in Nat
  BY Pointer DEF IInv, Inv, Good
<1>2. i - 1 \in Nat /\ <<v>> \in Seq(Values) /\ Len(<<v>>) = 1 /\ (i - 1) + 1 <= r.size
  BY <1>1
<1>3. Stores(Owned(r), Now(o), i - 1, <<v>>, w) /\ Now(o).obj = r /\ Now(o).heap = heap
  BY <1>2, NowIs
<1>4. Become(o, w)
  BY DEF size_at
<1> HIDE DEF w
<1>5. Within(i - 1, <<v>>, Now(o))
  BY <1>2, <1>3 DEF Within
<1>6. Handover(Owned(r), w.obj, heap, w.heap, fails) /\ SizesStored(Now(o), i - 1, <<v>>, w)
  BY <1>3, <1>5, StoredIs
<1>7. Written(Sizes(r, heap), i - 1, <<v>>, r.size) = [Sizes(r, heap) EXCEPT ![i] = v]
  <2>1. Array(Sizes(r, heap), r.size)
    BY <1>1 DEF Array, Sizes
  <2> QED BY <2>1, WrittenOne
<1>8. Becomes(o, w.obj) /\ heap' = w.heap
  BY <1>4, <1>6, BecomeIs
<1> QED BY <1>3, <1>6, <1>7, <1>8 DEF SizesStored, Contents

LEMMA StrideAtIs ==
  ASSUME IInv, NEW o \in DOMAIN objs, Usable(objs[o]), NEW i \in 1 .. objs[o].size,
         NEW v \in Values, stride_at(o, i, v), UNCHANGED fails
  PROVE  \E x : /\ Becomes(o, x)
                /\ Contents(x, heap') = [sizes   |-> Sizes(objs[o], heap),
                                         strides |-> [Strides(objs[o], heap) EXCEPT ![i] = v]]
<1> DEFINE r == objs[o]
           at == StridesOffset(r) + i - 1
           w == Store(Now(o), at, <<v>>)
<1>1. Good(r, heap, fails) /\ r.size \in Nat /\ StridesOffset(r) \in Nat
  BY Pointer, StorageIs DEF IInv, Inv, Good
<1>2. /\ i - 1 \in Nat /\ <<v>> \in Seq(Values) /\ Len(<<v>>) = 1 /\ (i - 1) + 1 <= r.size
      /\ at \in Nat /\ at = StridesOffset(r) + (i - 1)
  BY <1>1
<1>3. Stores(Owned(r), Now(o), at, <<v>>, w) /\ Now(o).obj = r /\ Now(o).heap = heap
  BY <1>2, NowIs
<1>4. Become(o, w)
  BY DEF stride_at
<1> HIDE DEF w, at
<1>5. Within(i - 1, <<v>>, Now(o)) /\ at = StridesOffset(Now(o).obj) + (i - 1)
  BY <1>2, <1>3 DEF Within
<1>6. Handover(Owned(r), w.obj, heap, w.heap, fails) /\ StridesStored(Now(o), i - 1, <<v>>, w)
  BY <1>3, <1>5, StoredIs
<1>7. Written(Strides(r, heap), i - 1, <<v>>, r.size) = [Strides(r, heap) EXCEPT ![i] = v]
  <2>1. Array(Strides(r, heap), r.size)
    BY <1>1 DEF Array, Strides
  <2> QED BY <2>1, WrittenOne
<1>8. Becomes(o, w.obj) /\ heap' = w.heap
  BY <1>4, <1>6, BecomeIs
<1> QED BY <1>3, <1>6, <1>7, <1>8 DEF StridesStored, Contents
----------------------------------------------------------------------------
(* The arrays of DimArrays, when no allocation fails, are what is held.    *)
held == [o \in {x \in DOMAIN objs : ~fails} |-> Arrays(objs[o])]

LEMMA HeldIs == IInv /\ ~fails => held = Held(objs, heap)
<1> SUFFICES ASSUME IInv, ~fails PROVE held = Held(objs, heap)
  OBVIOUS
<1>1. \A o \in DOMAIN objs : Arrays(objs[o]) = Contents(objs[o], heap)
  <2> SUFFICES ASSUME NEW o \in DOMAIN objs PROVE Arrays(objs[o]) = Contents(objs[o], heap)
    OBVIOUS
  <2>1. Good(objs[o], heap, fails) /\ fails \in BOOLEAN
    BY DEF IInv, Inv
  <2>2. isInline(objs[o]) \/ outOfLineStorage(objs[o]) # nullptr
    BY <2>1, Constants DEF Good, IInv, Inv
  <2> QED BY <2>1, <2>2, ArraysAre DEF Contents
<1>2. {x \in DOMAIN objs : ~fails} = DOMAIN objs
  OBVIOUS
<1> QED BY <1>1, <1>2 DEF held, Held

LEMMA HeldNext == (IInv /\ ~fails => held = Held(objs, heap))'
BY HeldIs, PTL

LEMMA InitInv == Init => IInv
<1> SUFFICES ASSUME Init PROVE IInv
  OBVIOUS
<1>1. DOMAIN objs = {} /\ DOMAIN heap = {}
  BY DEF Init
<1>2. fails \in BOOLEAN
  BY FailingAssumption DEF Init
<1> QED BY <1>1, <1>2 DEF Init, IInv, Inv

LEMMA HeldValues ==
  ASSUME IInv, ~fails
  PROVE  /\ DOMAIN held = DOMAIN objs
         /\ \A o \in DOMAIN objs :
              /\ Usable(objs[o])
              /\ held[o] = Contents(objs[o], heap)
              /\ held[o].sizes = Sizes(objs[o], heap) /\ held[o].strides = Strides(objs[o], heap)
              /\ Len(Sizes(objs[o], heap)) = objs[o].size
              /\ Len(Strides(objs[o], heap)) = objs[o].size
<1>1. held = Held(objs, heap)
  BY HeldIs
<1>2. ASSUME NEW o \in DOMAIN objs
      PROVE  /\ Usable(objs[o])
             /\ Len(Sizes(objs[o], heap)) = objs[o].size
             /\ Len(Strides(objs[o], heap)) = objs[o].size
  <2>1. Good(objs[o], heap, fails) /\ objs[o].size \in Nat
    BY Pointer DEF IInv, Inv, Good
  <2>2. Usable(objs[o])
    BY <2>1, Constants DEF Good, Usable, IInv, Inv
  <2> QED BY <2>1, <2>2 DEF Sizes, Strides
<1> QED BY <1>1, <1>2 DEF Held, Contents

(* What a step must establish, and how: one array is set.                  *)
Simulates == IInv' /\ (~fails => Abstract!Next)

LEMMA SetStep ==
  ASSUME IInv, UNCHANGED fails, NEW o \in Objects, NEW r, Becomes(o, r), NEW a,
         ~fails => Contents(r, heap') = a
  PROVE  IInv' /\ (~fails => held' = Abstract!With(o, a))
<1>1. IInv' /\ (~fails => Held(objs, heap)' = Set(Held(objs, heap), o, a))
  BY BecomesInv
<1>2. ~fails => held = Held(objs, heap) /\ held' = Held(objs, heap)'
  BY <1>1, HeldIs, HeldNext
<1>3. ~fails => held' = Set(held, o, a)
  BY <1>1, <1>2
<1>4. Set(held, o, a) = Abstract!With(o, a)
  BY DEF Set, Abstract!With, held
<1> QED BY <1>1, <1>3, <1>4

LEMMA MoveStep ==
  ASSUME IInv, IInv', UNCHANGED fails, ~fails, NEW o, NEW rhs \in DOMAIN objs,
         Held(objs, heap)' = Set(Set(Held(objs, heap), o, Contents(objs[rhs], heap)), rhs, Emptied)
  PROVE  Abstract!Move(o, rhs)
<1>1. held = Held(objs, heap) /\ held' = Held(objs, heap)'
  BY HeldIs, HeldNext
<1>2. held' = Set(Set(held, o, held[rhs]), rhs, Emptied) /\ rhs \in DOMAIN held
  BY <1>1, HeldValues
<1>3. held' = [Set(held, o, held[rhs]) EXCEPT ![rhs] = Emptied]
  BY <1>2 DEF Set
<1>4. Set(held, o, held[rhs]) = Abstract!With(o, held[rhs])
  BY DEF Set, Abstract!With, held
<1> QED BY <1>3, <1>4 DEF Abstract!Move, Abstract!Empty, Emptied, held

(* Resizing the held arrays is what DimArrays resizes.                     *)
LEMMA CutIs ==
  ASSUME NEW s, NEW n0, NEW n, Len(s) = n0
  PROVE  Cut(s, n0, n) = Abstract!Resized(s, n)
BY DEF Cut, Abstract!Resized

\* The actions of Next, by what they do to the containers.
Creates ==
  \E o \in Objects \ DOMAIN objs :
    \/ DefaultConstruct(o)
    \/ \E rhs \in DOMAIN objs :
         (Readable(rhs) /\ CopyConstruct(o, rhs)) \/ MoveConstruct(o, rhs)
Assigns ==
  \E o \in DOMAIN objs :
    \/ Destroy(o)
    \/ \E rhs \in DOMAIN objs \ {o} :
         (Readable(rhs) /\ CopyAssign(o, rhs)) \/ MoveAssign(o, rhs)
Resizing ==
  \E o \in DOMAIN objs : Readable(o) /\
    \/ \E n \in Ranks : resize(o, n)
    \/ \E q \in Lists : set_sizes(o, q) \/ set_strides(o, q)
Writing ==
  \E o \in DOMAIN objs : Readable(o) /\
    \E i \in 1 .. objs[o].size, v \in Values : size_at(o, i, v) \/ stride_at(o, i, v)

LEMMA CreatesStep ==
  ASSUME IInv, UNCHANGED fails, Creates
  PROVE  Simulates
<1>1. PICK o \in Objects \ DOMAIN objs :
        \/ DefaultConstruct(o)
        \/ \E rhs \in DOMAIN objs :
             (Readable(rhs) /\ CopyConstruct(o, rhs)) \/ MoveConstruct(o, rhs)
  BY DEF Creates
<1>2. ~fails => o \in Objects \ DOMAIN held
  BY HeldValues
<1>3. CASE DefaultConstruct(o)
  <2>1. PICK r : Becomes(o, r) /\ Contents(r, heap') = [sizes |-> <<0>>, strides |-> <<1>>]
    BY <1>3, DefaultIs
  <2>2. IInv' /\ (~fails => held' = Abstract!With(o, [sizes |-> <<0>>, strides |-> <<1>>]))
    BY <2>1, SetStep
  <2>3. ~fails => Abstract!Create(o)
    BY <2>2 DEF held, Abstract!Create
  <2> QED BY <1>2, <2>2, <2>3 DEF Simulates, Abstract!Next, held
<1>4. ASSUME NEW rhs \in DOMAIN objs, Readable(rhs), CopyConstruct(o, rhs)
      PROVE  Simulates
  <2>1. PICK r : Becomes(o, r) /\ Contents(r, heap') = Contents(objs[rhs], heap)
    BY <1>4, CopyConstructIs DEF Readable, Usable
  <2>2. IInv' /\ (~fails => held' = Abstract!With(o, Contents(objs[rhs], heap)))
    BY <2>1, SetStep
  <2>3. ~fails => Abstract!Copy(o, rhs) /\ rhs \in DOMAIN held
    BY <2>2, HeldValues DEF held, Abstract!Copy
  <2> QED BY <1>2, <2>2, <2>3 DEF Simulates, Abstract!Next, held
<1>5. ASSUME NEW rhs \in DOMAIN objs, MoveConstruct(o, rhs)
      PROVE  Simulates
  <2>1. IInv' /\ (~fails => Abstract!Move(o, rhs) /\ rhs \in DOMAIN held)
    BY <1>5, MoveConstructIs, MoveStep, HeldValues
  <2> QED BY <1>2, <2>1 DEF Simulates, Abstract!Next, held
<1> QED BY <1>1, <1>3, <1>4, <1>5

LEMMA AssignsStep ==
  ASSUME IInv, UNCHANGED fails, Assigns
  PROVE  Simulates
<1>1. PICK o \in DOMAIN objs :
        \/ Destroy(o)
        \/ \E rhs \in DOMAIN objs \ {o} :
             (Readable(rhs) /\ CopyAssign(o, rhs)) \/ MoveAssign(o, rhs)
  BY DEF Assigns
<1>2. o \in Objects /\ (~fails => o \in DOMAIN held)
  BY HeldValues DEF IInv, Inv
<1>3. CASE Destroy(o)
  <2>1. IInv' /\ (~fails => Held(objs, heap)' = Drop(Held(objs, heap), o))
    BY <1>3, DestroyInv
  <2>2. ~fails => held = Held(objs, heap) /\ held' = Held(objs, heap)'
    BY <2>1, HeldIs, HeldNext
  <2>3. ~fails => held' = Drop(held, o)
    BY <2>1, <2>2
  <2>4. ~fails => Abstract!Destroy(o)
    BY <2>3 DEF Drop, held, Abstract!Destroy
  <2> QED BY <1>2, <2>1, <2>4 DEF Simulates, Abstract!Next, held
<1>4. ASSUME NEW rhs \in DOMAIN objs \ {o}, Readable(rhs), CopyAssign(o, rhs)
      PROVE  Simulates
  <2>1. PICK r : Becomes(o, r) /\ (~fails => Contents(r, heap') = Contents(objs[rhs], heap))
    BY <1>4, CopyAssignIs DEF Readable, Usable
  <2>2. IInv' /\ (~fails => held' = Abstract!With(o, Contents(objs[rhs], heap)))
    BY <1>2, <2>1, SetStep
  <2>3. ~fails => Abstract!Copy(o, rhs) /\ rhs \in DOMAIN held \ {o}
    BY <2>2, HeldValues DEF held, Abstract!Copy
  <2> QED BY <1>2, <2>2, <2>3 DEF Simulates, Abstract!Next, held
<1>5. ASSUME NEW rhs \in DOMAIN objs \ {o}, MoveAssign(o, rhs)
      PROVE  Simulates
  <2>1. IInv' /\ (~fails => Abstract!Move(o, rhs) /\ rhs \in DOMAIN held \ {o})
    BY <1>5, MoveAssignIs, MoveStep, HeldValues
  <2> QED BY <1>2, <2>1 DEF Simulates, Abstract!Next, held
<1> QED BY <1>1, <1>3, <1>4, <1>5

LEMMA ResizingStep ==
  ASSUME IInv, UNCHANGED fails, Resizing
  PROVE  Simulates
<1>1. PICK o \in DOMAIN objs :
        /\ Usable(objs[o])
        /\ \/ \E n \in Ranks : resize(o, n)
           \/ \E q \in Lists : set_sizes(o, q) \/ set_strides(o, q)
  BY DEF Resizing, Readable, Usable
<1>2. o \in Objects /\ (~fails => o \in DOMAIN held)
  BY HeldValues DEF IInv, Inv
<1>3. ASSUME NEW n \in Ranks, resize(o, n)
      PROVE  Simulates
  <2> DEFINE a == [sizes   |-> Cut(Sizes(objs[o], heap), objs[o].size, n),
                   strides |-> Cut(Strides(objs[o], heap), objs[o].size, n)]
  <2>1. PICK r : Becomes(o, r) /\ (~fails => Contents(r, heap') = a)
    BY <1>1, <1>3, ResizeIs
  <2>2. ~fails => a = [sizes   |-> Abstract!Resized(held[o].sizes, n),
                       strides |-> Abstract!Resized(held[o].strides, n)]
    BY HeldValues, CutIs
  <2> HIDE DEF a
  <2>3. IInv' /\ (~fails => held' = Abstract!With(o, a))
    BY <1>2, <2>1, SetStep
  <2>4. ~fails => Abstract!Resize(o, n)
    BY <2>2, <2>3 DEF held, Abstract!Resize
  <2>5. n \in Abstract!Ranks
    BY DEF Ranks, Abstract!Ranks
  <2> QED BY <1>2, <2>3, <2>4, <2>5 DEF Simulates, Abstract!Next, held
<1>4. ASSUME NEW q \in Lists, set_sizes(o, q)
      PROVE  Simulates
  <2> DEFINE a == [sizes |-> q, strides |-> Cut(Strides(objs[o], heap), objs[o].size, Len(q))]
  <2>1. PICK r : Becomes(o, r) /\ (~fails => Contents(r, heap') = a)
    BY <1>1, <1>4, SetSizesIs
  <2>2. ~fails => a = [sizes |-> q, strides |-> Abstract!Resized(held[o].strides, Len(q))]
    BY HeldValues, CutIs
  <2> HIDE DEF a
  <2>3. IInv' /\ (~fails => held' = Abstract!With(o, a))
    BY <1>2, <2>1, SetStep
  <2>4. ~fails => Abstract!SetSizes(o, q)
    BY <2>2, <2>3 DEF held, Abstract!SetSizes
  <2> QED BY <1>2, <2>3, <2>4 DEF Simulates, Abstract!Next, held
<1>5. ASSUME NEW q \in Lists, set_strides(o, q)
      PROVE  Simulates
  <2> DEFINE a == [sizes |-> Sizes(objs[o], heap), strides |-> q]
  <2>1. PICK r : Becomes(o, r) /\ Contents(r, heap') = a
    BY <1>1, <1>5, SetStridesIs
  <2>2. ~fails => a = [held[o] EXCEPT !.strides = q] /\ Len(q) = Len(held[o].sizes)
    BY <1>1, <1>5, SetStridesIs, HeldValues DEF Contents
  <2> HIDE DEF a
  <2>3. IInv' /\ (~fails => held' = Abstract!With(o, a))
    BY <1>2, <2>1, SetStep
  <2>4. ~fails => Abstract!SetStrides(o, q)
    BY <2>2, <2>3 DEF held, Abstract!SetStrides
  <2> QED BY <1>2, <2>3, <2>4 DEF Simulates, Abstract!Next, held
<1> QED BY <1>1, <1>3, <1>4, <1>5

LEMMA WrittenField ==
  ASSUME NEW s, NEW t, NEW i, NEW v
  PROVE  /\ [[sizes |-> s, strides |-> t] EXCEPT !.sizes[i] = v]
              = [sizes |-> [s EXCEPT ![i] = v], strides |-> t]
         /\ [[sizes |-> s, strides |-> t] EXCEPT !.strides[i] = v]
              = [sizes |-> s, strides |-> [t EXCEPT ![i] = v]]
OBVIOUS

LEMMA WritingStep ==
  ASSUME IInv, UNCHANGED fails, Writing
  PROVE  Simulates
<1>0. PICK o \in DOMAIN objs :
        /\ Usable(objs[o])
        /\ \E i \in 1 .. objs[o].size, v \in Values : size_at(o, i, v) \/ stride_at(o, i, v)
  BY DEF Writing, Readable, Usable
<1>1. PICK i \in 1 .. objs[o].size, v \in Values :
        Usable(objs[o]) /\ (size_at(o, i, v) \/ stride_at(o, i, v))
  BY <1>0
<1>2. /\ o \in Objects
      /\ ~fails => o \in DOMAIN held /\ i \in 1 .. Len(held[o].sizes)
  BY HeldValues DEF IInv, Inv
<1>3. CASE size_at(o, i, v)
  <2> DEFINE a == [sizes   |-> [Sizes(objs[o], heap) EXCEPT ![i] = v],
                   strides |-> Strides(objs[o], heap)]
  <2>1. PICK r : Becomes(o, r) /\ Contents(r, heap') = a
    BY <1>1, <1>3, SizeAtIs
  <2>2. ~fails => a = [held[o] EXCEPT !.sizes[i] = v]
    BY HeldValues, WrittenField DEF Contents
  <2> HIDE DEF a
  <2>3. IInv' /\ (~fails => held' = Abstract!With(o, a))
    BY <1>2, <2>1, SetStep
  <2>4. ~fails => Abstract!WriteSize(o, i, v)
    BY <2>2, <2>3 DEF held, Abstract!WriteSize
  <2> QED BY <1>2, <2>3, <2>4 DEF Simulates, Abstract!Next, held
<1>4. CASE stride_at(o, i, v)
  <2> DEFINE a == [sizes   |-> Sizes(objs[o], heap),
                   strides |-> [Strides(objs[o], heap) EXCEPT ![i] = v]]
  <2>1. PICK r : Becomes(o, r) /\ Contents(r, heap') = a
    BY <1>1, <1>4, StrideAtIs
  <2>2. ~fails => a = [held[o] EXCEPT !.strides[i] = v]
    BY HeldValues, WrittenField DEF Contents
  <2> HIDE DEF a
  <2>3. IInv' /\ (~fails => held' = Abstract!With(o, a))
    BY <1>2, <2>1, SetStep
  <2>4. ~fails => Abstract!WriteStride(o, i, v)
    BY <2>2, <2>3 DEF held, Abstract!WriteStride
  <2> QED BY <1>2, <2>3, <2>4 DEF Simulates, Abstract!Next, held
<1> QED BY <1>1, <1>3, <1>4

(* Every step keeps the invariant, and without allocation failures it is a *)
(* step of DimArrays.                                                      *)
LEMMA NextStep == IInv /\ [Next]_vars => IInv' /\ fails' = fails /\ (~fails => [Abstract!Next]_held)
<1> SUFFICES ASSUME IInv, [Next]_vars
             PROVE  IInv' /\ fails' = fails /\ (~fails => [Abstract!Next]_held)
  OBVIOUS
<1>1. CASE Next
  <2>1. UNCHANGED fails
    BY <1>1 DEF Next
  <2>2. Creates \/ Assigns \/ Resizing \/ Writing
    BY <1>1 DEF Next, Operation, Creates, Assigns, Resizing, Writing
  <2>3. Simulates
    BY <2>1, <2>2, CreatesStep, AssignsStep, ResizingStep, WritingStep
  <2> QED BY <2>1, <2>3 DEF Simulates
<1>2. CASE UNCHANGED vars
  <2>1. objs' = objs /\ heap' = heap /\ fails' = fails
    BY <1>2 DEF vars
  <2>2. IInv'
    BY <2>1 DEF IInv, Inv, Good, Fresh
  <2>3. Held(objs, heap)' = Held(objs, heap)
    BY <2>1
  <2>4. ~fails => held' = held
    BY <2>1, <2>2, <2>3, HeldIs, HeldNext
  <2> QED BY <2>1, <2>2, <2>4
<1> QED BY <1>1, <1>2

LEMMA SpecIInv == Spec => []IInv
<1>1. IInv /\ [Next]_vars => IInv'
  BY NextStep
<1> QED BY <1>1, InitInv, PTL DEF Spec

(* Type correctness: a container that may be read holds as many sizes and  *)
(* strides as its size says, all of them values: no garbage, no pointer.   *)
THEOREM SizesTyping == Spec => []TypeOK
<1>1. IInv => TypeOK
  <2> SUFFICES ASSUME IInv PROVE TypeOK
    OBVIOUS
  <2>1. ASSUME NEW o \in DOMAIN objs
        PROVE  /\ objs[o].size \in Ranks /\ objs[o].cells \in [1 .. 2 * M -> Cells]
               /\ Readable(o) => Arrays(objs[o]) \in [sizes : Seq(Values), strides : Seq(Values)]
    <3>1. Good(objs[o], heap, fails) /\ objs[o] \in Member /\ fails \in BOOLEAN /\ objs[o].size \in Nat
      BY Pointer DEF IInv, Inv, Good
    <3>2. ASSUME Readable(o)
          PROVE  Arrays(objs[o]) \in [sizes : Seq(Values), strides : Seq(Values)]
      <4>1. /\ Arrays(objs[o]) = [sizes |-> Sizes(objs[o], heap), strides |-> Strides(objs[o], heap)]
            /\ Sizes(objs[o], heap) \in [1 .. objs[o].size -> Values]
            /\ Strides(objs[o], heap) \in [1 .. objs[o].size -> Values]
        BY <3>1, <3>2, ArraysAre DEF Readable
      <4>2. Sizes(objs[o], heap) \in Seq(Values) /\ Strides(objs[o], heap) \in Seq(Values)
        BY <3>1, <4>1
      <4> QED BY <4>1, <4>2
    <3> QED BY <3>1, <3>2 DEF Member
  <2> QED BY <2>1 DEF TypeOK, IInv, Inv
<1> QED BY <1>1, SpecIInv, PTL

(* Whatever allocations fail, a container's pointer is null or to a live   *)
(* block that no other container points to: the destructor, operator= and  *)
(* resize never free a block twice, nor one that another container reads.  *)
THEOREM SizesNoDangling == Spec => []NoDangling
<1>1. IInv => NoDangling
  <2> SUFFICES ASSUME IInv PROVE NoDangling
    OBVIOUS
  <2>1. ASSUME NEW o \in DOMAIN objs PROVE Owned(objs[o]) \ {nullptr} \subseteq DOMAIN heap
    <3>1. Good(objs[o], heap, fails) /\ objs[o] \in Member
      BY DEF IInv, Inv, Good
    <3> QED BY <3>1, Pointer DEF Good
  <2> QED BY <2>1 DEF NoDangling, IInv, Inv
<1> QED BY <1>1, SpecIInv, PTL

(* Where no allocation fails, every container past MAX_INLINE_SIZE owns a  *)
(* block of exactly its sizes and strides, and no block is leaked.         *)
THEOREM SizesOwned == Spec => []OwnedUnlessFailing
<1>1. IInv => OwnedUnlessFailing
  <2> SUFFICES ASSUME IInv, ~fails PROVE StorageOwned
    BY DEF OwnedUnlessFailing
  <2>1. ASSUME NEW o \in DOMAIN objs
        PROVE  /\ Owned(objs[o]) \subseteq DOMAIN heap
               /\ nullptr \notin Owned(objs[o])
               /\ ~isInline(objs[o]) =>
                    /\ outOfLineStorage(objs[o]) \in DOMAIN heap
                    /\ Len(heap[outOfLineStorage(objs[o])]) = storageBytes(objs[o].size)
    <3>1. Good(objs[o], heap, fails) /\ objs[o] \in Member /\ objs[o].size \in Nat
      BY Pointer DEF IInv, Inv, Good
    <3>2. CASE isInline(objs[o])
      BY <3>1, <3>2, Pointer
    <3>3. CASE ~isInline(objs[o])
      <4>1. /\ outOfLineStorage(objs[o]) \in DOMAIN heap /\ Owned(objs[o]) = {outOfLineStorage(objs[o])}
            /\ heap[outOfLineStorage(objs[o])] \in [1 .. storageBytes(objs[o].size) -> Values]
        BY <3>1, <3>3, Pointer DEF Good
      <4>2. outOfLineStorage(objs[o]) # nullptr
        BY <4>1, Constants DEF IInv, Inv
      <4>3. storageBytes(objs[o].size) \in Nat
        BY <3>1 DEF storageBytes
      <4>4. Len(heap[outOfLineStorage(objs[o])]) = storageBytes(objs[o].size)
        BY <4>1, <4>3
      <4> QED BY <4>1, <4>2, <4>4
    <3> QED BY <3>2, <3>3
  <2>2. \A o, x \in DOMAIN objs : o # x => Owned(objs[o]) \cap Owned(objs[x]) = {}
    BY <2>1 DEF IInv, Inv
  <2>3. DOMAIN heap = UNION {Owned(objs[o]) : o \in DOMAIN objs}
    <3>1. \A b \in DOMAIN heap : \E o \in DOMAIN objs : b \in Owned(objs[o])
      BY DEF IInv, Inv
    <3> QED BY <2>1, <3>1
  <2> QED BY <2>1, <2>2, <2>3 DEF StorageOwned
<1> QED BY <1>1, SpecIInv, PTL

(* sizes_and_strides is a value: through every constructor, assignment,    *)
(* resize and store, across the inline/outline boundary, the two arrays    *)
(* are those of DimArrays as long as no allocation fails.                  *)
THEOREM SizesRefinement == Spec => ImplementsArrays
<1>1. Init => Abstract!Init
  <2> SUFFICES ASSUME Init PROVE Abstract!Init
    OBVIOUS
  <2>1. {x \in DOMAIN objs : ~fails} = {}
    BY DEF Init
  <2> QED BY <2>1 DEF Abstract!Init
<1>2. IInv /\ [Next]_vars => [Abstract!Next]_held
  <2> SUFFICES ASSUME IInv, [Next]_vars PROVE [Abstract!Next]_held
    OBVIOUS
  <2>1. CASE ~fails
    BY <2>1, NextStep
  <2>2. CASE fails
    <3>1. fails' = fails
      BY NextStep
    <3>2. held = [o \in {} |-> Arrays(objs[o])] /\ held' = [o \in {} |-> Arrays(objs[o])]
      BY <2>2, <3>1 DEF held
    <3> QED BY <3>2
  <2> QED BY <2>1, <2>2
<1>3. IInv /\ [Next]_vars =>
        [Abstract!Next]_[o \in {x \in DOMAIN objs : ~fails} |-> Arrays(objs[o])]
  BY <1>2 DEF held
<1> QED BY <1>1, <1>3, SpecIInv, PTL DEF Spec, ImplementsArrays, Abstract!Spec
=============================================================================
