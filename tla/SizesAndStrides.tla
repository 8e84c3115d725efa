--------------------------- MODULE SizesAndStrides ---------------------------
(***************************************************************************)
(* sizes_and_strides: the packed container of a tensor's dimensions        *)
(* (include/terminals/sizes_and_strides.h, src/terminals/                  *)
(* sizes_and_strides.cpp).  An object is a size_ and a union: 2 * M cells  *)
(* of inline sizes and strides, whose first cell holds outOfLineStorage_   *)
(* once size_ exceeds M (MAX_INLINE_SIZE).  The heap maps live malloc      *)
(* blocks to their cells.                                                  *)
(***************************************************************************)
EXTENDS Naturals, Sequences, FiniteSets

CONSTANTS Objects,    \* container objects
          Values,     \* int64 sizes and strides
          Blocks,     \* addresses malloc can return
          Garbage,    \* an uninitialised cell
          M,          \* MAX_INLINE_SIZE
          MaxRank,    \* bound: largest number of dimensions
          Lists,      \* bound: arguments given to set_sizes and set_strides
          Failing     \* whether malloc and realloc may return nullptr: the cases

ASSUME MAssumption == M \in Nat \ {0} /\ MaxRank \in Nat \ {0}
ASSUME ValuesAssumption == {0, 1} \subseteq Values /\ Values \subseteq Nat
ASSUME BlocksAssumption == Blocks \cap Nat = {} /\ Garbage \notin Blocks \cup Values
ASSUME ListsAssumption == \A q \in Lists : Len(q) <= MaxRank /\ q \in Seq(Values)
ASSUME FailingAssumption == Failing \subseteq BOOLEAN

nullptr == 0          \* the bit pattern of the union's first cell
Cells == Values \cup Blocks \cup {Garbage}
Ranks == 0 .. MaxRank

VARIABLES
  objs,   \* the live containers: [size, cells]
  heap,   \* the live blocks: sequences of cells
  fails   \* may allocations fail in this run of the program?
vars == <<objs, heap, fails>>

Init ==
  /\ objs = [o \in {} |-> [size |-> 0, cells |-> <<>>]]
  /\ heap = [b \in {} |-> <<>>]
  /\ fails \in Failing
----------------------------------------------------------------------------
(* Memory: memcpy/memmove, memset, malloc, realloc and free. *)
Set(f, x, v) == [y \in DOMAIN f \cup {x} |-> IF y = x THEN v ELSE f[y]]
Drop(f, x) == [y \in DOMAIN f \ {x} |-> f[y]]

\* n cells of src from offset `from` on, moved to offset `at` of dst.
memmove(dst, at, src, from, n) ==
  [k \in DOMAIN dst |-> IF at < k /\ k <= at + n THEN src[k - at + from] ELSE dst[k]]
memset(dst, at, n) == [k \in DOMAIN dst |-> IF at < k /\ k <= at + n THEN 0 ELSE dst[k]]

Uninit(n) == [k \in 1 .. n |-> Garbage]
\* realloc keeps the common prefix; realloc(nullptr, n) is malloc(n).
Realloc(q, n) == [k \in 1 .. n |-> IF k <= Len(q) THEN q[k] ELSE Garbage]
free(h, p) == Drop(h, p)
Fresh(h) == Blocks \ DOMAIN h

isInline(r) == r.size <= M
outOfLineStorage(r) == r.cells[1]
WithPointer(r, p) == [r EXCEPT !.cells[1] = p]
storageBytes(n) == 2 * n
Owned(r) == IF isInline(r) THEN {} ELSE {outOfLineStorage(r)}
\* What the block of an outline container holds; nothing behind nullptr.
Outline(r) == IF outOfLineStorage(r) = nullptr THEN <<>> ELSE heap[outOfLineStorage(r)]
\* After a failed realloc the pointer is null: its arrays may not be read.
Readable(o) == isInline(objs[o]) \/ outOfLineStorage(objs[o]) # nullptr

sizes_data(r) == IF isInline(r) THEN r.cells ELSE Outline(r)
strides_data(r) ==
  IF isInline(r) THEN SubSeq(r.cells, M + 1, 2 * M)
  ELSE SubSeq(Outline(r), r.size + 1, storageBytes(r.size))
Arrays(r) == [sizes   |-> SubSeq(sizes_data(r), 1, r.size),
              strides |-> SubSeq(strides_data(r), 1, r.size)]
----------------------------------------------------------------------------
DefaultConstruct(o) ==
  /\ objs' = Set(objs, o, [size |-> 1, cells |-> [k \in 1 .. 2 * M |-> IF k = M + 1 THEN 1 ELSE 0]])
  /\ UNCHANGED heap

\* Mutant: the destructor forgets the outline block.
LeakOnDestroy(o) == objs' = Drop(objs, o) /\ UNCHANGED heap

Destroy(o) ==
  /\ objs' = Drop(objs, o)
  /\ heap' = IF isInline(objs[o]) THEN heap ELSE free(heap, outOfLineStorage(objs[o]))

\* The members of a container under construction: inlineStorage_{} is zeroed.
Blank(n) == [size |-> n, cells |-> [k \in 1 .. 2 * M |-> 0]]

\* A constructor that fails to allocate throws: there is no object, no block.
CopyConstruct(o, rhs) ==
  LET r == objs[rhs]
  IN  \/ isInline(r) /\ objs' = Set(objs, o, r) /\ UNCHANGED heap
      \/ /\ ~isInline(r)
         /\ \E b \in Fresh(heap) :
              /\ heap' = Set(heap, b, Outline(r))
              /\ objs' = Set(objs, o, WithPointer(Blank(r.size), b))

MoveConstruct(o, rhs) ==
  LET r == objs[rhs]
      new == IF isInline(r) THEN r ELSE WithPointer(Blank(r.size), outOfLineStorage(r))
      old == [(IF isInline(r) THEN r ELSE WithPointer(r, nullptr)) EXCEPT !.size = 0]
  IN  objs' = Set(Set(objs, o, new), rhs, old) /\ UNCHANGED heap

\* operator=(const&): a failed allocation has already overwritten the pointer,
\* which for an inline container is its first size.
CopyAssign(o, rhs) ==
  LET l == objs[o]
      r == objs[rhs]
      p == outOfLineStorage(l)
  IN  \/ /\ isInline(r)
         /\ heap' = IF isInline(l) THEN heap ELSE free(heap, p)
         /\ objs' = [objs EXCEPT ![o] = r]
      \/ /\ ~isInline(r)
         /\ \E b \in IF isInline(l) THEN Fresh(heap) ELSE Fresh(heap) \cup ({p} \ {nullptr}) :
              /\ heap' = Set(IF isInline(l) THEN heap ELSE free(heap, p), b, Outline(r))
              /\ objs' = [objs EXCEPT ![o] = [WithPointer(l, b) EXCEPT !.size = r.size]]
      \/ /\ ~isInline(r) /\ fails
         /\ objs' = [objs EXCEPT ![o] = WithPointer(l, nullptr)]
         /\ UNCHANGED heap

\* Mutant: the move leaves the stolen pointer and size in rhs.
MoveAssignKeepsRhs(o, rhs) ==
  /\ heap' = IF isInline(objs[o]) THEN heap ELSE free(heap, outOfLineStorage(objs[o]))
  /\ objs' = [objs EXCEPT ![o] = objs[rhs]]

MoveAssign(o, rhs) ==
  LET l == objs[o]
      r == objs[rhs]
      new == IF isInline(r) THEN r.cells ELSE WithPointer(l, outOfLineStorage(r)).cells
      old == IF isInline(r) THEN r ELSE WithPointer(r, nullptr)
  IN  /\ heap' = IF isInline(l) THEN heap ELSE free(heap, outOfLineStorage(l))
      /\ objs' = [objs EXCEPT ![o] = [size |-> r.size, cells |-> new],
                              ![rhs] = [old EXCEPT !.size = 0]]
----------------------------------------------------------------------------
(* resize: the container r may come out of it as one of a set of outcomes, *)
(* each the new members, the new heap and whether the CHECK after malloc   *)
(* or realloc passed.                                                      *)
Out(size, cells, h, ok) == [obj |-> [size |-> size, cells |-> cells], heap |-> h, ok |-> ok]
PointTo(r, b) == WithPointer(r, b).cells
Failure(outcome) == IF fails THEN {outcome} ELSE {}

\* Both sizes inline.
ResizeInline(r, n) ==
  LET grown == memset(memset(r.cells, r.size, n - r.size), M + r.size, n - r.size)
  IN  {Out(n, IF r.size < n THEN grown ELSE r.cells, heap, TRUE)}

\* resizeSlowPath, outline to inline: M strides are read from the old start.
ResizeToInline(r, n) ==
  LET t == Outline(r)
  IN  {Out(n, memmove(memmove(r.cells, 0, t, 0, M), M, t, r.size, M),
           free(heap, outOfLineStorage(r)), TRUE)}

\* resizeSlowPath, inline to outline; a failed malloc changes nothing.
ResizeToOutline(r, n) ==
  LET sizes == memset(memmove(Uninit(storageBytes(n)), 0, r.cells, 0, r.size), r.size, n - r.size)
      both == memset(memmove(sizes, n, r.cells, M, r.size), n + r.size, n - r.size)
  IN  {Out(n, PointTo(r, b), Set(heap, b, both), TRUE) : b \in Fresh(heap)}
      \cup Failure(Out(r.size, r.cells, heap, FALSE))

\* Mutant: the block is cut before the strides are shifted into it.
ShrinkFirst(r, n) ==
  LET t == Realloc(Realloc(Outline(r), storageBytes(n)), storageBytes(r.size))
  IN  {Out(n, r.cells, Set(heap, outOfLineStorage(r),
                           Realloc(memmove(t, n, t, r.size, n), storageBytes(n))), TRUE)}

\* resizeSlowPath, outline to a smaller outline: shift the strides, then
\* realloc; a failed realloc leaves the old block behind and a null pointer.
ResizeShrink(r, n) ==
  LET p == outOfLineStorage(r)
      shifted == memmove(Outline(r), n, Outline(r), r.size, n)
  IN  {Out(n, PointTo(r, b), Set(free(heap, p), b, Realloc(shifted, storageBytes(n))), TRUE)
         : b \in Fresh(heap) \cup {p}}
      \cup Failure(Out(r.size, PointTo(r, nullptr), [heap EXCEPT ![p] = shifted], FALSE))

\* Mutant: the new sizes are zeroed, the new strides are not.
GrowStridesUnset(r, n) ==
  LET p == outOfLineStorage(r)
      bigger == Realloc(Outline(r), storageBytes(n))
      shifted == memmove(bigger, n, bigger, r.size, r.size)
  IN  {Out(n, PointTo(r, b), Set(free(heap, p), b, memset(shifted, r.size, n - r.size)), TRUE)
         : b \in Fresh(heap) \cup {p}}

\* resizeSlowPath, outline to a larger outline: realloc, shift the strides,
\* zero the new end of both arrays.
ResizeGrow(r, n) ==
  LET p == outOfLineStorage(r)
      bigger == Realloc(Outline(r), storageBytes(n))
      shifted == memmove(bigger, n, bigger, r.size, r.size)
      zeroed == memset(memset(shifted, r.size, n - r.size), n + r.size, n - r.size)
  IN  {Out(n, PointTo(r, b), Set(free(heap, p), b, zeroed), TRUE) : b \in Fresh(heap) \cup {p}}
      \cup Failure(Out(r.size, PointTo(r, nullptr), heap, FALSE))

\* resize, and the cases of resizeSlowPath.
Resized(r, n) ==
  IF n = r.size THEN {Out(r.size, r.cells, heap, TRUE)}
  ELSE IF n <= M THEN (IF isInline(r) THEN ResizeInline(r, n) ELSE ResizeToInline(r, n))
  ELSE IF isInline(r) THEN ResizeToOutline(r, n)
  ELSE IF n < r.size THEN ResizeShrink(r, n) ELSE ResizeGrow(r, n)

\* A store of the values q through sizes_data() or strides_data(), at
\* offset `at` of the storage, after the outcome w.
Store(w, at, q) ==
  IF isInline(w.obj)
  THEN [w EXCEPT !.obj.cells = memmove(@, at, q, 0, Len(q))]
  ELSE [w EXCEPT !.heap[outOfLineStorage(w.obj)] = memmove(@, at, q, 0, Len(q))]
StridesOffset(r) == IF isInline(r) THEN M ELSE r.size

Become(o, w) == objs' = [objs EXCEPT ![o] = w.obj] /\ heap' = w.heap
Now(o) == Out(objs[o].size, objs[o].cells, heap, TRUE)

resize(o, n) == \E w \in Resized(objs[o], n) : Become(o, w)
set_sizes(o, q) ==
  \E w \in Resized(objs[o], Len(q)) : Become(o, IF w.ok THEN Store(w, 0, q) ELSE w)
set_strides(o, q) ==
  /\ Len(q) = objs[o].size
  /\ Become(o, Store(Now(o), StridesOffset(objs[o]), q))
\* size_at and stride_at hand out references; their callers assign to them.
size_at(o, i, v) == Become(o, Store(Now(o), i - 1, <<v>>))
stride_at(o, i, v) == Become(o, Store(Now(o), StridesOffset(objs[o]) + i - 1, <<v>>))

Operation ==
  \/ \E o \in Objects \ DOMAIN objs :
       \/ DefaultConstruct(o)
       \/ \E rhs \in DOMAIN objs :
            (Readable(rhs) /\ CopyConstruct(o, rhs)) \/ MoveConstruct(o, rhs)
  \/ \E o \in DOMAIN objs :
       \/ Destroy(o)
       \/ \E rhs \in DOMAIN objs \ {o} :
            (Readable(rhs) /\ CopyAssign(o, rhs)) \/ MoveAssign(o, rhs)
       \/ Readable(o) /\ \E n \in Ranks : resize(o, n)
       \/ Readable(o) /\ \E q \in Lists : set_sizes(o, q) \/ set_strides(o, q)
       \/ Readable(o) /\ \E i \in 1 .. objs[o].size, v \in Values :
            size_at(o, i, v) \/ stride_at(o, i, v)

Next == Operation /\ UNCHANGED fails

Spec == Init /\ [][Next]_vars
----------------------------------------------------------------------------
(* Sizes and strides are values: none is an uninitialised cell of a block, *)
(* or the pointer of the union.                                            *)
TypeOK ==
  /\ DOMAIN objs \subseteq Objects
  /\ \A o \in DOMAIN objs :
       /\ objs[o].size \in Ranks /\ objs[o].cells \in [1 .. 2 * M -> Cells]
       /\ Readable(o) => Arrays(objs[o]) \in [sizes : Seq(Values), strides : Seq(Values)]
  /\ DOMAIN heap \subseteq Blocks
  /\ \A b \in DOMAIN heap : heap[b] \in Seq(Cells)

(* The class comment's layout, "inline sizes and inline strides, OR        *)
(* pointer to out-of-line array": every container past M dimensions has a  *)
(* block of its own, of exactly its sizes and strides, and every live      *)
(* block belongs to a container (no leak, no sharing, so no double free).  *)
StorageOwned ==
  /\ \A o \in DOMAIN objs : ~isInline(objs[o]) =>
       /\ outOfLineStorage(objs[o]) \in DOMAIN heap
       /\ Len(heap[outOfLineStorage(objs[o])]) = storageBytes(objs[o].size)
  /\ \A o, x \in DOMAIN objs :
       o # x => Owned(objs[o]) \cap Owned(objs[x]) = {}
  /\ DOMAIN heap = UNION {Owned(objs[o]) : o \in DOMAIN objs}

(* Even when allocation fails, no container is left with a pointer to a    *)
(* block that was freed, or to one that another container frees too: the   *)
(* destructor, which frees without a test, frees a live block once.        *)
NoDangling ==
  /\ \A o \in DOMAIN objs : Owned(objs[o]) \ {nullptr} \subseteq DOMAIN heap
  /\ \A o, x \in DOMAIN objs :
       o # x => Owned(objs[o]) \cap Owned(objs[x]) \subseteq {nullptr}

(* That layout holds as long as no allocation can fail. *)
OwnedUnlessFailing == fails \/ StorageOwned

(* Without allocation failures the container is a value: every operation,  *)
(* across the inline/outline boundary, does to the two arrays what         *)
(* DimArrays says, and no uninitialised or stale cell ever becomes a size  *)
(* or a stride.                                                            *)
Abstract == INSTANCE DimArrays WITH
  arrays <- [o \in {x \in DOMAIN objs : ~fails} |-> Arrays(objs[o])]
ImplementsArrays == Abstract!Spec
=============================================================================
