------------------------------ MODULE NdArrays ------------------------------
(***************************************************************************)
(* What tensors and their views promise, with no stride in sight: an array *)
(* is a shape and, in C order, the memory cell of each element.  Views     *)
(* rearrange the cells of another array, copies are made of fresh cells,   *)
(* and a write changes cells, in every array that shares them.             *)
(***************************************************************************)
EXTENDS StridedLayout

CONSTANTS Owners, Views,  \* handles of owning tensors and of views
          Storages,       \* allocations
          Buffer,         \* memory of the caller's, which views may borrow
          BufferSize,     \* its elements
          Shapes,         \* shapes to construct, view, reshape and expand to
          Indices, Steps  \* slice bounds and steps

VARIABLES arrays,   \* live handle -> [shape, cells]
          contents  \* allocation with a reachable cell -> its values

MovedFrom == [shape |-> <<>>, cells |-> <<>>]
Numbered(n) == [k \in 1 .. n |-> k]
FreshCells(s, shape) == [shape |-> shape, cells |-> [k \in 1 .. Product(shape) |-> <<s, k>>]]
Put(f, x, v) == [y \in DOMAIN f \cup {x} |-> IF y = x THEN v ELSE f[y]]

\* The allocations whose cells some array has, and the buffer.
Reached(as) == {Buffer} \cup {as[h].cells[1][1] : h \in {g \in DOMAIN as : as[g].cells # <<>>}}
State(as, memory) ==
  [arrays |-> as, contents |-> [s \in Reached(as) \cap DOMAIN memory |-> memory[s]]]
----------------------------------------------------------------------------
(* The rearrangements.                                                     *)
Rearranged(a, shape, from(_)) ==
  LET strides == PackedStrides(a.shape)
  IN  [shape |-> shape,
       cells |-> [i \in 1 .. Product(shape) |-> a.cells[Dot(from(Coord(shape, i - 1)), strides) + 1]]]

Orders(n) == {p \in [1 .. n -> 1 .. n] : IsInjective(p)}
Permuted(a, order) ==
  Rearranged(a, [d \in DOMAIN order |-> a.shape[order[d]]],
             LAMBDA c : [e \in DOMAIN order |-> c[CHOOSE d \in DOMAIN order : order[d] = e]])

\* Python's a[start:stop:step] along dimension d: the indices it keeps of the
\* size many, and the array of the elements there.
SliceIndices(size, start, stop, step) ==
  LET from == IF start >= 0 THEN start ELSE IF start + size >= 0 THEN start + size ELSE 0
      to == IF stop >= 0 THEN stop ELSE stop + size
  IN  SelectSeq([k \in 1 .. size |-> k - 1],
                LAMBDA k : k >= from /\ k < to /\ (k - from) % step = 0)
Slices(size) == {SliceIndices(size, i, j, k) : i \in Indices, j \in Indices, k \in Steps}
Sliced(a, d, kept) ==
  Rearranged(a, [a.shape EXCEPT ![d] = Len(kept)], LAMBDA c : [c EXCEPT ![d] = kept[@ + 1]])

Broadcastable(a, shape) ==
  LET lead == Len(shape) - Len(a.shape)
  IN  lead >= 0 /\ \A d \in DOMAIN a.shape : a.shape[d] \in {1, shape[d + lead]}
Broadcast(a, shape) ==
  LET lead == Len(shape) - Len(a.shape)
  IN  Rearranged(a, shape,
                 LAMBDA c : [d \in DOMAIN a.shape |-> IF a.shape[d] = 1 THEN 0 ELSE c[d + lead]])

\* Shapes that differ by dimensions of size 1, and others as large.
OtherShapes(a) ==
  {SelectSeq(a.shape, LAMBDA n : n # 1)}
    \cup {RemoveAt(a.shape, d) : d \in {e \in DOMAIN a.shape : a.shape[e] = 1}}
    \cup {InsertAt(a.shape, d, 1) : d \in 1 .. Len(a.shape) + 1}
    \cup {s \in Shapes : Product(s) = Len(a.cells)}

Rearranges(a, b) ==
  \/ b = a
  \/ b.cells = a.cells /\ b.shape \in OtherShapes(a)
  \/ Len(b.shape) = Len(a.shape) /\ \E p \in Orders(Len(a.shape)) : b = Permuted(a, p)
  \/ b.shape \in Shapes /\ Broadcastable(a, b.shape) /\ b = Broadcast(a, b.shape)
  \/ /\ Len(b.shape) = Len(a.shape)
     /\ \E d \in DOMAIN a.shape :
          \E kept \in {k \in Slices(a.shape[d]) : Len(k) = b.shape[d]} : b = Sliced(a, d, kept)
----------------------------------------------------------------------------
(* The steps, as relations between the state s and the state t after it.   *)
Values(s, a) == [k \in DOMAIN a.cells |-> s.contents[a.cells[k][1]][a.cells[k][2]]]
Fresh(s) == Storages \ DOMAIN s.contents
Usable(s) == {h \in DOMAIN s.arrays : s.arrays[h] # MovedFrom}

\* Handle h has cells of its own in a new allocation, with these values.
Own(s, t, h, shape, values) ==
  \E new \in Fresh(s) :
    t = State(Put(s.arrays, h, FreshCells(new, shape)), Put(s.contents, new, values))

New(s, t, o) == \E shape \in Shapes : Own(s, t, o, shape, Numbered(Product(shape)))

\* A copy, in the shape of the array or in another.
Copy(s, t, h, x) ==
  \E shape \in {s.arrays[x].shape} \cup Shapes :
    /\ Product(shape) = Len(s.arrays[x].cells)
    /\ Own(s, t, h, shape, Values(s, s.arrays[x]))

Move(s, t, h, x) == t = State(Put(Put(s.arrays, h, s.arrays[x]), x, MovedFrom), s.contents)

View(s, t, v, x) ==
  /\ v \in DOMAIN t.arrays /\ t = State(Put(s.arrays, v, t.arrays[v]), s.contents)
  /\ Rearranges(s.arrays[x], t.arrays[v])

\* Any cells of the caller's memory, in any order, repeated or not.
Borrow(s, t, v) ==
  /\ v \in DOMAIN t.arrays /\ t = State(Put(s.arrays, v, t.arrays[v]), s.contents)
  /\ \A k \in DOMAIN t.arrays[v].cells : t.arrays[v].cells[k] \in {Buffer} \X (1 .. BufferSize)

Write(s, t, h, values) ==
  LET cells == s.arrays[h].cells
  IN  /\ IsInjective(cells)
      /\ t = [s EXCEPT !.contents = [m \in DOMAIN @ |-> [k \in DOMAIN @[m] |->
                LET at == {i \in DOMAIN cells : cells[i] = <<m, k>>}
                IN  IF at = {} THEN @[m][k] ELSE values[CHOOSE i \in at : TRUE]]]]
Assign(s, t, h, x) ==
  s.arrays[x].shape = s.arrays[h].shape /\ Write(s, t, h, Values(s, s.arrays[x]))
Fill(s, t, h) == Write(s, t, h, [k \in DOMAIN s.arrays[h].cells |-> 0])

Destroy(s, t, h) == t = State([x \in DOMAIN s.arrays \ {h} |-> s.arrays[x]], s.contents)

Step(s, t) ==
  /\ s # t
  /\ \/ \E o \in Owners : New(s, t, o) \/ (\E x \in Usable(s) \ {o} : Copy(s, t, o, x))
     \/ \E v \in Views, x \in Usable(s) : View(s, t, v, x) \/ Copy(s, t, v, x)
     \/ \E v \in Views : Borrow(s, t, v)
     \/ \E h \in Owners \cup Views : \E x \in Usable(s) \ {h} : Move(s, t, h, x)
     \/ \E h \in DOMAIN s.arrays :
          Fill(s, t, h) \/ Destroy(s, t, h) \/ \E x \in DOMAIN s.arrays : Assign(s, t, h, x)

Init ==
  /\ arrays = [h \in {} |-> MovedFrom]
  /\ contents = [s \in {Buffer} |-> Numbered(BufferSize)]
Next ==
  \E s \in {[arrays |-> arrays, contents |-> contents]},
     t \in {[arrays |-> arrays', contents |-> contents']} : Step(s, t)

Spec == Init /\ [][Next]_<<arrays, contents>>
=============================================================================
