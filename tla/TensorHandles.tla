---------------------------- MODULE TensorHandles ----------------------------
(***************************************************************************)
(* Tensors, their views and the storage they retain (include/terminals/    *)
(* tensor.h): construction, copies, moves, the metadata-only views, and    *)
(* elementwise writes, on the CPU.  A storage is its address, and elements *)
(* are one unit of memory; a handle retains its storage until it dies.     *)
(***************************************************************************)
EXTENDS Overlap

CONSTANTS Owners, Views,  \* names of tensor and of tensor_view objects
          Storages,       \* addresses the allocator can return
          Buffer,         \* address of memory of the caller's
          BufferSize,     \* its elements
          Shapes,         \* dimensions to construct, view, reshape and expand to
          Explicit,       \* [offset, sizes, strides] to borrow the buffer with
          Indices, Steps, \* slice bounds and steps
          MaxRank,        \* bound: dimensions of a view
          MaxStride,      \* bound: strides, which size-1 dimensions can double
          MaxCopies,      \* bound: calls that copy or write elements
          DeriveEmpty,    \* bound: FALSE when no view is made of an empty view
          ReuseMoved      \* TRUE: the program copies objects it moved from

ASSUME HandlesAssumption == Owners \cap Views = {} /\ {DeriveEmpty, ReuseMoved} \subseteq BOOLEAN
ASSUME AddressAssumption ==
  /\ Storages \subseteq Nat \ {0} /\ Buffer \in Nat \ ({0} \cup Storages)
  /\ {BufferSize, MaxRank, MaxStride, MaxCopies} \subseteq Nat
\* Sizes are unsigned; explicit strides and steps are checked where they come in.
ASSUME GeometryAssumption ==
  /\ Shapes \subseteq Seq(Nat) /\ Indices \subseteq Int /\ Steps \subseteq Nat \ {0}
  /\ \A e \in Explicit :
       /\ e.offset \in Nat /\ e.sizes \in Seq(Nat) /\ e.strides \in Seq(Nat)
       /\ Len(e.sizes) = Len(e.strides)

VARIABLES
  handles,  \* live object -> its members, and whether its layout is `derived`
            \* from a packed tensor by operations that keep it writable (ghost)
  memory,   \* live storage -> its values
  copies    \* calls that copied or wrote elements
vars == <<handles, memory, copies>>

Numbered(n) == [k \in 1 .. n |-> k]
Put(f, x, v) == [y \in DOMAIN f \cup {x} |-> IF y = x THEN v ELSE f[y]]
Fresh == Storages \ DOMAIN memory

\* Mutant: storage is freed with its owner, views or not.
FreeWithOwner(hs, m) ==
  /\ handles' = hs
  /\ memory' = [s \in {x \in DOMAIN m : x = Buffer \/ \E h \in DOMAIN hs \cap Owners : hs[h].storage = x} |-> m[s]]

\* The objects become hs; storage that none of them retains is freed.
Become(hs, m) ==
  /\ handles' = hs
  /\ memory' = [s \in {x \in DOMAIN m : x = Buffer \/ \E h \in DOMAIN hs : hs[h].storage = x} |-> m[s]]

\* recompute_cpu_simd_alignment_state; owners do not check for overlap.
recompute(h, l) ==
  [storage |-> l.storage, offset |-> l.offset, sizes |-> l.sizes, strides |-> l.strides,
   derived |-> l.derived, numel |-> numel(l), contiguous |-> Contiguous(l),
   non_overlapping |-> h \in Views => is_non_overlapping(l)]

Packed(s, sizes) ==
  [storage |-> s, offset |-> 0, sizes |-> sizes, strides |-> PackedStrides(sizes), derived |-> TRUE]

Counted == copies < MaxCopies /\ copies' = copies + 1
Bounded(l) == rank(l) <= MaxRank /\ \A d \in 1 .. rank(l) : l.strides[d] <= MaxStride
StorageSize(l) == IF l.storage = nullptr THEN 0 ELSE Len(memory[l.storage])

\* What move_from leaves behind: no dimension, no element, no storage.
MovedFrom ==
  [storage |-> nullptr, offset |-> 0, sizes |-> <<>>, strides |-> <<>>, derived |-> TRUE,
   numel |-> 0, contiguous |-> TRUE, non_overlapping |-> TRUE]
Moved(h) == handles[h].storage = nullptr
Usable == {h \in DOMAIN handles : ReuseMoved \/ ~Moved(h)}

\* Mutant: an extent as large as the storage is accepted.
GeometryOffByOne(l) ==
  \/ numel(l) = 0
  \/ /\ l.storage # nullptr
     /\ \A d \in 1 .. rank(l) : l.strides[d] >= 0
     /\ l.offset + overlap_extent(l) <= StorageSize(l)

\* Every geometry that a retaining view constructor accepts.
check_view_geometry(l) ==
  \/ numel(l) = 0
  \/ /\ l.storage # nullptr
     /\ \A d \in 1 .. rank(l) : l.strides[d] >= 0
     /\ l.offset + overlap_extent(l) < StorageSize(l)
----------------------------------------------------------------------------
(* Reading and writing elements, by logical_offset.                        *)
Cell(l, i) == l.offset + strided_offset(l, l.contiguous, i) + 1

\* gather_logical's odometer over a layout that is not contiguous.
GatherOffsets(l) ==
  LET carry(d, acc) ==
        IF ~acc.carry THEN acc
        ELSE LET up == acc.coord[d] + 1
             IN  IF up < l.sizes[d]
                 THEN [coord |-> [acc.coord EXCEPT ![d] = up], off |-> acc.off + l.strides[d], carry |-> FALSE]
                 ELSE [coord |-> [acc.coord EXCEPT ![d] = 0],
                       off |-> acc.off + l.strides[d] - up * l.strides[d], carry |-> TRUE]
      next(acc, i) ==
        LET step == FoldRight(carry, [d \in 1 .. rank(l) |-> d],
                              [coord |-> acc.coord, off |-> acc.off, carry |-> TRUE])
        IN  [coord |-> step.coord, off |-> step.off, out |-> Append(acc.out, acc.off)]
  IN  FoldLeft(next, [coord |-> [d \in 1 .. rank(l) |-> 0], off |-> 0, out |-> <<>>],
               Numbered(l.numel)).out

\* tiled_transpose_2d, for a transposed packed matrix.
TransposedOffsets(l) ==
  [k \in 1 .. l.numel |-> ((k - 1) % l.sizes[2]) * l.sizes[1] + (k - 1) \div l.sizes[2]]

\* Mutant: any unit outer stride is taken for a transposed packed matrix.
AnyUnitStride(l) == rank(l) = 2 /\ l.strides[1] = 1

IsTranspose(l) == rank(l) = 2 /\ l.strides[1] = 1 /\ l.strides[2] = l.sizes[1]

\* The values clone() puts into its packed storage.
gather_logical(l) ==
  LET offsets == IF l.contiguous THEN [k \in 1 .. l.numel |-> k - 1]
                 ELSE IF IsTranspose(l) THEN TransposedOffsets(l) ELSE GatherOffsets(l)
  IN  [k \in 1 .. l.numel |-> memory[l.storage][l.offset + offsets[k] + 1]]
----------------------------------------------------------------------------
(* The layouts of views.                                                   *)
permute(l, order) ==
  [l EXCEPT !.sizes = [d \in DOMAIN order |-> l.sizes[order[d]]],
            !.strides = [d \in DOMAIN order |-> l.strides[order[d]]]]
Orders(n) == {p \in [1 .. n -> 1 .. n] : IsInjective(p)}

Least(x, y) == IF x < y THEN x ELSE y
clamp(v, size) == LET u == IF v < 0 THEN v + size ELSE v IN IF u < 0 THEN 0 ELSE Least(u, size)

slice_size(first, last, step) == IF last > first THEN (last - first + step - 1) \div step ELSE 0

\* A missing start or stop is 0 or the size.
slice(l, d, start, stop, step) ==
  LET first == clamp(start, l.sizes[d])
      last == clamp(stop, l.sizes[d])
      moved == l.offset + first * l.strides[d]
  IN  [l EXCEPT !.sizes[d] = slice_size(first, last, step),
                !.strides[d] = @ * step,
                !.offset = IF moved < StorageSize(l) THEN moved ELSE @]

expandable(l, dims) ==
  LET lead == Len(dims) - rank(l)
  IN  lead >= 0 /\ \A d \in 1 .. rank(l) : l.sizes[d] \in {1, dims[d + lead]}
expand(l, dims) ==
  LET lead == Len(dims) - rank(l)
  IN  [l EXCEPT !.sizes = dims,
                !.strides = [d \in 1 .. Len(dims) |->
                  IF d <= lead THEN 0 ELSE IF l.sizes[d - lead] = dims[d] THEN l.strides[d - lead] ELSE 0],
                !.derived = FALSE]

\* The dimensions of a set, in their order.
Ascending(dims, n) ==
  LET upTo[d \in 0 .. n] ==
        IF d = 0 THEN <<>> ELSE IF d \in dims THEN Append(upTo[d - 1], d) ELSE upTo[d - 1]
  IN  upTo[n]
Kept(l, dims) == permute(l, Ascending(dims, rank(l)))
squeeze(l) == Kept(l, {d \in 1 .. rank(l) : l.sizes[d] # 1})
squeeze_dim(l, dim) == IF l.sizes[dim] # 1 THEN l ELSE Kept(l, (1 .. rank(l)) \ {dim})

unsqueeze(l, dim) ==
  [l EXCEPT !.sizes = InsertAt(@, dim, 1),
            !.strides = InsertAt(@, dim, IF dim <= rank(l) THEN l.sizes[dim] * l.strides[dim] ELSE 1)]

(* compute_view_strides: old dimensions from the inside out in chunks that *)
(* are contiguous in memory, each covered by consecutive new dimensions.   *)
NoStrides == <<-1>>

\* Mutant: a chunk goes on over any neighbour, adjacent in memory or not.
ChunkNeverEnds(l, k, acc) == k = 1

ChunkEnds(l, k, acc) ==
  k = 1 \/ (l.sizes[k - 1] # 1 /\ l.strides[k - 1] # acc.numel * acc.base)

\* The new dimensions, from the inside, that the chunk covers.
Cover(dims, chunk) ==
  LET from[d \in 1 .. Len(dims) + 1] ==
        IF d > Len(dims) THEN chunk
        ELSE LET c == from[d + 1]
             IN  IF d = c.left /\ (c.view < c.numel \/ dims[d] = 1)
                 THEN [c EXCEPT !.left = d - 1, !.view = @ * dims[d], !.strides = [@ EXCEPT ![d] = c.view * c.base]]
                 ELSE c
  IN  from[1]

\* After old dimension k of a layout with dimensions.
Chunk(l, dims, k, acc) ==
  LET grown == [acc EXCEPT !.numel = @ * l.sizes[k]]
      covered == Cover(dims, grown)
  IN  IF ~acc.ok THEN acc
      ELSE IF ~ChunkEnds(l, k, grown) THEN grown
      ELSE IF covered.view # covered.numel THEN [covered EXCEPT !.ok = FALSE]
      ELSE IF k = 1 THEN covered
      ELSE [covered EXCEPT !.base = l.strides[k - 1], !.numel = 1, !.view = 1]
Chunks(l, dims) ==
  LET from[k \in 1 .. rank(l) + 1] ==
        IF k <= rank(l) THEN Chunk(l, dims, k, from[k + 1])
        ELSE [ok |-> TRUE, left |-> Len(dims), base |-> l.strides[rank(l)],
              numel |-> 1, view |-> 1, strides |-> [d \in 1 .. Len(dims) |-> 0]]
  IN  from[1]

compute_view_strides(l, dims) ==
  LET all == Chunks(l, dims)
  IN  IF l.numel = 0 \/ rank(l) = 0 \/ l.contiguous THEN PackedStrides(dims)
      ELSE IF all.ok /\ all.left = 0 THEN all.strides ELSE NoStrides

SameSize(l) == {dims \in Shapes : Product(dims) = l.numel}
view(l, dims) == [l EXCEPT !.sizes = dims, !.strides = compute_view_strides(l, dims)]

\* Every view that one call makes from a tensor or view (t is a permute).
Derived(l) ==
  {l, squeeze(l)}
    \cup {permute(l, p) : p \in Orders(rank(l))}
    \cup {squeeze_dim(l, d) : d \in 1 .. rank(l)}
    \cup {unsqueeze(l, d) : d \in 1 .. rank(l) + 1}
    \cup {slice(l, d, i, j, k) : d \in 1 .. rank(l), i \in Indices, j \in Indices, k \in Steps}
    \cup {expand(l, dims) : dims \in {s \in Shapes : expandable(l, s)}}
    \cup {view(l, dims) : dims \in {s \in SameSize(l) : compute_view_strides(l, s) # NoStrides}}
----------------------------------------------------------------------------
Init ==
  /\ handles = [h \in {} |-> MovedFrom]
  /\ memory = [s \in {Buffer} |-> Numbered(BufferSize)]
  /\ copies = 0

\* The storage the next allocation returns: the allocator's choice.
Allocation == CHOOSE s \in Fresh : \A t \in Fresh : s <= t

\* h gets packed storage of its own, with these values.
Own(h, sizes, values) ==
  /\ Fresh # {}
  /\ Become(Put(handles, h, recompute(h, Packed(Allocation, sizes))), Put(memory, Allocation, values))

\* A constructor, or operator= from a temporary; the values are the caller's.
Construct(o) == \E dims \in Shapes : Own(o, dims, Numbered(Product(dims))) /\ UNCHANGED copies

\* Mutant: a copy shares the source's storage.
ShallowCopy(o, x) == Counted /\ Become(Put(handles, o, handles[x]), memory)

\* Copy construction and assignment of owners: clone, then move_from.
CopyOwner(o, x) == Counted /\ Own(o, handles[x].sizes, gather_logical(handles[x]))

\* Mutant: a move leaves the source's view of the storage.
MoveKeepsView(h, x) ==
  /\ Become(Put(handles, h, handles[x]), memory)
  /\ UNCHANGED copies

\* move_from: constructors of both kinds, assignment of owners.
MoveFrom(h, x) ==
  /\ Become(Put(Put(handles, h, handles[x]), x, MovedFrom), memory)
  /\ UNCHANGED copies

\* share_from: view copies and rebind; flags are recomputed, not checked.
Share(v, x) == Become(Put(handles, v, recompute(v, handles[x])), memory) /\ UNCHANGED copies

\* as_view() and the other views, by construction or rebind.
Derive(v, x) ==
  /\ DeriveEmpty \/ handles[x].numel > 0
  /\ \E l \in Derived(handles[x]) :
       /\ check_view_geometry(l) /\ Bounded(l)
       /\ Become(Put(handles, v, recompute(v, l)), memory)
  /\ UNCHANGED copies

\* reshape and contiguous when the strides do not allow a view.
reshape(v, x) ==
  /\ Counted
  /\ \E dims \in SameSize(handles[x]) :
       /\ compute_view_strides(handles[x], dims) = NoStrides
       /\ Own(v, dims, gather_logical(handles[x]))
contiguous(v, x) ==
  /\ Counted /\ ~handles[x].contiguous
  /\ Own(v, handles[x].sizes, gather_logical(handles[x]))

\* The view constructor with explicit strides over borrowed memory.
Borrow(v) ==
  /\ \E e \in Explicit :
       LET l == [storage |-> Buffer, offset |-> e.offset, sizes |-> e.sizes, strides |-> e.strides,
                 derived |-> FALSE]
       IN  /\ check_view_geometry(l)
           /\ Become(Put(handles, v, recompute(v, l)), memory)
  /\ UNCHANGED copies

Operand(l) ==
  [data |-> IF l.storage = nullptr THEN nullptr ELSE l.storage + l.offset, bytes |-> 1,
   type |-> "f", device |-> "cpu", sizes |-> l.sizes, strides |-> l.strides]

Write(l, values) ==
  LET at(k) == {i \in 1 .. l.numel : Cell(l, i - 1) = k}
  IN  memory' = [memory EXCEPT ![l.storage] =
        [k \in DOMAIN @ |-> IF at(k) = {} THEN @[k] ELSE values[CHOOSE i \in at(k) : \A j \in at(k) : j <= i]]]

\* assign and view assignment: validate, check for overlap, evaluate.
Assign(h, x) ==
  LET l == handles[h]
      r == handles[x]
  IN  /\ Counted /\ l.numel > 0
      /\ l.non_overlapping
      /\ assignment_allowed(Operand(l), <<Operand(r)>>, FALSE, FALSE)
      /\ l.sizes = r.sizes
      /\ Write(l, [i \in 1 .. l.numel |-> memory[r.storage][Cell(r, i - 1)]])
      /\ UNCHANGED handles

\* operator=(scalar) and fill.
Fill(h) ==
  /\ Counted /\ handles[h].numel > 0 /\ handles[h].non_overlapping
  /\ Write(handles[h], [i \in 1 .. handles[h].numel |-> 0])
  /\ UNCHANGED handles

Destroy(h) == Become([x \in DOMAIN handles \ {h} |-> handles[x]], memory) /\ UNCHANGED copies

SameKind(h, x) == {h, x} \subseteq Owners \/ {h, x} \subseteq Views

Next ==
  \/ \E o \in Owners : Construct(o) \/ \E x \in Usable \ {o} : CopyOwner(o, x)
  \/ \E v \in Views, x \in Usable :
       Share(v, x) \/ Derive(v, x) \/ reshape(v, x) \/ contiguous(v, x)
  \/ \E v \in Views : Borrow(v)
  \/ \E h \in Owners \cup (Views \ DOMAIN handles) :
       \E x \in Usable \ {h} : SameKind(h, x) /\ MoveFrom(h, x)
  \/ \E h \in Usable : Fill(h) \/ \E x \in Usable : Assign(h, x)
  \/ \E h \in DOMAIN handles : Destroy(h)

Spec == Init /\ [][Next]_vars
----------------------------------------------------------------------------
TypeOK ==
  /\ DOMAIN handles \subseteq Owners \cup Views
  /\ DOMAIN memory \subseteq Storages \cup {Buffer}
  /\ \A h \in DOMAIN handles :
       /\ handles[h].storage \in DOMAIN memory \cup {nullptr}
       /\ handles[h].offset \in Nat /\ handles[h].numel \in Nat
       /\ {handles[h].contiguous, handles[h].non_overlapping} \subseteq BOOLEAN
       /\ Len(handles[h].sizes) = Len(handles[h].strides)

(* "A non-empty view touches [offset, offset + sum((n_i - 1) * s_i)], which *)
(* must lie inside the storage": whatever chain of views, copies and moves  *)
(* made it, no object reaches outside a storage that is still alive.        *)
InBounds ==
  \A h \in DOMAIN handles :
    \A i \in 0 .. handles[h].numel - 1 :
      handles[h].offset + ElementOffset(handles[h], i) \in 0 .. StorageSize(handles[h]) - 1

(* "Owners always use packed C-order storage at offset zero", and a storage *)
(* has one owner: the premise of the flags that owners do not recompute.    *)
OwnersPacked ==
  \A o \in Owners \cap DOMAIN handles :
    LET l == handles[o]
    IN  /\ l.offset = 0 /\ l.strides = PackedStrides(l.sizes) /\ l.contiguous
        /\ \A x \in Owners \cap DOMAIN handles : x # o /\ ~Moved(o) => handles[x].storage # l.storage

(* The cached flags are true of the layout they are cached beside: a flat   *)
(* index works where contiguous_ says so, and a write to a layout with      *)
(* non_overlapping_ changes one element.                                    *)
CachesTruthful ==
  \A h \in DOMAIN handles :
    LET l == handles[h]
    IN  /\ ~Moved(h) => l.numel = numel(l)
        /\ \A i \in 0 .. l.numel - 1 : Cell(l, i) = l.offset + ElementOffset(l, i) + 1
        /\ l.non_overlapping /\ l.numel > 0 => Injective(l)

(* "Views derived from a packed tensor by slice, t, permute, squeeze,       *)
(* unsqueeze and view keep the property": they remain valid destinations.   *)
DerivedStayWritable == \A h \in DOMAIN handles : handles[h].derived => handles[h].non_overlapping

(* view() finds strides exactly when there are some: it fails only "when no *)
(* such strides exist", and its strides keep the order of the elements.     *)
Fits(l, dims, strides) ==
  \A i \in 0 .. l.numel - 1 : Dot(Coord(dims, i), strides) = ElementOffset(l, i)
ForcedStrides(l, dims) ==
  [d \in DOMAIN dims |->
     IF dims[d] = 1 THEN 1 ELSE ElementOffset(l, Volume(dims, d + 1))]
ViewExact ==
  \A h \in DOMAIN handles :
    LET l == handles[h]
    IN  l.numel > 0 => \A dims \in SameSize(l) :
          LET strides == compute_view_strides(l, dims)
          IN  IF strides = NoStrides THEN ~Fits(l, dims, ForcedStrides(l, dims))
              ELSE Fits(l, dims, strides)

(* Tensors and views are arrays: every operation rearranges, copies or      *)
(* writes the elements that Python's or NumPy's would, strides and caches   *)
(* aside, and what a copy holds is no other object's to change.             *)
Arrays == INSTANCE NdArrays WITH
  arrays <- [h \in DOMAIN handles |->
    [shape |-> handles[h].sizes,
     cells |-> [k \in 1 .. handles[h].numel |->
       <<handles[h].storage, handles[h].offset + ElementOffset(handles[h], k - 1) + 1>>]]],
  contents <- [s \in {x \in DOMAIN memory :
                        x = Buffer \/ \E h \in DOMAIN handles :
                                        handles[h].numel > 0 /\ handles[h].storage = x} |-> memory[s]]
ImplementsArrays == Arrays!Spec
=============================================================================
