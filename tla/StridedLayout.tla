---------------------------- MODULE StridedLayout ----------------------------
(***************************************************************************)
(* Strided layouts (include/expressions/strided_ref.h, expression_shape.h, *)
(* overlap.h): a view is an address (0 is nullptr), the element size, and   *)
(* one size and one stride per dimension, outermost first.  Strides and    *)
(* offsets count elements, addresses count bytes.                          *)
(***************************************************************************)
EXTENDS Integers, Sequences, FiniteSets, SequencesExt

\* The elements of the dimensions from this one on, from the inside out; the
\* sum of the first terms.
Volume(sizes, first) ==
  LET from[d \in 1 .. Len(sizes) + 1] == IF d > Len(sizes) THEN 1 ELSE sizes[d] * from[d + 1]
  IN  from[first]
Sum(terms, last) ==
  LET upTo[d \in 0 .. Len(terms)] == IF d = 0 THEN 0 ELSE upTo[d - 1] + terms[d]
  IN  upTo[last]

Product(sizes) == Volume(sizes, 1)
numel(l) == Product(l.sizes)
rank(l) == Len(l.sizes)

(***************************************************************************)
(* Reference definitions: the coordinates of the i-th element in C order   *)
(* and the offset of an element.                                           *)
(***************************************************************************)
Coord(sizes, i) ==
  [d \in 1 .. Len(sizes) |->
     (i \div Volume(sizes, d + 1)) % sizes[d]]
Dot(coord, strides) == Sum([d \in 1 .. Len(coord) |-> coord[d] * strides[d]], Len(coord))
ElementOffset(l, i) == Dot(Coord(l.sizes, i), l.strides)
Offsets(l) == {ElementOffset(l, i) : i \in 0 .. numel(l) - 1}
Injective(l) == Cardinality(Offsets(l)) = numel(l)
\* The bytes a view reaches.
Touches(l) ==
  UNION {l.data + o * l.bytes .. l.data + (o + 1) * l.bytes - 1 : o \in Offsets(l)}
----------------------------------------------------------------------------
(* strided_offset and tensor::logical_offset: flat for a packed layout,    *)
(* otherwise a division per dimension from the inside out.                 *)
strided_offset(l, contiguous, flat) ==
  LET n == rank(l)
      acc[d \in 1 .. n + 1] ==  \* the offset of the dimensions from d on, and what is left of flat
        IF d > n THEN [off |-> 0, rem |-> flat]
        ELSE LET inner == acc[d + 1]
             IN  [off |-> inner.off + (inner.rem % l.sizes[d]) * l.strides[d],
                  rem |-> inner.rem \div l.sizes[d]]
  IN  IF contiguous THEN flat
      ELSE IF \E d \in 1 .. n : l.sizes[d] = 0 THEN 0
      ELSE acc[1].off

\* C-order strides of a shape (make_contiguous_sas, stamp_contiguous_shape).
PackedStrides(sizes) == [d \in 1 .. Len(sizes) |-> Volume(sizes, d + 1)]

\* C-order packing, from the inside out: size-1 dimensions do not count, and
\* an empty one ends the loop.
is_packed(l) ==
  \A d \in 1 .. rank(l) :
    \/ l.sizes[d] = 1
    \/ \E e \in d .. rank(l) : l.sizes[e] = 0
    \/ l.strides[d] = Volume(l.sizes, d + 1)

\* tensor's cached contiguous_, which ignores the sizes of an empty tensor.
Contiguous(l) == numel(l) = 0 \/ is_packed(l)

(* broadcast_into: the shape of acc against a leaf's, matched from the     *)
(* right; Mismatch when a pair differs and neither is 1, or when the leaf  *)
(* has more dimensions than a strided_ref holds.                           *)
kMaxRank == 8
Mismatch == <<-1>>
FromRight(sizes, i) == IF i < Len(sizes) THEN sizes[Len(sizes) - i] ELSE 1
broadcast_into(acc, sizes) ==
  LET out == IF Len(acc) > Len(sizes) THEN Len(acc) ELSE Len(sizes)
      a(i) == FromRight(acc, i)
      b(i) == FromRight(sizes, i)
  IN  IF \/ Len(sizes) > kMaxRank
         \/ \E i \in 0 .. out - 1 : a(i) # b(i) /\ a(i) # 1 /\ b(i) # 1
      THEN Mismatch
      ELSE [d \in 1 .. out |-> IF a(out - d) = 1 THEN b(out - d) ELSE a(out - d)]

\* expression_result_shape: every leaf of the tree, in order.
result_shape(leaves) ==
  LET upTo[k \in 0 .. Len(leaves)] ==
        IF k = 0 THEN <<>>
        ELSE IF upTo[k - 1] = Mismatch THEN Mismatch
        ELSE broadcast_into(upTo[k - 1], leaves[k].sizes)
  IN  upTo[Len(leaves)]

\* broadcast_strides: a leaf's strides in the index space of shape `out`.
broadcast_strides(out, l) ==
  LET lead == Len(out) - rank(l)
  IN  [d \in 1 .. Len(out) |->
         IF d <= lead \/ l.sizes[d - lead] = 1 THEN 0 ELSE l.strides[d - lead]]

\* rebase_leaves for one leaf: the view the GPU kernels and reductions read.
rebase(l, out) == [l EXCEPT !.sizes = out, !.strides = broadcast_strides(out, l)]

leaves_flat(leaves, n) ==
  \A k \in 1 .. Len(leaves) : Contiguous(leaves[k]) /\ numel(leaves[k]) = n
=============================================================================
