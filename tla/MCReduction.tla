---------------------------- MODULE MCReduction ----------------------------
(* Calls: several passes under a capped grid; a tree of two levels with    *)
(* partly filled blocks; one element; none.  On Metal: up to four passes   *)
(* over groups of two to eight lanes, partly filled; an input above the    *)
(* limit of the grid.  On the CPU: every mix of batches, blocks, single    *)
(* registers and a tail.                                                   *)
EXTENDS MetalReduction
LOCAL INSTANCE SequencesExt

Call(size, blk, its, most) ==
  [device |-> "gpu", n |-> size, block |-> blk, items |-> its, maxBlocks |-> most]

\* Expressions: every operator over tensors and a scalar, nested in the ones
\* whose operands are emitted twice or out of order; and chains of leaves
\* around the limits of the kernel's arguments.
A == [op |-> "tensor", of |-> "a"]
B == [op |-> "tensor", of |-> "b"]
C == [op |-> "tensor", of |-> "c"]
K == [op |-> "scalar", of |-> 2]
Unary == {Node(op, <<x>>) : op \in {"neg", "lnot", "sqr", "exp", "expm1", "log1p"},
                            x \in {A, Node("sub", <<K, B>>)}}
Binary == {Node(op, <<x, y>>) : op \in {"hypot", "sub", "cmpgt", "land", "min"},
                                x \in {A, K}, y \in {B, Node("sqr", <<C>>)}}
Trinary == {Node(op, <<x, y, z>>) : op \in {"fma", "if_else"}, x \in {A, Node("cmpgt", <<A, B>>)},
                                    y \in {B, K}, z \in {C, Node("hypot", <<B, K>>)}}
Chain(leaves) == FoldLeft(LAMBDA e, x : Node("sub", <<e, x>>), A, leaves)
\* Up to four tensors and four scalars have a slot, six of them together.
Chains == {[expr |-> Chain([k \in 1 .. i |-> B] \o [k \in 1 .. j |-> K]),
            fits |-> i <= 3 /\ j <= 4 /\ i + j <= 5] : i \in 0 .. 4, j \in 0 .. 5}
Exprs == Chains \cup {[expr |-> e, fits |-> TRUE] : e \in Unary \cup Binary \cup Trinary}

Metal(size, lanes, ext, e) ==
  [device |-> "metal", n |-> size, width |-> lanes, limit |-> 11, extended |-> ext,
   expr |-> e.expr, leaf |-> Leaf(e.expr), fits |-> e.fits]
Cpu(size, lanes, accs, cnt, strd) ==
  [device |-> "cpu", n |-> size, length |-> lanes, packet |-> accs, batch |-> 6, exact |-> 6,
   count |-> cnt, strided |-> strd]

MCCalls == {Call(0, 2, 1, 3), Call(1, 2, 2, 3), Call(5, 2, 1, 3), Call(5, 2, 1, 2),
            Call(3, 4, 1, 2), Call(9, 4, 2, 1)}
           \cup {Metal(size, lanes, TRUE, [expr |-> A, fits |-> TRUE]) : size \in 0 .. 12, lanes \in {2, 4, 8}}
           \cup {Metal(3, 2, ext, e) : ext \in BOOLEAN, e \in Exprs}
           \cup {Cpu(size, lanes, accs, cnt, FALSE) :
                   size \in 0 .. 30, lanes \in {1, 2}, accs \in {1, 4}, cnt \in BOOLEAN}
           \cup {Cpu(size, 2, 4, TRUE, TRUE) : size \in 0 .. 5}
=============================================================================
