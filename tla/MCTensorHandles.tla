--------------------------- MODULE MCTensorHandles ---------------------------
(***************************************************************************)
(* Small sets of shapes, slices and explicit strides for TensorHandles.    *)
(***************************************************************************)
EXTENDS TensorHandles

\* Views of up to six elements: chains of rearrangements.
ChainShapes == {<<2, 3>>, <<3, 2>>, <<6>>}
ChainExplicit ==
  {[offset |-> 0, sizes |-> <<2, 2>>, strides |-> s] : s \in {<<1, 1>>, <<0, 1>>, <<2, 1>>}}
ChainIndices == {0, 1, 3}
ChainSteps == {1, 2}

\* Copies of, and writes through, the views of a matrix.
CopyShapes == {<<2, 2>>}
CopyIndices == {-1, 2}

\* Copies, moves and writes among four objects.
MoveShapes == {<<2>>}
Symmetry == Permutations(Owners) \cup Permutations(Views)
=============================================================================
