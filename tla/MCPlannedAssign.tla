--------------------------- MODULE MCPlannedAssign ---------------------------
(***************************************************************************)
(* Small assignments for PlannedAssign.                                    *)
(***************************************************************************)
EXTENDS PlannedAssign

View(data, sizes, strides) ==
  [data |-> data, bytes |-> 1, type |-> "f", device |-> "cpu",
   sizes |-> sizes, strides |-> strides]
InMemory(l) == numel(l) = 0 \/ l.data + overlap_extent(l) \in Memory
Vs(addresses, shapes, strides) ==
  {l \in {View(p, n, s) : p \in addresses, n \in shapes, s \in strides} : InMemory(l)}

\* One leaf: two-dimensional destinations of every order and gap, and leaves
\* around them that match, broadcast, or do neither.
PlaneDst == Vs({4}, {<<2, 2>>, <<2, 3>>, <<3, 2>>}, {0, 1, 2, 3, 4} \X {0, 1, 2, 3})
PlaneLeaves(d) ==
  Vs({1, 3, 4, 5}, {d.sizes, <<1, d.sizes[2]>>, <<d.sizes[1], 1>>, <<2, 2>>},
     {0, 1, 2, 3} \X {0, 1, 2, 3})
  \cup Vs({1, 5}, {<<d.sizes[2]>>}, {<<0>>, <<1>>, <<2>>})
PlaneAssignments ==
  UNION {{[dst |-> d, leaves |-> <<l>>] : l \in PlaneLeaves(d)} : d \in PlaneDst}

\* Two leaves of a three-dimensional destination: permuted, gapped, broadcast.
CubeShape == <<2, 3, 2>>
CubeDst == Vs({13}, {CubeShape}, {<<6, 2, 1>>, <<1, 2, 6>>, <<3, 1, 6>>})
CubeLeaves ==
  Vs({1}, {CubeShape}, {<<6, 2, 1>>, <<1, 4, 2>>, <<0, 2, 1>>})
  \cup Vs({13}, {CubeShape}, {<<6, 2, 1>>, <<1, 2, 6>>})
  \cup Vs({1}, {<<1, 2>>, <<3, 1>>}, {<<2, 1>>})
CubeAssignments ==
  {[dst |-> d, leaves |-> <<k, l>>] : d \in CubeDst, k \in CubeLeaves, l \in CubeLeaves}

\* Limits: no element, no dimension, too many operands.
LimitAssignments ==
  {[dst |-> View(9, <<2, 0>>, <<0, 1>>), leaves |-> <<View(1, <<2, 1>>, <<1, 1>>)>>],
   [dst |-> View(9, <<>>, <<>>), leaves |-> <<View(1, <<>>, <<>>)>>],
   [dst |-> View(9, <<1, 1>>, <<5, 7>>), leaves |-> <<View(1, <<1>>, <<3>>), View(3, <<>>, <<>>)>>],
   [dst |-> View(9, <<2, 2>>, <<1, 2>>),
    leaves |-> [k \in 1 .. MaxOperands |-> View(k, <<1>>, <<1>>)]]}

MCAssignments == PlaneAssignments \cup CubeAssignments \cup LimitAssignments
MCMemory == 1 .. 24

Symmetry == Permutations(Workers)
=============================================================================
