-------------------------- MODULE MCSizesAndStrides --------------------------
(***************************************************************************)
(* Small instances of SizesAndStrides: containers and blocks are           *)
(* interchangeable, their names mean nothing to the code.                  *)
(***************************************************************************)
EXTENDS SizesAndStrides, TLC

\* One inline and one outline argument; single stores reach the other contents.
MCLists == {<<1>>, <<0, 1, 1>>}
Symmetry == Permutations(Objects) \cup Permutations(Blocks)
=============================================================================
