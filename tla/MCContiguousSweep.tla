-------------------------- MODULE MCContiguousSweep --------------------------
(***************************************************************************)
(* ContiguousSweep with interchangeable worker threads.                    *)
(***************************************************************************)
EXTENDS ContiguousSweep, TLC

Symmetry == Permutations(Workers)
=============================================================================
