------------------------------ MODULE DimArrays ------------------------------
(***************************************************************************)
(* What sizes_and_strides promises: a container of equally many sizes and  *)
(* strides, a value like any other, with no storage in sight.  A container *)
(* that is moved from is empty; resize keeps the common prefix of both     *)
(* arrays and zeroes what it adds.                                         *)
(***************************************************************************)
EXTENDS Naturals, Sequences

CONSTANTS Objects,  \* container objects
          Values,   \* sizes and strides, 0 and 1 among them
          MaxRank,  \* bound: largest number of dimensions
          Lists     \* arrays to set the sizes or the strides to

VARIABLE arrays     \* a function on the live containers

Ranks == 0 .. MaxRank

With(o, a) == [x \in DOMAIN arrays \cup {o} |-> IF x = o THEN a ELSE arrays[x]]
Empty == [sizes |-> <<>>, strides |-> <<>>]
Resized(q, n) == [i \in 1 .. n |-> IF i <= Len(q) THEN q[i] ELSE 0]

Init == arrays = [x \in {} |-> Empty]

Create(o) == arrays' = With(o, [sizes |-> <<0>>, strides |-> <<1>>])
Destroy(o) == arrays' = [x \in DOMAIN arrays \ {o} |-> arrays[x]]
Copy(o, rhs) == arrays' = With(o, arrays[rhs])
Move(o, rhs) == arrays' = [With(o, arrays[rhs]) EXCEPT ![rhs] = Empty]

Resize(o, n) ==
  arrays' = With(o, [sizes   |-> Resized(arrays[o].sizes, n),
                     strides |-> Resized(arrays[o].strides, n)])
SetSizes(o, q) ==
  arrays' = With(o, [sizes |-> q, strides |-> Resized(arrays[o].strides, Len(q))])
SetStrides(o, q) ==
  /\ Len(q) = Len(arrays[o].sizes)
  /\ arrays' = With(o, [arrays[o] EXCEPT !.strides = q])
WriteSize(o, i, v) == arrays' = With(o, [arrays[o] EXCEPT !.sizes[i] = v])
WriteStride(o, i, v) == arrays' = With(o, [arrays[o] EXCEPT !.strides[i] = v])

Next ==
  \/ \E o \in Objects \ DOMAIN arrays :
       Create(o) \/ \E rhs \in DOMAIN arrays : Copy(o, rhs) \/ Move(o, rhs)
  \/ \E o \in DOMAIN arrays :
       \/ Destroy(o)
       \/ \E rhs \in DOMAIN arrays \ {o} : Copy(o, rhs) \/ Move(o, rhs)
       \/ \E n \in Ranks : Resize(o, n)
       \/ \E q \in Lists : SetSizes(o, q) \/ SetStrides(o, q)
       \/ \E i \in 1 .. Len(arrays[o].sizes), v \in Values :
            WriteSize(o, i, v) \/ WriteStride(o, i, v)

Spec == Init /\ [][Next]_arrays
=============================================================================
