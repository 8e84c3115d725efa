----------------------------- MODULE CpuReduce -----------------------------
(***************************************************************************)
(* What reduce_expression (include/expressions/expression_reductions.h)    *)
(* folds on the CPU: batches of SIMD blocks into several accumulators, the *)
(* rest of a batch into the first, and a scalar tail; for strided operands *)
(* the walk of reduce_strided (expressions_evaluator.h).                   *)
(*                                                                         *)
(* A value is the set of input elements folded into it, so every operator  *)
(* of reduce_op is covered at once; Poison marks memory nobody wrote, and  *)
(* a fold that would count an element twice.                               *)
(***************************************************************************)
EXTENDS Naturals, Integers

Poison == -1
Combine(a, b) == a \cup b \cup (IF a \cap b = {} THEN {} ELSE {Poison})
\* The values of f combined, in any order.
CombineAll(f) ==
  UNION {f[x] : x \in DOMAIN f} \cup
    (IF \E x, y \in DOMAIN f : x # y /\ f[x] \cap f[y] # {} THEN {Poison} ELSE {})

\* A CPU call is [n, length, packet, count, batch]: the size, the lanes of a
\* register, the accumulators, whether the operator counts, and the steps of
\* a count batch (4096).
vector_end(c) == c.n - (c.n % c.length)

\* Mutant: counts are not cut into batches.
OneBatch(c) == vector_end(c)

\* Elements of a batch, and where the batches begin and end.
BatchSize(c) == IF c.count THEN c.batch * c.length ELSE vector_end(c)
Batches(c) == {i \in 0 .. vector_end(c) - 1 : i % BatchSize(c) = 0}
BatchEnd(c, begin) ==
  IF begin + BatchSize(c) < vector_end(c) THEN begin + BatchSize(c) ELSE vector_end(c)

\* Lane `lane` of accumulators[k] at the end of a batch: the loop over whole
\* blocks, then, into the first accumulator, the loop over single registers.
Lane(c, begin, k, lane) ==
  LET block == c.length * c.packet
      blocks == (BatchEnd(c, begin) - begin) \div block
      rest == begin + blocks * block
      registers == (BatchEnd(c, begin) - rest) \div c.length
  IN  Combine({begin + j * block + k * c.length + lane : j \in 0 .. blocks - 1},
              IF k = 0 THEN {rest + j * c.length + lane : j \in 0 .. registers - 1} ELSE {})

\* The lanes of every batch are merged into the result, then the tail.
reduce_expression(c) ==
  LET lanes == Batches(c) \X (0 .. c.packet - 1) \X (0 .. c.length - 1)
      value == [x \in lanes |-> Lane(c, x[1], x[2], x[3])]
  IN  Combine(CombineAll(value), vector_end(c) .. c.n - 1)

\* The loop over a strided operand: element after element, in C order.
reduce_strided(c) ==
  LET acc[i \in 0 .. c.n] == IF i = 0 THEN {} ELSE Combine(acc[i - 1], {i - 1})
  IN  acc[c.n]
=============================================================================
