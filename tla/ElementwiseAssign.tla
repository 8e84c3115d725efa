-------------------------- MODULE ElementwiseAssign --------------------------
(***************************************************************************)
(* What dst = expr promises: every element of the destination gets its     *)
(* value, computed from the operands as they were before the assignment,   *)
(* in some order, each written once; nothing else is written.              *)
(***************************************************************************)
EXTENDS Sequences

VARIABLES target,  \* the value each destination address must get
          memory   \* address -> value

\* Before: every address holds a value of its own.
Init == \A x \in DOMAIN memory : memory[x] = <<x>>

Next ==
  /\ target' = target
  /\ DOMAIN memory' = DOMAIN memory
  /\ \A x \in DOMAIN memory :
       \/ memory'[x] = memory[x]
       \/ x \in DOMAIN target /\ memory[x] # target[x] /\ memory'[x] = target[x]

Spec == Init /\ [][Next]_<<target, memory>>
=============================================================================
