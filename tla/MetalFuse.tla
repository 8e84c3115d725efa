----------------------------- MODULE MetalFuse -----------------------------
(***************************************************************************)
(* The fused Metal kernel of an expression tree                            *)
(* (include/expressions/expressions_evaluator_metal.h): the emitter walks  *)
(* the tree once, gives every leaf an argument slot and writes the body,   *)
(* an expression over the slots.  A body is a term, not text, and ops      *)
(* that are emitted alike (name(x), (x op y), name(x, y)) share a form.    *)
(*                                                                         *)
(* A tree is [op |-> "tensor", of |-> name], [op |-> "scalar", of |-> c]   *)
(* or [op, args].  Elements are integers; exp, log and sqrt, which have    *)
(* none, are injective functions of them.                                  *)
(***************************************************************************)
EXTENDS Integers, Sequences
LOCAL INSTANCE SequencesExt

CONSTANTS kMaxSlots,   \* slots for buffers, and for scalars, of the emitter's state
          MaxBuffers   \* arguments of a kernel: its slots, the output and n

ASSUME FuseAssumption == {kMaxSlots, MaxBuffers} \subseteq Nat

exp(x) == 5 * x + 3
log(x) == 7 * x + 1
sqrt(x) == 3 * x + 2
float(b) == IF b THEN 1 ELSE 0

Node(op, args) == [op |-> op, args |-> args]
Leaf(e) == e.op \in {"tensor", "scalar"}

(* What the operators mean to the program, mask and operands in its order. *)
Meaning(op, v) ==
  CASE op = "neg" -> -v[1]
    [] op = "lnot" -> float(v[1] = 0)
    [] op = "sqr" -> v[1] * v[1]
    [] op = "exp" -> exp(v[1])
    [] op = "expm1" -> exp(v[1]) - 1
    [] op = "log1p" -> log(1 + v[1])
    [] op = "hypot" -> sqrt(v[1] * v[1] + v[2] * v[2])
    [] op = "sub" -> v[1] - v[2]
    [] op = "cmpgt" -> float(v[1] > v[2])
    [] op = "land" -> float(v[1] # 0 /\ v[2] # 0)
    [] op = "min" -> (IF v[1] < v[2] THEN v[1] ELSE v[2])
    [] op = "fma" -> v[1] * v[2] + v[3]
    [] op = "if_else" -> (IF v[1] # 0 THEN v[2] ELSE v[3])

RECURSIVE Value(_, _)
Value(e, env) ==
  CASE e.op = "tensor" -> env[e.of]
    [] e.op = "scalar" -> e.of
    [] OTHER -> Meaning(e.op, [k \in DOMAIN e.args |-> Value(e.args[k], env)])
----------------------------------------------------------------------------
(* The emitter.                                                            *)
Fresh == [buffers |-> <<>>, scalars |-> <<>>, ok |-> TRUE]

\* Mutant: select gets its operands in the order of if_else.
InOrder(e) == [k \in DOMAIN e.args |-> k]

\* The order in which the operands are emitted; MSL: select(false, true, mask).
Order(e) == IF e.op = "if_else" THEN <<3, 2, 1>> ELSE [k \in DOMAIN e.args |-> k]

\* The body of a node from its operands'; snapshots are pieces used twice.
Body(op, p) ==
  CASE op = "sqr" -> Node("*", <<p[1], p[1]>>)
    [] op = "expm1" -> Node("-", <<Node("exp", p), Node("literal", <<1>>)>>)
    [] op = "log1p" -> Node("log", <<Node("+", <<Node("literal", <<1>>), p[1]>>)>>)
    [] op = "hypot" ->
         Node("sqrt", <<Node("+", <<Node("*", <<p[1], p[1]>>), Node("*", <<p[2], p[2]>>)>>)>>)
    [] op = "if_else" -> Node("select", p)
    [] OTHER -> Node(op, p)

emit_leaf(e, st) ==
  LET slots == IF e.op = "tensor" THEN st.buffers ELSE st.scalars
  IN  IF ~st.ok \/ Len(slots) >= kMaxSlots
      THEN [st |-> [st EXCEPT !.ok = FALSE], body |-> Node("literal", <<0>>)]
      ELSE IF e.op = "tensor"
      THEN [st |-> [st EXCEPT !.buffers = Append(@, e.of)], body |-> Node("in", <<Len(slots)>>)]
      ELSE [st |-> [st EXCEPT !.scalars = Append(@, e.of)], body |-> Node("c", <<Len(slots)>>)]

RECURSIVE metal_fuse_emit(_, _)
metal_fuse_emit(e, st) ==
  LET one(acc, k) == LET next == metal_fuse_emit(e.args[k], acc.st)
                     IN  [st |-> next.st, pieces |-> Append(acc.pieces, next.body)]
      all == FoldLeft(one, [st |-> st, pieces |-> <<>>], Order(e))
  IN  IF Leaf(e) THEN emit_leaf(e, st) ELSE [st |-> all.st, body |-> Body(e.op, all.pieces)]

Fused(e) == metal_fuse_emit(e, Fresh)
metal_fuse_fits(st) == st.ok /\ Len(st.buffers) + Len(st.scalars) + 2 <= MaxBuffers
----------------------------------------------------------------------------
(* The kernel.  The arguments are bound by position: the buffers, then the *)
(* scalars, then the output and n, as metal_fuse_parameters declares them. *)
Argument(st, kind, i) == IF kind = "in" THEN i + 1 ELSE Len(st.buffers) + i + 1

MslMeaning(op, v) ==
  CASE op = "*" -> v[1] * v[2]
    [] op = "-" -> v[1] - v[2]
    [] op = "+" -> v[1] + v[2]
    [] op = "log" -> log(v[1])
    [] op = "sqrt" -> sqrt(v[1])
    [] op = "select" -> (IF v[3] # 0 THEN v[2] ELSE v[1])
    [] OTHER -> Meaning(op, v)

RECURSIVE Run(_, _, _)
Run(body, st, arguments) ==
  CASE body.op = "literal" -> body.args[1]
    [] body.op \in {"in", "c"} -> arguments[Argument(st, body.op, body.args[1])]
    [] OTHER -> MslMeaning(body.op, [k \in DOMAIN body.args |-> Run(body.args[k], st, arguments)])

\* One thread of the kernel, where the tensors have these elements.
KernelValue(k, env) ==
  Run(k.body, k.st, [i \in DOMAIN k.st.buffers |-> env[k.st.buffers[i]]] \o k.st.scalars)

RECURSIVE Leaves(_, _)
Leaves(e, kind) ==
  IF Leaf(e) THEN (IF e.op = kind THEN 1 ELSE 0)
  ELSE FoldLeft(LAMBDA n, x : n + Leaves(x, kind), 0, e.args)
=============================================================================
