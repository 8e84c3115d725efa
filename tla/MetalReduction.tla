--------------------------- MODULE MetalReduction ---------------------------
(***************************************************************************)
(* Reduction with the expressions of its Metal calls: which of them are    *)
(* tensors, and which have a fused kernel that fits, the emitter decides.  *)
(***************************************************************************)
EXTENDS Reduction, MetalFuse

ASSUME ExpressionsAssumption ==
  \A c \in Calls : c.device = "metal" =>
    /\ c.leaf = Leaf(c.expr)
    /\ c.fits = metal_fuse_fits(Fused(c.expr).st)

(* The fused kernel that a Metal reduction folds computes the expression,  *)
(* whatever the leaves hold, and a tree that has an argument slot for each *)
(* of its leaves is never refused (nor another accepted).                  *)
Samples == -1 .. 2
Names == {"a", "b", "c"}
FusedExact ==
  call.device = "metal" =>
    LET fused == Fused(call.expr)
        tensors == Leaves(call.expr, "tensor")
        scalars == Leaves(call.expr, "scalar")
    IN  /\ metal_fuse_fits(fused.st) <=>
             tensors <= kMaxSlots /\ scalars <= kMaxSlots /\ tensors + scalars + 2 <= MaxBuffers
        /\ metal_fuse_fits(fused.st) =>
             \A env \in [Names -> Samples] : KernelValue(fused, env) = Value(call.expr, env)
=============================================================================
