---------------------------- MODULE OverlapCheck ----------------------------
(***************************************************************************)
(* classify_overlap judged by what the views really touch.  The caller has *)
(* validated the destination (tensor's validate_destination), so dest is   *)
(* a view that passed is_non_overlapping; src is any source.               *)
(***************************************************************************)
EXTENDS Overlap

CONSTANT Cases   \* [destinations, sources]: sets of views to classify
\* Views that passed check_view_geometry: no negative stride, and null only
\* without elements; an element type has one size.
ASSUME CasesAssumption ==
  \A c \in Cases :
    /\ \A l \in c.destinations \cup c.sources :
         /\ l.data \in Nat /\ l.bytes \in Nat \ {0}
         /\ l.sizes \in Seq(Nat) /\ l.strides \in Seq(Nat) /\ Len(l.sizes) = Len(l.strides)
         /\ l.data = nullptr => numel(l) = 0
    /\ \A x \in c.destinations, y \in c.sources : x.type = y.type => x.bytes = y.bytes

VARIABLES dest, src, status
pair == <<dest, src, status>>

CheckInit ==
  /\ \E c \in Cases :
       /\ dest \in {l \in c.destinations : is_non_overlapping(l)}
       /\ src \in c.sources
  /\ status = "unclassified"

Classify ==
  /\ status = "unclassified"
  /\ status' = classify_overlap(dest, src)
  /\ UNCHANGED <<dest, src>>

CheckSpec == CheckInit /\ [][Classify]_pair
----------------------------------------------------------------------------
(* `none` lets the assignment run: the views then share no byte, whichever *)
(* of the range, GCD and carry tests said so.                              *)
NoneIsDisjoint == status = none /\ dest.device = src.device => Touches(dest) \cap Touches(src) = {}

(* `full` lets the assignment run in place: every element of the source is *)
(* the destination's element of the same index, and no other's.            *)
FullIsInPlace ==
  status = full =>
    /\ dest.data = src.data /\ dest.bytes = src.bytes /\ dest.sizes = src.sizes
    /\ \A i \in 0 .. numel(dest) - 1 : ElementOffset(dest, i) = ElementOffset(src, i)
    /\ Injective(dest)

(* `partial` rejects the assignment even under noalias(): an element is    *)
(* really shared ("The lattice test finds a shared element").              *)
PartialIsShared == status = partial => Touches(dest) \cap Touches(src) # {}

(* The sufficient proof never accepts a layout that maps two indices to    *)
(* one element, and it is exact when the strides are nested (each sorted   *)
(* stride divides the next).                                               *)
NestedAlone(l) == Nested(overlap_axes(l), overlap_axes(l))
InjectivityProof ==
  \A l \in {dest, src} :
    /\ is_non_overlapping(l) => Injective(l)
    /\ (\A x \in StridesOf(overlap_axes(l)) : x > 0) /\ NestedAlone(l) /\ Injective(l)
         => is_non_overlapping(l)
=============================================================================
