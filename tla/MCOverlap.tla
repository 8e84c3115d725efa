------------------------------ MODULE MCOverlap ------------------------------
(***************************************************************************)
(* Small views for OverlapCheck.                                           *)
(***************************************************************************)
EXTENDS OverlapCheck

View(data, bytes, type, device, sizes, strides) ==
  [data |-> data, bytes |-> bytes, type |-> type, device |-> device,
   sizes |-> sizes, strides |-> strides]

\* Two dimensions: every shape up to (3, 3), strides with and without a
\* common divisor, repeated, broadcast (0) or out of order; the destination
\* at address 6, sources around it.
Shapes2 == {1, 2, 3} \X {1, 2, 3}
Strides2 == {0, 1, 2, 3, 4} \X {0, 1, 2, 3, 4}
Plane(addresses) ==
  {View(p, 1, "f", "cpu", n, s) : p \in addresses, n \in Shapes2, s \in Strides2}
PlaneDestinations == Plane({6})
PlaneSources == Plane({1, 4, 5, 6, 7, 9})

\* Three dimensions of nested and non-nested strides: carries that cross two
\* levels.  Extents stay within Int64Max, as check_view_geometry demands.
Cube(addresses) ==
  {View(p, 1, "f", "cpu", n, s) :
     p \in addresses, n \in {2, 3} \X {1, 2} \X {2, 3},
     s \in {<<8, 4, 1>>, <<9, 3, 1>>, <<6, 2, 1>>, <<12, 4, 2>>, <<7, 3, 1>>}}
InRange(ls) == {l \in ls : overlap_extent(l) <= Int64Max}
CubeDestinations == InRange(Cube({15}))
CubeSources == InRange(Cube(1 .. 30))

\* One dimension of two-byte elements at odd and even addresses, of two
\* element types, on two devices; nullptr and empty views among them.
Line(addresses) ==
  {View(p, 2, t, e, n, s) :
     p \in addresses, t \in {"f", "i"}, e \in {"cpu", "gpu"},
     n \in {<<>>} \cup {<<k>> : k \in 0 .. 3}, s \in {<<0>>, <<1>>, <<2>>}}
WellFormed(ls) ==
  {[l EXCEPT !.strides = IF l.sizes = <<>> THEN <<>> ELSE @] :
     l \in {v \in ls : v.data = nullptr => v.sizes = <<0>>}}
LineDestinations == {l \in WellFormed(Line({0, 9})) : l.type = "f" /\ l.device = "cpu"}
LineSources == WellFormed(Line(0 .. 16))

MCCases ==
  {[destinations |-> PlaneDestinations, sources |-> PlaneSources],
   [destinations |-> CubeDestinations, sources |-> CubeSources],
   [destinations |-> LineDestinations, sources |-> LineSources]}
=============================================================================
