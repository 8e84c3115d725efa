---------------------------- MODULE LayoutProofs ----------------------------
(***************************************************************************)
(* What strided layouts compute and what the overlap classification finds, *)
(* proved for layouts of any rank, sizes and strides.                      *)
(***************************************************************************)
EXTENDS Overlap, WellFoundedInduction, FunctionTheorems, FiniteSetTheorems, TLAPS

----------------------------------------------------------------------------
(* Arithmetic and recursion.                                               *)
(* A set of naturals that is not empty has a minimum. *)
LEMMA Minimum ==
  ASSUME NEW T \in SUBSET Nat, T # {}
  PROVE  \E x \in T : \A y \in T : x <= y
<1> DEFINE R == OpToRel(<, Nat)
<1>1. R = {ss \in Nat \X Nat : ss[1] < ss[2]}
  BY DEF OpToRel
<1>2. IsWellFoundedOn(R, Nat)
  BY NatLessThanWellFounded
<1> HIDE DEF R
<1>3. PICK x \in T : \A y \in T : ~ (<<y, x>> \in R)
  BY <1>2, WFMin
<1>4. ASSUME NEW y \in T PROVE x <= y
  <2>1. ASSUME y < x PROVE <<y, x>> \in R
    <3>1. <<y, x>> \in Nat \X Nat /\ <<y, x>>[1] = y /\ <<y, x>>[2] = x
      OBVIOUS
    <3> QED BY <1>1, <2>1, <3>1
  <2>2. ~(y < x)
    BY <1>3, <2>1
  <2> QED BY <2>2
<1> QED BY <1>4

(* Induction, for a set: a least counterexample has no predecessor. *)
LEMMA Induction ==
  ASSUME NEW n \in Nat, NEW S, 0 \in S, \A k \in 1 .. n : k - 1 \in S => k \in S
  PROVE  0 .. n \subseteq S
<1> DEFINE T == (0 .. n) \ S
<1> SUFFICES ASSUME T # {} PROVE FALSE
  OBVIOUS
<1>0. T \in SUBSET Nat
  OBVIOUS
<1>1. PICK x \in T : \A y \in T : x <= y
  <2> HIDE DEF T
  <2> QED BY <1>0, Minimum
<1>2. x # 0 /\ x \in 1 .. n /\ x - 1 \in 0 .. n /\ ~(x <= x - 1)
  BY <1>1
<1>3. x - 1 \in S
  BY <1>1, <1>2
<1> QED BY <1>1, <1>2, <1>3

(* The same from n + 1 down to 1. *)
LEMMA Descent ==
  ASSUME NEW n \in Nat, NEW S, n + 1 \in S, \A k \in 1 .. n : k + 1 \in S => k \in S
  PROVE  1 .. n + 1 \subseteq S
<1> DEFINE T == {k \in 0 .. n : n + 1 - k \in S}
<1>1. 0 \in T
  OBVIOUS
<1>2. ASSUME NEW k \in 1 .. n, k - 1 \in T PROVE k \in T
  <2>1. n + 1 - k \in 1 .. n /\ (n + 1 - k) + 1 = n + 1 - (k - 1)
    OBVIOUS
  <2> QED BY <1>2, <2>1
<1> HIDE DEF T
<1>3. 0 .. n \subseteq T
  BY <1>1, <1>2, Induction
<1>4. ASSUME NEW k \in 1 .. n + 1 PROVE k \in S
  <2>1. n + 1 - k \in 0 .. n /\ n + 1 - (n + 1 - k) = k
    OBVIOUS
  <2> QED BY <1>3, <2>1 DEF T
<1> QED BY <1>4

(* A recursion over 0 .. n whose values are in X has a solution. *)
Up(f, n, base, step) == f[0] = base /\ \A k \in 1 .. n : f[k] = step[k][f[k - 1]]
\* Such a function exists for every step function; so does the descending one.
LEMMA Ascent ==
  ASSUME NEW n \in Nat, NEW X, NEW base \in X, NEW step \in [1 .. n -> [X -> X]]
  PROVE  \E f \in [0 .. n -> X] : Up(f, n, base, step)
<1> USE DEF Up
<1> DEFINE Solution(f, m) == Up(f, m, base, step)
           S == {m \in 0 .. n : \E f \in [0 .. m -> X] : Solution(f, m)}
<1>1. 0 \in S
  <2> DEFINE f == [k \in 0 .. 0 |-> base]
  <2>1. f \in [0 .. 0 -> X] /\ Solution(f, 0)
    OBVIOUS
  <2> HIDE DEF f
  <2>2. \E g \in [0 .. 0 -> X] : Solution(g, 0)
    <3> HIDE DEF Solution
    <3> QED BY <2>1
  <2> QED BY <2>2
<1>2. ASSUME NEW m \in 1 .. n, m - 1 \in S PROVE m \in S
  <2>1. PICK f \in [0 .. m - 1 -> X] : Solution(f, m - 1)
    BY <1>2
  <2> DEFINE g == [k \in 0 .. m |-> IF k = m THEN step[m][f[m - 1]] ELSE f[k]]
  <2>2. f[m - 1] \in X /\ step[m] \in [X -> X]
    BY <2>1
  <2>3. g \in [0 .. m -> X]
    BY <2>1, <2>2
  <2>4. g[0] = base
    BY <2>1
  <2>5. ASSUME NEW k \in 1 .. m PROVE g[k] = step[k][g[k - 1]]
    <3>1. CASE k = m
      BY <3>1
    <3>2. CASE k # m
      <4>1. k \in 1 .. m - 1 /\ k \in 0 .. m /\ k - 1 \in 0 .. m /\ k - 1 # m
        BY <3>2
      <4> QED BY <2>1, <4>1
    <3> QED BY <3>1, <3>2
  <2>6. Solution(g, m)
    BY <2>4, <2>5
  <2> HIDE DEF g, Solution
  <2> QED BY <2>3, <2>6
<1> HIDE DEF S
<1>3. 0 .. n \subseteq S
  BY <1>1, <1>2, Induction
<1>4. n \in S
  BY <1>3
<1> QED BY <1>4 DEF S

(* The same from n + 1 down to 1. *)
Down(f, n, base, step) == f[n + 1] = base /\ \A k \in 1 .. n : f[k] = step[k][f[k + 1]]
\* A value at n + 1 and one step for each index below it.
LEMMA Descending ==
  ASSUME NEW n \in Nat, NEW X, NEW base \in X, NEW step \in [1 .. n -> [X -> X]]
  PROVE  \E f \in [1 .. n + 1 -> X] : Down(f, n, base, step)
<1> USE DEF Up, Down
<1> DEFINE back == [k \in 1 .. n |-> step[n + 1 - k]]
<1>1. back \in [1 .. n -> [X -> X]]
  OBVIOUS
<1>2. PICK g \in [0 .. n -> X] : Up(g, n, base, back)
  <2> HIDE DEF back, Up
  <2> QED BY <1>1, Ascent
<1> DEFINE f == [k \in 1 .. n + 1 |-> g[n + 1 - k]]
<1>3. f \in [1 .. n + 1 -> X] /\ f[n + 1] = base
  BY <1>2
<1>4. ASSUME NEW k \in 1 .. n PROVE f[k] = step[k][f[k + 1]]
  <2>1. n + 1 - k \in 1 .. n /\ (n + 1 - k) - 1 = n + 1 - (k + 1) /\ n + 1 - (n + 1 - k) = k
    OBVIOUS
  <2>2. back[n + 1 - k] = step[k]
    BY <2>1
  <2>3. f[k] = g[n + 1 - k] /\ f[k + 1] = g[(n + 1 - k) - 1]
    BY <2>1
  <2> HIDE DEF f, back
  <2> QED BY <1>2, <2>1, <2>2, <2>3
<1> HIDE DEF f
<1> QED BY <1>3, <1>4

----------------------------------------------------------------------------
(* Volumes and sums.                                                       *)
(* The empty product is 1; a dimension multiplies what is inside it.       *)
LEMMA VolumeIs ==
  ASSUME NEW s \in Seq(Nat)
  PROVE  /\ Volume(s, Len(s) + 1) = 1
         /\ \A d \in 1 .. Len(s) : Volume(s, d) = s[d] * Volume(s, d + 1)
         /\ \A d \in 1 .. Len(s) + 1 : Volume(s, d) \in Nat
<1> DEFINE n == Len(s)
           D == 1 .. n + 1
           step == [d \in 1 .. n |-> [x \in Nat |-> s[d] * x]]
           Body(f) == [d \in D |-> IF d > n THEN 1 ELSE s[d] * f[d + 1]]
<1>1. n \in Nat /\ \A d \in 1 .. n : s[d] \in Nat
  OBVIOUS
<1>2. step \in [1 .. n -> [Nat -> Nat]]
  <2>1. \A d \in 1 .. n : \A x \in Nat : s[d] * x \in Nat
    BY <1>1
  <2> QED BY <2>1
<1>3. PICK f \in [D -> Nat] : Down(f, n, 1, step)
  <2> HIDE DEF step
  <2> QED BY <1>1, <1>2, Descending
<1>4. f[n + 1] = 1 /\ \A d \in 1 .. n : f[d] = s[d] * f[d + 1]
  <2>1. ASSUME NEW d \in 1 .. n PROVE f[d + 1] \in Nat /\ step[d][f[d + 1]] = s[d] * f[d + 1]
    <3>1. d + 1 \in D
      BY <1>1
    <3>2. f[d + 1] \in Nat
      BY <1>3, <3>1
    <3>3. step[d] = [x \in Nat |-> s[d] * x]
      OBVIOUS
    <3> QED BY <3>2, <3>3
  <2> HIDE DEF step
  <2> QED BY <1>3, <2>1 DEF Down
<1>5. f = Body(f)
  BY <1>1, <1>3, <1>4
<1> DEFINE v == CHOOSE g : g = Body(g)
<1>6. v = Body(v)
  <2> HIDE DEF Body
  <2> QED BY <1>5
<1>7. \A d \in D : Volume(s, d) = v[d]
  BY DEF Volume
<1> HIDE DEF v
<1>8. v[n + 1] = 1 /\ \A d \in 1 .. n : v[d] = s[d] * v[d + 1]
  <2>1. \A d \in D : v[d] = IF d > n THEN 1 ELSE s[d] * v[d + 1]
    BY <1>6
  <2>2. n + 1 \in D /\ n + 1 > n /\ \A d \in 1 .. n : d \in D /\ ~(d > n)
    BY <1>1
  <2> QED BY <2>1, <2>2
<1> DEFINE S == {d \in D : v[d] \in Nat}
<1>9. D \subseteq S
  <2>1. n + 1 \in S
    BY <1>1, <1>8
  <2>2. \A d \in 1 .. n : d + 1 \in S => d \in S
    BY <1>1, <1>8, SMTT(60)
  <2> HIDE DEF S
  <2> QED BY <1>1, <2>1, <2>2, Descent
<1>10. n + 1 \in D /\ \A d \in 1 .. n : d \in D /\ d + 1 \in D
  BY <1>1
<1>11. Volume(s, n + 1) = 1
  BY <1>7, <1>8, <1>10
<1>12. \A d \in 1 .. n : Volume(s, d) = s[d] * Volume(s, d + 1)
  BY <1>7, <1>8, <1>10
<1>13. \A d \in D : Volume(s, d) \in Nat
  BY <1>7, <1>9
<1> QED BY <1>11, <1>12, <1>13

(* A sum grows by one term.                                                *)
LEMMA SumIs ==
  ASSUME NEW t \in Seq(Int)
  PROVE  /\ Sum(t, 0) = 0
         /\ \A d \in 1 .. Len(t) : Sum(t, d) = Sum(t, d - 1) + t[d]
         /\ \A d \in 0 .. Len(t) : Sum(t, d) \in Int
<1> DEFINE n == Len(t)
           step == [d \in 1 .. n |-> [x \in Int |-> x + t[d]]]
           Body(f) == [d \in 0 .. n |-> IF d = 0 THEN 0 ELSE f[d - 1] + t[d]]
<1>1. n \in Nat /\ \A d \in 1 .. n : t[d] \in Int
  OBVIOUS
<1>2. step \in [1 .. n -> [Int -> Int]]
  <2>1. \A d \in 1 .. n : \A x \in Int : x + t[d] \in Int
    BY <1>1
  <2> QED BY <2>1
<1>3. PICK f \in [0 .. n -> Int] : Up(f, n, 0, step)
  <2> HIDE DEF step
  <2>1. 0 \in Int
    OBVIOUS
  <2> QED BY <1>1, <1>2, <2>1, Ascent
<1>4. f[0] = 0 /\ \A d \in 1 .. n : f[d] = f[d - 1] + t[d]
  <2>1. ASSUME NEW d \in 1 .. n PROVE f[d - 1] \in Int /\ step[d][f[d - 1]] = f[d - 1] + t[d]
    <3>1. d - 1 \in 0 .. n
      BY <1>1
    <3>2. f[d - 1] \in Int
      BY <1>3, <3>1
    <3>3. step[d] = [x \in Int |-> x + t[d]]
      OBVIOUS
    <3> QED BY <3>2, <3>3
  <2> HIDE DEF step
  <2> QED BY <1>3, <2>1 DEF Up
<1>5. f = Body(f)
  BY <1>1, <1>3, <1>4
<1> DEFINE u == CHOOSE g : g = Body(g)
<1>6. u = Body(u)
  <2> HIDE DEF Body
  <2> QED BY <1>5
<1>7. \A d \in 0 .. n : Sum(t, d) = u[d]
  BY DEF Sum
<1> HIDE DEF u
<1>8. u[0] = 0 /\ \A d \in 1 .. n : u[d] = u[d - 1] + t[d]
  BY <1>1, <1>6, SMTT(60)
<1> DEFINE S == {d \in 0 .. n : u[d] \in Int}
<1>9. 0 .. n \subseteq S
  <2>1. 0 \in S
    BY <1>1, <1>8
  <2>2. \A d \in 1 .. n : d - 1 \in S => d \in S
    BY <1>1, <1>8, SMTT(60)
  <2> HIDE DEF S
  <2> QED BY <1>1, <2>1, <2>2, Induction
<1>10. 0 \in 0 .. n /\ \A d \in 1 .. n : d \in 0 .. n /\ d - 1 \in 0 .. n
  BY <1>1
<1> QED BY <1>1, <1>7, <1>8, <1>9, <1>10

(* Nothing is inside a positive volume but positive sizes and volumes.     *)
LEMMA VolumePositive ==
  ASSUME NEW s \in Seq(Nat), Product(s) > 0
  PROVE  /\ \A d \in 1 .. Len(s) + 1 : Volume(s, d) > 0
         /\ \A d \in 1 .. Len(s) : s[d] > 0
<1> DEFINE n == Len(s)
           S == {d \in 0 .. n : Volume(s, d + 1) > 0}
<1>1. /\ n \in Nat
      /\ \A d \in 1 .. n : s[d] \in Nat /\ Volume(s, d) = s[d] * Volume(s, d + 1)
      /\ \A d \in 1 .. n + 1 : Volume(s, d) \in Nat
  BY VolumeIs
<1>2. \A x, y \in Nat : x * y > 0 => x > 0 /\ y > 0
  OBVIOUS
<1>3. 0 \in S
  BY <1>1 DEF Product
<1>4. ASSUME NEW d \in 1 .. n, d - 1 \in S PROVE d \in S
  <2>1. (d - 1) + 1 = d /\ d \in 0 .. n /\ d \in 1 .. n + 1 /\ d + 1 \in 1 .. n + 1
    BY <1>1
  <2>2. Volume(s, d) > 0
    BY <1>4, <2>1
  <2> QED BY <1>1, <1>2, <2>1, <2>2, ZenonT(120)
<1>5. 0 .. n \subseteq S
  <2> HIDE DEF S
  <2> QED BY <1>1, <1>3, <1>4, Induction
<1>6. ASSUME NEW d \in 1 .. n + 1 PROVE Volume(s, d) > 0
  <2>1. d - 1 \in 0 .. n /\ (d - 1) + 1 = d
    BY <1>1
  <2> QED BY <1>5, <2>1
<1>7. ASSUME NEW d \in 1 .. n PROVE s[d] > 0
  <2>1. d \in 1 .. n + 1 /\ d + 1 \in 1 .. n + 1
    BY <1>1
  <2> QED BY <1>1, <1>2, <1>6, <2>1
<1> QED BY <1>6, <1>7

(* Terms that are not negative, and not greater, add up to no more.        *)
LEMMA SumBetween ==
  ASSUME NEW t \in Seq(Int), NEW u \in Seq(Int), Len(t) = Len(u),
         \A d \in 1 .. Len(t) : 0 <= t[d] /\ t[d] <= u[d]
  PROVE  \A d \in 0 .. Len(t) : 0 <= Sum(t, d) /\ Sum(t, d) <= Sum(u, d)
<1> DEFINE n == Len(t)
           S == {d \in 0 .. n : 0 <= Sum(t, d) /\ Sum(t, d) <= Sum(u, d)}
<1>1. /\ n \in Nat
      /\ \A d \in 1 .. n : t[d] \in Int /\ u[d] \in Int
      /\ Sum(t, 0) = 0 /\ Sum(u, 0) = 0
      /\ \A d \in 1 .. n : Sum(t, d) = Sum(t, d - 1) + t[d] /\ Sum(u, d) = Sum(u, d - 1) + u[d]
      /\ \A d \in 0 .. n : Sum(t, d) \in Int /\ Sum(u, d) \in Int
  BY SumIs, SMTT(60)
<1>2. 0 \in S
  BY <1>1
<1>3. ASSUME NEW d \in 1 .. n, d - 1 \in S PROVE d \in S
  <2>1. d \in 0 .. n /\ d - 1 \in 0 .. n
    BY <1>1
  <2>2. /\ {Sum(t, d - 1), Sum(u, d - 1), Sum(t, d), Sum(u, d), t[d], u[d]} \subseteq Int
        /\ Sum(t, d) = Sum(t, d - 1) + t[d] /\ Sum(u, d) = Sum(u, d - 1) + u[d]
    BY <1>1, <2>1
  <2>3. 0 <= Sum(t, d) /\ Sum(t, d) <= Sum(u, d)
    BY <1>3, <2>2, SMTT(60)
  <2> QED BY <2>1, <2>3
<1>4. 0 .. n \subseteq S
  <2> HIDE DEF S
  <2> QED BY <1>1, <1>2, <1>3, Induction
<1> QED BY <1>4

----------------------------------------------------------------------------
(* Layouts.                                                                *)
Strided(l) ==
  l.sizes \in Seq(Nat) /\ l.strides \in Seq(Nat) /\ Len(l.strides) = Len(l.sizes)

\* Multiplication keeps the order of naturals.
LEMMA Products ==
  ASSUME NEW a \in Nat, NEW b \in Nat, NEW c \in Nat, a <= b
  PROVE  a * c \in Nat /\ b * c \in Nat /\ a * c <= b * c
<1>1. b - a \in Nat /\ b = a + (b - a)
  OBVIOUS
<1>2. PICK k \in Nat : b = a + k
  BY <1>1
<1>3. b * c = a * c + k * c /\ k * c \in Nat /\ a * c \in Nat
  BY <1>2
<1> QED BY <1>3

\* A function of integers is a sequence of them.
LEMMA Terms ==
  ASSUME NEW n \in Nat, NEW t \in [1 .. n -> Int]
  PROVE  t \in Seq(Int) /\ Len(t) = n
OBVIOUS

\* What each dimension adds to the extent, and to the offset of element i.
Reaches(l) == [d \in 1 .. rank(l) |-> (l.sizes[d] - 1) * l.strides[d]]
Adds(l, i) == [d \in 1 .. rank(l) |-> Coord(l.sizes, i)[d] * l.strides[d]]

\* The types of a strided layout, and its extent as a sum.
LEMMA Strides ==
  ASSUME NEW l, Strided(l)
  PROVE  /\ rank(l) \in Nat /\ Len(l.sizes) = rank(l) /\ Len(l.strides) = rank(l)
         /\ \A d \in 1 .. rank(l) : l.sizes[d] \in Nat /\ l.strides[d] \in Nat
         /\ overlap_extent(l) = Sum(Reaches(l), rank(l))
         /\ Reaches(l) \in Seq(Int) /\ Len(Reaches(l)) = rank(l)
<1>1. /\ rank(l) \in Nat /\ Len(l.sizes) = rank(l) /\ Len(l.strides) = rank(l)
      /\ \A d \in 1 .. rank(l) : l.sizes[d] \in Nat /\ l.strides[d] \in Nat
  BY SMTT(60) DEF Strided, rank
<1>2. overlap_extent(l) = Sum(Reaches(l), rank(l))
  BY DEF overlap_extent, Reaches
<1>3. Reaches(l) \in [1 .. rank(l) -> Int]
  <2>1. ASSUME NEW d \in 1 .. rank(l) PROVE (l.sizes[d] - 1) * l.strides[d] \in Int
    BY <1>1
  <2> QED BY <2>1 DEF Reaches
<1> QED BY <1>1, <1>2, <1>3, Terms

(* The coordinates of an element of a layout that has some.                *)
LEMMA Coordinates ==
  ASSUME NEW l, Strided(l), numel(l) > 0, NEW i \in Nat
  PROVE  /\ \A d \in 1 .. rank(l) :
              /\ Volume(l.sizes, d + 1) \in Nat \ {0} /\ l.sizes[d] \in Nat \ {0}
              /\ Coord(l.sizes, i)[d] = (i \div Volume(l.sizes, d + 1)) % l.sizes[d]
              /\ Coord(l.sizes, i)[d] \in 0 .. l.sizes[d] - 1
         /\ ElementOffset(l, i) = Sum(Adds(l, i), rank(l))
         /\ Adds(l, i) \in Seq(Int) /\ Len(Adds(l, i)) = rank(l)
<1>1. /\ rank(l) \in Nat /\ Len(l.sizes) = rank(l) /\ l.sizes \in Seq(Nat)
      /\ \A d \in 1 .. rank(l) : l.sizes[d] \in Nat /\ l.strides[d] \in Nat
  BY Strides DEF Strided
<1>2. ASSUME NEW d \in 1 .. rank(l)
      PROVE  /\ Volume(l.sizes, d + 1) \in Nat \ {0} /\ l.sizes[d] \in Nat \ {0}
             /\ Coord(l.sizes, i)[d] = (i \div Volume(l.sizes, d + 1)) % l.sizes[d]
             /\ Coord(l.sizes, i)[d] \in 0 .. l.sizes[d] - 1
  <2>1. d + 1 \in 1 .. rank(l) + 1 /\ Product(l.sizes) > 0
    BY <1>1 DEF numel
  <2>2. Volume(l.sizes, d + 1) \in Nat /\ Volume(l.sizes, d + 1) > 0 /\ l.sizes[d] > 0
    BY <1>1, <2>1, VolumeIs, VolumePositive
  <2>3. Coord(l.sizes, i)[d] = (i \div Volume(l.sizes, d + 1)) % l.sizes[d]
    BY <1>1 DEF Coord
  <2>4. i \div Volume(l.sizes, d + 1) \in Nat
    BY <2>2
  <2>5. \A q \in Nat, m \in Nat \ {0} : q % m \in 0 .. m - 1
    OBVIOUS
  <2>6. l.sizes[d] \in Nat \ {0} /\ Volume(l.sizes, d + 1) \in Nat \ {0}
    BY <1>1, <2>2
  <2>7. (i \div Volume(l.sizes, d + 1)) % l.sizes[d] \in 0 .. l.sizes[d] - 1
    BY <2>4, <2>5, <2>6
  <2> QED BY <2>3, <2>6, <2>7
<1>3. Adds(l, i) \in [1 .. rank(l) -> Int]
  <2>1. ASSUME NEW d \in 1 .. rank(l) PROVE Coord(l.sizes, i)[d] * l.strides[d] \in Int
    <3>1. Coord(l.sizes, i)[d] \in Int /\ l.strides[d] \in Int
      BY <1>1, <1>2
    <3> QED BY <3>1
  <2> QED BY <2>1 DEF Adds
<1>4. ElementOffset(l, i) = Sum(Adds(l, i), rank(l))
  <2>1. Len(Coord(l.sizes, i)) = rank(l)
    <3>1. Coord(l.sizes, i) = [d \in 1 .. rank(l) |-> (i \div Volume(l.sizes, d + 1)) % l.sizes[d]]
      BY <1>1 DEF Coord
    <3>2. Coord(l.sizes, i) \in [1 .. rank(l) -> Int]
      <4>1. \A d \in 1 .. rank(l) : (i \div Volume(l.sizes, d + 1)) % l.sizes[d] \in Int
        BY <1>1, <1>2, SMTT(60)
      <4> QED BY <3>1, <4>1
    <3> QED BY <1>1, <3>2, Terms
  <2> QED BY <2>1 DEF ElementOffset, Dot, Adds
<1> QED BY <1>1, <1>2, <1>3, <1>4, Terms

(* Every element of a layout lies within its extent: what the check of     *)
(* storage bounds relies on.                                               *)
LEMMA ElementInExtent ==
  ASSUME NEW l, Strided(l), numel(l) > 0, NEW i \in Nat
  PROVE  ElementOffset(l, i) \in Nat /\ overlap_extent(l) \in Nat
         /\ ElementOffset(l, i) <= overlap_extent(l)
<1>1. /\ rank(l) \in Nat
      /\ \A d \in 1 .. rank(l) : l.sizes[d] \in Nat /\ l.strides[d] \in Nat
      /\ overlap_extent(l) = Sum(Reaches(l), rank(l))
      /\ Reaches(l) \in Seq(Int) /\ Len(Reaches(l)) = rank(l)
  BY Strides
<1>2. /\ \A d \in 1 .. rank(l) : Coord(l.sizes, i)[d] \in 0 .. l.sizes[d] - 1
      /\ ElementOffset(l, i) = Sum(Adds(l, i), rank(l))
      /\ Adds(l, i) \in Seq(Int) /\ Len(Adds(l, i)) = rank(l)
  BY Coordinates
<1>3. ASSUME NEW d \in 1 .. rank(l) PROVE 0 <= Adds(l, i)[d] /\ Adds(l, i)[d] <= Reaches(l)[d]
  <2>1. /\ Coord(l.sizes, i)[d] \in Nat /\ l.sizes[d] - 1 \in Nat /\ l.strides[d] \in Nat
        /\ Coord(l.sizes, i)[d] <= l.sizes[d] - 1
    <3>1. l.sizes[d] \in Nat /\ l.strides[d] \in Nat
      BY <1>1
    <3>2. Coord(l.sizes, i)[d] \in 0 .. l.sizes[d] - 1
      BY <1>2
    <3> QED BY <3>1, <3>2
  <2>2. /\ Coord(l.sizes, i)[d] * l.strides[d] \in Nat
        /\ Coord(l.sizes, i)[d] * l.strides[d] <= (l.sizes[d] - 1) * l.strides[d]
    BY <2>1, Products
  <2> QED BY <2>2 DEF Adds, Reaches
<1>4. rank(l) \in 0 .. rank(l)
  BY <1>1
<1>5. 0 <= Sum(Adds(l, i), rank(l)) /\ Sum(Adds(l, i), rank(l)) <= Sum(Reaches(l), rank(l))
  BY <1>1, <1>2, <1>3, <1>4, SumBetween
<1>6. Sum(Adds(l, i), rank(l)) \in Int /\ Sum(Reaches(l), rank(l)) \in Int
  BY <1>1, <1>2, <1>4, SumIs
<1> QED BY <1>1, <1>2, <1>5, <1>6

(* C-order strides, and the elements of a packed layout from the first to  *)
(* the last: as many as its extent, which telescopes, and one.             *)
LEMMA PackedShape ==
  ASSUME NEW s \in Seq(Nat)
  PROVE  /\ PackedStrides(s) \in Seq(Nat) /\ Len(PackedStrides(s)) = Len(s)
         /\ \A d \in 1 .. Len(s) : PackedStrides(s)[d] = Volume(s, d + 1)
         /\ Product(s) \in Nat
<1>1. Len(s) \in Nat /\ \A d \in 1 .. Len(s) + 1 : Volume(s, d) \in Nat
  BY VolumeIs
<1>2. \A d \in 1 .. Len(s) : PackedStrides(s)[d] = Volume(s, d + 1) /\ Volume(s, d + 1) \in Nat
  <2>1. \A d \in 1 .. Len(s) : d + 1 \in 1 .. Len(s) + 1
    BY <1>1
  <2> QED BY <1>1, <2>1 DEF PackedStrides
<1>3. PackedStrides(s) \in [1 .. Len(s) -> Nat]
  BY <1>2 DEF PackedStrides
<1>4. PackedStrides(s) \in Seq(Nat) /\ Len(PackedStrides(s)) = Len(s)
  BY <1>1, <1>3, SMTT(60)
<1>5. Product(s) \in Nat
  BY <1>1 DEF Product
<1> QED BY <1>2, <1>4, <1>5

\* Packed strides reach exactly the elements there are.
LEMMA PackedExtent ==
  ASSUME NEW l, l.sizes \in Seq(Nat), l.strides = PackedStrides(l.sizes)
  PROVE  Strided(l) /\ overlap_extent(l) = numel(l) - 1
<1> DEFINE s == l.sizes
           n == rank(l)
           t == Reaches(l)
           S == {d \in 0 .. n : Sum(t, d) = Volume(s, 1) - Volume(s, d + 1)}
<1>1. Strided(l)
  BY PackedShape DEF Strided
<1>2. /\ n \in Nat /\ n = Len(s) /\ \A d \in 1 .. n : s[d] \in Nat
      /\ \A d \in 1 .. n : l.strides[d] = Volume(s, d + 1)
      /\ overlap_extent(l) = Sum(t, n) /\ t \in Seq(Int) /\ Len(t) = n
  BY <1>1, Strides, PackedShape
<1>3. /\ Sum(t, 0) = 0
      /\ \A d \in 1 .. n : Sum(t, d) = Sum(t, d - 1) + t[d]
      /\ \A d \in 0 .. n : Sum(t, d) \in Int
  BY <1>2, SumIs
<1>4. /\ Volume(s, n + 1) = 1
      /\ \A d \in 1 .. n : Volume(s, d) = s[d] * Volume(s, d + 1)
      /\ \A d \in 1 .. n + 1 : Volume(s, d) \in Nat
  BY <1>2, VolumeIs
<1>5. 0 \in S
  <2>1. 0 \in 0 .. n /\ 0 + 1 = 1 /\ 1 \in 1 .. n + 1
    BY <1>2
  <2>2. Volume(s, 1) \in Nat
    BY <1>4, <2>1
  <2>3. Sum(t, 0) = Volume(s, 1) - Volume(s, 1)
    BY <1>3, <2>2
  <2> QED BY <2>1, <2>3
<1>6. ASSUME NEW d \in 1 .. n, d - 1 \in S PROVE d \in S
  <2>1. /\ d \in 0 .. n /\ d - 1 \in 0 .. n /\ (d - 1) + 1 = d
        /\ 1 \in 1 .. n + 1 /\ d \in 1 .. n + 1 /\ d + 1 \in 1 .. n + 1
    BY <1>2
  <2>2. Sum(t, d) = Sum(t, d - 1) + t[d] /\ Sum(t, d - 1) = Volume(s, 1) - Volume(s, d)
    BY <1>3, <1>6, <2>1
  <2>3. t[d] = (s[d] - 1) * Volume(s, d + 1)
    BY <1>2 DEF Reaches
  <2>4. \A x, y \in Nat : (x - 1) * y = x * y - y
    OBVIOUS
  <2>5. Volume(s, 1) \in Nat /\ Volume(s, d) \in Nat /\ Volume(s, d + 1) \in Nat /\ s[d] \in Nat
    BY <1>2, <1>4, <2>1
  <2>6. t[d] = Volume(s, d) - Volume(s, d + 1)
    BY <1>4, <2>3, <2>4, <2>5, ZenonT(120)
  <2>7. Sum(t, d) = Volume(s, 1) - Volume(s, d + 1)
    BY <2>2, <2>5, <2>6
  <2> QED BY <2>1, <2>7
<1>7. 0 .. n \subseteq S
  <2> HIDE DEF S
  <2> QED BY <1>2, <1>5, <1>6, Induction
<1>8. Sum(t, n) = Volume(s, 1) - 1
  <2>1. n \in 0 .. n
    BY <1>2
  <2> QED BY <1>4, <1>7, <2>1
<1> QED BY <1>1, <1>2, <1>8 DEF numel, Product

(* Quotients.                                                              *)
LEMMA Division ==
  ASSUME NEW m \in Nat, NEW d \in Nat \ {0}
  PROVE  /\ m \div d \in Nat /\ m % d \in 0 .. d - 1
         /\ m = d * (m \div d) + (m % d)
OBVIOUS

\* Quotients and remainders are naturals.
LEMMA Digits == \A m \in Nat : \A d \in Nat \ {0} : m \div d \in Nat /\ m % d \in Nat
OBVIOUS

\* The quotient is the one that leaves a remainder below the divisor.
LEMMA Quotient ==
  ASSUME NEW m \in Nat, NEW d \in Nat \ {0}, NEW q \in Nat, NEW r \in 0 .. d - 1, m = d * q + r
  PROVE  m \div d = q
<1> DEFINE p == m \div d
           x == m % d
<1>1. p \in Nat /\ x \in 0 .. d - 1 /\ d * p + x = d * q + r
  BY Division
<1> HIDE DEF p, x
<1>2. ASSUME NEW a \in Nat, NEW b \in Nat, a < b PROVE d * a + d <= d * b
  <2>1. PICK k \in Nat : b = a + 1 + k
    <3>1. b - a - 1 \in Nat /\ b = a + 1 + (b - a - 1)
      BY <1>2
    <3> QED BY <3>1
  <2>2. d * b = d * a + d + d * k /\ d * k \in Nat /\ d * a \in Nat
    BY <2>1
  <2> QED BY <2>2
<1>3. d * p \in Nat /\ d * q \in Nat
  BY <1>1
<1>4. ~(p < q)
  <2>1. p < q => d * p + d <= d * q
    BY <1>1, <1>2
  <2> QED BY <1>1, <1>3, <2>1
<1>5. ~(q < p)
  <2>1. q < p => d * q + d <= d * p
    BY <1>1, <1>2
  <2> QED BY <1>1, <1>3, <2>1
<1>6. p = q
  BY <1>1, <1>4, <1>5
<1> QED BY <1>6 DEF p

(* Dividing by a size, and then by the next, divides by their product.     *)
LEMMA QuotientOfQuotient ==
  ASSUME NEW i \in Nat, NEW v \in Nat \ {0}, NEW s \in Nat \ {0}
  PROVE  i \div (s * v) = (i \div v) \div s
<1> DEFINE a == i \div v
           r == i % v
           b == a \div s
           t == a % s
<1>1. a \in Nat /\ r \in 0 .. v - 1 /\ i = v * a + r
  BY Division
<1>2. b \in Nat /\ t \in 0 .. s - 1 /\ a = s * b + t
  <2> HIDE DEF a
  <2> QED BY <1>1, Division
<1> HIDE DEF a, r, b, t
<1>3. s * v \in Nat \ {0} /\ v * t \in Nat /\ (s * v) * b \in Nat
  <2>1. s * v \in Nat /\ s * v # 0
    OBVIOUS
  <2>2. v * t \in Nat
    BY <1>2
  <2>3. (s * v) * b \in Nat
    BY <1>2, <2>1
  <2> QED BY <2>1, <2>2, <2>3
<1>4. i = (s * v) * b + (v * t + r)
  <2>1. v * a = v * (s * b) + v * t
    <3>1. s * b \in Nat /\ t \in Nat
      BY <1>2
    <3>2. \A x, y \in Nat : v * (x + y) = v * x + v * y
      OBVIOUS
    <3> QED BY <1>2, <3>1, <3>2
  <2>2. v * (s * b) = (s * v) * b
    BY <1>2
  <2> QED BY <1>1, <1>2, <1>3, <2>1, <2>2
<1>5. v * t + r \in 0 .. s * v - 1
  <2>1. PICK k \in Nat : s = t + 1 + k
    <3>1. s - t - 1 \in Nat /\ s = t + 1 + (s - t - 1)
      BY <1>2
    <3> QED BY <3>1
  <2>2. t \in Nat /\ s * v = v * t + v + v * k /\ v * k \in Nat
    BY <1>2, <2>1
  <2> QED BY <1>1, <1>3, <2>2
<1>6. i \div (s * v) = b
  BY <1>2, <1>3, <1>4, <1>5, Quotient
<1> QED BY <1>6 DEF a, b

(* A layout that is packed in C order is flat: element i lies at i.        *)
LEMMA PackedElement ==
  ASSUME NEW l, Strided(l), is_packed(l), NEW i \in Nat, i < numel(l)
  PROVE  ElementOffset(l, i) = i
<1> DEFINE s == l.sizes
           n == rank(l)
           V(d) == Volume(s, d)
           t == Adds(l, i)
           S == {d \in 0 .. n : Sum(t, d) = (i \div V(d + 1)) * V(d + 1)}
<1>1. numel(l) = V(1) /\ numel(l) \in Nat /\ numel(l) > 0
  <2>1. numel(l) \in Nat
    BY PackedShape DEF Strided, numel
  <2> QED BY <2>1 DEF numel, Product
<1>2. /\ n \in Nat /\ n = Len(s) /\ s \in Seq(Nat)
      /\ \A d \in 1 .. n : s[d] \in Nat /\ l.strides[d] \in Nat
  BY Strides DEF Strided
<1>3. /\ \A d \in 1 .. n :
           /\ V(d + 1) \in Nat \ {0} /\ s[d] \in Nat \ {0}
           /\ Coord(s, i)[d] = (i \div V(d + 1)) % s[d]
      /\ ElementOffset(l, i) = Sum(t, n) /\ t \in Seq(Int) /\ Len(t) = n
  BY <1>1, Coordinates
<1>4. /\ Sum(t, 0) = 0
      /\ \A d \in 1 .. n : Sum(t, d) = Sum(t, d - 1) + t[d]
  BY <1>3, SumIs
<1>5. V(n + 1) = 1 /\ \A d \in 1 .. n : V(d) = s[d] * V(d + 1)
  BY <1>2, VolumeIs
<1>6. 0 \in S
  <2>1. V(1) \in Nat \ {0} /\ i = V(1) * 0 + i /\ i \in 0 .. V(1) - 1
    BY <1>1
  <2>2. i \div V(1) = 0
    BY <2>1, Quotient
  <2>3. Sum(t, 0) = (i \div V(1)) * V(1)
    BY <1>4, <2>1, <2>2
  <2>4. 0 \in 0 .. n /\ 0 + 1 = 1
    BY <1>2
  <2> QED BY <2>3, <2>4
<1>7. ASSUME NEW d \in 1 .. n, d - 1 \in S PROVE d \in S
  <2> DEFINE v == V(d + 1)
             a == i \div v
  <2>1. v \in Nat \ {0} /\ s[d] \in Nat \ {0} /\ a \in Nat
    <3>1. v \in Nat \ {0} /\ s[d] \in Nat \ {0}
      BY <1>3
    <3> HIDE DEF v
    <3> QED BY <3>1, Division
  <2>2. Sum(t, d) = Sum(t, d - 1) + t[d] /\ Sum(t, d - 1) = (i \div V(d)) * V(d)
    <3>1. (d - 1) + 1 = d
      BY <1>2
    <3>2. Sum(t, d - 1) = (i \div V((d - 1) + 1)) * V((d - 1) + 1)
      BY <1>7
    <3> QED BY <1>4, <3>1, <3>2
  <2>3. V(d) = s[d] * v
    BY <1>5
  <2>4. i \div V(d) = a \div s[d]
    <3> HIDE DEF V
    <3> QED BY <2>1, <2>3, QuotientOfQuotient
  <2>5. t[d] = (a % s[d]) * v
    <3>1. t[d] = (a % s[d]) * l.strides[d]
      BY <1>3 DEF Adds
    <3>2. CASE l.strides[d] = v
      BY <3>1, <3>2
    <3>3. CASE s[d] = 1
      <4>1. a % s[d] = 0
        BY <2>1, <3>3
      <4> QED BY <1>2, <2>1, <3>1, <4>1, SMTT(60)
    <3>4. s[d] = 1 \/ l.strides[d] = v
      <4>1. ~ \E e \in d .. rank(l) : s[e] = 0
        <5>1. \A e \in d .. rank(l) : e \in 1 .. n
          BY <1>2
        <5> QED BY <1>3, <5>1
      <4> QED BY <4>1 DEF is_packed
    <3> QED BY <3>2, <3>3, <3>4
  <2> HIDE DEF a, v
  <2>6. Sum(t, d) = a * v
    <3>1. a \div s[d] \in Nat /\ a % s[d] \in 0 .. s[d] - 1 /\ a = s[d] * (a \div s[d]) + (a % s[d])
      BY <2>1, Division
    <3> DEFINE b == a \div s[d]
               r == a % s[d]
    <3>2. b \in Nat /\ r \in Nat /\ a = s[d] * b + r
      BY <2>1, <3>1
    <3>3. Sum(t, d) = b * (s[d] * v) + r * v
      BY <2>2, <2>3, <2>4, <2>5
    <3> HIDE DEF b, r
    <3>4. b * (s[d] * v) + r * v = (s[d] * b + r) * v
      <4>1. \A x, y, z, w \in Nat : x * (y * z) + w * z = (y * x + w) * z
        OBVIOUS
      <4> QED BY <2>1, <3>2, <4>1
    <3> QED BY <3>2, <3>3, <3>4
  <2>7. d \in 0 .. n
    BY <1>2
  <2> QED BY <2>6, <2>7 DEF a, v
<1>8. 0 .. n \subseteq S
  <2> HIDE DEF S
  <2> QED BY <1>2, <1>6, <1>7, Induction
<1>9. Sum(t, n) = i
  <2>1. n \in 0 .. n
    BY <1>2
  <2>2. Sum(t, n) = (i \div V(n + 1)) * V(n + 1)
    BY <1>8, <2>1
  <2>3. i \div 1 = i
    OBVIOUS
  <2> QED BY <1>5, <2>2, <2>3
<1> QED BY <1>3, <1>9

(* The division per dimension, from the inside out.                        *)
Divided == [off : Int, rem : Nat]
Divide(l, inner, d) ==
  [off |-> inner.off + (inner.rem % l.sizes[d]) * l.strides[d], rem |-> inner.rem \div l.sizes[d]]

\* The loop of strided_offset adds coordinate times stride.
LEMMA StridedOffsetIs ==
  ASSUME NEW l, Strided(l), numel(l) > 0, NEW i \in Nat
  PROVE  strided_offset(l, FALSE, i) = ElementOffset(l, i)
<1> DEFINE s == l.sizes
           n == rank(l)
           D == 1 .. n + 1
           t == Adds(l, i)
           outermost == [off |-> 0, rem |-> i]
           step == [d \in 1 .. n |-> [x \in Divided |-> Divide(l, x, d)]]
           Body(f) == [d \in D |-> IF d > n THEN outermost ELSE Divide(l, f[d + 1], d)]
<1>1. /\ n \in Nat /\ n = Len(s) /\ s \in Seq(Nat)
      /\ \A d \in 1 .. n : l.strides[d] \in Nat
  BY Strides DEF Strided
<1>2. /\ \A d \in 1 .. n :
           /\ Volume(s, d + 1) \in Nat \ {0} /\ s[d] \in Nat \ {0}
           /\ Coord(s, i)[d] = (i \div Volume(s, d + 1)) % s[d]
      /\ ElementOffset(l, i) = Sum(t, n) /\ t \in Seq(Int) /\ Len(t) = n
  BY Coordinates
<1>3. ASSUME NEW x \in Divided, NEW d \in 1 .. n
      PROVE  /\ Divide(l, x, d) \in Divided
             /\ Divide(l, x, d).off = x.off + (x.rem % s[d]) * l.strides[d]
             /\ Divide(l, x, d).rem = x.rem \div s[d]
  <2>1. x.off \in Int /\ x.rem \in Nat /\ s[d] \in Nat \ {0} /\ l.strides[d] \in Nat
    BY <1>1, <1>2 DEF Divided
  <2>2. x.rem % s[d] \in Nat /\ x.rem \div s[d] \in Nat
    BY <2>1, Digits
  <2>3. x.off + (x.rem % s[d]) * l.strides[d] \in Int
    BY <2>1, <2>2
  <2> QED BY <2>2, <2>3 DEF Divide, Divided
<1>4. \E f : f = Body(f)
  <2>1. outermost \in Divided
    BY DEF Divided
  <2>2. step \in [1 .. n -> [Divided -> Divided]]
    BY <1>3
  <2>3. PICK f \in [D -> Divided] : Down(f, n, outermost, step)
    <3> HIDE DEF step, outermost
    <3> QED BY <1>1, <2>1, <2>2, Descending
  <2>4. ASSUME NEW d \in 1 .. n PROVE f[d] = Divide(l, f[d + 1], d)
    <3>1. d + 1 \in D
      BY <1>1
    <3>2. f[d + 1] \in Divided
      BY <2>3, <3>1
    <3>3. step[d] = [x \in Divided |-> Divide(l, x, d)]
      OBVIOUS
    <3>4. step[d][f[d + 1]] = Divide(l, f[d + 1], d)
      BY <3>2, <3>3
    <3> HIDE DEF step
    <3> QED BY <2>3, <3>4 DEF Down
  <2>5. f[n + 1] = outermost
    BY <2>3 DEF Down
  <2>6. ASSUME NEW d \in D PROVE f[d] = IF d > n THEN outermost ELSE Divide(l, f[d + 1], d)
    <3>1. CASE d = n + 1
      BY <1>1, <2>5, <3>1
    <3>2. CASE d # n + 1
      <4>1. d \in 1 .. n /\ ~(d > n)
        BY <1>1, <3>2
      <4> QED BY <2>4, <4>1
    <3> QED BY <3>1, <3>2
  <2> HIDE DEF outermost
  <2> QED BY <2>3, <2>6
<1> DEFINE acc == CHOOSE f : f = Body(f)
<1>5. acc = Body(acc)
  <2> HIDE DEF Body
  <2> QED BY <1>4
<1>6. strided_offset(l, FALSE, i) = acc[1].off
  <2>1. ~ \E d \in 1 .. n : s[d] = 0
    BY <1>2
  <2> QED BY <2>1 DEF strided_offset, Divide
<1> HIDE DEF acc
<1>7. acc[n + 1] = outermost /\ \A d \in 1 .. n : acc[d] = Divide(l, acc[d + 1], d)
  <2>1. \A d \in D : acc[d] = IF d > n THEN outermost ELSE Divide(l, acc[d + 1], d)
    <3> HIDE DEF outermost
    <3> QED BY <1>5
  <2>2. n + 1 \in D /\ n + 1 > n /\ \A d \in 1 .. n : d \in D /\ ~(d > n)
    BY <1>1
  <2> HIDE DEF outermost
  <2> QED BY <2>1, <2>2
<1> DEFINE S == {d \in D : /\ acc[d] \in Divided
                           /\ acc[d].rem = i \div Volume(s, d)
                           /\ acc[d].off + Sum(t, d - 1) = Sum(t, n)}
<1>8. /\ \A d \in 1 .. n : Sum(t, d) = Sum(t, d - 1) + t[d]
      /\ \A d \in 0 .. n : Sum(t, d) \in Int
      /\ Sum(t, 0) = 0
  BY <1>2, SumIs
<1>9. Volume(s, n + 1) = 1 /\ \A d \in 1 .. n : Volume(s, d) = s[d] * Volume(s, d + 1)
  BY <1>1, VolumeIs
<1>10. n + 1 \in S
  <2>1. acc[n + 1] \in Divided /\ acc[n + 1].rem = i /\ acc[n + 1].off = 0
    BY <1>7 DEF Divided
  <2>2. i \div 1 = i
    OBVIOUS
  <2>3. n + 1 \in D /\ (n + 1) - 1 = n /\ n \in 0 .. n
    BY <1>1
  <2>4. 0 + Sum(t, n) = Sum(t, n)
    BY <1>8, <2>3
  <2> QED BY <1>9, <2>1, <2>2, <2>3, <2>4
<1>11. ASSUME NEW d \in 1 .. n, d + 1 \in S PROVE d \in S
  <2> DEFINE v == Volume(s, d + 1)
             x == acc[d + 1]
             q == i \div v
  <2>1. /\ x \in Divided /\ x.rem = q /\ x.off + Sum(t, d) = Sum(t, n)
        /\ d \in D /\ d \in 0 .. n /\ d - 1 \in 0 .. n
    <3>1. (d + 1) - 1 = d /\ d \in D /\ d \in 0 .. n /\ d - 1 \in 0 .. n
      BY <1>1
    <3> QED BY <1>11, <3>1
  <2>2. acc[d] = Divide(l, x, d)
    BY <1>7
  <2>3. v \in Nat \ {0} /\ s[d] \in Nat \ {0} /\ l.strides[d] \in Nat
    BY <1>1, <1>2
  <2>4. t[d] = (q % s[d]) * l.strides[d]
    BY <1>2 DEF Adds
  <2>5. acc[d].rem = i \div Volume(s, d)
    <3>1. acc[d].rem = q \div s[d]
      <4> HIDE DEF x, q
      <4> QED BY <1>3, <2>1, <2>2
    <3>2. i \div (s[d] * v) = (i \div v) \div s[d]
      <4> HIDE DEF v
      <4> QED BY <2>3, QuotientOfQuotient
    <3> QED BY <1>9, <3>1, <3>2
  <2>6. acc[d].off + Sum(t, d - 1) = Sum(t, n)
    <3>1. acc[d].off = x.off + t[d]
      <4> HIDE DEF x, q
      <4> QED BY <1>3, <2>1, <2>2, <2>4
    <3>2. q \in Nat
      <4> HIDE DEF v
      <4> QED BY <2>3, Division
    <3>3. q % s[d] \in Nat
      <4> HIDE DEF q
      <4> QED BY <2>3, <3>2, Digits
    <3>4. t[d] \in Int
      <4> HIDE DEF q
      <4> QED BY <2>3, <2>4, <3>3
    <3>5. x.off \in Int
      BY <2>1 DEF Divided
    <3>6. Sum(t, d) = Sum(t, d - 1) + t[d] /\ Sum(t, d - 1) \in Int
      BY <1>8, <2>1
    <3> HIDE DEF x, t
    <3> QED BY <2>1, <3>1, <3>4, <3>5, <3>6
  <2>7. acc[d] \in Divided
    <3> HIDE DEF x
    <3> QED BY <1>3, <2>1, <2>2
  <2> QED BY <2>1, <2>5, <2>6, <2>7
<1>12. D \subseteq S
  <2> HIDE DEF S
  <2> QED BY <1>1, <1>10, <1>11, Descent
<1>13. acc[1].off + Sum(t, 0) = Sum(t, n) /\ acc[1] \in Divided
  <2>1. 1 \in D /\ 1 - 1 = 0
    BY <1>1
  <2>2. acc[1].off + Sum(t, 1 - 1) = Sum(t, n) /\ acc[1] \in Divided
    BY <1>12, <2>1
  <2> QED BY <2>1, <2>2
<1>14. acc[1].off = Sum(t, n)
  BY <1>8, <1>13 DEF Divided
<1> QED BY <1>2, <1>6, <1>14

----------------------------------------------------------------------------
(* Layouts that do not overlap.                                            *)
Differing(l, i, j) == {d \in 1 .. rank(l) : Coord(l.sizes, i)[d] # Coord(l.sizes, j)[d]}
\* The dimension of a set that the sort puts last.
Outermost(l, dims, d) == d \in dims /\ \A e \in dims : e = d \/ e \in Inside(l, d)

\* Of some dimensions with more than one element, one is the outermost.
LEMMA OutermostExists ==
  ASSUME NEW l, Strided(l), NEW dims \in SUBSET (1 .. rank(l)), dims # {},
         \A d \in dims : l.sizes[d] > 1
  PROVE  \E d \in dims : Outermost(l, dims, d)
<1> DEFINE n == rank(l)
           Upto(k) == {d \in dims : d <= k}
           S == {k \in 0 .. n : Upto(k) = {} \/ \E d \in Upto(k) : Outermost(l, Upto(k), d)}
<1>1. n \in Nat /\ \A d \in 1 .. n : l.strides[d] \in Nat
  BY Strides
<1>0. \A d \in dims : d \in 1 .. n /\ d \in Int /\ 1 <= d /\ d <= n
  <2>1. dims \subseteq 1 .. n
    OBVIOUS
  <2> HIDE DEF n
  <2> QED BY <1>1, <2>1
<1>2. 0 \in S
  <2>1. Upto(0) = {} /\ 0 \in 0 .. n
    <3>1. \A d \in dims : ~(d <= 0)
      BY <1>0
    <3>2. 0 \in 0 .. n
      BY <1>1
    <3> QED BY <3>1, <3>2
  <2> HIDE DEF Upto
  <2> QED BY <2>1
<1>3. ASSUME NEW k \in 1 .. n, k - 1 \in S PROVE k \in S
  <2>1. k \in Nat /\ k \in 0 .. n /\ k - 1 \in 0 .. n
    BY <1>1
  <2>2. CASE k \notin dims
    <3>1. Upto(k) = Upto(k - 1)
      <4>1. \A d \in dims : d <= k <=> d <= k - 1
        BY <1>0, <2>1, <2>2
      <4> QED BY <4>1
    <3> HIDE DEF Upto
    <3> QED BY <1>3, <2>1, <3>1
  <2>3. CASE k \in dims
    <3>1. Upto(k) = Upto(k - 1) \cup {k} /\ k \in Upto(k) /\ \A d \in Upto(k - 1) : d < k
      <4>1. \A d \in dims : d <= k <=> (d <= k - 1 \/ d = k)
        BY <1>0, <2>1
      <4>2. k <= k /\ \A d \in Upto(k - 1) : d < k
        BY <1>0, <2>1
      <4> QED BY <2>3, <4>1, <4>2
    <3>2. CASE Upto(k - 1) = {}
      <4> HIDE DEF Upto
      <4>1. Outermost(l, Upto(k), k)
        BY <3>1, <3>2 DEF Outermost
      <4> QED BY <2>1, <3>1, <4>1
    <3>3. ASSUME NEW d \in Upto(k - 1), Outermost(l, Upto(k - 1), d), l.strides[d] <= l.strides[k]
          PROVE  k \in S
      <4>1. ASSUME NEW e \in Upto(k - 1) PROVE e \in Inside(l, k)
        <5>1. l.strides[e] <= l.strides[d]
          <6>1. e = d \/ e \in Inside(l, d)
            BY <3>3 DEF Outermost
          <6>2. e \in 1 .. n /\ d \in 1 .. n
            OBVIOUS
          <6> QED BY <1>1, <6>1, <6>2 DEF Inside, Axes
        <5>2. e \in 1 .. n /\ d \in 1 .. n /\ l.sizes[e] > 1 /\ e < k
          BY <3>1
        <5>3. l.strides[e] \in Nat /\ l.strides[d] \in Nat /\ l.strides[k] \in Nat
          BY <1>1, <5>2
        <5>4. l.strides[e] < l.strides[k] \/ (l.strides[e] = l.strides[k] /\ e < k)
          BY <3>3, <5>1, <5>2, <5>3
        <5> QED BY <5>2, <5>4 DEF Inside, Axes
      <4> HIDE DEF Upto
      <4>2. Outermost(l, Upto(k), k)
        BY <3>1, <4>1 DEF Outermost
      <4> QED BY <2>1, <3>1, <4>2
    <3>4. ASSUME NEW d \in Upto(k - 1), Outermost(l, Upto(k - 1), d), ~(l.strides[d] <= l.strides[k])
          PROVE  k \in S
      <4>1. k \in Inside(l, d)
        <5>1. d \in 1 .. n /\ l.sizes[k] > 1
          BY <2>3
        <5>2. l.strides[d] \in Nat /\ l.strides[k] \in Nat
          BY <1>1, <5>1
        <5> QED BY <3>4, <5>1, <5>2 DEF Inside, Axes
      <4> HIDE DEF Upto
      <4>2. Outermost(l, Upto(k), d)
        BY <3>1, <3>4, <4>1 DEF Outermost
      <4>3. d \in Upto(k)
        BY <3>1
      <4> QED BY <2>1, <4>2, <4>3
    <3>5. Upto(k - 1) = {} \/ \E d \in Upto(k - 1) : Outermost(l, Upto(k - 1), d)
      <4> HIDE DEF Upto
      <4> QED BY <1>3
    <3> HIDE DEF Upto, S
    <3>6. CASE Upto(k - 1) = {}
      BY <3>2, <3>6
    <3>7. ASSUME NEW d \in Upto(k - 1), Outermost(l, Upto(k - 1), d) PROVE k \in S
      BY <3>3, <3>4, <3>7
    <3> QED BY <3>5, <3>6, <3>7
  <2> QED BY <2>2, <2>3
<1>4. 0 .. n \subseteq S
  <2> HIDE DEF S
  <2> QED BY <1>1, <1>2, <1>3, Induction, SMTT(60)
<1>5. n \in S
  BY <1>1, <1>4
<1>6. Upto(n) = dims
  BY <1>0, SMTT(60)
<1> HIDE DEF Upto
<1> QED BY <1>5, <1>6

(* The coordinates of an element are its own.                              *)
LEMMA SameCoordinates ==
  ASSUME NEW l, Strided(l), NEW i \in Nat, NEW j \in Nat, i < numel(l), j < numel(l),
         Differing(l, i, j) = {}
  PROVE  i = j
<1> DEFINE p == [sizes |-> l.sizes, strides |-> PackedStrides(l.sizes)]
<1>1. /\ p.sizes = l.sizes /\ p.strides = PackedStrides(l.sizes)
      /\ rank(p) = rank(l) /\ numel(p) = numel(l)
  BY DEF rank, numel
<1> HIDE DEF p
<1>2. Strided(p)
  BY <1>1, PackedShape DEF Strided
<1>3. is_packed(p)
  <2>1. \A d \in 1 .. rank(p) : p.strides[d] = Volume(p.sizes, d + 1)
    BY <1>1, PackedShape DEF Strided, rank
  <2> QED BY <2>1 DEF is_packed
<1>4. Adds(p, i) = Adds(p, j)
  <2>1. \A d \in 1 .. rank(p) : Coord(p.sizes, i)[d] = Coord(p.sizes, j)[d]
    BY <1>1 DEF Differing
  <2> QED BY <2>1 DEF Adds
<1>5. ElementOffset(p, i) = i /\ ElementOffset(p, j) = j
  BY <1>1, <1>2, <1>3, PackedElement
<1>6. numel(p) > 0
  <2>1. numel(p) \in Nat
    BY <1>2, PackedShape DEF Strided, numel
  <2> QED BY <1>1, <2>1
<1>7. ElementOffset(p, i) = Sum(Adds(p, i), rank(p)) /\ ElementOffset(p, j) = Sum(Adds(p, j), rank(p))
  BY <1>2, <1>6, Coordinates
<1> QED BY <1>4, <1>5, <1>7

(* In a layout that does not overlap the outermost coordinate that differs *)
(* decides: its stride exceeds all that the dimensions inside can add.     *)
Reach(l, d) ==
  [e \in 1 .. rank(l) |-> IF e \in Inside(l, d) THEN (l.sizes[e] - 1) * l.strides[e] ELSE 0]
\* Where strides nest, the outermost difference decides the order.
LEMMA OutermostDecides ==
  ASSUME NEW l, Strided(l), is_non_overlapping(l), numel(l) > 0, NEW i \in Nat, NEW j \in Nat,
         NEW d \in 1 .. rank(l), Outermost(l, Differing(l, i, j), d),
         Coord(l.sizes, i)[d] > Coord(l.sizes, j)[d]
  PROVE  ElementOffset(l, i) > ElementOffset(l, j)
<1> DEFINE n == rank(l)
           a == Adds(l, i)
           b == Adds(l, j)
           w == Reach(l, d)
           S == {k \in 0 .. n : /\ Sum(a, k) - Sum(b, k) + Sum(w, k) >= 0
                                /\ d <= k => Sum(a, k) - Sum(b, k) + Sum(w, k) >= l.strides[d]}
<1>1. n \in Nat /\ \A e \in 1 .. n : l.sizes[e] \in Nat \ {0} /\ l.strides[e] \in Nat
  BY Strides, Coordinates
<1>2. /\ \A e \in 1 .. n : /\ Coord(l.sizes, i)[e] \in 0 .. l.sizes[e] - 1
                           /\ Coord(l.sizes, j)[e] \in 0 .. l.sizes[e] - 1
      /\ ElementOffset(l, i) = Sum(a, n) /\ a \in Seq(Int) /\ Len(a) = n
      /\ ElementOffset(l, j) = Sum(b, n) /\ b \in Seq(Int) /\ Len(b) = n
  BY Coordinates
<1>3. /\ \A e \in 1 .. n : w[e] \in Nat
      /\ \A e \in Inside(l, d) : w[e] = (l.sizes[e] - 1) * l.strides[e]
      /\ w \in Seq(Int) /\ Len(w) = n
  <2>1. ASSUME NEW e \in 1 .. n PROVE (l.sizes[e] - 1) * l.strides[e] \in Nat
    <3>1. l.sizes[e] - 1 \in Nat /\ l.strides[e] \in Nat
      BY <1>1
    <3> QED BY <3>1
  <2>2. \A e \in 1 .. n : w[e] = IF e \in Inside(l, d) THEN (l.sizes[e] - 1) * l.strides[e] ELSE 0
    BY DEF Reach
  <2>3. w \in [1 .. n -> Int]
    BY <2>1 DEF Reach
  <2>4. \A e \in Inside(l, d) : e \in 1 .. n
    BY DEF Inside, Axes
  <2> HIDE DEF w
  <2>5. \A e \in 1 .. n : w[e] \in Nat
    BY <2>1, <2>2
  <2>6. \A e \in Inside(l, d) : w[e] = (l.sizes[e] - 1) * l.strides[e]
    BY <2>2, <2>4
  <2>7. w \in Seq(Int) /\ Len(w) = n
    BY <1>1, <2>3, Terms
  <2> QED BY <2>5, <2>6, <2>7
<1> HIDE DEF w
<1>4. /\ Sum(a, 0) = 0 /\ Sum(b, 0) = 0 /\ Sum(w, 0) = 0
      /\ \A e \in 1 .. n : /\ Sum(a, e) = Sum(a, e - 1) + a[e]
                           /\ Sum(b, e) = Sum(b, e - 1) + b[e]
                           /\ Sum(w, e) = Sum(w, e - 1) + w[e]
      /\ \A e \in 0 .. n : Sum(a, e) \in Int /\ Sum(b, e) \in Int /\ Sum(w, e) \in Int
  BY <1>2, <1>3, SumIs
<1>5. ASSUME NEW e \in 1 .. n
      PROVE  /\ a[e] \in Int /\ b[e] \in Int
             /\ e # d => a[e] - b[e] + w[e] >= 0
             /\ a[d] - b[d] + w[d] >= l.strides[d]
  <2>1. ASSUME NEW x \in 1 .. n
        PROVE  /\ a[x] = Coord(l.sizes, i)[x] * l.strides[x] /\ a[x] \in Nat
               /\ b[x] = Coord(l.sizes, j)[x] * l.strides[x] /\ b[x] \in Nat
    <3>1. Coord(l.sizes, i)[x] \in Nat /\ Coord(l.sizes, j)[x] \in Nat /\ l.strides[x] \in Nat
      BY <1>1, <1>2
    <3>2. a[x] = Coord(l.sizes, i)[x] * l.strides[x] /\ b[x] = Coord(l.sizes, j)[x] * l.strides[x]
      BY DEF Adds
    <3> QED BY <3>1, <3>2
  <2>2. ASSUME e # d PROVE a[e] - b[e] + w[e] >= 0
    <3>1. CASE e \notin Differing(l, i, j)
      <4>1. a[e] = b[e]
        BY <2>1, <3>1 DEF Differing
      <4> QED BY <1>3, <2>1, <4>1
    <3>2. CASE e \in Differing(l, i, j)
      <4>1. w[e] = (l.sizes[e] - 1) * l.strides[e]
        BY <1>3, <2>2, <3>2 DEF Outermost
      <4>2. /\ Coord(l.sizes, j)[e] \in Nat /\ l.sizes[e] - 1 \in Nat /\ l.strides[e] \in Nat
            /\ Coord(l.sizes, j)[e] <= l.sizes[e] - 1
        <5>1. l.sizes[e] \in Nat \ {0} /\ l.strides[e] \in Nat
          BY <1>1
        <5>2. Coord(l.sizes, j)[e] \in 0 .. l.sizes[e] - 1
          BY <1>2
        <5> HIDE DEF S
        <5> QED BY <5>1, <5>2
      <4>3. b[e] <= w[e]
        BY <2>1, <4>1, <4>2, Products
      <4> QED BY <1>3, <2>1, <4>3, SMTT(60)
    <3> QED BY <3>1, <3>2
  <2>3. a[d] - b[d] + w[d] >= l.strides[d]
    <3>1. /\ Coord(l.sizes, i)[d] \in Nat /\ Coord(l.sizes, j)[d] + 1 \in Nat
          /\ Coord(l.sizes, j)[d] \in Nat
          /\ l.strides[d] \in Nat /\ Coord(l.sizes, j)[d] + 1 <= Coord(l.sizes, i)[d]
      <4>1. l.sizes[d] \in Nat \ {0} /\ l.strides[d] \in Nat
        BY <1>1
      <4>2. /\ Coord(l.sizes, i)[d] \in 0 .. l.sizes[d] - 1
            /\ Coord(l.sizes, j)[d] \in 0 .. l.sizes[d] - 1
        BY <1>2
      <4> HIDE DEF S
      <4> QED BY <4>1, <4>2
    <3>2. (Coord(l.sizes, j)[d] + 1) * l.strides[d] <= Coord(l.sizes, i)[d] * l.strides[d]
      BY <3>1, Products
    <3>3. (Coord(l.sizes, j)[d] + 1) * l.strides[d] = Coord(l.sizes, j)[d] * l.strides[d] + l.strides[d]
      <4>1. \A x, y \in Nat : (x + 1) * y = x * y + y
        OBVIOUS
      <4> QED BY <3>1, <4>1
    <3>4. w[d] \in Nat
      BY <1>3
    <3> QED BY <2>1, <3>1, <3>2, <3>3, <3>4
  <2> HIDE DEF a, b
  <2>4. a[e] \in Int /\ b[e] \in Int
    BY <2>1
  <2> QED BY <2>2, <2>3, <2>4
<1> HIDE DEF a, b
<1>6. 0 \in S
  <2>1. 0 \in 0 .. n /\ ~(d <= 0)
    BY <1>1
  <2> QED BY <1>4, <2>1
<1>7. ASSUME NEW k \in 1 .. n, k - 1 \in S PROVE k \in S
  <2>1. k \in 0 .. n /\ k - 1 \in 0 .. n
    BY <1>1
  <2> DEFINE x == Sum(a, k - 1)
             y == Sum(b, k - 1)
             z == Sum(w, k - 1)
  <2>2. x \in Int /\ y \in Int /\ z \in Int /\ w[k] \in Int /\ l.strides[d] \in Nat
    BY <1>1, <1>3, <1>4, <2>1
  <2>3. a[k] \in Int /\ b[k] \in Int /\ (k # d => a[k] - b[k] + w[k] >= 0)
    BY <1>5
  <2>4. a[d] \in Int /\ b[d] \in Int /\ w[d] \in Int /\ a[d] - b[d] + w[d] >= l.strides[d]
    BY <1>3, <1>5
  <2>5. x - y + z >= 0 /\ (d <= k - 1 => x - y + z >= l.strides[d])
    BY <1>7
  <2>6. Sum(a, k) = x + a[k] /\ Sum(b, k) = y + b[k] /\ Sum(w, k) = z + w[k]
    BY <1>4
  <2> HIDE DEF x, y, z
  <2>7. Sum(a, k) - Sum(b, k) + Sum(w, k) = (x - y + z) + (a[k] - b[k] + w[k])
    BY <2>2, <2>3, <2>6
  <2>8. CASE k = d
    <3>1. a[k] - b[k] + w[k] >= l.strides[d]
      BY <2>4, <2>8
    <3> QED BY <2>1, <2>2, <2>3, <2>5, <2>7, <3>1
  <2>9. CASE k # d
    <3>1. d <= k => d <= k - 1
      BY <2>9
    <3> QED BY <2>1, <2>2, <2>3, <2>5, <2>7, <2>9, <3>1
  <2> QED BY <2>8, <2>9
<1>8. 0 .. n \subseteq S
  <2> HIDE DEF S
  <2> QED BY <1>1, <1>6, <1>7, Induction
<1>9. Sum(a, n) - Sum(b, n) + Sum(w, n) >= l.strides[d]
  <2>1. n \in 0 .. n /\ d <= n
    BY <1>1
  <2> QED BY <1>8, <2>1
<1>10. l.strides[d] > Sum(w, n)
  <2>1. l.sizes[d] > 1
    <3>1. d \in Differing(l, i, j)
      BY DEF Outermost
    <3>2. Coord(l.sizes, i)[d] \in 0 .. l.sizes[d] - 1 /\ Coord(l.sizes, j)[d] \in 0 .. l.sizes[d] - 1
      BY <1>2
    <3> QED BY <1>1, <3>2
  <2>2. Extent(l, d) = Sum(w, n)
    BY DEF Extent, w, Reach
  <2> QED BY <2>1, <2>2 DEF is_non_overlapping
<1>11. n \in 0 .. n /\ l.strides[d] \in Int
  BY <1>1
<1>12. Sum(a, n) > Sum(b, n)
  BY <1>4, <1>9, <1>10, <1>11
<1> QED BY <1>2, <1>12

(* So distinct elements of such a layout lie at distinct offsets.          *)
LEMMA OffsetsDiffer ==
  ASSUME NEW l, Strided(l), is_non_overlapping(l) \/ is_packed(l),
         NEW i \in Nat, NEW j \in Nat, i < numel(l), j < numel(l), i # j
  PROVE  ElementOffset(l, i) # ElementOffset(l, j)
<1>1. CASE is_packed(l)
  BY <1>1, PackedElement
<1>2. CASE is_non_overlapping(l)
  <2>1. numel(l) > 0
    <3>1. numel(l) \in Nat
      BY PackedShape DEF Strided, numel
    <3> QED BY <3>1
  <2>2. /\ \A d \in 1 .. rank(l) : /\ Coord(l.sizes, i)[d] \in 0 .. l.sizes[d] - 1
                                   /\ Coord(l.sizes, j)[d] \in 0 .. l.sizes[d] - 1
                                   /\ l.sizes[d] \in Nat
  BY <2>1, Strides, Coordinates
  <2>3. \A d \in Differing(l, i, j) : l.sizes[d] > 1
    BY <2>2 DEF Differing
  <2>4. Differing(l, i, j) \in SUBSET (1 .. rank(l)) /\ Differing(l, i, j) # {}
    BY SameCoordinates DEF Differing
  <2>5. PICK d \in Differing(l, i, j) : Outermost(l, Differing(l, i, j), d)
    BY <2>3, <2>4, OutermostExists
  <2>6. Differing(l, i, j) = Differing(l, j, i) /\ d \in 1 .. rank(l)
    BY DEF Differing
  <2>7. /\ Coord(l.sizes, i)[d] \in Nat /\ Coord(l.sizes, j)[d] \in Nat
        /\ Coord(l.sizes, i)[d] # Coord(l.sizes, j)[d]
    BY <2>2, <2>5, <2>6 DEF Differing
  <2>8. ElementOffset(l, i) > ElementOffset(l, j) \/ ElementOffset(l, j) > ElementOffset(l, i)
    <3>1. CASE Coord(l.sizes, i)[d] > Coord(l.sizes, j)[d]
      BY <1>2, <2>1, <2>5, <2>6, <3>1, OutermostDecides
    <3>2. CASE Coord(l.sizes, j)[d] > Coord(l.sizes, i)[d]
      BY <1>2, <2>1, <2>5, <2>6, <3>2, OutermostDecides
    <3> QED BY <2>7, <3>1, <3>2
  <2>9. ElementOffset(l, i) \in Nat /\ ElementOffset(l, j) \in Nat
    BY <2>1, ElementInExtent
  <2> QED BY <2>8, <2>9
<1> QED BY <1>1, <1>2

(* What the cached non_overlapping and contiguous flags stand for.         *)
THEOREM LayoutsInjective ==
  ASSUME NEW l, Strided(l), is_non_overlapping(l) \/ is_packed(l)
  PROVE  Injective(l)
<1> DEFINE n == numel(l)
           f == [i \in 0 .. n - 1 |-> ElementOffset(l, i)]
<1>1. n \in Nat
  BY PackedShape DEF Strided, numel
<1>2. f \in Bijection(0 .. n - 1, Offsets(l))
  <2>1. \A i \in 0 .. n - 1 : f[i] \in Offsets(l)
    BY DEF Offsets
  <2>2. \A x \in Offsets(l) : \E i \in 0 .. n - 1 : f[i] = x
    BY DEF Offsets
  <2>3. ASSUME NEW i \in 0 .. n - 1, NEW j \in 0 .. n - 1, i # j PROVE f[i] # f[j]
    <3>1. i \in Nat /\ j \in Nat /\ i < n /\ j < n
      BY <1>1
    <3> QED BY <2>3, <3>1, OffsetsDiffer
  <2>4. f \in [0 .. n - 1 -> Offsets(l)]
    BY <2>1
  <2> HIDE DEF f, n
  <2> QED BY <2>2, <2>3, <2>4, Fun_IsBij
<1>3. 0 \in Int /\ n - 1 \in Int
  BY <1>1
<1>4. IsFiniteSet(0 .. n - 1) /\ Cardinality(0 .. n - 1) = n
  <2> HIDE DEF n
  <2>1. IsFiniteSet(0 .. n - 1) /\ Cardinality(0 .. n - 1) = IF 0 > n - 1 THEN 0 ELSE (n - 1) - 0 + 1
    BY <1>3, FS_Interval
  <2> QED BY <1>1, <2>1
<1>5. Cardinality(Offsets(l)) = Cardinality(0 .. n - 1)
  <2> HIDE DEF f, n
  <2> QED BY <1>2, <1>4, FS_Bijection DEF ExistsBijection
<1> QED BY <1>4, <1>5 DEF Injective

----------------------------------------------------------------------------
(* Sums.                                                                   *)
(* A sum of differences is the difference of the sums.                     *)
LEMMA SumMinus ==
  ASSUME NEW t \in Seq(Int), NEW u \in Seq(Int), NEW w \in Seq(Int),
         Len(u) = Len(t), Len(w) = Len(t), \A d \in 1 .. Len(t) : w[d] = t[d] - u[d]
  PROVE  \A d \in 0 .. Len(t) : Sum(w, d) = Sum(t, d) - Sum(u, d)
<1> DEFINE n == Len(t)
           S == {d \in 0 .. n : Sum(w, d) = Sum(t, d) - Sum(u, d)}
<1>1. /\ n \in Nat
      /\ \A d \in 1 .. n : t[d] \in Int /\ u[d] \in Int
      /\ Sum(t, 0) = 0 /\ Sum(u, 0) = 0 /\ Sum(w, 0) = 0
      /\ \A d \in 1 .. n : /\ Sum(t, d) = Sum(t, d - 1) + t[d] /\ Sum(u, d) = Sum(u, d - 1) + u[d]
                           /\ Sum(w, d) = Sum(w, d - 1) + w[d]
      /\ \A d \in 0 .. n : Sum(t, d) \in Int /\ Sum(u, d) \in Int
  <2>1. n \in Nat /\ Len(u) = n /\ Len(w) = n /\ \A d \in 1 .. n : t[d] \in Int /\ u[d] \in Int
    OBVIOUS
  <2>2. /\ Sum(t, 0) = 0 /\ \A d \in 1 .. n : Sum(t, d) = Sum(t, d - 1) + t[d]
        /\ \A d \in 0 .. n : Sum(t, d) \in Int
    BY SumIs
  <2>3. /\ Sum(u, 0) = 0 /\ \A d \in 1 .. n : Sum(u, d) = Sum(u, d - 1) + u[d]
        /\ \A d \in 0 .. n : Sum(u, d) \in Int
    BY <2>1, SumIs
  <2>4. Sum(w, 0) = 0 /\ \A d \in 1 .. n : Sum(w, d) = Sum(w, d - 1) + w[d]
    BY <2>1, SumIs
  <2> QED BY <2>1, <2>2, <2>3, <2>4
<1>2. 0 \in S
  BY <1>1
<1>3. ASSUME NEW d \in 1 .. n, d - 1 \in S PROVE d \in S
  <2>1. d \in 0 .. n /\ d - 1 \in 0 .. n
    BY <1>1
  <2>2. /\ Sum(t, d - 1) \in Int /\ Sum(u, d - 1) \in Int /\ t[d] \in Int /\ u[d] \in Int
        /\ Sum(t, d) = Sum(t, d - 1) + t[d] /\ Sum(u, d) = Sum(u, d - 1) + u[d]
        /\ Sum(w, d) = Sum(w, d - 1) + (t[d] - u[d])
    BY <1>1, <2>1
  <2>3. Sum(w, d - 1) = Sum(t, d - 1) - Sum(u, d - 1)
    BY <1>3
  <2>4. Sum(w, d) = Sum(t, d) - Sum(u, d)
    BY <2>2, <2>3, SMTT(60)
  <2> QED BY <2>1, <2>4
<1>4. 0 .. n \subseteq S
  <2> HIDE DEF S
  <2> QED BY <1>1, <1>2, <1>3, Induction
<1> QED BY <1>4

(* A sum depends on its terms up to the last.                              *)
LEMMA SumPrefix ==
  ASSUME NEW t \in Seq(Int), NEW u \in Seq(Int), NEW m \in Nat, m <= Len(t), m <= Len(u),
         \A d \in 1 .. m : t[d] = u[d]
  PROVE  Sum(t, m) = Sum(u, m)
<1> DEFINE S == {d \in 0 .. m : Sum(t, d) = Sum(u, d)}
<1>1. /\ Sum(t, 0) = 0 /\ Sum(u, 0) = 0
      /\ \A d \in 1 .. m : Sum(t, d) = Sum(t, d - 1) + t[d] /\ Sum(u, d) = Sum(u, d - 1) + u[d]
  <2>1. \A d \in 1 .. m : d \in 1 .. Len(t) /\ d \in 1 .. Len(u)
    OBVIOUS
  <2> QED BY <2>1, SumIs
<1>2. 0 \in S
  BY <1>1
<1>3. ASSUME NEW d \in 1 .. m, d - 1 \in S PROVE d \in S
  BY <1>1, <1>3
<1>4. 0 .. m \subseteq S
  <2> HIDE DEF S
  <2> QED BY <1>2, <1>3, Induction
<1> QED BY <1>4

(* A sum with one term changed.                                            *)
LEMMA SumChange ==
  ASSUME NEW t \in Seq(Int), NEW u \in Seq(Int), Len(u) = Len(t), NEW k \in 1 .. Len(t),
         \A d \in 1 .. Len(t) : d # k => u[d] = t[d]
  PROVE  Sum(u, Len(t)) = Sum(t, Len(t)) + (u[k] - t[k])
<1> DEFINE n == Len(t)
<1>1. /\ n \in Nat
      /\ \A d \in 1 .. n : t[d] \in Int /\ u[d] \in Int
      /\ Sum(t, 0) = 0 /\ Sum(u, 0) = 0
      /\ \A d \in 1 .. n : Sum(t, d) = Sum(t, d - 1) + t[d] /\ Sum(u, d) = Sum(u, d - 1) + u[d]
      /\ \A d \in 0 .. n : Sum(t, d) \in Int /\ Sum(u, d) \in Int
  <2>1. n \in Nat /\ Len(u) = n /\ \A d \in 1 .. n : t[d] \in Int /\ u[d] \in Int
    OBVIOUS
  <2>2. /\ Sum(t, 0) = 0 /\ \A d \in 1 .. n : Sum(t, d) = Sum(t, d - 1) + t[d]
        /\ \A d \in 0 .. n : Sum(t, d) \in Int
    BY SumIs
  <2>3. /\ Sum(u, 0) = 0 /\ \A d \in 1 .. n : Sum(u, d) = Sum(u, d - 1) + u[d]
        /\ \A d \in 0 .. n : Sum(u, d) \in Int
    BY <2>1, SumIs
  <2> QED BY <2>1, <2>2, <2>3
<1> DEFINE S == {d \in 0 .. n : /\ d < k => Sum(u, d) = Sum(t, d)
                                /\ d >= k => Sum(u, d) = Sum(t, d) + (u[k] - t[k])}
<1>2. 0 \in S
  BY <1>1
<1>3. ASSUME NEW d \in 1 .. n, d - 1 \in S PROVE d \in S
  <2>1. d \in 0 .. n /\ d - 1 \in 0 .. n
    BY <1>1
  <2>2. /\ Sum(t, d - 1) \in Int /\ Sum(u, d - 1) \in Int
        /\ t[d] \in Int /\ u[d] \in Int /\ t[k] \in Int /\ u[k] \in Int
        /\ Sum(t, d) = Sum(t, d - 1) + t[d] /\ Sum(u, d) = Sum(u, d - 1) + u[d]
    BY <1>1, <2>1
  <2>3. CASE d < k
    <3>1. u[d] = t[d] /\ Sum(u, d - 1) = Sum(t, d - 1)
      BY <1>1, <1>3, <2>3
    <3> QED BY <2>1, <2>2, <2>3, <3>1
  <2>4. CASE d = k
    <3>1. Sum(u, d - 1) = Sum(t, d - 1)
      BY <1>1, <1>3, <2>4
    <3> QED BY <2>1, <2>2, <2>4, <3>1, SMTT(60)
  <2>5. CASE d > k
    <3>1. u[d] = t[d] /\ Sum(u, d - 1) = Sum(t, d - 1) + (u[k] - t[k])
      BY <1>1, <1>3, <2>5
    <3>2. Sum(u, d) = Sum(t, d) + (u[k] - t[k])
      <4>1. PICK g \in Int : g = u[k] - t[k]
        BY <2>2, SMTT(60)
      <4>2. Sum(u, d - 1) = Sum(t, d - 1) + g
        BY <3>1, <4>1
      <4>3. Sum(u, d) = (Sum(t, d - 1) + g) + t[d]
        BY <2>2, <3>1, <4>2
      <4>4. Sum(u, d) = Sum(t, d) + g
        BY <2>2, <4>3, SMTT(60)
      <4> QED BY <4>1, <4>4
    <3>3. ~(d < k)
      BY <1>1, <2>5
    <3> QED BY <2>1, <3>2, <3>3
  <2> QED BY <1>1, <2>3, <2>4, <2>5
<1>4. 0 .. n \subseteq S
  <2> HIDE DEF S
  <2> QED BY <1>1, <1>2, <1>3, Induction
<1>5. n \in 0 .. n /\ n >= k
  BY <1>1
<1>6. n \in S
  <2> HIDE DEF S
  <2> QED BY <1>4, <1>5
<1> QED BY <1>5, <1>6

(* A sum of multiples of g is one.                                         *)
Multiple(x, g) == \E m \in Int : x = m * g

\* A sum of multiples is a multiple.
LEMMA SumMultiple ==
  ASSUME NEW t \in Seq(Int), NEW g \in Int, \A d \in 1 .. Len(t) : Multiple(t[d], g)
  PROVE  \A d \in 0 .. Len(t) : Multiple(Sum(t, d), g)
<1> DEFINE n == Len(t)
           S == {d \in 0 .. n : Multiple(Sum(t, d), g)}
<1>1. /\ n \in Nat /\ Sum(t, 0) = 0
      /\ \A d \in 1 .. n : Sum(t, d) = Sum(t, d - 1) + t[d]
  BY SumIs
<1>2. 0 \in S
  <2>1. 0 = 0 * g /\ 0 \in Int /\ 0 \in 0 .. n
    BY <1>1
  <2>2. Multiple(0, g)
    BY <2>1 DEF Multiple
  <2> QED BY <1>1, <2>1, <2>2
<1>3. ASSUME NEW d \in 1 .. n, d - 1 \in S PROVE d \in S
  <2>1. PICK p \in Int : Sum(t, d - 1) = p * g
    BY <1>3 DEF Multiple
  <2>2. PICK q \in Int : t[d] = q * g
    BY DEF Multiple
  <2>3. Sum(t, d) = (p + q) * g /\ p + q \in Int
    BY <1>1, <2>1, <2>2
  <2>4. d \in 0 .. n
    BY <1>1
  <2> QED BY <2>3, <2>4 DEF Multiple
<1>4. 0 .. n \subseteq S
  <2> HIDE DEF S
  <2> QED BY <1>1, <1>2, <1>3, Induction
<1> QED BY <1>4

(* Quotient and remainder of an integer, and when it is a multiple.        *)
LEMMA Remainder ==
  ASSUME NEW x \in Int, NEW g \in Nat \ {0}
  PROVE  /\ Multiple(x, g) <=> x % g = 0
         /\ Multiple(x, g) => x = (x \div g) * g
         /\ x \div g \in Int /\ x % g \in 0 .. g - 1 /\ x = g * (x \div g) + (x % g)
<1>1. x \div g \in Int /\ x % g \in 0 .. g - 1 /\ x = g * (x \div g) + (x % g)
  OBVIOUS
<1>2. ASSUME NEW m \in Int, x = m * g PROVE x % g = 0
  BY <1>2
<1>3. ASSUME x % g = 0 PROVE x = (x \div g) * g
  BY <1>1, <1>3
<1> QED BY <1>1, <1>2, <1>3 DEF Multiple

----------------------------------------------------------------------------
(* Elements.                                                               *)
(* The element of given coordinates.                                       *)
LEMMA ElementAt ==
  ASSUME NEW l, Strided(l), numel(l) > 0, NEW c \in [1 .. rank(l) -> Nat],
         \A d \in 1 .. rank(l) : c[d] < l.sizes[d]
  PROVE  \E i \in 0 .. numel(l) - 1 : \A d \in 1 .. rank(l) : Coord(l.sizes, i)[d] = c[d]
<1> DEFINE n == rank(l)
           s == l.sizes
           V(d) == Volume(s, d)
           step == [d \in 1 .. n |-> [x \in Nat |-> x * s[d] + c[d]]]
<1>1. /\ n \in Nat
      /\ \A d \in 1 .. n : s[d] \in Nat \ {0} /\ V(d + 1) \in Nat \ {0} /\ V(d) = s[d] * V(d + 1)
      /\ V(n + 1) = 1 /\ V(1) = numel(l) /\ numel(l) \in Nat \ {0}
  <2>1. n \in Nat /\ Len(s) = n /\ s \in Seq(Nat)
    BY Strides DEF Strided
  <2>2. \A d \in 1 .. n : s[d] \in Nat \ {0} /\ V(d + 1) \in Nat \ {0}
    BY Coordinates, 0 \in Nat
  <2>3. V(n + 1) = 1 /\ \A d \in 1 .. n : V(d) = s[d] * V(d + 1)
    BY <2>1, VolumeIs
  <2>4. V(1) = numel(l) /\ numel(l) \in Nat
    BY <2>1, PackedShape DEF numel, Product
  <2> QED BY <2>1, <2>2, <2>3, <2>4
<1>2. step \in [1 .. n -> [Nat -> Nat]]
  <2>1. \A d \in 1 .. n : \A x \in Nat : x * s[d] + c[d] \in Nat
    <3>1. ASSUME NEW d \in 1 .. n, NEW x \in Nat PROVE x * s[d] + c[d] \in Nat
      <4>1. s[d] \in Nat /\ c[d] \in Nat
        BY <1>1
      <4> QED BY <4>1
    <3> QED BY <3>1
  <2> QED BY <2>1
<1>3. PICK h \in [0 .. n -> Nat] : Up(h, n, 0, step)
  <2> HIDE DEF step, n
  <2> QED BY <1>1, <1>2, Ascent
<1>4. ASSUME NEW d \in 1 .. n
      PROVE  h[d] \in Nat /\ h[d - 1] \in Nat /\ h[d] = s[d] * h[d - 1] + c[d]
               /\ c[d] \in 0 .. s[d] - 1
  <2>1. d \in 0 .. n /\ d - 1 \in 0 .. n
    BY <1>1
  <2>2. h[d] \in Nat /\ h[d - 1] \in Nat
    BY <1>3, <2>1
  <2>3. step[d] = [x \in Nat |-> x * s[d] + c[d]]
    OBVIOUS
  <2>4. h[d] = h[d - 1] * s[d] + c[d]
    <3>1. h[d] = step[d][h[d - 1]]
      <4> HIDE DEF step
      <4> QED BY <1>3 DEF Up
    <3> QED BY <2>2, <2>3, <3>1
  <2>5. c[d] \in Nat /\ c[d] < s[d] /\ s[d] \in Nat
    BY <1>1
  <2> QED BY <2>2, <2>4, <2>5
<1>5. ASSUME NEW d \in 1 .. n PROVE h[d] \div s[d] = h[d - 1] /\ h[d] % s[d] = c[d]
  <2> DEFINE m == h[d]
             e == s[d]
             q == h[d - 1]
             r == c[d]
  <2>1. e \in Nat \ {0}
    BY <1>1
  <2>2. m \in Nat /\ q \in Nat /\ m = e * q + r /\ r \in 0 .. e - 1
    BY <1>4
  <2> HIDE DEF m, e, q, r
  <2>3. m \div e = q
    BY <2>1, <2>2, Quotient
  <2>4. m = e * (m \div e) + (m % e) /\ m % e \in 0 .. e - 1
    BY <2>1, <2>2, Division
  <2>5. m % e = r
    <3>1. e * q \in Nat
      BY <2>1, <2>2
    <3> QED BY <2>1, <2>2, <2>3, <2>4, <3>1
  <2> QED BY <2>3, <2>5 DEF m, e, q, r
<1>6. h[n] \in Nat /\ h[0] = 0
  BY <1>1, <1>3 DEF Up
<1> DEFINE i == h[n]
           S == {d \in 1 .. n + 1 : i \div V(d) = h[d - 1]}
<1>7. n + 1 \in S
  <2>1. i \div 1 = i /\ (n + 1) - 1 = n
    <3>1. \A x \in Nat : x \div 1 = x
      OBVIOUS
    <3>2. n \in Nat
      BY <1>1
    <3> QED BY <1>6, <3>1, <3>2
  <2> QED BY <1>1, <2>1
<1>8. ASSUME NEW d \in 1 .. n, d + 1 \in S PROVE d \in S
  <2>1. i \div V(d + 1) = h[d] /\ d \in 1 .. n + 1
    BY <1>1, <1>8
  <2>2. i \div (s[d] * V(d + 1)) = (i \div V(d + 1)) \div s[d]
    <3>1. i \in Nat /\ V(d + 1) \in Nat \ {0} /\ s[d] \in Nat \ {0}
      BY <1>1, <1>6
    <3> HIDE DEF i, V, s
    <3> QED BY <3>1, QuotientOfQuotient
  <2>3. h[d] \div s[d] = h[d - 1]
    BY <1>5
  <2>4. V(d) = s[d] * V(d + 1)
    BY <1>1
  <2> HIDE DEF V, i, s
  <2> QED BY <2>1, <2>2, <2>3, <2>4
<1>9. 1 .. n + 1 \subseteq S
  <2> HIDE DEF S, n
  <2> QED BY <1>1, <1>7, <1>8, Descent
<1>10. ASSUME NEW d \in 1 .. n PROVE Coord(s, i)[d] = c[d]
  <2>1. d + 1 \in 1 .. n + 1 /\ (d + 1) - 1 = d
    BY <1>1
  <2>2. i \div V(d + 1) = h[d]
    BY <1>9, <2>1
  <2>3. h[d] % s[d] = c[d]
    BY <1>5
  <2>4. Coord(s, i)[d] = (i \div V(d + 1)) % s[d]
    BY <1>6, Coordinates, ZenonT(120)
  <2> HIDE DEF V, i, s
  <2> QED BY <2>2, <2>3, <2>4
<1>11. i \in 0 .. numel(l) - 1
  <2>1. 1 \in 1 .. n + 1 /\ 1 - 1 = 0
    BY <1>1
  <2>2. i \div V(1) = h[1 - 1]
    <3> HIDE DEF V, i
    <3> QED BY <1>9, <2>1
  <2>3. i \div numel(l) = 0
    BY <1>1, <1>6, <2>1, <2>2
  <2>4. i \in Nat /\ numel(l) \in Nat \ {0}
    BY <1>1, <1>6
  <2> HIDE DEF i
  <2>5. i = numel(l) * (i \div numel(l)) + (i % numel(l)) /\ i % numel(l) \in 0 .. numel(l) - 1
    BY <2>4, Division
  <2> QED BY <2>3, <2>4, <2>5
<1> QED BY <1>10, <1>11

----------------------------------------------------------------------------
(* Axes.                                                                   *)
(* The order of the axes is total.                                         *)
LEMMA InsideOrder ==
  ASSUME NEW l, Strided(l)
  PROVE  /\ IsFiniteSet(Axes(l)) /\ Axes(l) \subseteq 1 .. rank(l)
         /\ \A d \in Axes(l) : Inside(l, d) \in SUBSET Axes(l) /\ d \notin Inside(l, d)
         /\ \A d, e \in Axes(l) : d = e \/ d \in Inside(l, e) \/ e \in Inside(l, d)
         /\ \A d, e \in Axes(l) : d \in Inside(l, e) => Inside(l, d) \cup {d} \subseteq Inside(l, e)
<1>1. rank(l) \in Nat /\ \A d \in 1 .. rank(l) : l.sizes[d] \in Nat /\ l.strides[d] \in Nat
  BY Strides
<1>2. Axes(l) \in SUBSET (1 .. rank(l))
  BY DEF Axes
<1>3. IsFiniteSet(1 .. rank(l))
  <2>1. 1 \in Int /\ rank(l) \in Int
    BY <1>1
  <2> QED BY <2>1, FS_Interval
<1>4. IsFiniteSet(Axes(l))
  BY <1>2, <1>3, FS_Subset
<1>5. \A d \in Axes(l) : d \in 1 .. rank(l) /\ d \in Int /\ l.strides[d] \in Int
  BY <1>1, <1>2
<1>6. \A d, e \in Axes(l) :
        d \in Inside(l, e) <=> l.strides[d] < l.strides[e] \/ (l.strides[d] = l.strides[e] /\ d < e)
  BY DEF Inside
<1>7. \A d \in Axes(l) : Inside(l, d) \in SUBSET Axes(l)
  BY DEF Inside
<1>8. \A d \in Axes(l) : d \notin Inside(l, d)
  BY <1>5, <1>6
<1>9. \A d, e \in Axes(l) : d = e \/ d \in Inside(l, e) \/ e \in Inside(l, d)
  BY <1>5, <1>6
<1>10. ASSUME NEW d \in Axes(l), NEW e \in Axes(l), d \in Inside(l, e), NEW x \in Inside(l, d)
       PROVE  x \in Inside(l, e)
  <2>1. x \in Axes(l)
    BY <1>7
  <2>2. /\ l.strides[d] < l.strides[e] \/ (l.strides[d] = l.strides[e] /\ d < e)
        /\ l.strides[x] < l.strides[d] \/ (l.strides[x] = l.strides[d] /\ x < d)
    BY <1>6, <1>10, <2>1
  <2>3. {x, d, e, l.strides[x], l.strides[d], l.strides[e]} \subseteq Int
    BY <1>5, <2>1
  <2>4. l.strides[x] < l.strides[e] \/ (l.strides[x] = l.strides[e] /\ x < e)
    BY <2>2, <2>3
  <2> QED BY <1>6, <2>1, <2>4
<1> QED BY <1>2, <1>4, <1>7, <1>8, <1>9, <1>10

(* Axis enumerates the axes from the inside out.                           *)
LEMMA AxesAre ==
  ASSUME NEW l, Strided(l)
  PROVE  /\ Cardinality(Axes(l)) \in Nat
         /\ \A k \in 1 .. Cardinality(Axes(l)) : Axis(l, k) \in Axes(l)
         /\ \A d \in Axes(l) : \E k \in 1 .. Cardinality(Axes(l)) : Axis(l, k) = d
         /\ \A j, k \in 1 .. Cardinality(Axes(l)) : Axis(l, j) \in Inside(l, Axis(l, k)) <=> j < k
         /\ \A j, k \in 1 .. Cardinality(Axes(l)) : Axis(l, j) = Axis(l, k) => j = k
<1> DEFINE A == Axes(l)
           n == Cardinality(A)
           N(d) == Cardinality(Inside(l, d))
           f == [d \in A |-> N(d)]
<1>1. n \in Nat
  BY InsideOrder, FS_CardinalityType
<1>2. ASSUME NEW d \in A PROVE IsFiniteSet(Inside(l, d)) /\ N(d) \in Nat
  <2>1. IsFiniteSet(Inside(l, d))
    BY InsideOrder, FS_Subset
  <2> QED BY <2>1, FS_CardinalityType
<1>3. ASSUME NEW d \in A
      PROVE  IsFiniteSet(Inside(l, d) \cup {d}) /\ Cardinality(Inside(l, d) \cup {d}) = N(d) + 1
  BY <1>2, InsideOrder, FS_AddElement
<1>4. ASSUME NEW d \in A PROVE N(d) \in 0 .. n - 1
  <2>1. Inside(l, d) \cup {d} \in SUBSET A
    BY InsideOrder
  <2>2. Cardinality(Inside(l, d) \cup {d}) <= n
    BY <2>1, InsideOrder, FS_Subset
  <2>3. N(d) \in Nat /\ N(d) + 1 <= n
    BY <1>2, <1>3, <2>2
  <2> HIDE DEF N, n
  <2> QED BY <1>1, <2>3
<1>5. ASSUME NEW d \in A, NEW e \in A, d \in Inside(l, e) PROVE N(d) < N(e)
  <2>1. Inside(l, d) \cup {d} \in SUBSET Inside(l, e)
    BY <1>5, InsideOrder
  <2>2. Cardinality(Inside(l, d) \cup {d}) <= N(e)
    BY <1>2, <2>1, FS_Subset
  <2> HIDE DEF N
  <2> QED BY <1>2, <1>3, <2>2
<1>6. \A d, e \in A : d # e => N(d) # N(e)
  <2>1. ASSUME NEW d \in A, NEW e \in A, d # e PROVE N(d) # N(e)
    <3>1. d \in Inside(l, e) \/ e \in Inside(l, d)
      BY <2>1, InsideOrder
    <3>2. N(d) \in Nat /\ N(e) \in Nat /\ (N(d) < N(e) \/ N(e) < N(d))
      BY <1>2, <1>5, <3>1
    <3> HIDE DEF N
    <3> QED BY <3>2
  <2> QED BY <2>1
<1>7. f \in Injection(A, 0 .. n - 1)
  <2>1. f \in [A -> 0 .. n - 1]
    <3> HIDE DEF N, n
    <3> QED BY <1>4
  <2>2. \A d, e \in A : f[d] = f[e] => d = e
    BY <1>6
  <2> HIDE DEF f
  <2> QED BY <2>1, <2>2 DEF Injection, IsInjective
<1>8. f \in Surjection(A, 0 .. n - 1)
  <2>1. 0 \in Int /\ n - 1 \in Int
    BY <1>1
  <2>2. IsFiniteSet(0 .. n - 1) /\ Cardinality(0 .. n - 1) = n
    <3> HIDE DEF n
    <3>1. IsFiniteSet(0 .. n - 1) /\ Cardinality(0 .. n - 1) = IF 0 > n - 1 THEN 0 ELSE (n - 1) - 0 + 1
      BY <2>1, FS_Interval
    <3> QED BY <1>1, <3>1
  <2> HIDE DEF f
  <2> QED BY <1>7, <2>2, FS_Injection
<1>9. ASSUME NEW k \in 1 .. n PROVE Axis(l, k) \in A /\ N(Axis(l, k)) = k - 1
  <2>1. k - 1 \in 0 .. n - 1
    BY <1>1
  <2>2. PICK d \in A : f[d] = k - 1
    <3> HIDE DEF f
    <3> QED BY <1>8, <2>1 DEF Surjection
  <2>3. N(d) = k - 1
    BY <2>2
  <2> QED BY <2>3 DEF Axis
<1>10. ASSUME NEW j \in 1 .. n, NEW k \in 1 .. n
       PROVE  /\ Axis(l, j) \in Inside(l, Axis(l, k)) <=> j < k
              /\ Axis(l, j) = Axis(l, k) => j = k
  <2>1. /\ Axis(l, j) \in A /\ N(Axis(l, j)) = j - 1 /\ Axis(l, k) \in A /\ N(Axis(l, k)) = k - 1
        /\ j \in Int /\ k \in Int
    BY <1>1, <1>9
  <2>2. Axis(l, j) = Axis(l, k) => j = k
    <3> HIDE DEF N
    <3> QED BY <2>1
  <2>3. Axis(l, j) \in Inside(l, Axis(l, k)) => j < k
    <3>1. Axis(l, j) \in Inside(l, Axis(l, k)) => N(Axis(l, j)) < N(Axis(l, k))
      BY <1>5, <2>1
    <3> HIDE DEF N
    <3> QED BY <2>1, <3>1
  <2>4. Axis(l, k) \in Inside(l, Axis(l, j)) => k < j
    <3>1. Axis(l, k) \in Inside(l, Axis(l, j)) => N(Axis(l, k)) < N(Axis(l, j))
      BY <1>5, <2>1
    <3> HIDE DEF N
    <3> QED BY <2>1, <3>1
  <2>5. \/ Axis(l, j) = Axis(l, k) \/ Axis(l, j) \in Inside(l, Axis(l, k))
        \/ Axis(l, k) \in Inside(l, Axis(l, j))
    BY <2>1, InsideOrder
  <2> HIDE DEF N
  <2>6. j < k => ~(k < j) /\ j # k
    BY <2>1
  <2> QED BY <2>2, <2>3, <2>4, <2>5, <2>6
<1>11. ASSUME NEW d \in A PROVE \E k \in 1 .. n : Axis(l, k) = d
  <2>1. N(d) + 1 \in 1 .. n /\ (N(d) + 1) - 1 = N(d)
    <3> HIDE DEF N, n
    <3> QED BY <1>1, <1>4
  <2>2. Axis(l, N(d) + 1) \in A /\ N(Axis(l, N(d) + 1)) = N(d)
    BY <1>9, <2>1
  <2>3. Axis(l, N(d) + 1) = d
    BY <1>6, <2>2
  <2> QED BY <2>1, <2>3
<1> HIDE DEF N, f
<1> QED BY <1>1, <1>9, <1>10, <1>11

\* The terms of the m innermost axes, 0 elsewhere; the terms in the order of the axes.
InnerSum(l, w, m) ==
  [d \in 1 .. rank(l) |-> IF \E j \in 1 .. m : Axis(l, j) = d THEN w[d] ELSE 0]
OnAxes(l, w) == [k \in 1 .. Cardinality(Axes(l)) |-> w[Axis(l, k)]]

\* The terms of the first m axes, in the order of their strides.
LEMMA InnerSumIs ==
  ASSUME NEW l, Strided(l), NEW w \in [1 .. rank(l) -> Int], NEW m \in 0 .. Cardinality(Axes(l))
  PROVE  /\ InnerSum(l, w, m) \in Seq(Int) /\ Len(InnerSum(l, w, m)) = rank(l)
         /\ \A d \in 1 .. rank(l) :
              /\ (\E j \in 1 .. m : Axis(l, j) = d) => InnerSum(l, w, m)[d] = w[d]
              /\ ~(\E j \in 1 .. m : Axis(l, j) = d) => InnerSum(l, w, m)[d] = 0
<1>1. rank(l) \in Nat
  BY Strides
<1>2. InnerSum(l, w, m) \in [1 .. rank(l) -> Int]
  BY DEF InnerSum
<1>3. \A d \in 1 .. rank(l) :
        /\ (\E j \in 1 .. m : Axis(l, j) = d) => InnerSum(l, w, m)[d] = w[d]
        /\ ~(\E j \in 1 .. m : Axis(l, j) = d) => InnerSum(l, w, m)[d] = 0
  BY DEF InnerSum
<1> QED BY <1>1, <1>2, <1>3, Terms

(* The terms of the innermost axes add up as in the order of the axes.     *)
LEMMA AxesSum ==
  ASSUME NEW l, Strided(l), NEW w \in [1 .. rank(l) -> Int]
  PROVE  /\ OnAxes(l, w) \in Seq(Int) /\ Len(OnAxes(l, w)) = Cardinality(Axes(l))
         /\ \A m \in 0 .. Cardinality(Axes(l)) : Sum(InnerSum(l, w, m), rank(l)) = Sum(OnAxes(l, w), m)
<1> DEFINE n == Cardinality(Axes(l))
           u == OnAxes(l, w)
           I(m) == InnerSum(l, w, m)
           S == {m \in 0 .. n : Sum(I(m), rank(l)) = Sum(u, m)}
<1>1. n \in Nat /\ rank(l) \in Nat
  BY AxesAre, Strides
<1>2. \A k \in 1 .. n : Axis(l, k) \in 1 .. rank(l)
  BY AxesAre, InsideOrder
<1>3. u \in Seq(Int) /\ Len(u) = n /\ \A k \in 1 .. n : u[k] = w[Axis(l, k)]
  <2>1. \A k \in 1 .. n : u[k] = w[Axis(l, k)]
    BY DEF OnAxes
  <2>2. u \in [1 .. n -> Int]
    BY <1>2 DEF OnAxes
  <2> HIDE DEF u, n
  <2> QED BY <1>1, <2>1, <2>2, Terms
<1>4. 0 \in S
  <2>1. 0 \in 0 .. n
    BY <1>1
  <2>2. I(0) \in Seq(Int) /\ Len(I(0)) = rank(l) /\ \A d \in 1 .. rank(l) : I(0)[d] = 0
    <3>1. \A d \in 1 .. rank(l) : ~(\E j \in 1 .. 0 : Axis(l, j) = d)
      OBVIOUS
    <3> QED BY <2>1, <3>1, InnerSumIs
  <2> HIDE DEF I
  <2>3. \A d \in 1 .. Len(I(0)) : Multiple(I(0)[d], 0)
    <3>1. 0 = 0 * 0 /\ 0 \in Int
      OBVIOUS
    <3> QED BY <2>2, <3>1 DEF Multiple
  <2>4. Multiple(Sum(I(0), rank(l)), 0)
    <3>1. rank(l) \in 0 .. Len(I(0)) /\ 0 \in Int
      BY <1>1, <2>2
    <3> QED BY <2>2, <2>3, <3>1, SumMultiple
  <2>5. Sum(I(0), rank(l)) = 0
    BY <2>4 DEF Multiple
  <2>6. Sum(u, 0) = 0
    BY <1>3, SumIs
  <2> QED BY <2>1, <2>5, <2>6
<1>5. ASSUME NEW m \in 1 .. n, m - 1 \in S PROVE m \in S
  <2>1. m \in 0 .. n /\ m - 1 \in 0 .. n
    BY <1>1
  <2>2. /\ I(m) \in Seq(Int) /\ Len(I(m)) = rank(l)
        /\ I(m - 1) \in Seq(Int) /\ Len(I(m - 1)) = rank(l)
    BY <2>1, InnerSumIs
  <2>3. \A d \in 1 .. rank(l) : d # Axis(l, m) => I(m)[d] = I(m - 1)[d]
    <3>1. ASSUME NEW d \in 1 .. rank(l), d # Axis(l, m) PROVE I(m)[d] = I(m - 1)[d]
      <4>1. (\E j \in 1 .. m : Axis(l, j) = d) <=> (\E j \in 1 .. m - 1 : Axis(l, j) = d)
        <5>1. \A j \in 1 .. m : j = m \/ j \in 1 .. m - 1
          BY <1>1
        <5>2. \A j \in 1 .. m - 1 : j \in 1 .. m
          BY <1>1
        <5> QED BY <3>1, <5>1, <5>2
      <4>2. /\ (\E j \in 1 .. m : Axis(l, j) = d) => I(m)[d] = w[d]
            /\ ~(\E j \in 1 .. m : Axis(l, j) = d) => I(m)[d] = 0
        BY <2>1, InnerSumIs
      <4>3. /\ (\E j \in 1 .. m - 1 : Axis(l, j) = d) => I(m - 1)[d] = w[d]
            /\ ~(\E j \in 1 .. m - 1 : Axis(l, j) = d) => I(m - 1)[d] = 0
        BY <2>1, InnerSumIs
      <4> HIDE DEF I
      <4> QED BY <4>1, <4>2, <4>3
    <3> QED BY <3>1
  <2>4. I(m)[Axis(l, m)] = w[Axis(l, m)] /\ I(m - 1)[Axis(l, m)] = 0
    <3>1. m \in 1 .. m
      BY <1>1
    <3>2. \E j \in 1 .. m : Axis(l, j) = Axis(l, m)
      BY <3>1
    <3>3. ~(\E j \in 1 .. m - 1 : Axis(l, j) = Axis(l, m))
      <4>1. \A j \in 1 .. m - 1 : j \in 1 .. n /\ j # m
        BY <1>1
      <4> QED BY <4>1, AxesAre
    <3>4. Axis(l, m) \in 1 .. rank(l)
      BY <1>2
    <3>5. I(m)[Axis(l, m)] = w[Axis(l, m)]
      <4>1. \A d \in 1 .. rank(l) : (\E j \in 1 .. m : Axis(l, j) = d) => I(m)[d] = w[d]
        BY <2>1, InnerSumIs, ZenonT(120)
      <4> HIDE DEF I
      <4> QED BY <3>2, <3>4, <4>1
    <3>6. I(m - 1)[Axis(l, m)] = 0
      BY <2>1, <3>3, <3>4, InnerSumIs
    <3> QED BY <3>5, <3>6
  <2>5. Sum(I(m), rank(l)) = Sum(I(m - 1), rank(l)) + (I(m)[Axis(l, m)] - I(m - 1)[Axis(l, m)])
    <3>1. Axis(l, m) \in 1 .. rank(l)
      BY <1>2
    <3> HIDE DEF I
    <3> QED BY <2>2, <2>3, <3>1, SumChange, ZenonT(120)
  <2>6. Sum(u, m) = Sum(u, m - 1) + w[Axis(l, m)]
    <3> HIDE DEF u
    <3> QED BY <1>3, SumIs
  <2>7. Sum(I(m - 1), rank(l)) = Sum(u, m - 1)
    BY <1>5
  <2>8. w[Axis(l, m)] \in Int
    BY <1>2
  <2> HIDE DEF I, u
  <2> QED BY <2>1, <2>4, <2>5, <2>6, <2>7, <2>8
<1>6. 0 .. n \subseteq S
  <2> HIDE DEF S, n
  <2> QED BY <1>1, <1>4, <1>5, Induction
<1> QED BY <1>3, <1>6

(* Terms that are 0 off the axes add up as in the order of the axes.       *)
LEMMA AxesTotal ==
  ASSUME NEW l, Strided(l), NEW w \in [1 .. rank(l) -> Int],
         \A d \in 1 .. rank(l) : d \notin Axes(l) => w[d] = 0
  PROVE  Sum(w, rank(l)) = Sum(OnAxes(l, w), Cardinality(Axes(l)))
<1> DEFINE n == Cardinality(Axes(l))
<1>1. n \in Nat /\ n \in 0 .. n /\ rank(l) \in Nat
  BY AxesAre, Strides
<1>2. ASSUME NEW d \in 1 .. rank(l) PROVE InnerSum(l, w, n)[d] = w[d]
  <2>1. d \in Axes(l) => \E j \in 1 .. n : Axis(l, j) = d
    BY AxesAre
  <2>2. (\E j \in 1 .. n : Axis(l, j) = d) => InnerSum(l, w, n)[d] = w[d]
    BY <1>1, InnerSumIs, ZenonT(120)
  <2>3. ~(\E j \in 1 .. n : Axis(l, j) = d) => InnerSum(l, w, n)[d] = 0
    BY <1>1, InnerSumIs
  <2> HIDE DEF n
  <2> QED BY <2>1, <2>2, <2>3
<1>3. InnerSum(l, w, n) \in Seq(Int) /\ Len(InnerSum(l, w, n)) = rank(l) /\ w \in Seq(Int)
        /\ Len(w) = rank(l)
  BY <1>1, InnerSumIs, Terms
<1>4. Sum(InnerSum(l, w, n), rank(l)) = Sum(w, rank(l))
  <2>1. rank(l) <= rank(l)
    BY <1>1
  <2> QED BY <1>1, <1>2, <1>3, <2>1, SumPrefix
<1> QED BY <1>1, <1>4, AxesSum

----------------------------------------------------------------------------
(* Elements, axis by axis.                                                 *)
LEMMA Tuples ==
  ASSUME NEW n \in Nat, NEW X, NEW t \in [1 .. n -> X]
  PROVE  t \in Seq(X) /\ Len(t) = n
OBVIOUS

\* The axes of a layout are its dimensions of more than one element.
LEMMA AxesOf ==
  ASSUME NEW l, Strided(l)
  PROVE  /\ Cardinality(Axes(l)) \in Nat /\ Len(overlap_axes(l)) = Cardinality(Axes(l))
         /\ \A k \in 1 .. Cardinality(Axes(l)) :
              /\ Axis(l, k) \in 1 .. rank(l) /\ Axis(l, k) \in Axes(l)
              /\ overlap_axes(l)[k].size = l.sizes[Axis(l, k)]
              /\ overlap_axes(l)[k].stride = l.strides[Axis(l, k)]
              /\ l.sizes[Axis(l, k)] \in Nat \ {0, 1} /\ l.strides[Axis(l, k)] \in Nat
<1> DEFINE n == Cardinality(Axes(l))
<1>1. n \in Nat /\ \A k \in 1 .. n : Axis(l, k) \in Axes(l) /\ Axis(l, k) \in 1 .. rank(l)
  BY AxesAre, InsideOrder
<1>2. ASSUME NEW k \in 1 .. n
      PROVE  l.sizes[Axis(l, k)] \in Nat \ {0, 1} /\ l.strides[Axis(l, k)] \in Nat
  <2>1. Axis(l, k) \in 1 .. rank(l) /\ l.sizes[Axis(l, k)] > 1
    BY <1>1 DEF Axes
  <2>2. l.sizes[Axis(l, k)] \in Nat /\ l.strides[Axis(l, k)] \in Nat
    BY <2>1, Strides
  <2> QED BY <2>1, <2>2
<1>3. overlap_axes(l) \in [1 .. n -> [size : Nat, stride : Nat]]
  <2>1. \A k \in 1 .. n : l.sizes[Axis(l, k)] \in Nat /\ l.strides[Axis(l, k)] \in Nat
    BY <1>2
  <2> QED BY <2>1 DEF overlap_axes
<1>4. Len(overlap_axes(l)) = n
  <2> HIDE DEF n
  <2> QED BY <1>1, <1>3, Tuples
<1>5. \A k \in 1 .. n : /\ overlap_axes(l)[k].size = l.sizes[Axis(l, k)]
                        /\ overlap_axes(l)[k].stride = l.strides[Axis(l, k)]
  BY DEF overlap_axes
<1> QED BY <1>1, <1>2, <1>4, <1>5

\* What c steps along each axis add to an offset.
Moves(ax, c) == [k \in 1 .. Len(ax) |-> c[k] * ax[k].stride]

\* What the coordinates move along each axis.
LEMMA MovesAre ==
  ASSUME NEW ax, Len(ax) \in Nat, \A k \in 1 .. Len(ax) : ax[k].stride \in Nat,
         NEW c \in [1 .. Len(ax) -> Int]
  PROVE  /\ Moves(ax, c) \in Seq(Int) /\ Len(Moves(ax, c)) = Len(ax)
         /\ \A k \in 1 .. Len(ax) : Moves(ax, c)[k] = c[k] * ax[k].stride
<1>1. \A k \in 1 .. Len(ax) : c[k] * ax[k].stride \in Int
  <2>1. \A k \in 1 .. Len(ax) : c[k] \in Int /\ ax[k].stride \in Int
    OBVIOUS
  <2> QED BY <2>1
<1>2. Moves(ax, c) \in [1 .. Len(ax) -> Int]
        /\ \A k \in 1 .. Len(ax) : Moves(ax, c)[k] = c[k] * ax[k].stride
  BY <1>1 DEF Moves
<1> QED BY <1>2, Terms

(* A dimension of size 1 adds nothing to an offset.                        *)
LEMMA AddsOnAxes ==
  ASSUME NEW l, Strided(l), numel(l) > 0, NEW i \in Nat
  PROVE  ElementOffset(l, i) = Sum(OnAxes(l, Adds(l, i)), Cardinality(Axes(l)))
<1>1. /\ \A d \in 1 .. rank(l) : /\ l.sizes[d] \in Nat \ {0}
                                 /\ Coord(l.sizes, i)[d] \in 0 .. l.sizes[d] - 1
                                 /\ l.strides[d] \in Nat
      /\ ElementOffset(l, i) = Sum(Adds(l, i), rank(l))
  BY Coordinates, Strides
<1>2. Adds(l, i) \in [1 .. rank(l) -> Int]
  <2>1. \A d \in 1 .. rank(l) : Coord(l.sizes, i)[d] \in Int /\ l.strides[d] \in Int
    BY <1>1
  <2>2. \A d \in 1 .. rank(l) : Coord(l.sizes, i)[d] * l.strides[d] \in Int
    BY <2>1
  <2> QED BY <2>2 DEF Adds
<1>3. ASSUME NEW d \in 1 .. rank(l), d \notin Axes(l) PROVE Adds(l, i)[d] = 0
  <2>1. l.sizes[d] \in Nat \ {0} /\ ~(l.sizes[d] > 1)
    BY <1>1, <1>3 DEF Axes
  <2>2. Coord(l.sizes, i)[d] \in 0 .. l.sizes[d] - 1 /\ l.strides[d] \in Nat
    BY <1>1
  <2>3. Coord(l.sizes, i)[d] = 0
    BY <2>1, <2>2
  <2>4. Adds(l, i)[d] = Coord(l.sizes, i)[d] * l.strides[d]
    BY DEF Adds
  <2> QED BY <2>2, <2>3, <2>4
<1> QED BY <1>1, <1>2, <1>3, AxesTotal

(* The offset of an element is a number of steps along each axis, ...      *)
LEMMA ElementOnAxes ==
  ASSUME NEW l, Strided(l), numel(l) > 0, NEW i \in Nat
  PROVE  \E c \in [1 .. Len(overlap_axes(l)) -> Nat] :
           /\ \A k \in 1 .. Len(overlap_axes(l)) : c[k] < overlap_axes(l)[k].size
           /\ ElementOffset(l, i) = Sum(Moves(overlap_axes(l), c), Len(overlap_axes(l)))
<1> DEFINE n == Cardinality(Axes(l))
           ax == overlap_axes(l)
           c == [k \in 1 .. n |-> Coord(l.sizes, i)[Axis(l, k)]]
<1>1. n \in Nat /\ Len(ax) = n
  BY AxesOf
<1>2. ASSUME NEW k \in 1 .. n
      PROVE  /\ Coord(l.sizes, i)[Axis(l, k)] \in Nat /\ Coord(l.sizes, i)[Axis(l, k)] < ax[k].size
             /\ Adds(l, i)[Axis(l, k)] = Coord(l.sizes, i)[Axis(l, k)] * ax[k].stride
  <2>1. /\ Axis(l, k) \in 1 .. rank(l) /\ ax[k].size = l.sizes[Axis(l, k)]
        /\ ax[k].stride = l.strides[Axis(l, k)] /\ l.sizes[Axis(l, k)] \in Nat
    BY AxesOf
  <2>2. Coord(l.sizes, i)[Axis(l, k)] \in 0 .. l.sizes[Axis(l, k)] - 1
    BY <2>1, Coordinates
  <2>3. Adds(l, i)[Axis(l, k)] = Coord(l.sizes, i)[Axis(l, k)] * l.strides[Axis(l, k)]
    BY <2>1 DEF Adds
  <2> QED BY <2>1, <2>2, <2>3
<1>3. /\ c \in [1 .. Len(ax) -> Nat] /\ \A k \in 1 .. Len(ax) : c[k] < ax[k].size
      /\ Moves(ax, c) = OnAxes(l, Adds(l, i))
  <2>1. c \in [1 .. n -> Nat] /\ \A k \in 1 .. n : c[k] < ax[k].size
    <3> HIDE DEF ax
    <3> QED BY <1>2
  <2>2. \A k \in 1 .. n : c[k] * ax[k].stride = Adds(l, i)[Axis(l, k)]
    <3> HIDE DEF ax
    <3> QED BY <1>2
  <2>3. Moves(ax, c) = [k \in 1 .. n |-> c[k] * ax[k].stride]
    BY <1>1 DEF Moves
  <2> HIDE DEF c, ax
  <2>4. Moves(ax, c) = OnAxes(l, Adds(l, i))
    BY <2>2, <2>3 DEF OnAxes
  <2> QED BY <1>1, <2>1, <2>4
<1>4. ElementOffset(l, i) = Sum(Moves(ax, c), Len(ax))
  BY <1>1, <1>3, AddsOnAxes
<1> HIDE DEF c
<1> QED BY <1>3, <1>4

(* ... and any number of steps below the sizes reaches an element.         *)
LEMMA AxesReachElement ==
  ASSUME NEW l, Strided(l), numel(l) > 0, NEW c \in [1 .. Len(overlap_axes(l)) -> Nat],
         \A k \in 1 .. Len(overlap_axes(l)) : c[k] < overlap_axes(l)[k].size
  PROVE  \E i \in 0 .. numel(l) - 1 :
           /\ ElementOffset(l, i) = Sum(Moves(overlap_axes(l), c), Len(overlap_axes(l)))
           /\ \A k \in 1 .. Len(overlap_axes(l)) : Coord(l.sizes, i)[Axis(l, k)] = c[k]
<1> DEFINE n == Cardinality(Axes(l))
           ax == overlap_axes(l)
           At(d) == CHOOSE k \in 1 .. n : Axis(l, k) = d
           e == [d \in 1 .. rank(l) |-> IF d \in Axes(l) THEN c[At(d)] ELSE 0]
<1>1. n \in Nat /\ Len(ax) = n
  BY AxesOf
<1>2. \A d \in Axes(l) : At(d) \in 1 .. n /\ Axis(l, At(d)) = d
  BY AxesAre
<1>3. \A k \in 1 .. n : At(Axis(l, k)) = k
  <2>1. ASSUME NEW k \in 1 .. n PROVE At(Axis(l, k)) = k
    <3>1. Axis(l, k) \in Axes(l)
      BY AxesAre
    <3>2. At(Axis(l, k)) \in 1 .. n /\ Axis(l, At(Axis(l, k))) = Axis(l, k)
      BY <1>2, <3>1
    <3> HIDE DEF At
    <3> QED BY <3>2, AxesAre
  <2> QED BY <2>1
<1>4. ASSUME NEW d \in 1 .. rank(l) PROVE e[d] \in Nat /\ e[d] < l.sizes[d]
  <2>1. CASE d \in Axes(l)
    <3>1. At(d) \in 1 .. n /\ Axis(l, At(d)) = d
      BY <1>2, <2>1
    <3>2. e[d] = c[At(d)]
      BY <2>1
    <3>3. c[At(d)] \in Nat /\ c[At(d)] < ax[At(d)].size /\ ax[At(d)].size = l.sizes[Axis(l, At(d))]
      <4> HIDE DEF At
      <4> QED BY <1>1, <3>1, AxesOf
    <3> HIDE DEF e, At
    <3> QED BY <3>1, <3>2, <3>3
  <2>2. CASE d \notin Axes(l)
    <3>1. e[d] = 0
      BY <2>2
    <3>2. l.sizes[d] \in Nat \ {0}
      BY Coordinates, 0 \in Nat
    <3> HIDE DEF e
    <3> QED BY <3>1, <3>2
  <2> QED BY <2>1, <2>2
<1>5. e \in [1 .. rank(l) -> Nat]
  <2>1. e = [d \in 1 .. rank(l) |-> e[d]]
    OBVIOUS
  <2> HIDE DEF e
  <2> QED BY <1>4, <2>1
<1>6. PICK i \in 0 .. numel(l) - 1 : \A d \in 1 .. rank(l) : Coord(l.sizes, i)[d] = e[d]
  <2> HIDE DEF e
  <2> QED BY <1>4, <1>5, ElementAt, ZenonT(120)
<1>7. ASSUME NEW k \in 1 .. n
      PROVE  /\ Coord(l.sizes, i)[Axis(l, k)] = c[k]
             /\ Adds(l, i)[Axis(l, k)] = c[k] * ax[k].stride
  <2>1. Axis(l, k) \in 1 .. rank(l) /\ Axis(l, k) \in Axes(l)
          /\ ax[k].stride = l.strides[Axis(l, k)]
    BY AxesOf
  <2>2. e[Axis(l, k)] = c[k]
    <3>1. e[Axis(l, k)] = c[At(Axis(l, k))]
      BY <2>1
    <3> HIDE DEF e, At
    <3> QED BY <1>3, <3>1
  <2>3. Coord(l.sizes, i)[Axis(l, k)] = c[k]
    <3> HIDE DEF e
    <3> QED BY <1>6, <2>1, <2>2
  <2>4. Adds(l, i)[Axis(l, k)] = Coord(l.sizes, i)[Axis(l, k)] * l.strides[Axis(l, k)]
    BY <2>1 DEF Adds
  <2> QED BY <2>1, <2>3, <2>4
<1>8. Moves(ax, c) = OnAxes(l, Adds(l, i))
  <2>1. Moves(ax, c) = [k \in 1 .. n |-> c[k] * ax[k].stride]
    BY <1>1 DEF Moves
  <2> HIDE DEF ax, e
  <2> QED BY <1>7, <2>1 DEF OnAxes
<1>9. i \in Nat
  <2>1. numel(l) \in Nat
    BY PackedShape DEF Strided, numel
  <2> QED BY <2>1
<1>10. ElementOffset(l, i) = Sum(Moves(ax, c), Len(ax))
  BY <1>1, <1>8, <1>9, AddsOnAxes
<1> HIDE DEF e, At
<1> QED BY <1>1, <1>7, <1>10

----------------------------------------------------------------------------
(* The carry interval.                                                     *)
(* Equal and nested axes, as lattice_test gets them.                       *)
Grid(ax, bx) ==
  /\ Len(ax) \in Nat \ {0} /\ Len(bx) = Len(ax)
  /\ \A k \in 1 .. Len(ax) :
       /\ ax[k].size \in Nat \ {0} /\ bx[k].size \in Nat \ {0}
       /\ ax[k].stride \in Nat \ {0}
       /\ k > 1 => ax[k].stride % ax[k - 1].stride = 0
Period(ax, k) == ax[k + 1].stride \div ax[k].stride
Lower(bx, k) == -(bx[k].size - 1)
Upper(ax, k) == ax[k].size - 1
Carry == [lo : Int, hi : Int, status : {"carry", none, partial, too_hard}]

(* floor_div and ceil_div are the bounds of the factors they divide by.    *)
LEMMA Rounding ==
  ASSUME NEW n \in Int, NEW p \in Nat \ {0}
  PROVE  /\ ceil_div(n, p) \in Int /\ floor_div(n, p) \in Int
         /\ \A x \in Int : x <= floor_div(n, p) <=> p * x <= n
         /\ \A x \in Int : ceil_div(n, p) <= x <=> n <= p * x
<1>1. ASSUME NEW m \in Int, NEW x \in Int PROVE x <= m \div p <=> p * x <= m
  <2>1. m \div p \in Int /\ m % p \in 0 .. p - 1 /\ m = p * (m \div p) + (m % p)
    BY Remainder
  <2>2. PICK q \in Int, r \in 0 .. p - 1 : m = p * q + r /\ m \div p = q
    BY <2>1
  <2>3. CASE x <= q
    <3>1. q - x \in Nat /\ q = x + (q - x)
      BY <2>3
    <3>2. PICK k \in Nat : q = x + k
      BY <3>1
    <3>3. p * q = p * x + p * k /\ p * k \in Nat /\ p * x \in Int
      BY <3>2
    <3> QED BY <2>2, <2>3, <3>3
  <2>4. CASE ~(x <= q)
    <3>1. x - q - 1 \in Nat /\ x = q + 1 + (x - q - 1)
      BY <2>4
    <3>2. PICK k \in Nat : x = q + 1 + k
      BY <3>1
    <3>3. p * x = p * q + p + p * k /\ p * k \in Nat /\ p * q \in Int
      BY <3>2
    <3> QED BY <2>2, <2>4, <3>3
  <2> QED BY <2>3, <2>4
<1>2. \A m \in Int : m \div p \in Int
  BY Remainder
<1>3. ASSUME NEW x \in Int PROVE ceil_div(n, p) <= x <=> n <= p * x
  <2>1. -n \in Int /\ -x \in Int /\ (-n) \div p \in Int
    BY <1>2
  <2>2. -x <= (-n) \div p <=> p * (-x) <= -n
    BY <1>1, <2>1
  <2>3. p * (-x) = -(p * x) /\ p * x \in Int
    OBVIOUS
  <2>4. PICK q \in Int : q = (-n) \div p
    BY <2>1
  <2> QED BY <2>2, <2>3, <2>4 DEF ceil_div
<1>4. ceil_div(n, p) \in Int /\ floor_div(n, p) \in Int
  <2>1. -n \in Int
    OBVIOUS
  <2>2. (-n) \div p \in Int /\ n \div p \in Int
    BY <1>2, <2>1
  <2> QED BY <2>2 DEF ceil_div, floor_div
<1> QED BY <1>1, <1>3, <1>4 DEF floor_div

\* A stride of the grid is a whole number of the strides before it.
LEMMA Periods ==
  ASSUME NEW ax, NEW bx, Grid(ax, bx), NEW k \in 1 .. Len(ax) - 1
  PROVE  Period(ax, k) \in Nat \ {0} /\ ax[k + 1].stride = Period(ax, k) * ax[k].stride
<1>1. k \in 1 .. Len(ax) /\ k + 1 \in 1 .. Len(ax) /\ (k + 1) - 1 = k /\ k + 1 > 1
  BY DEF Grid
<1>2. /\ ax[k].stride \in Nat \ {0} /\ ax[k + 1].stride \in Nat \ {0}
      /\ ax[k + 1].stride % ax[k].stride = 0
  BY <1>1 DEF Grid
<1> DEFINE s == ax[k].stride
           t == ax[k + 1].stride
<1>3. s \in Nat \ {0} /\ t \in Nat \ {0} /\ t % s = 0
  BY <1>2
<1> HIDE DEF s, t
<1>4. t \div s \in Nat /\ t = s * (t \div s) + (t % s)
  BY <1>3, Division
<1>5. PICK q \in Nat : q = t \div s
  BY <1>4
<1>6. t = q * s /\ q # 0
  BY <1>3, <1>4, <1>5
<1> QED BY <1>5, <1>6 DEF Period, s, t

\* The interval that the carry of axis k can take.
LEMMA Bounds ==
  ASSUME NEW ax, NEW bx, Grid(ax, bx), NEW k \in 1 .. Len(ax)
  PROVE  /\ Lower(bx, k) \in Int /\ Upper(ax, k) \in Int /\ Lower(bx, k) <= 0 /\ 0 <= Upper(ax, k)
         /\ CarryBounds(ax, bx, k).lower = Lower(bx, k)
              /\ CarryBounds(ax, bx, k).upper = Upper(ax, k)
BY DEF Grid, Lower, Upper, CarryBounds

(* One step of the carry: a result stays, the last axis decides, and the   *)
(* interval of an axis before becomes that of the next.                    *)
LEMMA CarryStepIs ==
  ASSUME NEW ax, NEW bx, Grid(ax, bx), NEW k \in 1 .. Len(ax), NEW acc \in Carry
  PROVE  /\ CarryStep(acc, ax, bx, k) \in Carry
         /\ acc.status # "carry" => CarryStep(acc, ax, bx, k) = acc
         /\ acc.status = "carry" /\ k = Len(ax) =>
              CarryStep(acc, ax, bx, k).status =
                IF acc.hi >= Lower(bx, k) /\ acc.lo <= Upper(ax, k) THEN partial ELSE none
         /\ acc.status = "carry" /\ k # Len(ax) =>
              LET lo == ceil_div(acc.lo - Upper(ax, k), Period(ax, k))
                  hi == floor_div(acc.hi - Lower(bx, k), Period(ax, k))
              IN  \/ CarryStep(acc, ax, bx, k).status = too_hard
                  \/ CarryStep(acc, ax, bx, k).status = none /\ lo > hi
                  \/ CarryStep(acc, ax, bx, k) = [lo |-> lo, hi |-> hi, status |-> "carry"]
                    /\ lo <= hi
<1> DEFINE next == CarryStep(acc, ax, bx, k)
           lo == ceil_div(acc.lo - Upper(ax, k), Period(ax, k))
           hi == floor_div(acc.hi - Lower(bx, k), Period(ax, k))
           stop(s) == [lo |-> acc.lo, hi |-> acc.hi, status |-> s]
<1>1. acc.lo \in Int /\ acc.hi \in Int
  BY DEF Carry
<1>2. /\ Lower(bx, k) \in Int /\ Upper(ax, k) \in Int
      /\ CarryBounds(ax, bx, k).lower = Lower(bx, k) /\ CarryBounds(ax, bx, k).upper = Upper(ax, k)
  BY Bounds
<1>3. CASE acc.status # "carry"
  BY <1>3 DEF CarryStep
<1>4. CASE acc.status = "carry" /\ k = Len(ax)
  <2>1. next = stop(IF acc.hi >= Lower(bx, k) /\ acc.lo <= Upper(ax, k) THEN partial ELSE none)
    BY <1>2, <1>4 DEF CarryStep
  <2>2. /\ next \in Carry
        /\ next.status = IF acc.hi >= Lower(bx, k) /\ acc.lo <= Upper(ax, k) THEN partial ELSE none
    <3> HIDE DEF next
    <3> QED BY <1>1, <2>1 DEF Carry
  <2> QED BY <1>4, <2>2
<1>5. CASE acc.status = "carry" /\ k # Len(ax)
  <2>1. lo \in Int /\ hi \in Int
    <3>1. k \in 1 .. Len(ax) - 1
      BY <1>5 DEF Grid
    <3>2. Period(ax, k) \in Nat \ {0} /\ acc.lo - Upper(ax, k) \in Int
            /\ acc.hi - Lower(bx, k) \in Int
      BY <1>1, <1>2, <3>1, Periods
    <3> QED BY <3>2, Rounding
  <2>2. \/ next = stop(too_hard)
        \/ next = [lo |-> lo, hi |-> hi, status |-> IF lo > hi THEN none ELSE "carry"]
    BY <1>2, <1>5 DEF CarryStep, Period
  <2> HIDE DEF next, lo, hi
  <2>3. CASE next = stop(too_hard)
    <3>1. next \in Carry /\ next.status = too_hard
      BY <1>1, <2>3 DEF Carry
    <3> QED BY <1>5, <3>1 DEF lo, hi, next
  <2>4. CASE next = [lo |-> lo, hi |-> hi, status |-> IF lo > hi THEN none ELSE "carry"]
    <3>1. next \in Carry
      BY <2>1, <2>4 DEF Carry
    <3>2. CASE lo > hi
      <4>1. next.status = none
        BY <2>4, <3>2
      <4> QED BY <1>5, <3>1, <3>2, <4>1 DEF lo, hi, next
    <3>3. CASE ~(lo > hi)
      <4>1. next = [lo |-> lo, hi |-> hi, status |-> "carry"] /\ lo <= hi
        BY <2>1, <2>4, <3>3
      <4> QED BY <1>5, <3>1, <4>1 DEF lo, hi, next
    <3> QED BY <3>2, <3>3
  <2> QED BY <2>2, <2>3, <2>4
<1> QED BY <1>3, <1>4, <1>5

(* lattice_test takes the steps from the innermost axis to the last.       *)
Carries(ax, bx, delta, carry) ==
  /\ carry \in [0 .. Len(ax) -> Carry]
  /\ carry[0] = [lo |-> delta \div ax[1].stride, hi |-> delta \div ax[1].stride, status |-> "carry"]
  /\ \A k \in 1 .. Len(ax) : carry[k] = CarryStep(carry[k - 1], ax, bx, k)

\* The loop of lattice_test computes the carries.
LEMMA LatticeIs ==
  ASSUME NEW ax, NEW bx, Grid(ax, bx), NEW delta \in Int
  PROVE  \E carry :
           Carries(ax, bx, delta, carry) /\ lattice_test(ax, bx, delta) = carry[Len(ax)].status
<1> DEFINE n == Len(ax)
           first == delta \div ax[1].stride
           start == [lo |-> first, hi |-> first, status |-> "carry"]
           step == [k \in 1 .. n |-> [x \in Carry |-> CarryStep(x, ax, bx, k)]]
           Body(f) == [d \in 0 .. n |-> IF d = 0 THEN start ELSE CarryStep(f[d - 1], ax, bx, d)]
<1>1. n \in Nat \ {0} /\ first \in Int
  <2>1. n \in Nat \ {0} /\ 1 \in 1 .. n
    BY DEF Grid
  <2>2. ax[1].stride \in Nat \ {0}
    BY <2>1 DEF Grid
  <2> QED BY <2>1, <2>2, Remainder
<1>2. start \in Carry
  <2> HIDE DEF first
  <2> QED BY <1>1 DEF Carry
<1>3. step \in [1 .. n -> [Carry -> Carry]]
  <2>1. \A k \in 1 .. n : \A x \in Carry : CarryStep(x, ax, bx, k) \in Carry
    BY CarryStepIs
  <2> QED BY <2>1
<1>4. PICK f \in [0 .. n -> Carry] : Up(f, n, start, step)
  <2> HIDE DEF step, start, n
  <2> QED BY <1>1, <1>2, <1>3, Ascent
<1>5. f[0] = start /\ \A k \in 1 .. n : f[k] = CarryStep(f[k - 1], ax, bx, k)
  <2>1. ASSUME NEW k \in 1 .. n PROVE f[k - 1] \in Carry
                                        /\ step[k][f[k - 1]] = CarryStep(f[k - 1], ax, bx, k)
    <3>1. k - 1 \in 0 .. n
      BY <1>1
    <3>2. f[k - 1] \in Carry
      BY <1>4, <3>1
    <3>3. step[k] = [x \in Carry |-> CarryStep(x, ax, bx, k)]
      OBVIOUS
    <3> QED BY <3>2, <3>3
  <2> HIDE DEF step, start
  <2> QED BY <1>4, <2>1 DEF Up
<1>6. f = Body(f)
  <2>1. ASSUME NEW d \in 0 .. n PROVE f[d] = IF d = 0 THEN start ELSE CarryStep(f[d - 1], ax, bx, d)
    <3>1. d = 0 \/ d \in 1 .. n
      BY <1>1
    <3>2. d \in 1 .. n => d # 0
      OBVIOUS
    <3> HIDE DEF start
    <3> QED BY <1>5, <3>1, <3>2
  <2> HIDE DEF start
  <2> QED BY <1>4, <2>1
<1> DEFINE c == CHOOSE g : g = Body(g)
<1>7. c = Body(c)
  <2> HIDE DEF Body
  <2> QED BY <1>6
<1>8. lattice_test(ax, bx, delta) = c[n].status
  BY DEF lattice_test
<1> HIDE DEF c
<1>9. c[0] = start /\ \A k \in 1 .. n : c[k] = CarryStep(c[k - 1], ax, bx, k)
  <2>1. \A d \in 0 .. n : c[d] = IF d = 0 THEN start ELSE CarryStep(c[d - 1], ax, bx, d)
    <3> HIDE DEF start
    <3> QED BY <1>7
  <2>2. 0 \in 0 .. n /\ \A k \in 1 .. n : k \in 0 .. n /\ k # 0
    BY <1>1
  <2> HIDE DEF start
  <2> QED BY <2>1, <2>2
<1> DEFINE S == {d \in 0 .. n : c[d] \in Carry}
<1>10. 0 .. n \subseteq S
  <2>1. 0 \in S
    <3> HIDE DEF start
    <3> QED BY <1>1, <1>2, <1>9
  <2>2. ASSUME NEW k \in 1 .. n, k - 1 \in S PROVE k \in S
    <3>1. k \in 0 .. n /\ c[k - 1] \in Carry
      BY <1>1, <2>2
    <3>2. CarryStep(c[k - 1], ax, bx, k) \in Carry
      BY <3>1, CarryStepIs
    <3> HIDE DEF start
    <3> QED BY <1>9, <3>1, <3>2
  <2> HIDE DEF S, n
  <2> QED BY <1>1, <2>1, <2>2, Induction
<1>11. c \in [0 .. n -> Carry]
  <2>1. \A d \in 0 .. n : c[d] \in Carry
    BY <1>10
  <2>2. c = [d \in 0 .. n |-> c[d]]
    <3> HIDE DEF start
    <3> QED BY <1>7
  <2> QED BY <2>1, <2>2
<1>12. Carries(ax, bx, delta, c)
  BY <1>9, <1>11 DEF Carries
<1> QED BY <1>8, <1>12

(* Whether delta is a sum of moves within the bounds of the carry.         *)
InBox(ax, bx, c) ==
  /\ c \in [1 .. Len(ax) -> Int]
  /\ \A k \in 1 .. Len(ax) : Lower(bx, k) <= c[k] /\ c[k] <= Upper(ax, k)

(* What the axes from k on add to an offset is a multiple of k's stride.   *)
LEMMA OuterMoves ==
  ASSUME NEW ax, NEW bx, Grid(ax, bx), NEW c \in [1 .. Len(ax) -> Int], NEW k \in 1 .. Len(ax)
  PROVE  Multiple(Sum(Moves(ax, c), Len(ax)) - Sum(Moves(ax, c), k - 1), ax[k].stride)
<1> DEFINE n == Len(ax)
           t == Moves(ax, c)
           Rest(j) == Sum(t, n) - Sum(t, j - 1)
           S == {j \in 1 .. n + 1 : j = n + 1 \/ Multiple(Rest(j), ax[j].stride)}
<1>1. /\ n \in Nat \ {0}
      /\ \A j \in 1 .. n : ax[j].stride \in Nat \ {0} /\ c[j] \in Int
  BY DEF Grid
<1>2. /\ t \in Seq(Int) /\ Len(t) = n /\ \A j \in 1 .. n : t[j] = c[j] * ax[j].stride
  BY <1>1, MovesAre
<1> HIDE DEF t
<1>3. /\ \A j \in 1 .. n : Sum(t, j) = Sum(t, j - 1) + t[j]
      /\ \A j \in 0 .. n : Sum(t, j) \in Int
  BY <1>2, SumIs
<1>4. n + 1 \in S
  BY <1>1
<1>5. ASSUME NEW j \in 1 .. n, j + 1 \in S PROVE j \in S
  <2>1. j \in 1 .. n + 1 /\ j - 1 \in 0 .. n /\ j \in 0 .. n /\ (j + 1) - 1 = j /\ n \in 0 .. n
    BY <1>1
  <2>2. /\ Sum(t, n) \in Int /\ Sum(t, j) \in Int /\ Sum(t, j - 1) \in Int
        /\ Sum(t, j) = Sum(t, j - 1) + c[j] * ax[j].stride
        /\ c[j] \in Int /\ ax[j].stride \in Nat \ {0}
    BY <1>1, <1>2, <1>3, <2>1
  <2>3. c[j] * ax[j].stride \in Int
    BY <2>2
  <2>4. Rest(j) = Rest(j + 1) + c[j] * ax[j].stride
    <3>1. PICK w \in Int : w = c[j] * ax[j].stride
      BY <2>3
    <3>2. Sum(t, j) = Sum(t, j - 1) + w
      BY <2>2, <3>1
    <3>3. Rest(j + 1) = Sum(t, n) - Sum(t, j)
      BY <2>1
    <3>4. Rest(j) = Rest(j + 1) + w
      BY <2>2, <3>2, <3>3
    <3> QED BY <3>1, <3>4
  <2>5. Multiple(Rest(j + 1), ax[j].stride)
    <3>1. CASE j = n
      <4>1. Rest(j + 1) = 0 * ax[j].stride
        BY <2>1, <2>2, <3>1
      <4> QED BY <4>1 DEF Multiple
    <3>2. CASE j # n
      <4>1. j \in 1 .. n - 1 /\ j + 1 # n + 1
        BY <1>1, <3>2
      <4>2. Period(ax, j) \in Nat \ {0} /\ ax[j + 1].stride = Period(ax, j) * ax[j].stride
        BY <4>1, Periods
      <4>3. Multiple(Rest(j + 1), ax[j + 1].stride)
        BY <1>5, <4>1
      <4> HIDE DEF Rest
      <4>4. PICK m \in Int : Rest(j + 1) = m * ax[j + 1].stride
        BY <4>3 DEF Multiple
      <4>5. m * ax[j + 1].stride = (m * Period(ax, j)) * ax[j].stride /\ m * Period(ax, j) \in Int
        <5>1. PICK p \in Nat : p = Period(ax, j)
          BY <4>2
        <5>2. PICK s \in Nat : s = ax[j].stride
          BY <2>2
        <5>3. ax[j + 1].stride = p * s
          BY <4>2, <5>1, <5>2
        <5>4. m * (p * s) = (m * p) * s /\ m * p \in Int
          OBVIOUS
        <5> QED BY <5>1, <5>2, <5>3, <5>4
      <4> QED BY <4>4, <4>5 DEF Multiple
    <3> QED BY <3>1, <3>2
  <2> HIDE DEF Rest
  <2>6. PICK m \in Int : Rest(j + 1) = m * ax[j].stride
    BY <2>5 DEF Multiple
  <2>7. Rest(j) = (m + c[j]) * ax[j].stride /\ m + c[j] \in Int
    <3>1. \A x, y \in Int, z \in Nat : x * z + y * z = (x + y) * z /\ x + y \in Int
      OBVIOUS
    <3> QED BY <2>2, <2>4, <2>6, <3>1, SMTT(60)
  <2> QED BY <2>1, <2>7 DEF Multiple
<1>6. 1 .. n + 1 \subseteq S
  <2>1. n \in Nat
    BY <1>1
  <2> HIDE DEF S, n
  <2> QED BY <1>4, <1>5, <2>1, Descent
<1>7. k \in 1 .. n + 1 /\ k # n + 1
  BY <1>1
<1>8. Multiple(Rest(k), ax[k].stride)
  BY <1>6, <1>7
<1> QED BY <1>8 DEF t

(* A positive factor can be cancelled.                                     *)
LEMMA Cancel ==
  ASSUME NEW x \in Int, NEW y \in Int, NEW s \in Nat \ {0}, x * s = y * s
  PROVE  x = y
<1>1. ASSUME NEW p \in Int, NEW q \in Int, p < q PROVE p * s # q * s
  <2>1. q - p - 1 \in Nat /\ q = p + 1 + (q - p - 1)
    BY <1>1
  <2>2. PICK k \in Nat : q = p + 1 + k
    BY <2>1
  <2>3. q * s = p * s + s + k * s /\ k * s \in Nat /\ p * s \in Int
    BY <2>2
  <2> QED BY <2>3
<1>2. ~(x < y) /\ ~(y < x)
  BY <1>1
<1> QED BY <1>2

(* The carry never excludes a distance that moves within the bounds reach. *)
LEMMA LatticeKeeps ==
  ASSUME NEW ax, NEW bx, Grid(ax, bx), NEW c, InBox(ax, bx, c), NEW delta \in Int,
         Sum(Moves(ax, c), Len(ax)) = delta
  PROVE  delta % ax[1].stride = 0 /\ lattice_test(ax, bx, delta) # none
<1> DEFINE n == Len(ax)
           t == Moves(ax, c)
           R(k) == (delta - Sum(t, k - 1)) \div ax[k].stride
<1>1. /\ n \in Nat \ {0}
      /\ \A k \in 1 .. n : ax[k].stride \in Nat \ {0} /\ c[k] \in Int
                           /\ Lower(bx, k) <= c[k] /\ c[k] <= Upper(ax, k)
      /\ c \in [1 .. n -> Int]
  BY DEF Grid, InBox
<1>2. /\ t \in Seq(Int) /\ Len(t) = n /\ \A k \in 1 .. n : t[k] = c[k] * ax[k].stride
  BY <1>1, MovesAre
<1>3. /\ Sum(t, 0) = 0 /\ \A k \in 1 .. n : Sum(t, k) = Sum(t, k - 1) + t[k]
      /\ \A k \in 0 .. n : Sum(t, k) \in Int
  <2> HIDE DEF t
  <2> QED BY <1>2, SumIs
<1>4. ASSUME NEW k \in 1 .. n
      PROVE  R(k) \in Int /\ delta - Sum(t, k - 1) = R(k) * ax[k].stride
  <2>1. Multiple(delta - Sum(t, k - 1), ax[k].stride)
    BY <1>1, OuterMoves
  <2>2. delta - Sum(t, k - 1) \in Int /\ ax[k].stride \in Nat \ {0}
    <3>1. k - 1 \in 0 .. n
      BY <1>1
    <3>2. Sum(t, k - 1) \in Int
      BY <1>3, <3>1
    <3> QED BY <1>1, <3>2
  <2> HIDE DEF t
  <2> QED BY <2>1, <2>2, Remainder
<1> HIDE DEF t, R
<1>5. ASSUME NEW k \in 1 .. n - 1
      PROVE  R(k) = c[k] + Period(ax, k) * R(k + 1)
  <2>1. k \in 1 .. n /\ k + 1 \in 1 .. n /\ (k + 1) - 1 = k /\ k - 1 \in 0 .. n /\ k \in 0 .. n
    BY <1>1
  <2>2. PICK s \in Nat \ {0} : s = ax[k].stride
    BY <1>1, <2>1
  <2>3. PICK p \in Nat \ {0} : p = Period(ax, k)
    BY Periods
  <2>4. ax[k + 1].stride = p * s
    BY <2>2, <2>3, Periods
  <2>5. PICK x \in Int : x = R(k)
    BY <1>4, <2>1
  <2>6. PICK y \in Int : y = R(k + 1)
    BY <1>4, <2>1
  <2>7. PICK z \in Int : z = c[k]
    BY <1>1, <2>1
  <2>8. PICK u \in Int : u = Sum(t, k)
    BY <1>3, <2>1
  <2>9. PICK v \in Int : v = Sum(t, k - 1)
    BY <1>3, <2>1
  <2>10. delta - v = x * s /\ delta - u = y * (p * s) /\ u = v + z * s
    BY <1>2, <1>3, <1>4, <2>1, <2>2, <2>4, <2>5, <2>6, <2>7, <2>8, <2>9
  <2>11. y * (p * s) = (p * y) * s /\ z * s + (p * y) * s = (z + p * y) * s
    OBVIOUS
  <2>12. PICK w \in Int : w = p * y
    OBVIOUS
  <2>13. z * s \in Int /\ w * s \in Int
    OBVIOUS
  <2>14. delta - v = z * s + w * s
    BY <2>10, <2>11, <2>12, <2>13
  <2>15. x * s = (z + w) * s
    BY <2>10, <2>11, <2>12, <2>14
  <2>16. x = z + w
    <3>1. z + w \in Int
      OBVIOUS
    <3> QED BY <2>15, <3>1, Cancel
  <2> QED BY <2>3, <2>5, <2>6, <2>7, <2>12, <2>16
<1>6. R(n) = c[n]
  <2>1. n \in 1 .. n /\ n - 1 \in 0 .. n
    BY <1>1
  <2>2. ax[n].stride \in Nat \ {0} /\ c[n] \in Int /\ R(n) \in Int
    BY <1>1, <1>4, <2>1
  <2>3. delta = Sum(t, n - 1) + c[n] * ax[n].stride /\ delta - Sum(t, n - 1) = R(n) * ax[n].stride
    BY <1>2, <1>3, <1>4, <2>1 DEF t
  <2>4. Sum(t, n - 1) \in Int /\ c[n] * ax[n].stride \in Int
    BY <1>3, <2>1, <2>2, SMTT(60)
  <2>5. c[n] * ax[n].stride = R(n) * ax[n].stride
    BY <2>3, <2>4
  <2> QED BY <2>2, <2>5, Cancel
<1>7. PICK carry : Carries(ax, bx, delta, carry) /\ lattice_test(ax, bx, delta) = carry[n].status
  BY LatticeIs
<1>8. /\ \A k \in 0 .. n : carry[k] \in Carry
      /\ carry[0] = [lo |-> delta \div ax[1].stride, hi |-> delta \div ax[1].stride,
                     status |-> "carry"]
      /\ \A k \in 1 .. n : carry[k] = CarryStep(carry[k - 1], ax, bx, k)
  BY <1>7 DEF Carries
<1> DEFINE Holds(k) == carry[k].lo <= R(k + 1) /\ R(k + 1) <= carry[k].hi
           S == {k \in 0 .. n : /\ carry[k].status # none
                                /\ k < n /\ carry[k].status = "carry" => Holds(k)}
<1>9. 0 \in S
  <2>1. 1 \in 1 .. n /\ 0 + 1 = 1 /\ 1 - 1 = 0 /\ 0 \in 0 .. n
    BY <1>1
  <2>2. R(1) = delta \div ax[1].stride /\ R(1) \in Int
    BY <1>3, <1>4, <2>1, SMTT(60) DEF R
  <2> QED BY <1>8, <2>1, <2>2 DEF none
<1>10. ASSUME NEW k \in 1 .. n, k - 1 \in S PROVE k \in S
  <2>1. k - 1 \in 0 .. n /\ k \in 0 .. n /\ k - 1 < n /\ (k - 1) + 1 = k
    BY <1>1
  <2> DEFINE acc == carry[k - 1]
  <2>2. acc \in Carry /\ carry[k] = CarryStep(acc, ax, bx, k)
    BY <1>8, <2>1
  <2>3. acc.status # none /\ (acc.status = "carry" => acc.lo <= R(k) /\ R(k) <= acc.hi)
    BY <1>10, <2>1
  <2> HIDE DEF acc
  <2>4. CASE acc.status # "carry"
    <3>1. carry[k] = acc
      BY <2>2, <2>4, CarryStepIs
    <3> QED BY <2>1, <2>3, <2>4, <3>1
  <2>5. CASE acc.status = "carry" /\ k = n
    <3>1. carry[k].status = IF acc.hi >= Lower(bx, k) /\ acc.lo <= Upper(ax, k) THEN partial ELSE none
      BY <2>2, <2>5, CarryStepIs
    <3>2. acc.lo <= c[k] /\ c[k] <= acc.hi /\ Lower(bx, k) <= c[k] /\ c[k] <= Upper(ax, k)
      BY <1>1, <1>6, <2>3, <2>5
    <3>3. acc.lo \in Int /\ acc.hi \in Int /\ c[k] \in Int /\ Lower(bx, k) \in Int
            /\ Upper(ax, k) \in Int
      BY <1>1, <2>2, Bounds DEF Carry
    <3>4. carry[k].status = partial
      BY <3>1, <3>2, <3>3
    <3> QED BY <2>1, <2>5, <3>4 DEF partial, none
  <2>6. CASE acc.status = "carry" /\ k # n
    <3> DEFINE p == Period(ax, k)
               lo == ceil_div(acc.lo - Upper(ax, k), p)
               hi == floor_div(acc.hi - Lower(bx, k), p)
    <3>1. \/ carry[k].status = too_hard
          \/ carry[k].status = none /\ lo > hi
          \/ carry[k] = [lo |-> lo, hi |-> hi, status |-> "carry"] /\ lo <= hi
      BY <2>2, <2>6, CarryStepIs
    <3>2. /\ acc.lo \in Int /\ acc.hi \in Int /\ c[k] \in Int /\ Lower(bx, k) \in Int
               /\ Upper(ax, k) \in Int
          /\ Lower(bx, k) <= c[k] /\ c[k] <= Upper(ax, k)
      BY <1>1, <2>2, Bounds DEF Carry
    <3>3. k \in 1 .. n - 1 /\ k + 1 \in 1 .. n
      BY <1>1, <2>6
    <3>4. p \in Nat \ {0} /\ R(k + 1) \in Int /\ R(k) = c[k] + p * R(k + 1)
      BY <1>4, <1>5, <3>3, Periods
    <3> HIDE DEF p
    <3>5. p * R(k + 1) \in Int
      BY <3>4
    <3>6. acc.lo - Upper(ax, k) <= p * R(k + 1) /\ p * R(k + 1) <= acc.hi - Lower(bx, k)
      <4>1. PICK w \in Int : w = p * R(k + 1)
        BY <3>5
      <4>2. R(k) = c[k] + w /\ acc.lo <= R(k) /\ R(k) <= acc.hi
        BY <2>3, <2>6, <3>4, <4>1
      <4>3. acc.lo - Upper(ax, k) <= w /\ w <= acc.hi - Lower(bx, k)
        BY <3>2, <4>2, SMTT(60)
      <4> QED BY <4>1, <4>3
    <3>7. acc.lo - Upper(ax, k) \in Int /\ acc.hi - Lower(bx, k) \in Int
      BY <3>2
    <3>8. lo \in Int /\ hi \in Int /\ lo <= R(k + 1) /\ R(k + 1) <= hi
      BY <3>4, <3>6, <3>7, Rounding
    <3> HIDE DEF lo, hi
    <3>9. \/ carry[k].status = too_hard
          \/ carry[k] = [lo |-> lo, hi |-> hi, status |-> "carry"]
      BY <3>1, <3>4, <3>8
    <3> QED BY <2>1, <3>8, <3>9 DEF too_hard, none
  <2> QED BY <2>4, <2>5, <2>6
<1>11. n \in S
  <2>1. n \in Nat /\ n \in 0 .. n
    BY <1>1
  <2>2. 0 .. n \subseteq S
    <3> HIDE DEF S, n
    <3> QED BY <1>9, <1>10, <2>1, Induction
  <2> HIDE DEF S
  <2> QED BY <2>1, <2>2
<1>12. delta % ax[1].stride = 0
  <2>1. 1 \in 1 .. n /\ 1 - 1 = 0
    BY <1>1
  <2>2. delta = R(1) * ax[1].stride /\ R(1) \in Int /\ ax[1].stride \in Nat \ {0}
    BY <1>1, <1>3, <1>4, <2>1
  <2> QED BY <2>2, Remainder DEF Multiple
<1> QED BY <1>7, <1>11, <1>12

\* e moves as c does before axis k, and v along it.
MovesOn(ax, c, k, v, e) ==
  /\ e[k] = v /\ \A j \in 1 .. k - 1 : e[j] = c[j]
  /\ Sum(Moves(ax, e), k) = Sum(Moves(ax, c), k - 1) + v * ax[k].stride

(* Steps along the axes before k, and v along k.                           *)
LEMMA OneMoreMove ==
  ASSUME NEW ax, NEW bx, Grid(ax, bx), NEW c \in [1 .. Len(ax) -> Int],
         NEW k \in 1 .. Len(ax), NEW v \in Int
  PROVE  \E e \in [1 .. Len(ax) -> Int] : MovesOn(ax, c, k, v, e)
<1> DEFINE n == Len(ax)
           e == [j \in 1 .. n |-> IF j = k THEN v ELSE c[j]]
<1>1. n \in Nat \ {0} /\ k - 1 \in Nat /\ k - 1 <= n /\ \A j \in 1 .. n : ax[j].stride \in Nat
  BY DEF Grid
<1>2. e \in [1 .. n -> Int] /\ e[k] = v /\ \A j \in 1 .. k - 1 : j \in 1 .. n /\ e[j] = c[j]
  BY <1>1
<1> HIDE DEF e
<1>3. /\ Moves(ax, e) \in Seq(Int) /\ Len(Moves(ax, e)) = n
           /\ \A j \in 1 .. n : Moves(ax, e)[j] = e[j] * ax[j].stride
      /\ Moves(ax, c) \in Seq(Int) /\ Len(Moves(ax, c)) = n
           /\ \A j \in 1 .. n : Moves(ax, c)[j] = c[j] * ax[j].stride
  BY <1>1, <1>2, MovesAre
<1>4. \A j \in 1 .. k - 1 : Moves(ax, e)[j] = Moves(ax, c)[j]
  BY <1>2, <1>3
<1>5. Sum(Moves(ax, e), k - 1) = Sum(Moves(ax, c), k - 1)
  BY <1>1, <1>3, <1>4, SumPrefix
<1>6. Sum(Moves(ax, e), k) = Sum(Moves(ax, e), k - 1) + Moves(ax, e)[k]
  BY <1>3, SumIs
<1>7. Moves(ax, e)[k] = v * ax[k].stride
  BY <1>2, <1>3
<1>8. MovesOn(ax, c, k, v, e)
  BY <1>2, <1>5, <1>6, <1>7 DEF MovesOn
<1> QED BY <1>2, <1>8

(* Every value left in the interval when the carry ends is reached: what   *)
(* lattice_test calls partial is a distance that moves within the bounds   *)
(* add up to.                                                              *)
Reached(ax, bx, delta, k, x) ==
  \E c \in [1 .. Len(ax) -> Int] :
    /\ \A j \in 1 .. k : Lower(bx, j) <= c[j] /\ c[j] <= Upper(ax, j)
    /\ Sum(Moves(ax, c), k) + x * ax[k + 1].stride = delta

\* If the test says partial, there are coordinates in range that reach delta.
LEMMA LatticeReaches ==
  ASSUME NEW ax, NEW bx, Grid(ax, bx), NEW delta \in Int, delta % ax[1].stride = 0,
         lattice_test(ax, bx, delta) = partial
  PROVE  \E c : InBox(ax, bx, c) /\ Sum(Moves(ax, c), Len(ax)) = delta
<1> DEFINE n == Len(ax)
<1>1. n \in Nat \ {0} /\ \A k \in 1 .. n : ax[k].stride \in Nat \ {0}
  BY DEF Grid
<1>2. PICK carry : Carries(ax, bx, delta, carry) /\ lattice_test(ax, bx, delta) = carry[n].status
  BY LatticeIs
<1>3. /\ \A k \in 0 .. n : carry[k] \in Carry
      /\ carry[0] = [lo |-> delta \div ax[1].stride, hi |-> delta \div ax[1].stride,
                     status |-> "carry"]
      /\ \A k \in 1 .. n : carry[k] = CarryStep(carry[k - 1], ax, bx, k)
  BY <1>2 DEF Carries
<1> DEFINE Open(k) == /\ carry[k].lo <= carry[k].hi
                      /\ \A x \in carry[k].lo .. carry[k].hi : Reached(ax, bx, delta, k, x)
           S == {k \in 0 .. n - 1 : /\ carry[k].status # partial
                                    /\ carry[k].status = "carry" => Open(k)}
<1>4. 0 \in S
  <2> DEFINE q == delta \div ax[1].stride
  <2>1. 1 \in 1 .. n /\ 0 + 1 = 1 /\ 0 \in 0 .. n - 1
    BY <1>1
  <2>2. q \in Int /\ delta = q * ax[1].stride
    <3>1. ax[1].stride \in Nat \ {0}
      BY <1>1, <2>1
    <3> QED BY <3>1, Remainder
  <2> HIDE DEF q
  <2>3. carry[0].lo = q /\ carry[0].hi = q /\ carry[0].status = "carry"
    BY <1>3 DEF q
  <2>4. Reached(ax, bx, delta, 0, q)
    <3> DEFINE c == [j \in 1 .. n |-> 0]
    <3>1. c \in [1 .. Len(ax) -> Int]
      OBVIOUS
    <3> HIDE DEF c
    <3>2. Sum(Moves(ax, c), 0) = 0
      <4>1. Moves(ax, c) \in Seq(Int)
        BY <1>1, <3>1, MovesAre
      <4> QED BY <4>1, SumIs
    <3>3. Sum(Moves(ax, c), 0) + q * ax[0 + 1].stride = delta
      BY <1>1, <2>1, <2>2, <3>2
    <3> QED BY <3>1, <3>3 DEF Reached
  <2>5. Open(0)
    <3>1. \A x \in q .. q : x = q
      BY <2>2
    <3> QED BY <2>2, <2>3, <2>4, <3>1
  <2> HIDE DEF Open
  <2> QED BY <2>1, <2>3, <2>5 DEF partial
<1>5. ASSUME NEW k \in 1 .. n - 1, k - 1 \in S PROVE k \in S
  <2>1. k - 1 \in 0 .. n /\ k \in 0 .. n - 1 /\ (k - 1) + 1 = k /\ k \in 1 .. n /\ k # n
          /\ k + 1 \in 1 .. n
    BY <1>1, SMTT(60)
  <2> DEFINE acc == carry[k - 1]
  <2>2. acc \in Carry /\ carry[k] = CarryStep(acc, ax, bx, k)
    BY <1>3, <2>1
  <2>3. /\ acc.status # partial
        /\ acc.status = "carry" => /\ acc.lo <= acc.hi
                                   /\ \A y \in acc.lo .. acc.hi : Reached(ax, bx, delta, k - 1, y)
    BY <1>5
  <2> HIDE DEF acc, Open
  <2>4. CASE acc.status # "carry"
    <3>1. carry[k] = acc
      BY <2>1, <2>2, <2>4, CarryStepIs
    <3> QED BY <2>1, <2>3, <2>4, <3>1
  <2>5. CASE acc.status = "carry"
    <3> DEFINE p == Period(ax, k)
               lo == ceil_div(acc.lo - Upper(ax, k), p)
               hi == floor_div(acc.hi - Lower(bx, k), p)
    <3>1. \/ carry[k].status = too_hard
          \/ carry[k].status = none /\ lo > hi
          \/ carry[k] = [lo |-> lo, hi |-> hi, status |-> "carry"] /\ lo <= hi
      BY <2>1, <2>2, <2>5, CarryStepIs, SMTT(60)
    <3>2. /\ acc.lo \in Int /\ acc.hi \in Int /\ Lower(bx, k) \in Int /\ Upper(ax, k) \in Int
          /\ Lower(bx, k) <= 0 /\ 0 <= Upper(ax, k)
      BY <2>1, <2>2, Bounds DEF Carry
    <3>3. p \in Nat \ {0} /\ ax[k + 1].stride = p * ax[k].stride
      BY Periods
    <3> HIDE DEF p
    <3>4. lo \in Int /\ hi \in Int
      <4>1. acc.lo - Upper(ax, k) \in Int /\ acc.hi - Lower(bx, k) \in Int
        BY <3>2, SMTT(60)
      <4> QED BY <3>3, <4>1, Rounding
    <3>5. ASSUME NEW x \in lo .. hi PROVE Reached(ax, bx, delta, k, x)
      <4>1. x \in Int /\ lo <= x /\ x <= hi
        BY <3>4
      <4>2. acc.lo - Upper(ax, k) <= p * x /\ p * x <= acc.hi - Lower(bx, k)
        <5>1. acc.lo - Upper(ax, k) \in Int /\ acc.hi - Lower(bx, k) \in Int
          BY <3>2, SMTT(60)
        <5> QED BY <3>3, <4>1, <5>1, Rounding
      <4>3. PICK w \in Int : w = p * x
        BY <3>3, <4>1
      <4>4. PICK y \in acc.lo .. acc.hi : Lower(bx, k) <= y - w /\ y - w <= Upper(ax, k)
        <5>1. CASE acc.lo <= w + Lower(bx, k)
          <6>1. w + Lower(bx, k) \in acc.lo .. acc.hi
            BY <3>2, <4>2, <4>3, <5>1, SMTT(60)
          <6>2. (w + Lower(bx, k)) - w = Lower(bx, k)
            BY <3>2
          <6>3. Lower(bx, k) <= (w + Lower(bx, k)) - w /\ (w + Lower(bx, k)) - w <= Upper(ax, k)
            BY <3>2, <6>2, SMTT(60)
          <6> QED BY <6>1, <6>3
        <5>2. CASE ~(acc.lo <= w + Lower(bx, k))
          <6>1. acc.lo \in acc.lo .. acc.hi /\ Lower(bx, k) <= acc.lo - w
                  /\ acc.lo - w <= Upper(ax, k)
            BY <2>3, <2>5, <3>2, <4>2, <4>3, <5>2, SMTT(60)
          <6> QED BY <6>1
        <5> QED BY <5>1, <5>2
      <4>5. y \in Int
        BY <3>2
      <4>6. PICK c \in [1 .. n -> Int] :
              /\ \A j \in 1 .. k - 1 : Lower(bx, j) <= c[j] /\ c[j] <= Upper(ax, j)
              /\ Sum(Moves(ax, c), k - 1) + y * ax[k].stride = delta
        BY <2>1, <2>3, <2>5 DEF Reached
      <4>7. PICK e \in [1 .. n -> Int] : MovesOn(ax, c, k, y - w, e)
        <5>1. y - w \in Int
          BY <4>5
        <5> QED BY <2>1, <5>1, OneMoreMove
      <4>8. /\ e[k] = y - w /\ \A j \in 1 .. k - 1 : e[j] = c[j]
            /\ Sum(Moves(ax, e), k) = Sum(Moves(ax, c), k - 1) + (y - w) * ax[k].stride
        BY <4>7 DEF MovesOn
      <4>9. ASSUME NEW j \in 1 .. k PROVE Lower(bx, j) <= e[j] /\ e[j] <= Upper(ax, j)
        <5>1. j = k \/ j \in 1 .. k - 1
          BY <2>1, SMTT(60)
        <5> QED BY <4>4, <4>6, <4>8, <5>1
      <4>10. Sum(Moves(ax, e), k) + x * ax[k + 1].stride = delta
        <5>1. PICK s \in Nat : s = ax[k].stride
          BY <1>1, <2>1
        <5>2. x * (p * s) = w * s /\ (y - w) * s = y * s - w * s /\ y * s \in Int /\ w * s \in Int
          <6>1. \A a1, b1 \in Int, s1 \in Nat : (a1 - b1) * s1 = a1 * s1 - b1 * s1 /\ a1 * s1 \in Int
            OBVIOUS
          <6>2. \A a1 \in Int, b1, s1 \in Nat : a1 * (b1 * s1) = (b1 * a1) * s1
            OBVIOUS
          <6> QED BY <3>3, <4>1, <4>3, <4>5, <6>1, <6>2
        <5>3. Sum(Moves(ax, c), k - 1) \in Int
          <6>1. Moves(ax, c) \in Seq(Int) /\ Len(Moves(ax, c)) = n
            BY <1>1, MovesAre
          <6> QED BY <2>1, <6>1, SumIs
        <5>4. PICK u \in Int : u = Sum(Moves(ax, c), k - 1)
          BY <5>3
        <5>5. PICK f \in Int, g \in Int : f = y * s /\ g = w * s
          BY <5>2
        <5>6. u + f = delta /\ Sum(Moves(ax, e), k) = u + (f - g) /\ x * ax[k + 1].stride = g
          BY <3>3, <4>6, <4>8, <5>1, <5>2, <5>4, <5>5
        <5>7. (u + (f - g)) + g = delta
          BY <5>6
        <5> QED BY <5>6, <5>7
      <4> QED BY <4>9, <4>10 DEF Reached
    <3> HIDE DEF lo, hi
    <3>6. CASE carry[k].status = too_hard \/ carry[k].status = none
      BY <2>1, <3>6 DEF too_hard, none, partial
    <3>7. CASE carry[k] = [lo |-> lo, hi |-> hi, status |-> "carry"] /\ lo <= hi
      <4>1. carry[k].lo = lo /\ carry[k].hi = hi /\ carry[k].status = "carry"
        BY <3>7
      <4>2. Open(k)
        BY <3>5, <3>7, <4>1 DEF Open
      <4> QED BY <2>1, <4>1, <4>2 DEF partial
    <3> QED BY <3>1, <3>6, <3>7
  <2> QED BY <2>4, <2>5
<1>6. n - 1 \in S
  <2>1. n - 1 \in Nat /\ n - 1 \in 0 .. n - 1
    BY <1>1
  <2>2. 0 .. n - 1 \subseteq S
    <3> DEFINE m == n - 1
    <3>1. m \in Nat
      BY <2>1
    <3> HIDE DEF S, m
    <3>2. 0 .. m \subseteq S
      BY <1>4, <1>5, <3>1, Induction DEF m
    <3> QED BY <3>2 DEF m
  <2> HIDE DEF S
  <2> QED BY <2>1, <2>2
<1> DEFINE acc == carry[n - 1]
<1>7. acc \in Carry /\ carry[n] = CarryStep(acc, ax, bx, n) /\ n \in 1 .. n /\ (n - 1) + 1 = n
  <2>1. n - 1 \in 0 .. n /\ n \in 1 .. n /\ (n - 1) + 1 = n
    BY <1>1
  <2> QED BY <1>3, <2>1
<1>8. acc.status = "carry" /\ Open(n - 1)
  <2>1. acc.status # partial /\ (acc.status = "carry" => Open(n - 1))
    BY <1>6
  <2> HIDE DEF acc, Open
  <2>2. acc.status # "carry" => carry[n] = acc
    BY <1>7, CarryStepIs
  <2> QED BY <1>2, <2>1, <2>2
<1>9. acc.lo <= acc.hi /\ \A x \in acc.lo .. acc.hi : Reached(ax, bx, delta, n - 1, x)
  BY <1>8
<1> HIDE DEF acc, Open, S
<1>10. acc.hi >= Lower(bx, n) /\ acc.lo <= Upper(ax, n)
  <2>1. carry[n].status = IF acc.hi >= Lower(bx, n) /\ acc.lo <= Upper(ax, n) THEN partial ELSE none
    BY <1>7, <1>8, CarryStepIs
  <2> QED BY <1>2, <2>1 DEF partial, none
<1>11. PICK x \in acc.lo .. acc.hi : Lower(bx, n) <= x /\ x <= Upper(ax, n)
  <2>1. /\ acc.lo \in Int /\ acc.hi \in Int /\ Lower(bx, n) \in Int /\ Upper(ax, n) \in Int
        /\ Lower(bx, n) <= Upper(ax, n)
    BY <1>7, Bounds DEF Carry
  <2>2. CASE acc.lo <= Lower(bx, n)
    <3>1. Lower(bx, n) \in acc.lo .. acc.hi
      BY <1>10, <2>1, <2>2
    <3> QED BY <2>1, <3>1
  <2>3. CASE ~(acc.lo <= Lower(bx, n))
    <3>1. acc.lo \in acc.lo .. acc.hi /\ Lower(bx, n) <= acc.lo
      BY <1>9, <2>1, <2>3
    <3> QED BY <1>10, <3>1
  <2> QED BY <2>2, <2>3
<1>12. x \in Int
  BY <1>7 DEF Carry
<1>13. PICK c \in [1 .. n -> Int] :
         /\ \A j \in 1 .. n - 1 : Lower(bx, j) <= c[j] /\ c[j] <= Upper(ax, j)
         /\ Sum(Moves(ax, c), n - 1) + x * ax[n].stride = delta
  BY <1>7, <1>9 DEF Reached
<1>14. PICK e \in [1 .. n -> Int] : MovesOn(ax, c, n, x, e)
  BY <1>7, <1>12, OneMoreMove
<1>15. /\ e[n] = x /\ \A j \in 1 .. n - 1 : e[j] = c[j]
       /\ Sum(Moves(ax, e), n) = Sum(Moves(ax, c), n - 1) + x * ax[n].stride
  BY <1>14 DEF MovesOn
<1>16. ASSUME NEW j \in 1 .. n PROVE Lower(bx, j) <= e[j] /\ e[j] <= Upper(ax, j)
  <2>1. j = n \/ j \in 1 .. n - 1
    BY <1>1
  <2> QED BY <1>11, <1>13, <1>15, <2>1
<1>17. InBox(ax, bx, e)
  BY <1>16 DEF InBox
<1> QED BY <1>13, <1>15, <1>17

----------------------------------------------------------------------------
(* The greatest common divisor.                                            *)
(* If it is not 0 it divides every stride.                                 *)
LEMMA GcdDivides ==
  ASSUME NEW T \in SUBSET Nat, GcdOf(T) # 0
  PROVE  GcdOf(T) \in Nat \ {0} /\ \A s \in T : s % GcdOf(T) = 0
<1> DEFINE least == Min(T \ {0})
           common(g) == \A s \in T : s % g = 0
           G == {g \in 1 .. least : common(g)}
<1>1. ~(T \subseteq {0}) /\ GcdOf(T) = Max(G)
  BY DEF GcdOf
<1>2. least \in Nat \ {0}
  <2>1. T \ {0} \in SUBSET Nat /\ T \ {0} # {}
    BY <1>1
  <2>2. \E x \in T \ {0} : \A y \in T \ {0} : x <= y
    <3> DEFINE P == T \ {0}
    <3>1. P \in SUBSET Nat /\ P # {}
      BY <2>1
    <3> HIDE DEF P
    <3>2. \E x \in P : \A y \in P : x <= y
      BY <3>1, Minimum
    <3> QED BY <3>2 DEF P
  <2> QED BY <2>1, <2>2 DEF Min
<1> HIDE DEF least
<1>3. G \in SUBSET (Nat \ {0}) /\ 1 \in G /\ \A g \in G : g <= least
  <2>1. \A s \in Nat : s % 1 = 0
    OBVIOUS
  <2>2. 1 \in 1 .. least
    BY <1>2
  <2> QED BY <1>2, <2>1, <2>2
<1>4. \E x \in G : \A y \in G : x >= y
  <2> DEFINE back == {k \in Nat : least - k \in G}
  <2>1. back \in SUBSET Nat /\ least - 1 \in back
    <3>1. least - 1 \in Nat /\ least - (least - 1) = 1
      BY <1>2
    <3> HIDE DEF G
    <3> QED BY <1>3, <3>1
  <2>2. PICK k \in back : \A m \in back : k <= m
    <3> HIDE DEF back
    <3> QED BY <2>1, Minimum
  <2>3. least - k \in G /\ k \in Nat
    OBVIOUS
  <2>4. ASSUME NEW y \in G PROVE least - k >= y
    <3>1. least - y \in Nat /\ least - (least - y) = y
      BY <1>2, <1>3
    <3>2. least - y \in back
      <4> HIDE DEF G
      <4> QED BY <3>1
    <3>3. k <= least - y
      BY <2>2, <3>2
    <3>4. y \in Int /\ least \in Int
      BY <1>2, <1>3
    <3> QED BY <2>3, <3>3, <3>4
  <2> HIDE DEF G
  <2> QED BY <2>3, <2>4
<1>5. Max(G) \in G
  <2> HIDE DEF G
  <2> QED BY <1>4 DEF Max
<1> QED BY <1>1, <1>3, <1>5

(* The offsets of elements are multiples of a divisor of the strides.      *)
LEMMA OffsetMultiple ==
  ASSUME NEW l, Strided(l), numel(l) > 0, NEW i \in Nat, NEW g \in Nat \ {0},
         \A s \in StridesOf(overlap_axes(l)) : s % g = 0
  PROVE  Multiple(ElementOffset(l, i), g)
<1> DEFINE ax == overlap_axes(l)
           n == Len(ax)
<1>1. n \in Nat /\ \A k \in 1 .. n : ax[k].stride \in Nat
  BY AxesOf
<1>2. PICK c \in [1 .. n -> Nat] : ElementOffset(l, i) = Sum(Moves(ax, c), n)
  BY ElementOnAxes
<1>3. c \in [1 .. n -> Int]
  OBVIOUS
<1>4. /\ Moves(ax, c) \in Seq(Int) /\ Len(Moves(ax, c)) = n
      /\ \A k \in 1 .. n : Moves(ax, c)[k] = c[k] * ax[k].stride
  <2> HIDE DEF ax
  <2> QED BY <1>1, <1>3, MovesAre
<1>5. ASSUME NEW k \in 1 .. n PROVE Multiple(Moves(ax, c)[k], g)
  <2>1. ax[k].stride \in StridesOf(ax)
    BY DEF StridesOf
  <2>2. ax[k].stride % g = 0 /\ ax[k].stride \in Int
    BY <1>1, <2>1
  <2>3. PICK m \in Int : ax[k].stride = m * g
    <3>1. Multiple(ax[k].stride, g)
      <4> HIDE DEF ax
      <4> QED BY <2>2, Remainder
    <3> QED BY <3>1 DEF Multiple
  <2>4. PICK x \in Int : x = c[k]
    BY <1>3
  <2>5. x * (m * g) = (x * m) * g /\ x * m \in Int
    OBVIOUS
  <2>6. Moves(ax, c)[k] = (x * m) * g
    <3> HIDE DEF ax
    <3> QED BY <1>4, <2>3, <2>4, <2>5
  <2> QED BY <2>5, <2>6 DEF Multiple
<1>6. Multiple(Sum(Moves(ax, c), n), g)
  <2>1. n \in 0 .. n /\ g \in Int
    BY <1>1
  <2> HIDE DEF ax
  <2> QED BY <1>4, <1>5, <2>1, SumMultiple
<1> QED BY <1>2, <1>6

----------------------------------------------------------------------------
(* Bytes.                                                                  *)
\* What check_view_geometry makes sure of.
IsView(l) ==
  Strided(l) /\ l.data \in Nat /\ l.bytes \in Nat \ {0} /\ (l.data = nullptr => numel(l) = 0)

\* Byte x is byte u of element i.
ByteOf(l, i, u, x) ==
  i \in 0 .. numel(l) - 1 /\ u \in 0 .. l.bytes - 1
    /\ x = l.data + ElementOffset(l, i) * l.bytes + u

(* The bytes a view touches are the bytes of its elements.                 *)
LEMMA TouchesIs ==
  ASSUME NEW l, IsView(l), NEW x
  PROVE  x \in Touches(l) <=> \E i, u : ByteOf(l, i, u, x)
<1>1. l.data \in Nat /\ l.bytes \in Nat \ {0} /\ numel(l) \in Nat /\ Strided(l)
  BY PackedShape DEF IsView, Strided, numel
<1>2. ASSUME NEW i \in 0 .. numel(l) - 1 PROVE ElementOffset(l, i) \in Nat
  BY <1>1, ElementInExtent
<1>3. ASSUME NEW o \in Nat
      PROVE  x \in l.data + o * l.bytes .. l.data + (o + 1) * l.bytes - 1
               <=> \E u \in 0 .. l.bytes - 1 : x = l.data + o * l.bytes + u
  <2>1. PICK d \in Nat, size \in Nat \ {0}, w \in Nat : d = l.data /\ size = l.bytes
                                                          /\ w = o * l.bytes
    <3>1. o * l.bytes \in Nat
      BY <1>1
    <3> QED BY <1>1, <3>1
  <2>2. (o + 1) * size = o * size + size
    OBVIOUS
  <2>3. d + (o + 1) * size - 1 = d + w + size - 1
    BY <2>1, <2>2
  <2>4. ASSUME x \in d + w .. d + w + size - 1 PROVE \E u \in 0 .. size - 1 : x = d + w + u
    <3>1. x \in Int /\ x - (d + w) \in 0 .. size - 1 /\ x = d + w + (x - (d + w))
      BY <2>4
    <3> QED BY <3>1
  <2>5. ASSUME NEW u \in 0 .. size - 1, x = d + w + u PROVE x \in d + w .. d + w + size - 1
    BY <2>5
  <2> QED BY <2>1, <2>3, <2>4, <2>5
<1>4. ASSUME x \in Touches(l) PROVE \E i, u : ByteOf(l, i, u, x)
  <2>1. PICK o \in Offsets(l) : x \in l.data + o * l.bytes .. l.data + (o + 1) * l.bytes - 1
    BY <1>4 DEF Touches
  <2>2. PICK i \in 0 .. numel(l) - 1 : o = ElementOffset(l, i)
    BY DEF Offsets
  <2>3. PICK u \in 0 .. l.bytes - 1 : x = l.data + o * l.bytes + u
    BY <1>2, <1>3, <2>1, <2>2
  <2> QED BY <2>2, <2>3 DEF ByteOf
<1>5. ASSUME NEW i, NEW u, ByteOf(l, i, u, x) PROVE x \in Touches(l)
  <2> DEFINE o == ElementOffset(l, i)
  <2>1. i \in 0 .. numel(l) - 1 /\ u \in 0 .. l.bytes - 1 /\ x = l.data + o * l.bytes + u
    BY <1>5 DEF ByteOf
  <2>2. o \in Offsets(l) /\ o \in Nat
    BY <1>2, <2>1 DEF Offsets
  <2> HIDE DEF o
  <2>3. x \in l.data + o * l.bytes .. l.data + (o + 1) * l.bytes - 1
    BY <1>3, <2>1, <2>2
  <2> QED BY <2>2, <2>3 DEF Touches
<1> QED BY <1>4, <1>5

(* Two elements of one size, at a distance of whole elements, share a byte *)
(* only if they share all.                                                 *)
LEMMA SameByte ==
  ASSUME NEW size \in Nat \ {0}, NEW o \in Nat, NEW p \in Nat,
         NEW u \in 0 .. size - 1, NEW v \in 0 .. size - 1,
         NEW distance \in Int, distance % size = 0, o * size + u = distance + p * size + v
  PROVE  o - p = distance \div size
<1>1. PICK q \in Int : q = distance \div size /\ distance = q * size
  BY Remainder
<1>2. PICK z \in Int : z = o - p - q
  OBVIOUS
<1>3. z * size = o * size - p * size - q * size /\ o * size \in Int /\ p * size \in Int
        /\ q * size \in Int
  <2>1. \A x, y, w, s \in Int : /\ (x - y - w) * s = x * s - y * s - w * s
                                /\ x * s \in Int /\ y * s \in Int /\ w * s \in Int
    OBVIOUS
  <2>2. o \in Int /\ p \in Int /\ q \in Int /\ size \in Int
    OBVIOUS
  <2> QED BY <1>2, <2>1, <2>2
<1>4. z * size = v - u
  <2>1. PICK x \in Int, y \in Int, w \in Int : x = o * size /\ y = p * size /\ w = q * size
    BY <1>3
  <2>2. x + u = w + y + v /\ z * size = x - y - w
    BY <1>1, <1>3, <2>1
  <2> QED BY <2>2
<1>5. ASSUME z >= 1 PROVE FALSE
  <2>1. z - 1 \in Nat /\ z = 1 + (z - 1)
    BY <1>5
  <2>2. PICK k \in Nat : z = 1 + k
    BY <2>1
  <2>3. z * size = size + k * size /\ k * size \in Nat
    BY <2>2
  <2> QED BY <1>4, <2>3
<1>6. ASSUME z <= -1 PROVE FALSE
  <2>1. -z - 1 \in Nat /\ z = -1 - (-z - 1)
    BY <1>6
  <2>2. PICK k \in Nat : z = -1 - k
    BY <2>1
  <2>3. z * size = -size - k * size /\ k * size \in Nat
    BY <2>2
  <2> QED BY <1>4, <2>3
<1>7. z = 0
  BY <1>5, <1>6
<1> QED BY <1>1, <1>2, <1>7

(* Views with a byte in common are not empty, and their ranges meet.       *)
LEMMA RangesMeet ==
  ASSUME NEW dst, NEW src, IsView(dst), IsView(src), NEW x, x \in Touches(dst) \cap Touches(src)
  PROVE  /\ numel(dst) > 0 /\ numel(src) > 0 /\ dst.data # nullptr /\ src.data # nullptr
         /\ ~DisjointRanges(dst, src)
<1>1. PICK i, u : ByteOf(dst, i, u, x)
  BY TouchesIs
<1>2. PICK j, v : ByteOf(src, j, v, x)
  BY TouchesIs
<1>3. ASSUME NEW l \in {dst, src}, NEW k, NEW w, ByteOf(l, k, w, x)
      PROVE  /\ numel(l) > 0 /\ l.data # nullptr /\ x \in Int
             /\ l.data <= x /\ x < l.data + (overlap_extent(l) + 1) * l.bytes
             /\ l.data + (overlap_extent(l) + 1) * l.bytes \in Int
  <2>1. /\ l.data \in Nat /\ l.bytes \in Nat \ {0} /\ numel(l) \in Nat /\ Strided(l)
        /\ l.data = nullptr => numel(l) = 0
    BY PackedShape DEF IsView, Strided, numel
  <2>2. /\ k \in 0 .. numel(l) - 1 /\ w \in 0 .. l.bytes - 1
        /\ x = l.data + ElementOffset(l, k) * l.bytes + w
    BY <1>3 DEF ByteOf
  <2>3. numel(l) > 0 /\ l.data # nullptr /\ k \in Nat
    BY <2>1, <2>2
  <2>4. /\ ElementOffset(l, k) \in Nat /\ overlap_extent(l) \in Nat
        /\ ElementOffset(l, k) <= overlap_extent(l)
    BY <2>1, <2>3, ElementInExtent
  <2>5. PICK o \in Nat, e \in Nat, d \in Nat, c \in Nat \ {0} :
          o = ElementOffset(l, k) /\ e = overlap_extent(l) /\ d = l.data /\ c = l.bytes
    BY <2>1, <2>4
  <2>6. o * c \in Nat /\ e * c \in Nat /\ o * c <= e * c
    BY <2>4, <2>5, Products
  <2>7. (e + 1) * c = e * c + c
    OBVIOUS
  <2>8. x = d + o * c + w /\ w \in 0 .. c - 1
    BY <2>2, <2>5
  <2>9. x \in Int /\ d <= x /\ x < d + (e + 1) * c /\ d + (e + 1) * c \in Int
    BY <2>6, <2>7, <2>8
  <2> QED BY <2>3, <2>5, <2>9
<1>4. ~DisjointRanges(dst, src)
  <2>1. dst.data <= x /\ x < src.data + (overlap_extent(src) + 1) * src.bytes /\ x \in Int
        /\ src.data <= x /\ x < dst.data + (overlap_extent(dst) + 1) * dst.bytes
    BY <1>1, <1>2, <1>3
  <2>2. dst.data + (overlap_extent(dst) + 1) * dst.bytes \in Int
          /\ src.data + (overlap_extent(src) + 1) * src.bytes \in Int
        /\ dst.data \in Int /\ src.data \in Int
    BY <1>1, <1>2, <1>3 DEF IsView
  <2>3. PICK f \in Int, g \in Int :
          f = dst.data + (overlap_extent(dst) + 1) * dst.bytes
            /\ g = src.data + (overlap_extent(src) + 1) * src.bytes
    BY <2>2
  <2>4. ~(f <= src.data) /\ ~(g <= dst.data)
    BY <2>1, <2>2, <2>3
  <2> QED BY <2>3, <2>4 DEF DisjointRanges
<1> QED BY <1>1, <1>2, <1>3, <1>4

----------------------------------------------------------------------------
(* The cascade of classify_overlap.                                        *)
\* The checks before the comparison of distances and axes, and that one.
Distance(dst, src) == src.data - dst.data
Delta(dst, src) == Distance(dst, src) \div dst.bytes
Unrelated(dst, src) ==
  \/ numel(dst) = 0 \/ numel(src) = 0 \/ dst.data = nullptr \/ src.data = nullptr
  \/ dst.device # src.device
Compared(dst, src) ==
  /\ ~Unrelated(dst, src) /\ ~DisjointRanges(dst, src) /\ dst.type = src.type
       /\ ~SameMapping(dst, src)
  /\ is_non_overlapping(dst) /\ is_non_overlapping(src) /\ ~(Dense(dst) /\ Dense(src))
  /\ Distance(dst, src) % dst.bytes = 0
GcdRules(dst, src) ==
  LET gcd == GcdOf(StridesOf(overlap_axes(dst)) \cup StridesOf(overlap_axes(src)))
  IN  gcd # 0 /\ Delta(dst, src) % gcd # 0
Tested(dst, src) ==
  /\ Compared(dst, src) /\ Nested(overlap_axes(dst), overlap_axes(src))
  /\ Delta(dst, src) % overlap_axes(dst)[1].stride = 0

(* Why classify_overlap says what it says.                                 *)
LEMMA Verdicts ==
  ASSUME NEW dst, NEW src, NEW verdict, verdict = classify_overlap(dst, src)
  PROVE  \/ verdict = none /\ (Unrelated(dst, src) \/ DisjointRanges(dst, src))
         \/ verdict = too_hard
         \/ verdict = full /\ dst.type = src.type /\ ~Unrelated(dst, src) /\ SameMapping(dst, src)
         \/ /\ verdict = partial /\ ~Unrelated(dst, src) /\ ~DisjointRanges(dst, src)
            /\ dst.type = src.type
            /\ is_non_overlapping(dst) /\ is_non_overlapping(src) /\ Dense(dst) /\ Dense(src)
         \/ verdict = none /\ Compared(dst, src) /\ GcdRules(dst, src)
         \/ /\ verdict = none /\ Compared(dst, src) /\ Nested(overlap_axes(dst), overlap_axes(src))
            /\ Delta(dst, src) % overlap_axes(dst)[1].stride # 0
         \/ /\ Tested(dst, src)
            /\ verdict = lattice_test(overlap_axes(dst), overlap_axes(src), Delta(dst, src))
<1> DEFINE gcd == GcdOf(StridesOf(overlap_axes(dst)) \cup StridesOf(overlap_axes(src)))
           far == Delta(dst, src) \notin -Int64Max .. Int64Max
           lattice == lattice_test(overlap_axes(dst), overlap_axes(src), Delta(dst, src))
<1>1. verdict =
        IF Unrelated(dst, src) THEN none
        ELSE IF DisjointRanges(dst, src) THEN none
        ELSE IF dst.type # src.type THEN too_hard
        ELSE IF SameMapping(dst, src) THEN full
        ELSE IF ~is_non_overlapping(dst) \/ ~is_non_overlapping(src) THEN too_hard
        ELSE IF Dense(dst) /\ Dense(src) THEN partial
        ELSE IF Distance(dst, src) % dst.bytes # 0 \/ far THEN too_hard
        ELSE IF GcdRules(dst, src) THEN none
        ELSE IF ~Nested(overlap_axes(dst), overlap_axes(src)) THEN too_hard
        ELSE IF Delta(dst, src) % overlap_axes(dst)[1].stride # 0 THEN none
        ELSE lattice
  BY DEF classify_overlap, Unrelated, Distance, Delta, GcdRules
<1> HIDE DEF far, lattice
<1>2. CASE Unrelated(dst, src) \/ DisjointRanges(dst, src)
  BY <1>1, <1>2
<1>3. CASE ~Unrelated(dst, src) /\ ~DisjointRanges(dst, src)
             /\ (dst.type # src.type \/ SameMapping(dst, src))
  BY <1>1, <1>3
<1>4. CASE /\ ~Unrelated(dst, src) /\ ~DisjointRanges(dst, src) /\ dst.type = src.type
                /\ ~SameMapping(dst, src)
           /\ ~is_non_overlapping(dst) \/ ~is_non_overlapping(src) \/ (Dense(dst) /\ Dense(src))
  BY <1>1, <1>4
<1>5. CASE Compared(dst, src)
  <2>1. verdict =
          IF far THEN too_hard
          ELSE IF GcdRules(dst, src) THEN none
          ELSE IF ~Nested(overlap_axes(dst), overlap_axes(src)) THEN too_hard
          ELSE IF Delta(dst, src) % overlap_axes(dst)[1].stride # 0 THEN none
          ELSE lattice
    BY <1>1, <1>5 DEF Compared
  <2> QED BY <1>5, <2>1 DEF Tested, lattice
<1>6. CASE ~Compared(dst, src)
  <2>1. CASE Distance(dst, src) % dst.bytes # 0 /\ ~Unrelated(dst, src) /\ ~DisjointRanges(dst, src)
             /\ dst.type = src.type /\ ~SameMapping(dst, src) /\ is_non_overlapping(dst)
             /\ is_non_overlapping(src) /\ ~(Dense(dst) /\ Dense(src))
    BY <1>1, <2>1
  <2> QED BY <1>2, <1>3, <1>4, <1>6, <2>1 DEF Compared
<1> QED BY <1>5, <1>6

(* The axes that reach the lattice test make a grid.                       *)
LEMMA NestedGrid ==
  ASSUME NEW dst, NEW src, IsView(dst), IsView(src), Compared(dst, src),
         Nested(overlap_axes(dst), overlap_axes(src))
  PROVE  Grid(overlap_axes(dst), overlap_axes(src))
<1> DEFINE ax == overlap_axes(dst)
           bx == overlap_axes(src)
<1>1. Strided(dst) /\ Strided(src)
  BY DEF IsView
<1>2. /\ Len(ax) \in Nat \ {0} /\ Len(bx) = Len(ax)
      /\ Len(ax) = Cardinality(Axes(dst)) /\ Len(bx) = Cardinality(Axes(src))
  <2>1. Len(ax) \in Nat /\ Len(ax) = Cardinality(Axes(dst)) /\ Len(bx) = Cardinality(Axes(src))
    BY <1>1, AxesOf
  <2>2. Len(ax) = Len(bx) /\ Len(ax) > 0
    BY DEF Nested
  <2> QED BY <2>1, <2>2
<1>3. ASSUME NEW k \in 1 .. Len(ax)
      PROVE  /\ ax[k].size \in Nat \ {0} /\ bx[k].size \in Nat \ {0}
             /\ ax[k].stride \in Nat \ {0}
             /\ k > 1 => ax[k].stride % ax[k - 1].stride = 0
  <2>1. /\ Axis(dst, k) \in 1 .. rank(dst) /\ Axis(dst, k) \in Axes(dst)
        /\ ax[k].size = dst.sizes[Axis(dst, k)] /\ ax[k].stride = dst.strides[Axis(dst, k)]
        /\ dst.sizes[Axis(dst, k)] \in Nat \ {0, 1} /\ dst.strides[Axis(dst, k)] \in Nat
    BY <1>1, <1>2, AxesOf
  <2>2. bx[k].size = src.sizes[Axis(src, k)] /\ src.sizes[Axis(src, k)] \in Nat \ {0, 1}
    BY <1>1, <1>2, AxesOf
  <2>3. dst.strides[Axis(dst, k)] > 0
    <3>1. numel(dst) # 0 /\ is_non_overlapping(dst)
      BY DEF Compared, Unrelated
    <3> QED BY <2>1, <3>1 DEF is_non_overlapping, Axes
  <2>4. k > 1 => ax[k].stride % ax[k - 1].stride = 0
    BY DEF Nested
  <2> QED BY <2>1, <2>2, <2>3, <2>4
<1> QED BY <1>2, <1>3 DEF Grid

(* The carry alone never says full.                                        *)
LEMMA LatticeVerdict ==
  ASSUME NEW dst, NEW src, IsView(dst), IsView(src), Tested(dst, src)
  PROVE  /\ Grid(overlap_axes(dst), overlap_axes(src)) /\ Delta(dst, src) \in Int
         /\ lattice_test(overlap_axes(dst), overlap_axes(src), Delta(dst, src)) # full
<1>1. Grid(overlap_axes(dst), overlap_axes(src))
  BY NestedGrid DEF Tested
<1>2. Delta(dst, src) \in Int
  <2>1. Distance(dst, src) \in Int /\ dst.bytes \in Nat \ {0}
    BY DEF IsView, Distance
  <2> QED BY <2>1, Remainder DEF Delta
<1>3. PICK carry : /\ Carries(overlap_axes(dst), overlap_axes(src), Delta(dst, src), carry)
                   /\ lattice_test(overlap_axes(dst), overlap_axes(src), Delta(dst, src))
                        = carry[Len(overlap_axes(dst))].status
  BY <1>1, <1>2, LatticeIs
<1>4. carry[Len(overlap_axes(dst))] \in Carry
  <2>1. Len(overlap_axes(dst)) \in 0 .. Len(overlap_axes(dst))
    BY <1>1 DEF Grid
  <2> QED BY <1>3, <2>1 DEF Carries
<1> QED BY <1>1, <1>2, <1>3, <1>4 DEF Carry, none, partial, too_hard, full

(* Elements of comparable views share a byte just when their offsets       *)
(* differ by the distance.                                                 *)
LEMMA SharedIsDistance ==
  ASSUME NEW dst, NEW src, IsView(dst), IsView(src), Compared(dst, src), dst.bytes = src.bytes
  PROVE  (Touches(dst) \cap Touches(src) # {}) <=>
           \E i \in 0 .. numel(dst) - 1, j \in 0 .. numel(src) - 1 :
             ElementOffset(dst, i) - ElementOffset(src, j) = Delta(dst, src)
<1>1. /\ Strided(dst) /\ Strided(src) /\ numel(dst) \in Nat \ {0} /\ numel(src) \in Nat \ {0}
      /\ dst.data \in Nat /\ src.data \in Nat /\ dst.bytes \in Nat \ {0} /\ src.bytes = dst.bytes
  <2>1. numel(dst) \in Nat /\ numel(src) \in Nat
    BY PackedShape DEF IsView, Strided, numel
  <2> QED BY <2>1 DEF IsView, Compared, Unrelated
<1>2. Distance(dst, src) \in Int /\ Distance(dst, src) = src.data - dst.data
        /\ Distance(dst, src) % dst.bytes = 0
  BY <1>1 DEF Distance, Compared
<1>3. ASSUME NEW i \in 0 .. numel(dst) - 1, NEW j \in 0 .. numel(src) - 1
      PROVE  ElementOffset(dst, i) \in Nat /\ ElementOffset(src, j) \in Nat
  <2>1. i \in Nat /\ j \in Nat /\ numel(dst) > 0 /\ numel(src) > 0
    BY <1>1
  <2> QED BY <1>1, <2>1, ElementInExtent
<1>4. ASSUME NEW x \in Touches(dst) \cap Touches(src)
      PROVE  \E i \in 0 .. numel(dst) - 1, j \in 0 .. numel(src) - 1 :
               ElementOffset(dst, i) - ElementOffset(src, j) = Delta(dst, src)
  <2>1. PICK i, u : ByteOf(dst, i, u, x)
    BY TouchesIs
  <2>2. PICK j, v : ByteOf(src, j, v, x)
    BY TouchesIs
  <2>3. /\ i \in 0 .. numel(dst) - 1 /\ u \in 0 .. dst.bytes - 1
             /\ x = dst.data + ElementOffset(dst, i) * dst.bytes + u
        /\ j \in 0 .. numel(src) - 1 /\ v \in 0 .. dst.bytes - 1
             /\ x = src.data + ElementOffset(src, j) * dst.bytes + v
    BY <1>1, <2>1, <2>2 DEF ByteOf
  <2>4. PICK o \in Nat, p \in Nat, c \in Nat \ {0} :
          o = ElementOffset(dst, i) /\ p = ElementOffset(src, j) /\ c = dst.bytes
    BY <1>1, <1>3, <2>3
  <2>5. o * c \in Nat /\ p * c \in Nat
    OBVIOUS
  <2>6. PICK e \in Nat, f \in Nat : e = o * c /\ f = p * c
    BY <2>5
  <2>7. dst.data + e + u = src.data + f + v
    BY <2>3, <2>4, <2>6
  <2>8. o * c + u = Distance(dst, src) + p * c + v
    <3>1. u \in Int /\ v \in Int
      BY <2>3, <2>4
    <3>2. e + u = (src.data - dst.data) + f + v
      BY <1>1, <2>7, <3>1
    <3> QED BY <1>2, <2>6, <3>2
  <2>9. Distance(dst, src) % c = 0 /\ u \in 0 .. c - 1 /\ v \in 0 .. c - 1
    BY <1>2, <2>3, <2>4
  <2>10. o - p = Distance(dst, src) \div c
    BY <1>2, <2>8, <2>9, SameByte
  <2> QED BY <2>3, <2>4, <2>10 DEF Delta
<1>5. ASSUME NEW i \in 0 .. numel(dst) - 1, NEW j \in 0 .. numel(src) - 1,
             ElementOffset(dst, i) - ElementOffset(src, j) = Delta(dst, src)
      PROVE  Touches(dst) \cap Touches(src) # {}
  <2>1. PICK o \in Nat, p \in Nat, c \in Nat \ {0} :
          o = ElementOffset(dst, i) /\ p = ElementOffset(src, j) /\ c = dst.bytes
    BY <1>1, <1>3
  <2>2. PICK q \in Int : q = Delta(dst, src) /\ Distance(dst, src) = q * c
    BY <1>2, <2>1, Remainder, ZenonT(120) DEF Delta
  <2>3. o = p + q
    BY <1>5, <2>1, <2>2
  <2>4. o * c = p * c + q * c /\ p * c \in Int /\ q * c \in Int
    BY <2>3
  <2> DEFINE x == dst.data + o * c + 0
  <2>5. x = src.data + p * c + 0
    <3>1. PICK e \in Int, f \in Int : e = p * c /\ f = q * c
      BY <2>4
    <3>2. src.data - dst.data = f /\ o * c = e + f
      BY <1>2, <2>2, <2>4, <3>1
    <3>3. PICK d \in Int, g \in Int : d = dst.data /\ g = src.data
      BY <1>1
    <3>4. d + (e + f) + 0 = g + e + 0
      BY <3>2, <3>3
    <3> QED BY <3>1, <3>2, <3>3, <3>4
  <2>6. 0 \in 0 .. c - 1
    OBVIOUS
  <2>7. ByteOf(dst, i, 0, x) /\ ByteOf(src, j, 0, x)
    <3>1. x = dst.data + ElementOffset(dst, i) * dst.bytes + 0
            /\ x = src.data + ElementOffset(src, j) * src.bytes + 0
      BY <1>1, <2>1, <2>5
    <3>2. 0 \in 0 .. dst.bytes - 1 /\ 0 \in 0 .. src.bytes - 1
      BY <1>1, <2>1, <2>6
    <3> HIDE DEF x
    <3> QED BY <3>1, <3>2 DEF ByteOf
  <2> HIDE DEF x
  <2> QED BY <2>7, TouchesIs
<1> QED BY <1>4, <1>5

(* Nested views share an element just when moves within the bounds of the  *)
(* carry add up to the distance.                                           *)
LEMMA MovesOfViews ==
  ASSUME NEW dst, NEW src, IsView(dst), IsView(src), Compared(dst, src),
         Nested(overlap_axes(dst), overlap_axes(src)),
         NEW delta \in Int
  PROVE  (\E i \in 0 .. numel(dst) - 1, j \in 0 .. numel(src) - 1 :
            ElementOffset(dst, i) - ElementOffset(src, j) = delta)
         <=> \E c : /\ InBox(overlap_axes(dst), overlap_axes(src), c)
                    /\ Sum(Moves(overlap_axes(dst), c), Len(overlap_axes(dst))) = delta
<1> DEFINE ax == overlap_axes(dst)
           bx == overlap_axes(src)
           n == Len(ax)
<1>1. /\ Strided(dst) /\ Strided(src) /\ numel(dst) \in Nat \ {0} /\ numel(src) \in Nat \ {0}
  <2>1. numel(dst) \in Nat /\ numel(src) \in Nat
    BY PackedShape DEF IsView, Strided, numel
  <2> QED BY <2>1 DEF IsView, Compared, Unrelated
<1>2. Grid(ax, bx)
  BY NestedGrid
<1>3. /\ n \in Nat \ {0} /\ Len(bx) = n
      /\ \A k \in 1 .. n : /\ ax[k].size \in Nat \ {0} /\ bx[k].size \in Nat \ {0}
                           /\ ax[k].stride \in Nat /\ bx[k].stride = ax[k].stride
  BY <1>2 DEF Grid, Nested
<1>4. ASSUME NEW x \in [1 .. n -> Nat], NEW y \in [1 .. n -> Nat],
             NEW c \in [1 .. n -> Int], \A k \in 1 .. n : c[k] = x[k] - y[k]
      PROVE  Sum(Moves(ax, c), n) = Sum(Moves(ax, x), n) - Sum(Moves(bx, y), n)
  <2>1. /\ x \in [1 .. n -> Int] /\ y \in [1 .. Len(bx) -> Int]
        /\ \A k \in 1 .. Len(bx) : bx[k].stride \in Nat /\ Len(bx) \in Nat
    <3> HIDE DEF ax, bx, n
    <3>1. x \in [1 .. n -> Int] /\ y \in [1 .. n -> Int]
      OBVIOUS
    <3>2. \A k \in 1 .. n : bx[k].stride \in Nat
      BY <1>3
    <3> QED BY <1>3, <3>1, <3>2
  <2>2. /\ Moves(ax, x) \in Seq(Int) /\ Len(Moves(ax, x)) = n
        /\ \A k \in 1 .. n : Moves(ax, x)[k] = x[k] * ax[k].stride
        /\ Moves(ax, c) \in Seq(Int) /\ Len(Moves(ax, c)) = n
        /\ \A k \in 1 .. n : Moves(ax, c)[k] = c[k] * ax[k].stride
    <3> HIDE DEF ax
    <3> QED BY <1>3, <2>1, MovesAre
  <2>3. /\ Moves(bx, y) \in Seq(Int) /\ Len(Moves(bx, y)) = n
        /\ \A k \in 1 .. n : Moves(bx, y)[k] = y[k] * ax[k].stride
    <3>1. /\ Moves(bx, y) \in Seq(Int) /\ Len(Moves(bx, y)) = Len(bx)
          /\ \A k \in 1 .. Len(bx) : Moves(bx, y)[k] = y[k] * bx[k].stride
      <4>1. Len(bx) \in Nat
        BY <1>3
      <4> HIDE DEF bx
      <4> QED BY <2>1, <4>1, MovesAre
    <3> HIDE DEF ax, bx
    <3> QED BY <1>3, <3>1
  <2>4. ASSUME NEW k \in 1 .. n PROVE Moves(ax, c)[k] = Moves(ax, x)[k] - Moves(bx, y)[k]
    <3>1. PICK p \in Nat, q \in Nat, s \in Nat : p = x[k] /\ q = y[k] /\ s = ax[k].stride
      BY <1>3
    <3>2. (p - q) * s = p * s - q * s
      OBVIOUS
    <3>3. c[k] = p - q
      BY <1>4, <3>1
    <3> HIDE DEF ax, bx
    <3> QED BY <2>2, <2>3, <3>1, <3>2, <3>3
  <2>5. n \in 0 .. n
    BY <1>3
  <2> DEFINE t == Moves(ax, x)
             u == Moves(bx, y)
             w == Moves(ax, c)
  <2>6. /\ t \in Seq(Int) /\ u \in Seq(Int) /\ w \in Seq(Int)
        /\ Len(t) = n /\ Len(u) = n /\ Len(w) = n /\ \A k \in 1 .. n : w[k] = t[k] - u[k]
    BY <2>2, <2>3, <2>4
  <2> HIDE DEF t, u, w, n
  <2>7. Sum(w, n) = Sum(t, n) - Sum(u, n)
    <3>1. \A k \in 0 .. Len(t) : Sum(w, k) = Sum(t, k) - Sum(u, k)
      <4>1. Len(u) = Len(t) /\ Len(w) = Len(t) /\ \A k \in 1 .. Len(t) : w[k] = t[k] - u[k]
        BY <2>6
      <4> QED BY <2>6, <4>1, SumMinus
    <3> QED BY <2>5, <2>6, <3>1
  <2> QED BY <2>7 DEF t, u, w
<1>5. ASSUME NEW i \in 0 .. numel(dst) - 1, NEW j \in 0 .. numel(src) - 1,
             ElementOffset(dst, i) - ElementOffset(src, j) = delta
      PROVE  \E c : InBox(ax, bx, c) /\ Sum(Moves(ax, c), n) = delta
  <2>1. i \in Nat /\ j \in Nat /\ numel(dst) > 0 /\ numel(src) > 0
    BY <1>1
  <2>2. PICK x \in [1 .. n -> Nat] :
          (\A k \in 1 .. n : x[k] < ax[k].size) /\ ElementOffset(dst, i) = Sum(Moves(ax, x), n)
    BY <1>1, <2>1, ElementOnAxes
  <2>3. PICK y \in [1 .. n -> Nat] :
          (\A k \in 1 .. n : y[k] < bx[k].size) /\ ElementOffset(src, j) = Sum(Moves(bx, y), n)
    <3>1. \E y \in [1 .. Len(bx) -> Nat] :
            /\ \A k \in 1 .. Len(bx) : y[k] < bx[k].size
            /\ ElementOffset(src, j) = Sum(Moves(bx, y), Len(bx))
      BY <1>1, <2>1, ElementOnAxes
    <3>2. Len(bx) = n
      BY <1>3
    <3> HIDE DEF ax, bx, n
    <3> QED BY <3>1, <3>2
  <2> HIDE DEF ax, bx
  <2> DEFINE c == [k \in 1 .. n |-> x[k] - y[k]]
  <2>4. c \in [1 .. n -> Int] /\ \A k \in 1 .. n : c[k] = x[k] - y[k]
    OBVIOUS
  <2> HIDE DEF c
  <2>5. Sum(Moves(ax, c), n) = delta
    BY <1>4, <1>5, <2>2, <2>3, <2>4
  <2>6. ASSUME NEW k \in 1 .. n PROVE Lower(bx, k) <= c[k] /\ c[k] <= Upper(ax, k)
    <3>1. /\ x[k] \in Nat /\ y[k] \in Nat /\ x[k] < ax[k].size /\ y[k] < bx[k].size
          /\ ax[k].size \in Nat /\ bx[k].size \in Nat /\ c[k] = x[k] - y[k]
      BY <1>3, <2>2, <2>3, <2>4
    <3> QED BY <3>1, SMTT(60) DEF Lower, Upper
  <2>7. InBox(ax, bx, c)
    BY <2>4, <2>6 DEF InBox
  <2> QED BY <2>5, <2>7
<1>6. ASSUME NEW c, InBox(ax, bx, c), Sum(Moves(ax, c), n) = delta
      PROVE  \E i \in 0 .. numel(dst) - 1, j \in 0 .. numel(src) - 1 :
               ElementOffset(dst, i) - ElementOffset(src, j) = delta
  <2>1. c \in [1 .. n -> Int] /\ \A k \in 1 .. n : Lower(bx, k) <= c[k] /\ c[k] <= Upper(ax, k)
    BY <1>6 DEF InBox
  <2> DEFINE x == [k \in 1 .. n |-> IF c[k] > 0 THEN c[k] ELSE 0]
             y == [k \in 1 .. n |-> IF c[k] > 0 THEN 0 ELSE -c[k]]
  <2>2. ASSUME NEW k \in 1 .. n
        PROVE  /\ x[k] \in Nat /\ x[k] < ax[k].size /\ y[k] \in Nat /\ y[k] < bx[k].size
               /\ c[k] = x[k] - y[k]
    <3>1. /\ c[k] \in Int /\ -(bx[k].size - 1) <= c[k] /\ c[k] <= ax[k].size - 1
          /\ ax[k].size \in Nat \ {0} /\ bx[k].size \in Nat \ {0}
      BY <1>3, <2>1 DEF Lower, Upper
    <3>2. x[k] = (IF c[k] > 0 THEN c[k] ELSE 0) /\ y[k] = (IF c[k] > 0 THEN 0 ELSE -c[k])
      OBVIOUS
    <3> HIDE DEF x, y, ax, bx
    <3> QED BY <3>1, <3>2, SMTT(60)
  <2>3. x \in [1 .. n -> Nat] /\ y \in [1 .. n -> Nat]
    <3>1. x = [k \in 1 .. n |-> x[k]] /\ y = [k \in 1 .. n |-> y[k]]
      OBVIOUS
    <3> HIDE DEF x, y, ax, bx, n
    <3> QED BY <2>2, <3>1
  <2> HIDE DEF x, y
  <2>4. Sum(Moves(ax, x), n) - Sum(Moves(bx, y), n) = delta
    <3> HIDE DEF ax, bx
    <3> QED BY <1>4, <1>6, <2>1, <2>2, <2>3
  <2>5. PICK i \in 0 .. numel(dst) - 1 : ElementOffset(dst, i) = Sum(Moves(ax, x), n)
    <3>1. numel(dst) > 0
      BY <1>1
    <3> QED BY <1>1, <2>2, <2>3, <3>1, AxesReachElement
  <2>6. PICK j \in 0 .. numel(src) - 1 : ElementOffset(src, j) = Sum(Moves(bx, y), n)
    <3>1. numel(src) > 0 /\ Len(bx) = n
      BY <1>1, <1>3
    <3>2. y \in [1 .. Len(bx) -> Nat] /\ \A k \in 1 .. Len(bx) : y[k] < bx[k].size
      <4> HIDE DEF ax, bx, n
      <4> QED BY <2>2, <2>3, <3>1
    <3>3. \E j \in 0 .. numel(src) - 1 : ElementOffset(src, j) = Sum(Moves(bx, y), Len(bx))
      BY <1>1, <3>1, <3>2, AxesReachElement
    <3> HIDE DEF ax, bx, n
    <3> QED BY <3>1, <3>3
  <2> HIDE DEF ax, bx, n
  <2> QED BY <2>4, <2>5, <2>6
<1> QED BY <1>5, <1>6

----------------------------------------------------------------------------
(* The verdicts.                                                           *)
\* What the caller passes: a destination that does not overlap itself and a
\* source; an element type has one size.
Assignable(dst, src) ==
  /\ IsView(dst) /\ IsView(src) /\ is_non_overlapping(dst)
  /\ dst.type = src.type => dst.bytes = src.bytes

(* `full` is in place, and no element of the destination is another's.     *)
LEMMA FullIsTrue ==
  ASSUME NEW dst, NEW src, Assignable(dst, src), classify_overlap(dst, src) = full
  PROVE  /\ dst.data = src.data /\ dst.bytes = src.bytes /\ dst.sizes = src.sizes
         /\ \A i \in 0 .. numel(dst) - 1 : ElementOffset(dst, i) = ElementOffset(src, i)
         /\ Injective(dst)
<1>1. dst.type = src.type /\ SameMapping(dst, src)
  <2>1. ~Tested(dst, src) \/ lattice_test(overlap_axes(dst), overlap_axes(src), Delta(dst, src)) # full
    BY LatticeVerdict DEF Assignable
  <2> QED BY <2>1, Verdicts DEF none, full, partial, too_hard
<1>2. dst.data = src.data /\ dst.sizes = src.sizes /\ dst.strides = src.strides
  BY <1>1 DEF SameMapping
<1>3. \A i \in 0 .. numel(dst) - 1 : ElementOffset(dst, i) = ElementOffset(src, i)
  BY <1>2 DEF ElementOffset
<1>4. Injective(dst)
  BY LayoutsInjective DEF Assignable, IsView
<1> QED BY <1>1, <1>2, <1>3, <1>4 DEF Assignable

(* `none` is disjoint, whichever of the tests said so.                     *)
LEMMA NoneIsTrue ==
  ASSUME NEW dst, NEW src, Assignable(dst, src), dst.device = src.device,
         classify_overlap(dst, src) = none
  PROVE  Touches(dst) \cap Touches(src) = {}
<1> DEFINE ax == overlap_axes(dst)
           bx == overlap_axes(src)
           delta == Delta(dst, src)
<1>0. IsView(dst) /\ IsView(src) /\ Strided(dst) /\ Strided(src)
  BY DEF Assignable, IsView
<1>1. SUFFICES ASSUME NEW x \in Touches(dst) \cap Touches(src) PROVE FALSE
  OBVIOUS
<1>2. ~Unrelated(dst, src) /\ ~DisjointRanges(dst, src)
  <2>1. /\ numel(dst) > 0 /\ numel(src) > 0 /\ dst.data # nullptr /\ src.data # nullptr
        /\ ~DisjointRanges(dst, src)
    BY <1>0, RangesMeet
  <2> QED BY <2>1 DEF Unrelated
<1>3. \/ Compared(dst, src) /\ GcdRules(dst, src)
      \/ Compared(dst, src) /\ Nested(ax, bx) /\ delta % ax[1].stride # 0
      \/ Tested(dst, src) /\ lattice_test(ax, bx, delta) = none
  BY <1>2, Verdicts DEF none, full, partial, too_hard
<1>4. Compared(dst, src) /\ dst.bytes = src.bytes
  BY <1>3 DEF Tested, Compared, Assignable
<1>5. PICK i \in 0 .. numel(dst) - 1, j \in 0 .. numel(src) - 1 :
        ElementOffset(dst, i) - ElementOffset(src, j) = delta
  BY <1>0, <1>4, SharedIsDistance
<1>6. /\ numel(dst) > 0 /\ numel(src) > 0 /\ i \in Nat /\ j \in Nat
      /\ ElementOffset(dst, i) \in Nat /\ ElementOffset(src, j) \in Nat
  <2>1. numel(dst) > 0 /\ numel(src) > 0 /\ numel(dst) \in Nat /\ numel(src) \in Nat
    BY <1>0, PackedShape, RangesMeet DEF Strided, numel
  <2>2. i \in Nat /\ j \in Nat
    BY <2>1
  <2> QED BY <1>0, <2>1, <2>2, ElementInExtent
<1>7. CASE GcdRules(dst, src)
  <2> DEFINE T == StridesOf(ax) \cup StridesOf(bx)
             g == GcdOf(T)
  <2>1. g # 0 /\ delta % g # 0
    BY <1>7 DEF GcdRules
  <2>2. T \in SUBSET Nat
    <3>1. /\ \A k \in 1 .. Len(ax) : ax[k].stride \in Nat
          /\ \A k \in 1 .. Len(bx) : bx[k].stride \in Nat
      BY <1>0, AxesOf, ZenonT(120)
    <3> HIDE DEF ax, bx
    <3> QED BY <3>1 DEF StridesOf
  <2>3. g \in Nat \ {0} /\ \A s \in T : s % g = 0
    <3> HIDE DEF T
    <3> QED BY <2>1, <2>2, GcdDivides
  <2> HIDE DEF g
  <2>4. Multiple(ElementOffset(dst, i), g) /\ Multiple(ElementOffset(src, j), g)
    <3>1. (\A s \in StridesOf(ax) : s % g = 0) /\ (\A s \in StridesOf(bx) : s % g = 0)
      BY <2>3
    <3> QED BY <1>0, <1>6, <2>3, <3>1, OffsetMultiple
  <2>5. PICK p \in Int, q \in Int : ElementOffset(dst, i) = p * g /\ ElementOffset(src, j) = q * g
    BY <2>4 DEF Multiple
  <2>6. (p - q) * g = p * g - q * g /\ p - q \in Int
    BY <2>3
  <2>7. delta = (p - q) * g
    BY <1>5, <2>5, <2>6
  <2>8. Multiple(delta, g) /\ delta \in Int
    <3>1. delta \in Int
      BY <1>5, <1>6
    <3> HIDE DEF delta
    <3> QED BY <2>6, <2>7, <3>1 DEF Multiple
  <2> HIDE DEF delta
  <2> QED BY <2>1, <2>3, <2>8, Remainder
<1>8. CASE Nested(ax, bx) /\ (delta % ax[1].stride # 0 \/ lattice_test(ax, bx, delta) = none)
  <2>1. Grid(ax, bx)
    BY <1>0, <1>4, <1>8, NestedGrid
  <2>2. delta \in Int
    BY <1>5, <1>6
  <2>3. PICK c : InBox(ax, bx, c) /\ Sum(Moves(ax, c), Len(ax)) = delta
    BY <1>0, <1>4, <1>5, <1>8, <2>2, MovesOfViews
  <2> HIDE DEF ax, bx, delta
  <2>4. delta % ax[1].stride = 0 /\ lattice_test(ax, bx, delta) # none
    BY <2>1, <2>2, <2>3, LatticeKeeps
  <2> QED BY <1>8, <2>4
<1> QED BY <1>3, <1>7, <1>8 DEF Tested

(* A dense layout that does not overlap has an element at every offset up  *)
(* to its extent.                                                          *)
LEMMA DenseOffsets ==
  ASSUME NEW l, Strided(l), numel(l) > 0, is_non_overlapping(l), Dense(l)
  PROVE  Offsets(l) = 0 .. overlap_extent(l)
<1> DEFINE e == overlap_extent(l)
<1>1. e \in Nat /\ e + 1 = numel(l)
  BY ElementInExtent, 0 \in Nat DEF Dense
<1>2. Offsets(l) \in SUBSET (0 .. e)
  <2>1. ASSUME NEW i \in 0 .. numel(l) - 1 PROVE ElementOffset(l, i) \in 0 .. e
    <3>1. i \in Nat
      BY <1>1
    <3>2. ElementOffset(l, i) \in Nat /\ ElementOffset(l, i) <= e
      BY <3>1, ElementInExtent
    <3> HIDE DEF e
    <3> QED BY <1>1, <3>2
  <2> HIDE DEF e
  <2> QED BY <2>1 DEF Offsets
<1>3. Cardinality(Offsets(l)) = e + 1
  BY <1>1, LayoutsInjective DEF Injective
<1>4. IsFiniteSet(0 .. e) /\ Cardinality(0 .. e) = e + 1
  <2> HIDE DEF e
  <2>1. IsFiniteSet(0 .. e) /\ Cardinality(0 .. e) = IF 0 > e THEN 0 ELSE e - 0 + 1
    <3>1. 0 \in Int /\ e \in Int
      BY <1>1
    <3> QED BY <3>1, FS_Interval
  <2> QED BY <1>1, <2>1
<1> HIDE DEF e
<1>5. 0 .. e = Offsets(l)
  BY <1>2, <1>3, <1>4, FS_Subset
<1> QED BY <1>5 DEF e

(* Its bytes are the whole range.                                          *)
LEMMA DenseTouches ==
  ASSUME NEW l, IsView(l), numel(l) > 0, is_non_overlapping(l), Dense(l), NEW x \in Int,
         l.data <= x, x < l.data + (overlap_extent(l) + 1) * l.bytes
  PROVE  x \in Touches(l)
<1>1. /\ l.data \in Nat /\ l.bytes \in Nat \ {0} /\ Strided(l)
      /\ overlap_extent(l) \in Nat /\ Offsets(l) = 0 .. overlap_extent(l)
  BY DenseOffsets, ElementInExtent, 0 \in Nat DEF IsView
<1>2. PICK d \in Nat, w \in Nat \ {0}, e \in Nat : d = l.data /\ w = l.bytes
                                                     /\ e = overlap_extent(l)
  BY <1>1
<1>3. PICK y \in Nat : y = x - d
  BY <1>2
<1>4. PICK o \in Nat, u \in 0 .. w - 1 : y = w * o + u
  <2>1. y \div w \in Nat /\ y % w \in 0 .. w - 1 /\ y = w * (y \div w) + (y % w)
    BY Division
  <2> QED BY <2>1
<1>5. o <= e
  <2>1. y < (e + 1) * w
    <3>1. PICK f \in Int : f = (e + 1) * w
      OBVIOUS
    <3>2. x < d + f
      BY <1>2, <3>1
    <3> QED BY <1>2, <1>3, <3>1, <3>2
  <2>2. ASSUME ~(o <= e) PROVE FALSE
    <3>1. e + 1 <= o /\ e + 1 \in Nat
      BY <2>2
    <3>2. (e + 1) * w \in Nat /\ o * w \in Nat /\ (e + 1) * w <= o * w
      BY <3>1, Products
    <3>3. w * o = o * w
      OBVIOUS
    <3>4. u \in Nat
      BY <1>2
    <3> QED BY <1>4, <2>1, <3>2, <3>3, <3>4
  <2> QED BY <2>2
<1>6. PICK i \in 0 .. numel(l) - 1 : ElementOffset(l, i) = o
  <2>1. o \in Offsets(l)
    BY <1>1, <1>2, <1>5
  <2> QED BY <2>1 DEF Offsets
<1>7. x = l.data + ElementOffset(l, i) * l.bytes + u /\ u \in 0 .. l.bytes - 1
  <2>1. x = d + o * w + u
    <3>1. o * w = w * o /\ w * o \in Int
      OBVIOUS
    <3> QED BY <1>3, <1>4, <3>1
  <2> QED BY <1>2, <1>4, <1>6, <2>1
<1>8. ByteOf(l, i, u, x)
  BY <1>7 DEF ByteOf
<1> QED BY <1>8, TouchesIs

(* `partial` is a byte in common.                                          *)
LEMMA PartialIsTrue ==
  ASSUME NEW dst, NEW src, Assignable(dst, src), classify_overlap(dst, src) = partial
  PROVE  Touches(dst) \cap Touches(src) # {}
<1> DEFINE ax == overlap_axes(dst)
           bx == overlap_axes(src)
           delta == Delta(dst, src)
<1>0. IsView(dst) /\ IsView(src) /\ Strided(dst) /\ Strided(src)
  BY DEF Assignable, IsView
<1>1. \/ /\ ~Unrelated(dst, src) /\ ~DisjointRanges(dst, src)
         /\ is_non_overlapping(dst) /\ is_non_overlapping(src) /\ Dense(dst) /\ Dense(src)
      \/ Tested(dst, src) /\ lattice_test(ax, bx, delta) = partial
  BY Verdicts DEF none, full, partial, too_hard
<1>2. CASE /\ ~Unrelated(dst, src) /\ ~DisjointRanges(dst, src)
           /\ is_non_overlapping(dst) /\ is_non_overlapping(src) /\ Dense(dst) /\ Dense(src)
  <2>1. ASSUME NEW l \in {dst, src}
        PROVE  /\ IsView(l) /\ numel(l) > 0 /\ is_non_overlapping(l) /\ Dense(l) /\ l.data \in Int
               /\ l.data + (overlap_extent(l) + 1) * l.bytes \in Int
               /\ l.data < l.data + (overlap_extent(l) + 1) * l.bytes
    <3>1. IsView(l) /\ numel(l) > 0 /\ is_non_overlapping(l) /\ Dense(l)
      <4>1. numel(l) \in Nat
        BY <1>0, PackedShape DEF Strided, numel
      <4> QED BY <1>0, <1>2, <4>1 DEF Unrelated
    <3>2. overlap_extent(l) \in Nat /\ l.data \in Nat /\ l.bytes \in Nat \ {0}
      BY <3>1, ElementInExtent, 0 \in Nat DEF IsView
    <3>3. PICK d \in Nat, w \in Nat \ {0}, e \in Nat : d = l.data /\ w = l.bytes
                                                         /\ e = overlap_extent(l)
      BY <3>2
    <3>4. (e + 1) * w = e * w + w /\ e * w \in Nat
      OBVIOUS
    <3>5. d \in Int /\ d + (e + 1) * w \in Int /\ d < d + (e + 1) * w
      BY <3>4
    <3> QED BY <3>1, <3>3, <3>5
  <2>2. /\ ~(dst.data + (overlap_extent(dst) + 1) * dst.bytes <= src.data)
        /\ ~(src.data + (overlap_extent(src) + 1) * src.bytes <= dst.data)
    BY <1>2 DEF DisjointRanges
  <2>3. PICK f \in Int, g \in Int :
          /\ f = dst.data + (overlap_extent(dst) + 1) * dst.bytes
          /\ g = src.data + (overlap_extent(src) + 1) * src.bytes
    BY <2>1
  <2>4. dst.data \in Int /\ src.data \in Int /\ src.data < f /\ dst.data < g /\ dst.data < f
          /\ src.data < g
    BY <2>1, <2>2, <2>3
  <2>5. CASE dst.data <= src.data
    <3>1. src.data \in Touches(dst)
      BY <2>1, <2>3, <2>4, <2>5, DenseTouches
    <3>2. src.data \in Touches(src)
      <4>1. src.data <= src.data
        BY <2>4
      <4> QED BY <2>1, <2>3, <2>4, <4>1, DenseTouches
    <3> QED BY <3>1, <3>2
  <2>6. CASE src.data <= dst.data
    <3>1. dst.data \in Touches(src)
      BY <2>1, <2>3, <2>4, <2>6, DenseTouches
    <3>2. dst.data \in Touches(dst)
      <4>1. dst.data <= dst.data
        BY <2>4
      <4> QED BY <2>1, <2>3, <2>4, <4>1, DenseTouches
    <3> QED BY <3>1, <3>2
  <2> QED BY <2>4, <2>5, <2>6
<1>3. CASE Tested(dst, src) /\ lattice_test(ax, bx, delta) = partial
  <2>1. /\ Compared(dst, src) /\ Nested(ax, bx) /\ delta % ax[1].stride = 0 /\ dst.bytes = src.bytes
    BY <1>3 DEF Tested, Compared, Assignable
  <2>2. Grid(ax, bx) /\ delta \in Int
    BY <1>0, <1>3, LatticeVerdict
  <2>3. \E c : InBox(ax, bx, c) /\ Sum(Moves(ax, c), Len(ax)) = delta
    <3> HIDE DEF ax, bx, delta
    <3> QED BY <1>3, <2>1, <2>2, LatticeReaches
  <2>4. \E i \in 0 .. numel(dst) - 1, j \in 0 .. numel(src) - 1 :
          ElementOffset(dst, i) - ElementOffset(src, j) = delta
    BY <1>0, <2>1, <2>2, <2>3, MovesOfViews
  <2> QED BY <1>0, <2>1, <2>4, SharedIsDistance
<1> QED BY <1>1, <1>2, <1>3

----------------------------------------------------------------------------
(* Nested strides: an injective layout keeps each axis clear of those      *)
(* inside it.                                                              *)
(* Equal offsets of an injective layout are one element's.                 *)
LEMMA InjectiveElements ==
  ASSUME NEW l, Strided(l), Injective(l), NEW i \in 0 .. numel(l) - 1, NEW j \in 0 .. numel(l) - 1,
         ElementOffset(l, i) = ElementOffset(l, j)
  PROVE  i = j
<1> DEFINE n == numel(l)
           f == [k \in 0 .. n - 1 |-> ElementOffset(l, k)]
<1>1. n \in Nat
  BY PackedShape DEF Strided, numel
<1>2. f \in Surjection(0 .. n - 1, Offsets(l))
  <2>1. /\ \A k \in 0 .. n - 1 : f[k] \in Offsets(l)
        /\ \A x \in Offsets(l) : \E k \in 0 .. n - 1 : f[k] = x
    BY DEF Offsets
  <2>2. f \in [0 .. n - 1 -> Offsets(l)]
    BY <2>1
  <2> HIDE DEF f, n
  <2> QED BY <2>1, <2>2 DEF Surjection
<1>3. IsFiniteSet(0 .. n - 1) /\ Cardinality(0 .. n - 1) = n
  <2> HIDE DEF n
  <2>1. 0 \in Int /\ n - 1 \in Int
    BY <1>1
  <2>2. IsFiniteSet(0 .. n - 1) /\ Cardinality(0 .. n - 1) = IF 0 > n - 1 THEN 0 ELSE (n - 1) - 0 + 1
    BY <2>1, FS_Interval
  <2> QED BY <1>1, <2>2
<1>4. Cardinality(0 .. n - 1) = Cardinality(Offsets(l))
  BY <1>3 DEF Injective
<1>5. f \in Injection(0 .. n - 1, Offsets(l))
  <2> HIDE DEF f, n
  <2> QED BY <1>2, <1>3, <1>4, FS_SurjSameCardinalityImpliesInj
<1>6. f[i] = f[j]
  OBVIOUS
<1>7. \A x, y \in 0 .. n - 1 : f[x] = f[y] => x = y
  <2> HIDE DEF f, n
  <2> QED BY <1>5 DEF Injection, IsInjective
<1> HIDE DEF f
<1> QED BY <1>6, <1>7

\* v steps along axis k alone.
Single(ax, k, v) == [j \in 1 .. Len(ax) |-> IF j = k THEN v ELSE 0]

\* A move along one axis only.
LEMMA SingleMove ==
  ASSUME NEW ax, NEW bx, Grid(ax, bx), NEW k \in 1 .. Len(ax), NEW v \in Nat
  PROVE  /\ Single(ax, k, v) \in [1 .. Len(ax) -> Nat]
         /\ Single(ax, k, v)[k] = v /\ \A j \in 1 .. Len(ax) : j # k => Single(ax, k, v)[j] = 0
         /\ Sum(Moves(ax, Single(ax, k, v)), Len(ax)) = v * ax[k].stride
<1> DEFINE n == Len(ax)
           c == Single(ax, k, v)
           zero == Single(ax, k, 0)
           t == Moves(ax, zero)
           u == Moves(ax, c)
<1>1. n \in Nat \ {0} /\ \A j \in 1 .. n : ax[j].stride \in Nat
  BY DEF Grid
<1>2. /\ c \in [1 .. n -> Nat] /\ c[k] = v /\ \A j \in 1 .. n : j # k => c[j] = 0
      /\ zero \in [1 .. n -> Nat] /\ \A j \in 1 .. n : zero[j] = 0
  BY DEF Single
<1> HIDE DEF c, zero
<1>3. /\ t \in Seq(Int) /\ Len(t) = n /\ \A j \in 1 .. n : t[j] = zero[j] * ax[j].stride
      /\ u \in Seq(Int) /\ Len(u) = n /\ \A j \in 1 .. n : u[j] = c[j] * ax[j].stride
  <2>1. c \in [1 .. n -> Int] /\ zero \in [1 .. n -> Int]
    BY <1>2
  <2> QED BY <1>1, <2>1, MovesAre
<1> HIDE DEF t, u
<1>4. ASSUME NEW j \in 1 .. n PROVE t[j] = 0 /\ (j # k => u[j] = 0)
  <2>1. ax[j].stride \in Nat /\ zero[j] = 0 /\ (j # k => c[j] = 0)
    BY <1>1, <1>2
  <2>2. 0 * ax[j].stride = 0
    BY <2>1
  <2> QED BY <1>3, <2>1, <2>2
<1>5. Sum(t, n) = 0
  <2>1. \A j \in 1 .. Len(t) : Multiple(t[j], 0)
    <3>1. 0 = 0 * 0 /\ 0 \in Int
      OBVIOUS
    <3> QED BY <1>3, <1>4, <3>1 DEF Multiple
  <2>2. n \in 0 .. Len(t) /\ 0 \in Int
    BY <1>1, <1>3
  <2>3. Multiple(Sum(t, n), 0)
    BY <1>3, <2>1, <2>2, SumMultiple
  <2> QED BY <2>3 DEF Multiple
<1>6. Sum(u, n) = Sum(t, n) + (u[k] - t[k])
  <2>1. Len(u) = Len(t) /\ Len(t) = n /\ k \in 1 .. Len(t)
          /\ \A j \in 1 .. Len(t) : j # k => u[j] = t[j]
    BY <1>3, <1>4
  <2> QED BY <1>3, <2>1, SumChange
<1>7. u[k] = v * ax[k].stride /\ t[k] = 0 /\ u[k] \in Int
  <2>1. v * ax[k].stride \in Int
    BY <1>1
  <2> QED BY <1>2, <1>3, <1>4, <2>1
<1>8. Sum(u, n) = v * ax[k].stride
  <2>1. PICK x \in Int : x = u[k]
    BY <1>7
  <2> QED BY <1>5, <1>6, <1>7, <2>1
<1> QED BY <1>2, <1>8 DEF u, c

(* The extent inside an axis, in the order of the axes.                    *)
Tops(ax) == [k \in 1 .. Len(ax) |-> ax[k].size - 1]

\* The extent below an axis is the reach of the axes before it.
LEMMA ExtentOnAxes ==
  ASSUME NEW l, Strided(l), NEW k \in 1 .. Cardinality(Axes(l))
  PROVE  Extent(l, Axis(l, k)) = Sum(Moves(overlap_axes(l), Tops(overlap_axes(l))), k - 1)
<1> DEFINE n == Cardinality(Axes(l))
           ax == overlap_axes(l)
           w == Reaches(l)
<1>1. n \in Nat /\ Len(ax) = n /\ k - 1 \in 0 .. n /\ \A j \in 1 .. k - 1 : j \in 1 .. n /\ j < k
  BY AxesOf
<1>2. w \in [1 .. rank(l) -> Int] /\ \A d \in 1 .. rank(l) : w[d] = (l.sizes[d] - 1) * l.strides[d]
  <2>1. \A d \in 1 .. rank(l) : (l.sizes[d] - 1) * l.strides[d] \in Int
    <3>1. \A d \in 1 .. rank(l) : l.sizes[d] \in Nat /\ l.strides[d] \in Nat
      BY Strides
    <3> QED BY <3>1
  <2> QED BY <2>1 DEF Reaches
<1>3. ASSUME NEW d \in 1 .. rank(l)
      PROVE  d \in Inside(l, Axis(l, k)) <=> \E j \in 1 .. k - 1 : Axis(l, j) = d
  <2>1. ASSUME d \in Inside(l, Axis(l, k)) PROVE \E j \in 1 .. k - 1 : Axis(l, j) = d
    <3>1. d \in Axes(l)
      BY <2>1 DEF Inside
    <3>2. PICK j \in 1 .. n : Axis(l, j) = d
      BY <3>1, AxesAre
    <3>3. j < k
      BY <2>1, <3>2, AxesAre
    <3>4. j \in 1 .. k - 1
      BY <1>1, <3>3
    <3> QED BY <3>2, <3>4
  <2>2. ASSUME NEW j \in 1 .. k - 1, Axis(l, j) = d PROVE d \in Inside(l, Axis(l, k))
    BY <1>1, <2>2, AxesAre
  <2> QED BY <2>1, <2>2
<1>4. Extent(l, Axis(l, k)) = Sum(InnerSum(l, w, k - 1), rank(l))
  <2>1. [d \in 1 .. rank(l) |->
           IF d \in Inside(l, Axis(l, k)) THEN (l.sizes[d] - 1) * l.strides[d] ELSE 0]
          = InnerSum(l, w, k - 1)
    <3> HIDE DEF w
    <3> QED BY <1>2, <1>3 DEF InnerSum
  <2> QED BY <2>1 DEF Extent
<1>5. Sum(InnerSum(l, w, k - 1), rank(l)) = Sum(OnAxes(l, w), k - 1)
  <2> HIDE DEF w
  <2> QED BY <1>1, <1>2, AxesSum
<1>6. OnAxes(l, w) = Moves(ax, Tops(ax))
  <2>1. ASSUME NEW j \in 1 .. n PROVE w[Axis(l, j)] = Tops(ax)[j] * ax[j].stride
    <3>1. /\ Axis(l, j) \in 1 .. rank(l) /\ ax[j].size = l.sizes[Axis(l, j)]
          /\ ax[j].stride = l.strides[Axis(l, j)]
      BY AxesOf
    <3>2. Tops(ax)[j] = ax[j].size - 1
      BY <1>1 DEF Tops
    <3> HIDE DEF w, ax
    <3> QED BY <1>2, <3>1, <3>2
  <2> HIDE DEF w, ax
  <2> QED BY <1>1, <2>1 DEF OnAxes, Moves
<1> QED BY <1>4, <1>5, <1>6

(* An axis that repeats within the one inside it would reach an element    *)
(* twice.                                                                  *)
LEMMA PeriodsCover ==
  ASSUME NEW l, Strided(l), numel(l) > 0, Injective(l),
         Grid(overlap_axes(l), overlap_axes(l)), NEW k \in 1 .. Len(overlap_axes(l)) - 1
  PROVE  overlap_axes(l)[k].size <= Period(overlap_axes(l), k)
<1> DEFINE ax == overlap_axes(l)
           n == Len(ax)
           q == Period(ax, k)
<1>1. n \in Nat \ {0} /\ n = Cardinality(Axes(l)) /\ k \in 1 .. n /\ k + 1 \in 1 .. n /\ k # k + 1
  BY AxesOf DEF Grid
<1>2. q \in Nat \ {0} /\ ax[k + 1].stride = q * ax[k].stride
  BY Periods
<1>3. ax[k].size \in Nat /\ \A j \in 1 .. n : ax[j].size \in Nat \ {0, 1} /\ ax[j].stride \in Nat
  BY <1>1, AxesOf
<1> SUFFICES ASSUME q < ax[k].size PROVE FALSE
  BY <1>2, <1>3
<1> DEFINE inner == Single(ax, k, q)
           outer == Single(ax, k + 1, 1)
<1>4. /\ inner \in [1 .. n -> Nat] /\ inner[k] = q /\ \A j \in 1 .. n : j # k => inner[j] = 0
      /\ Sum(Moves(ax, inner), n) = q * ax[k].stride
  BY <1>1, <1>2, SingleMove
<1>5. /\ outer \in [1 .. n -> Nat] /\ outer[k + 1] = 1
      /\ \A j \in 1 .. n : j # k + 1 => outer[j] = 0
      /\ Sum(Moves(ax, outer), n) = 1 * ax[k + 1].stride
  <2>1. Grid(ax, ax) /\ 1 \in Nat /\ k + 1 \in 1 .. n
    BY <1>1
  <2> HIDE DEF ax
  <2>2. PICK o \in 1 .. n : o = k + 1
    BY <2>1
  <2>3. /\ Single(ax, o, 1) \in [1 .. n -> Nat] /\ Single(ax, o, 1)[o] = 1
        /\ \A j \in 1 .. n : j # o => Single(ax, o, 1)[j] = 0
        /\ Sum(Moves(ax, Single(ax, o, 1)), n) = 1 * ax[o].stride
    BY <2>1, SingleMove
  <2> QED BY <2>2, <2>3
<1>6. inner[k + 1] = 0
  BY <1>1, <1>4
<1> HIDE DEF inner, outer, q
<1>7. PICK i \in 0 .. numel(l) - 1 :
        /\ ElementOffset(l, i) = Sum(Moves(ax, inner), n)
        /\ \A j \in 1 .. n : Coord(l.sizes, i)[Axis(l, j)] = inner[j]
  <2>1. \A j \in 1 .. n : inner[j] < ax[j].size
    BY <1>3, <1>4
  <2> QED BY <1>4, <2>1, AxesReachElement
<1>8. PICK j \in 0 .. numel(l) - 1 :
        /\ ElementOffset(l, j) = Sum(Moves(ax, outer), n)
        /\ \A m \in 1 .. n : Coord(l.sizes, j)[Axis(l, m)] = outer[m]
  <2>1. \A m \in 1 .. n : outer[m] < ax[m].size
    BY <1>3, <1>5, SMTT(60)
  <2> QED BY <1>5, <2>1, AxesReachElement
<1>9. ElementOffset(l, i) = ElementOffset(l, j)
  <2>1. 1 * ax[k + 1].stride = ax[k + 1].stride
    BY <1>1, <1>3
  <2> QED BY <1>2, <1>4, <1>5, <1>7, <1>8, <2>1
<1>10. i = j
  BY <1>9, InjectiveElements
<1> QED BY <1>1, <1>5, <1>6, <1>7, <1>8, <1>10

(* So the extent inside an axis stays below its stride.                    *)
LEMMA ExtentBelowStride ==
  ASSUME NEW ax, NEW bx, Grid(ax, bx), \A k \in 1 .. Len(ax) - 1 : ax[k].size <= Period(ax, k),
         NEW k \in 1 .. Len(ax)
  PROVE  Sum(Moves(ax, Tops(ax)), k - 1) < ax[k].stride
<1> DEFINE n == Len(ax)
           t == Moves(ax, Tops(ax))
           S == {j \in 0 .. n - 1 : Sum(t, j) < ax[j + 1].stride}
<1>1. n \in Nat \ {0} /\ \A j \in 1 .. n : ax[j].size \in Nat \ {0} /\ ax[j].stride \in Nat \ {0}
  BY DEF Grid
<1>2. Tops(ax) \in [1 .. n -> Int] /\ \A j \in 1 .. n : Tops(ax)[j] = ax[j].size - 1
  BY <1>1 DEF Tops
<1>3. t \in Seq(Int) /\ Len(t) = n /\ \A j \in 1 .. n : t[j] = (ax[j].size - 1) * ax[j].stride
  BY <1>1, <1>2, MovesAre, SMTT(60)
<1> HIDE DEF t
<1>4. \A x, y \in Int : (x - 1) * y = x * y - y
  OBVIOUS
<1>5. 0 \in S
  <2>1. Sum(t, 0) = 0
    BY <1>3, SumIs
  <2> QED BY <1>1, <2>1
<1>6. ASSUME NEW j \in 1 .. n - 1, j - 1 \in S PROVE j \in S
  <2>1. j \in 1 .. n /\ j + 1 \in 1 .. n /\ (j - 1) + 1 = j /\ j - 1 \in 0 .. n /\ j \in 0 .. n - 1
    BY <1>1
  <2>2. Sum(t, j - 1) < ax[j].stride
    BY <1>6, <2>1
  <2>3. Sum(t, j) = Sum(t, j - 1) + t[j] /\ Sum(t, j - 1) \in Int
    BY <1>3, <2>1, SumIs
  <2>4. PICK s \in Nat : s = ax[j].stride
    BY <1>1, <2>1
  <2>5. PICK m \in Nat : m = ax[j].size
    BY <1>1, <2>1
  <2>6. PICK q \in Nat : q = Period(ax, j) /\ ax[j + 1].stride = q * s
    BY <2>4, Periods
  <2>7. m <= q
    BY <2>5, <2>6
  <2>8. m * s <= q * s /\ m * s \in Int /\ q * s \in Int
    BY <2>4, <2>5, <2>6, <2>7, Products, SMTT(60)
  <2>9. t[j] = m * s - s
    <3>1. t[j] = (m - 1) * s
      BY <1>3, <2>1, <2>4, <2>5
    <3>2. (m - 1) * s = m * s - s
      BY <1>4
    <3> QED BY <3>1, <3>2
  <2>10. PICK x \in Int : x = Sum(t, j - 1)
    BY <2>3
  <2>11. PICK y \in Int, z \in Int : y = m * s /\ z = q * s
    BY <2>8
  <2>12. x < s /\ y <= z /\ Sum(t, j) = x + (y - s) /\ ax[j + 1].stride = z
    BY <2>2, <2>3, <2>4, <2>6, <2>8, <2>9, <2>10, <2>11
  <2>13. Sum(t, j) < ax[j + 1].stride
    BY <2>12
  <2> QED BY <2>1, <2>13
<1>7. 0 .. n - 1 \subseteq S
  <2>1. n - 1 \in Nat
    BY <1>1
  <2>2. \A j \in 1 .. n - 1 : j - 1 \in S => j \in S
    BY <1>6
  <2> HIDE DEF S, n
  <2> QED BY <1>5, <2>1, <2>2, Induction
<1>8. k - 1 \in S
  <2>1. k - 1 \in 0 .. n - 1
    BY <1>1
  <2> HIDE DEF S
  <2> QED BY <1>7, <2>1
<1>9. (k - 1) + 1 = k
  BY <1>1
<1> QED BY <1>8, <1>9 DEF t

(* The proof of injectivity is exact on nested strides.                    *)
LEMMA NestedExact ==
  ASSUME NEW l, Strided(l), Injective(l),
         \A x \in StridesOf(overlap_axes(l)) : x > 0, Nested(overlap_axes(l), overlap_axes(l))
  PROVE  is_non_overlapping(l)
<1> DEFINE ax == overlap_axes(l)
           n == Cardinality(Axes(l))
<1>1. CASE numel(l) = 0
  BY <1>1 DEF is_non_overlapping
<1>2. CASE numel(l) # 0
  <2>1. numel(l) > 0
    <3>1. numel(l) \in Nat
      BY PackedShape DEF Strided, numel
    <3> QED BY <1>2, <3>1
  <2>2. Len(ax) = n /\ n \in Nat \ {0}
    <3>1. Len(ax) = n /\ n \in Nat
      BY AxesOf
    <3>2. Len(ax) > 0
      BY DEF Nested
    <3> QED BY <3>1, <3>2
  <2>3. ASSUME NEW k \in 1 .. n
        PROVE  /\ ax[k].size \in Nat \ {0} /\ ax[k].stride \in Nat \ {0}
               /\ k > 1 => ax[k].stride % ax[k - 1].stride = 0
    <3>1. ax[k].size \in Nat \ {0} /\ ax[k].stride \in Nat
      BY AxesOf
    <3>2. ax[k].stride > 0
      BY <2>2 DEF StridesOf
    <3>3. k > 1 => ax[k].stride % ax[k - 1].stride = 0
      BY <2>2 DEF Nested
    <3> QED BY <3>1, <3>2, <3>3
  <2>4. Grid(ax, ax)
    <3> HIDE DEF ax, n
    <3> QED BY <2>2, <2>3 DEF Grid
  <2>5. \A k \in 1 .. Len(ax) - 1 : ax[k].size <= Period(ax, k)
    BY <2>1, <2>4, PeriodsCover
  <2>6. ASSUME NEW d \in 1 .. rank(l), l.sizes[d] > 1
        PROVE  l.strides[d] > 0 /\ l.strides[d] > Extent(l, d)
    <3>1. d \in Axes(l)
      BY <2>6 DEF Axes
    <3>2. PICK k \in 1 .. n : Axis(l, k) = d
      BY <3>1, AxesAre
    <3>3. ax[k].stride = l.strides[d] /\ l.strides[d] \in Nat
      BY <3>2, AxesOf
    <3>4. Extent(l, d) = Sum(Moves(ax, Tops(ax)), k - 1)
      BY <3>2, ExtentOnAxes
    <3>5. Sum(Moves(ax, Tops(ax)), k - 1) < ax[k].stride
      BY <2>2, <2>4, <2>5, ExtentBelowStride
    <3>6. Extent(l, d) \in Int
      <4>1. Tops(ax) \in [1 .. Len(ax) -> Int]
        BY <2>2, <2>3 DEF Tops
      <4>2. \A j \in 1 .. Len(ax) : ax[j].stride \in Nat
        BY <2>2, <2>3
      <4>3. Moves(ax, Tops(ax)) \in Seq(Int) /\ Len(Moves(ax, Tops(ax))) = n
        BY <2>2, <4>1, <4>2, MovesAre
      <4>4. k - 1 \in 0 .. n
        BY <2>2
      <4> QED BY <3>4, <4>3, <4>4, SumIs
    <3>7. l.strides[d] > 0
      BY <2>2, <2>3, <3>2, <3>3
    <3> HIDE DEF ax
    <3> QED BY <3>3, <3>4, <3>5, <3>6, <3>7
  <2> QED BY <2>6 DEF is_non_overlapping
<1> QED BY <1>1, <1>2

----------------------------------------------------------------------------
(* The offset that the dimensions from d on add.                           *)
Rest(t, d) == Sum(t, Len(t)) - Sum(t, d - 1)

LEMMA RestIs ==
  ASSUME NEW t \in Seq(Int)
  PROVE  /\ Rest(t, Len(t) + 1) = 0 /\ Rest(t, 1) = Sum(t, Len(t))
         /\ \A d \in 1 .. Len(t) : Rest(t, d) = Rest(t, d + 1) + t[d]
         /\ \A d \in 1 .. Len(t) + 1 : Rest(t, d) \in Int
<1>1. PICK n \in Nat : n = Len(t)
  OBVIOUS
<1>2. /\ Sum(t, 0) = 0 /\ \A d \in 1 .. n : Sum(t, d) = Sum(t, d - 1) + t[d] /\ t[d] \in Int
      /\ \A d \in 0 .. n : Sum(t, d) \in Int
  BY <1>1, SumIs, SMTT(60)
<1>3. PICK s \in Int : s = Sum(t, n)
  BY <1>2
<1>4. \A d \in 1 .. n + 1 : Rest(t, d) = s - Sum(t, d - 1) /\ Sum(t, d - 1) \in Int
  <2> SUFFICES ASSUME NEW d \in 1 .. n + 1 PROVE Rest(t, d) = s - Sum(t, d - 1) /\ Sum(t, d - 1) \in Int
    OBVIOUS
  <2>1. d - 1 \in 0 .. n
    OBVIOUS
  <2> QED BY <1>1, <1>2, <1>3, <2>1 DEF Rest
<1>5. ASSUME NEW d \in 1 .. n PROVE Rest(t, d) = Rest(t, d + 1) + t[d]
  <2>1. d \in 1 .. n + 1 /\ d + 1 \in 1 .. n + 1 /\ (d + 1) - 1 = d
    OBVIOUS
  <2>2. Rest(t, d) = s - Sum(t, d - 1) /\ Rest(t, d + 1) = s - Sum(t, d) /\ Sum(t, d - 1) \in Int
    BY <1>4, <2>1
  <2>3. Sum(t, d) = Sum(t, d - 1) + t[d] /\ t[d] \in Int
    BY <1>2
  <2> QED BY <2>2, <2>3
<1>6. Rest(t, n + 1) = 0 /\ Rest(t, 1) = s
  <2>1. n + 1 \in 1 .. n + 1 /\ 1 \in 1 .. n + 1 /\ (n + 1) - 1 = n /\ 1 - 1 = 0
    BY <1>1
  <2>2. Rest(t, n + 1) = s - Sum(t, n) /\ Rest(t, 1) = s - Sum(t, 0)
    BY <1>4, <2>1
  <2> QED BY <1>2, <1>3, <2>2
<1>7. \A d \in 1 .. n + 1 : Rest(t, d) \in Int
  BY <1>4
<1> QED BY <1>1, <1>3, <1>5, <1>6, <1>7

(* Index i, counted in blocks of p elements, within n blocks.              *)
Digit(i, p, n) == (i \div p) % n

LEMMA DigitIs ==
  ASSUME NEW i \in Nat, NEW p \in Nat \ {0}, NEW n \in Nat \ {0}
  PROVE  Digit(i, p, n) \in Nat /\ Digit(i, p, n) \in 0 .. n - 1
<1>1. i \div p \in Nat
  BY Digits
<1>2. Digit(i, p, n) \in 0 .. n - 1
  BY <1>1, Division DEF Digit
<1>3. \A x \in 0 .. n - 1 : x \in Nat
  OBVIOUS
<1> QED BY <1>2, <1>3

\* The quotient and the remainder, of any form m has.
LEMMA Remains ==
  ASSUME NEW m \in Nat, NEW d \in Nat \ {0}, NEW q \in Nat, NEW r \in 0 .. d - 1, m = d * q + r
  PROVE  m \div d = q /\ m % d = r
<1>1. m \div d = q
  BY Quotient
<1>2. m % d \in Int /\ m = d * (m \div d) + (m % d)
  BY Division
<1>3. PICK x \in Int : x = d * q
  OBVIOUS
<1>4. m = x + (m % d) /\ m = x + r
  BY <1>1, <1>2, <1>3
<1> QED BY <1>1, <1>2, <1>3, <1>4

\* A digit of n * s blocks is one of n and, above it, one of s.
LEMMA DigitJoin ==
  ASSUME NEW i \in Nat, NEW p \in Nat \ {0}, NEW n \in Nat \ {0}, NEW s \in Nat \ {0}
  PROVE  Digit(i, p, n * s) = Digit(i, p, n) + n * Digit(i, n * p, s)
<1>1. PICK x \in Nat : x = i \div p
  BY Digits
<1>2. PICK a \in Nat : a = x \div n
  BY Digits
<1>3. PICK b \in 0 .. n - 1 : b = x % n
  BY Division
<1>4. x = n * a + b
  BY <1>2, <1>3, Division
<1>5. PICK c \in Nat : c = a \div s
  BY Digits
<1>6. PICK e \in 0 .. s - 1 : e = a % s
  BY Division
<1>7. a = s * c + e
  BY <1>5, <1>6, Division
<1>8. Digit(i, n * p, s) = e
  <2>1. i \div (n * p) = a
    BY <1>1, <1>2, QuotientOfQuotient, ZenonT(120)
  <2> QED BY <1>6, <2>1 DEF Digit
<1>9. n * s \in Nat \ {0} /\ b + n * e \in 0 .. n * s - 1 /\ x = (n * s) * c + (b + n * e)
  <2>1. PICK k \in Nat : s = e + 1 + k
    <3>1. s - e - 1 \in Nat /\ s = e + 1 + (s - e - 1)
      OBVIOUS
    <3> QED BY <3>1
  <2>2. PICK y \in Nat : y = n * e
    OBVIOUS
  <2>3. PICK z \in Nat : z = n * k
    OBVIOUS
  <2>4. n * (e + 1 + k) = n * e + n + n * k
    OBVIOUS
  <2>5. n * s = y + n + z
    BY <2>1, <2>2, <2>3, <2>4, Zenon
  <2>6. b + y \in 0 .. y + n + z - 1 /\ y + n + z \in Nat \ {0}
    OBVIOUS
  <2>7. n * (s * c + e) = (n * s) * c + n * e
    OBVIOUS
  <2>8. PICK w \in Nat : w = (n * s) * c
    OBVIOUS
  <2>9. n * a = w + y
    BY <1>7, <2>2, <2>7, <2>8, Zenon
  <2>10. x = w + (b + y)
    BY <1>4, <2>9
  <2> QED BY <2>2, <2>5, <2>6, <2>8, <2>10
<1>10. x % (n * s) = b + n * e
  <2>1. PICK m \in Nat \ {0} : m = n * s
    BY <1>9
  <2>2. PICK r \in 0 .. m - 1 : r = b + n * e
    BY <1>9, <2>1
  <2>3. x = m * c + r
    BY <1>9, <2>1, <2>2
  <2> QED BY <2>1, <2>2, <2>3, Remains
<1> QED BY <1>1, <1>3, <1>8, <1>10 DEF Digit

(* The offset that the coordinates of element i from dimension d on give.  *)
OffsetFrom(l, i, d) == Rest(Adds(l, i), d)

LEMMA OffsetFromIs ==
  ASSUME NEW l, Strided(l), numel(l) > 0, NEW i \in Nat
  PROVE  /\ OffsetFrom(l, i, rank(l) + 1) = 0 /\ OffsetFrom(l, i, 1) = ElementOffset(l, i)
         /\ \A d \in 1 .. rank(l) :
              OffsetFrom(l, i, d) =
                OffsetFrom(l, i, d + 1) + Digit(i, Volume(l.sizes, d + 1), l.sizes[d]) * l.strides[d]
         /\ \A d \in 1 .. rank(l) + 1 : OffsetFrom(l, i, d) \in Int
<1>1. PICK t : t = Adds(l, i)
  OBVIOUS
<1>2. PICK n \in Nat : n = rank(l)
  BY Strides
<1>3. /\ t \in Seq(Int) /\ Len(t) = n /\ ElementOffset(l, i) = Sum(t, n)
      /\ \A d \in 1 .. n : Coord(l.sizes, i)[d] = Digit(i, Volume(l.sizes, d + 1), l.sizes[d])
  BY <1>1, <1>2, Coordinates DEF Digit
<1>4. \A d \in 1 .. n : t[d] = Digit(i, Volume(l.sizes, d + 1), l.sizes[d]) * l.strides[d]
  BY <1>1, <1>2, <1>3 DEF Adds
<1>5. /\ Rest(t, n + 1) = 0 /\ Rest(t, 1) = Sum(t, n)
      /\ \A d \in 1 .. n : Rest(t, d) = Rest(t, d + 1) + t[d]
      /\ \A d \in 1 .. n + 1 : Rest(t, d) \in Int
  BY <1>3, RestIs
<1> QED BY <1>1, <1>2, <1>3, <1>4, <1>5 DEF OffsetFrom

LEMMA VolumeMultiple ==
  ASSUME NEW s \in Seq(Nat), NEW k \in 1 .. Len(s) + 1
  PROVE  \A d \in k .. Len(s) + 1 : \E m \in Nat : Volume(s, k) = m * Volume(s, d)
<1>1. PICK n \in Nat : n = Len(s)
  OBVIOUS
<1>2. /\ \A d \in 1 .. n : Volume(s, d) = s[d] * Volume(s, d + 1) /\ s[d] \in Nat
      /\ \A d \in 1 .. n + 1 : Volume(s, d) \in Nat
  <2>1. \A d \in 1 .. n : s[d] \in Nat
    BY <1>1
  <2> QED BY <1>1, <2>1, VolumeIs
<1> DEFINE S == {d \in 0 .. n + 1 : d < k \/ \E m \in Nat : Volume(s, k) = m * Volume(s, d)}
<1>3. 0 \in S
  BY <1>1
<1>4. ASSUME NEW d \in 1 .. n + 1, d - 1 \in S PROVE d \in S
  <2>1. CASE d < k
    BY <2>1
  <2>2. CASE d = k
    <3>1. Volume(s, k) = 1 * Volume(s, d) /\ 1 \in Nat
      BY <1>1, <1>2, <2>2
    <3> QED BY <3>1
  <2>3. CASE d > k
    <3>1. PICK c \in 1 .. n : c = d - 1
      BY <1>1, <2>3
    <3>2. c + 1 = d /\ ~(c < k)
      BY <1>1, <2>3, <3>1
    <3>3. PICK m \in Nat : Volume(s, k) = m * Volume(s, c)
      BY <1>4, <3>1, <3>2
    <3>4. Volume(s, c) = s[c] * Volume(s, d) /\ s[c] \in Nat
      BY <1>2, <3>2
    <3>5. PICK a \in Nat : a = s[c]
      BY <3>4
    <3>6. PICK v \in Nat : v = Volume(s, d)
      BY <1>2
    <3>7. m * (a * v) = (m * a) * v /\ m * a \in Nat
      OBVIOUS
    <3>8. Volume(s, k) = (m * a) * Volume(s, d)
      BY <3>3, <3>4, <3>5, <3>6, <3>7, Zenon
    <3> QED BY <3>7, <3>8
  <2> QED BY <1>1, <2>1, <2>2, <2>3
<1>5. 0 .. n + 1 \subseteq S
  <2>1. n + 1 \in Nat
    OBVIOUS
  <2> HIDE DEF S
  <2> QED BY <1>3, <1>4, <2>1, Induction
<1>6. \A d \in k .. n + 1 : d \in 0 .. n + 1 /\ ~(d < k)
  BY <1>1
<1> QED BY <1>1, <1>5, <1>6

\* An index that is a multiple of what dimensions k on hold is 0 in them.
LEMMA ZeroBelow ==
  ASSUME NEW l, Strided(l), numel(l) > 0, NEW k \in 1 .. rank(l) + 1, NEW y \in Nat,
         NEW i \in Nat, i = y * Volume(l.sizes, k)
  PROVE  OffsetFrom(l, i, k) = 0
<1>1. PICK n \in Nat : n = rank(l)
  BY Strides
<1>2. /\ l.sizes \in Seq(Nat) /\ Len(l.sizes) = n
      /\ \A d \in 1 .. n : l.strides[d] \in Nat
      /\ \A d \in 1 .. n : Volume(l.sizes, d + 1) \in Nat \ {0} /\ l.sizes[d] \in Nat \ {0}
      /\ \A d \in 1 .. n : Volume(l.sizes, d) = l.sizes[d] * Volume(l.sizes, d + 1)
  BY <1>1, Coordinates, Strides, VolumeIs DEF Strided
<1>3. /\ OffsetFrom(l, i, n + 1) = 0
      /\ \A d \in 1 .. n : OffsetFrom(l, i, d) =
           OffsetFrom(l, i, d + 1) + Digit(i, Volume(l.sizes, d + 1), l.sizes[d]) * l.strides[d]
  BY <1>1, OffsetFromIs
<1> DEFINE S == {d \in 1 .. n + 1 : d < k \/ OffsetFrom(l, i, d) = 0}
<1>4. n + 1 \in S
  BY <1>3
<1>5. ASSUME NEW d \in 1 .. n, d + 1 \in S PROVE d \in S
  <2> SUFFICES ASSUME ~(d < k) PROVE OffsetFrom(l, i, d) = 0
    OBVIOUS
  <2>1. PICK v \in Nat \ {0} : v = Volume(l.sizes, d + 1)
    BY <1>2
  <2>2. PICK s \in Nat \ {0} : s = l.sizes[d]
    BY <1>2
  <2>3. PICK m \in Nat : Volume(l.sizes, k) = m * Volume(l.sizes, d)
    <3>1. PICK t \in Seq(Nat) : t = l.sizes
      BY <1>2
    <3>2. k \in 1 .. Len(t) + 1 /\ d \in k .. Len(t) + 1
      BY <1>1, <1>2, <3>1
    <3>3. \E m \in Nat : Volume(t, k) = m * Volume(t, d)
      BY <3>2, VolumeMultiple
    <3> QED BY <3>1, <3>3
  <2>4. i = y * (m * (s * v))
    BY <1>2, <2>1, <2>2, <2>3
  <2>5. PICK q \in Nat : q = y * m
    OBVIOUS
  <2>6. y * (m * (s * v)) = v * (s * (y * m)) + 0 /\ s * (y * m) = s * (y * m) + 0
    <3>1. y * (m * (s * v)) = v * (s * (y * m))
      OBVIOUS
    <3>2. v * (s * (y * m)) \in Nat /\ s * (y * m) \in Nat
      OBVIOUS
    <3> QED BY <3>1, <3>2
  <2>7. s * q \in Nat /\ i = v * (s * q) + 0 /\ s * q = s * q + 0
    BY <2>4, <2>5, <2>6
  <2>8. i \div v = s * q
    <3>1. 0 \in 0 .. v - 1
      OBVIOUS
    <3> QED BY <2>7, <3>1, Remains
  <2>9. (s * q) % s = 0
    <3>1. 0 \in 0 .. s - 1
      OBVIOUS
    <3> QED BY <2>7, <3>1, Remains
  <2>10. Digit(i, Volume(l.sizes, d + 1), l.sizes[d]) = 0
    BY <2>1, <2>2, <2>8, <2>9 DEF Digit
  <2>11. OffsetFrom(l, i, d + 1) = 0
    BY <1>5
  <2>12. 0 * l.strides[d] = 0
    BY <1>2, SMTT(60)
  <2> QED BY <1>3, <2>10, <2>11, <2>12
<1>6. 1 .. n + 1 \subseteq S
  <2> HIDE DEF S
  <2> QED BY <1>4, <1>5, Descent
<1> QED BY <1>1, <1>6

\* An index below what dimensions k on hold is 0 in the others.
LEMMA ZeroAbove ==
  ASSUME NEW l, Strided(l), numel(l) > 0, NEW k \in 1 .. rank(l) + 1,
         NEW i \in Nat, i < Volume(l.sizes, k)
  PROVE  ElementOffset(l, i) = OffsetFrom(l, i, k)
<1>1. PICK n \in Nat : n = rank(l)
  BY Strides
<1>2. /\ l.sizes \in Seq(Nat) /\ Len(l.sizes) = n
      /\ \A d \in 1 .. n : l.strides[d] \in Nat
      /\ \A d \in 1 .. n : Volume(l.sizes, d + 1) \in Nat \ {0} /\ l.sizes[d] \in Nat \ {0}
      /\ \A d \in 1 .. n + 1 : Volume(l.sizes, d) \in Nat
  BY <1>1, Coordinates, Strides, VolumeIs DEF Strided
<1>3. /\ OffsetFrom(l, i, 1) = ElementOffset(l, i)
      /\ \A d \in 1 .. n : OffsetFrom(l, i, d) =
           OffsetFrom(l, i, d + 1) + Digit(i, Volume(l.sizes, d + 1), l.sizes[d]) * l.strides[d]
      /\ \A d \in 1 .. n + 1 : OffsetFrom(l, i, d) \in Int
  BY <1>1, OffsetFromIs
<1> DEFINE S == {d \in 0 .. n + 1 : d = 0 \/ d > k \/ OffsetFrom(l, i, d) = ElementOffset(l, i)}
<1>4. 0 \in S
  OBVIOUS
<1>5. ASSUME NEW d \in 1 .. n + 1, d - 1 \in S PROVE d \in S
  <2>1. CASE d = 1 \/ d > k
    BY <1>3, <2>1
  <2>2. CASE d # 1 /\ ~(d > k)
    <3>1. PICK c \in 1 .. n : c = d - 1
      BY <2>2
    <3>2. c + 1 = d /\ c # 0 /\ ~(c > k)
      BY <1>1, <2>2, <3>1
    <3>3. OffsetFrom(l, i, c) = ElementOffset(l, i)
      BY <1>5, <3>1, <3>2
    <3>4. PICK v \in Nat \ {0} : v = Volume(l.sizes, d)
      BY <1>2, <3>2
    <3>5. PICK s \in Nat \ {0} : s = l.sizes[c]
      BY <1>2
    <3>6. i < v
      <4>1. PICK m \in Nat : Volume(l.sizes, d) = m * Volume(l.sizes, k)
        <5>1. k \in d .. n + 1
          BY <1>1, <2>2
        <5> QED BY <1>2, <5>1, VolumeMultiple
      <4>2. PICK w \in Nat : w = Volume(l.sizes, k)
        BY <1>1, <1>2
      <4>3. v = m * w /\ i < w
        BY <3>4, <4>1, <4>2
      <4>4. m # 0
        BY <4>2, <4>3
      <4>5. PICK j \in Nat : m = j + 1
        <5>1. m - 1 \in Nat /\ m = (m - 1) + 1
          BY <4>4
        <5> QED BY <5>1
      <4>6. (j + 1) * w = j * w + w /\ j * w \in Nat
        OBVIOUS
      <4>7. PICK x \in Nat : x = j * w
        BY <4>6
      <4>8. v = x + w
        BY <4>3, <4>5, <4>6, <4>7, Zenon
      <4> QED BY <4>3, <4>8
    <3>7. i \div v = 0
      <4>1. i \in 0 .. v - 1 /\ 0 \in Nat /\ i = v * 0 + i
        BY <3>6
      <4> QED BY <4>1, Remains
    <3>8. 0 % s = 0
      <4>1. 0 \in 0 .. s - 1 /\ 0 \in Nat /\ 0 = s * 0 + 0
        OBVIOUS
      <4> QED BY <4>1, Remains
    <3>9. Digit(i, Volume(l.sizes, c + 1), l.sizes[c]) = 0
      BY <3>2, <3>4, <3>5, <3>7, <3>8 DEF Digit
    <3>10. OffsetFrom(l, i, c) = OffsetFrom(l, i, d)
      <4>1. 0 * l.strides[c] = 0
        <5>1. PICK x \in Nat : x = l.strides[c]
          BY <1>2
        <5>2. 0 * x = 0
          OBVIOUS
        <5> QED BY <5>1, <5>2
      <4>2. OffsetFrom(l, i, c) = OffsetFrom(l, i, d) + 0
        BY <1>3, <3>2, <3>9, <4>1
      <4> QED BY <1>3, <4>2
    <3> QED BY <3>3, <3>10
  <2> QED BY <2>1, <2>2
<1>6. 0 .. n + 1 \subseteq S
  <2>1. n + 1 \in Nat
    OBVIOUS
  <2> HIDE DEF S
  <2> QED BY <1>4, <1>5, <2>1, Induction
<1>7. k \in 0 .. n + 1 /\ k # 0 /\ ~(k > k)
  BY <1>1
<1> QED BY <1>6, <1>7

\* One step of dimension k alone.
LEMMA OneStep ==
  ASSUME NEW l, Strided(l), numel(l) > 0, NEW k \in 1 .. rank(l), l.sizes[k] > 1,
         NEW i \in Nat, i = Volume(l.sizes, k + 1)
  PROVE  ElementOffset(l, i) = l.strides[k] /\ i < numel(l)
<1>1. PICK n \in Nat : n = rank(l)
  BY Strides
<1>2. PICK v \in Nat \ {0} : v = Volume(l.sizes, k + 1)
  BY Coordinates
<1>3. PICK s \in Nat \ {0} : s = l.sizes[k]
  BY Coordinates
<1>4. PICK t \in Nat : t = l.strides[k]
  BY Strides
<1>5. l.sizes \in Seq(Nat) /\ Len(l.sizes) = n /\ k \in 1 .. n
  BY <1>1, Strides DEF Strided
<1>6. Volume(l.sizes, k) = s * v
  BY <1>2, <1>3, <1>5, VolumeIs
<1>7. i < s * v
  <2>1. PICK j \in Nat : s = j + 2
    <3>1. s - 2 \in Nat /\ s = (s - 2) + 2
      BY <1>3
    <3> QED BY <3>1
  <2>2. (j + 2) * v = j * v + v + v
    OBVIOUS
  <2>3. PICK x \in Nat : x = j * v
    OBVIOUS
  <2>4. s * v = x + v + v
    BY <2>1, <2>2, <2>3, Zenon
  <2>5. v < x + v + v
    OBVIOUS
  <2> QED BY <1>2, <2>4, <2>5, Zenon
<1>8. ElementOffset(l, i) = OffsetFrom(l, i, k)
  <2>1. k \in 1 .. rank(l) + 1 /\ i < Volume(l.sizes, k)
    BY <1>1, <1>5, <1>6, <1>7
  <2> QED BY <2>1, ZeroAbove
<1>9. OffsetFrom(l, i, k + 1) = 0
  <2>1. k + 1 \in 1 .. rank(l) + 1 /\ 1 \in Nat /\ i = 1 * Volume(l.sizes, k + 1)
    BY <1>1, <1>2, <1>5
  <2> QED BY <2>1, ZeroBelow
<1>10. Digit(i, v, s) = 1
  <2>1. v \div v = 1
    <3>1. 0 \in 0 .. v - 1 /\ 1 \in Nat /\ v = v * 1 + 0
      OBVIOUS
    <3> QED BY <3>1, Remains
  <2>2. 1 % s = 1
    <3>1. 1 \in 0 .. s - 1 /\ 0 \in Nat /\ 1 = s * 0 + 1
      BY <1>3
    <3> QED BY <3>1, Remains
  <2> QED BY <1>2, <2>1, <2>2 DEF Digit
<1>11. ElementOffset(l, i) = t
  <2>1. OffsetFrom(l, i, k) = 0 + 1 * t
    BY <1>2, <1>3, <1>4, <1>9, <1>10, OffsetFromIs
  <2> QED BY <1>8, <2>1
<1>12. i < numel(l)
  <2>1. PICK m \in Nat : Volume(l.sizes, 1) = m * Volume(l.sizes, k)
    <3>1. PICK z \in Seq(Nat) : z = l.sizes
      BY <1>5
    <3>2. 1 \in 1 .. Len(z) + 1 /\ k \in 1 .. Len(z) + 1
      BY <1>5, <3>1
    <3>3. \E m \in Nat : Volume(z, 1) = m * Volume(z, k)
      BY <3>2, VolumeMultiple
    <3> QED BY <3>1, <3>3
  <2>2. PICK w \in Nat : w = s * v
    OBVIOUS
  <2>3. numel(l) = m * w
    BY <1>6, <2>1, <2>2 DEF numel, Product
  <2>4. m # 0
    BY <2>2, <2>3
  <2>5. PICK j \in Nat : m = j + 1
    <3>1. m - 1 \in Nat /\ m = (m - 1) + 1
      BY <2>4
    <3> QED BY <3>1
  <2>6. (j + 1) * w = j * w + w /\ j * w \in Nat
    OBVIOUS
  <2>7. PICK x \in Nat : x = j * w
    BY <2>6
  <2>8. numel(l) = x + w
    BY <2>3, <2>5, <2>6, <2>7, Zenon
  <2> QED BY <1>7, <2>2, <2>8
<1> QED BY <1>4, <1>11, <1>12

LEMMA DigitOf ==
  ASSUME NEW a \in Nat, NEW p \in Nat \ {0}, NEW n \in Nat \ {0}
  PROVE  /\ a < n => Digit(a * p, p, n) = a
         /\ a = n => Digit(a * p, p, n) = 0
<1>1. PICK i \in Nat : i = a * p
  OBVIOUS
<1>2. i \div p = a
  <2>1. 0 \in 0 .. p - 1
    OBVIOUS
  <2>2. i = p * a + 0
    <3>1. p * a = a * p
      OBVIOUS
    <3> QED BY <1>1, <3>1
  <2> QED BY <2>1, <2>2, Remains
<1>3. ASSUME a < n PROVE a % n = a
  <2>1. a \in 0 .. n - 1 /\ 0 \in Nat /\ a = n * 0 + a
    BY <1>3
  <2> QED BY <2>1, Remains
<1>4. n % n = 0
  <2>1. 0 \in 0 .. n - 1 /\ 1 \in Nat /\ n = n * 1 + 0
    OBVIOUS
  <2> QED BY <2>1, Remains
<1> QED BY <1>1, <1>2, <1>3, <1>4 DEF Digit

\* What dimensions k on hold divides everything.
LEMMA VolumeBound ==
  ASSUME NEW s \in Seq(Nat), Product(s) > 0, NEW d \in 1 .. Len(s) + 1
  PROVE  Volume(s, d) \in Nat \ {0} /\ Volume(s, d) <= Product(s)
<1>1. Volume(s, d) \in Nat /\ Product(s) = Volume(s, 1) /\ 1 \in 1 .. Len(s) + 1
  BY VolumeIs DEF Product
<1>2. PICK m \in Nat : Volume(s, 1) = m * Volume(s, d)
  <2>1. d \in 1 .. Len(s) + 1
    OBVIOUS
  <2> QED BY <1>1, <2>1, VolumeMultiple
<1>3. PICK w \in Nat : w = Volume(s, d)
  BY <1>1
<1>4. m * w > 0
  BY <1>1, <1>2, <1>3
<1>5. m # 0 /\ w # 0
  BY <1>4
<1>6. PICK j \in Nat : m = j + 1
  <2>1. m - 1 \in Nat /\ m = (m - 1) + 1
    BY <1>5
  <2> QED BY <2>1
<1>7. (j + 1) * w = j * w + w
  OBVIOUS
<1>8. PICK x \in Nat : x = j * w
  OBVIOUS
<1>9. Product(s) = x + w
  BY <1>1, <1>2, <1>3, <1>6, <1>7, <1>8, Zenon
<1> QED BY <1>3, <1>5, <1>9
=============================================================================
