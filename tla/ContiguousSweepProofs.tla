------------------------ MODULE ContiguousSweepProofs ------------------------
(***************************************************************************)
(* For every register length, alignment, packet size, grain, address and   *)
(* number of threads, a sweep processes each element exactly once, inside  *)
(* the tensor and aligned where it says so.                                *)
(***************************************************************************)
EXTENDS ContiguousSweep, TLAPS

\* y is whole steps above x.
Whole(x, y, step) == \E k \in Nat : y = x + k * step
AlignedAt(i) == ~odd /\ Whole(0, base + i, Align)

LoopInv(t) ==
  /\ t.i <= t.limit /\ t.limit <= t.end /\ t.end <= n
  /\ Whole(t.i, t.limit, Step(t.loop))
  /\ t.loop = "peel" => t.limit = align_start /\ t.end = n
  /\ t.loop \in {"aligned blocks", "aligned"} =>
       /\ t.end = n
       /\ Whole(t.limit, align_end, Length)
       /\ t.i = n \/ AlignedAt(t.i)
  /\ t.loop = "blocks" => t.begin <= t.end /\ Whole(t.limit, VectorsEnd(t), Length)
  /\ t.loop = "vectors" => t.begin <= t.end
  /\ t.loop = "scalars" => t.limit = t.end
  /\ pc = "parallel" => t.loop \in {"blocks", "vectors", "scalars"}

Active(w) == task[w].loop # "idle"

Running ==
  \A w \in Threads : Active(w) =>
    /\ LoopInv(task[w])
    /\ task[w].end <= next
    /\ pc = "serial" => w = "main" /\ task[w].end = n
Apart ==
  \A w, v \in Threads : w # v /\ Active(w) /\ Active(v) =>
    task[w].end <= task[v].i \/ task[v].end <= task[w].i
Phase ==
  /\ next <= n
  /\ pc = "serial" => next = n /\ Active("main")
  /\ pc = "parallel" => op = "run"
  /\ pc = "done" => next = n /\ \A w \in Threads : ~Active(w)

\* Element j is still to be processed.
Left(j) == next <= j \/ \E w \in Threads : Active(w) /\ task[w].i <= j /\ j < task[w].end
Counted == \A j \in Elements : count[j] = IF Left(j) THEN 0 ELSE 1
Placed ==
  \A j \in Elements :
    /\ count[j] = 1 => slot[j] >= 0
    /\ slot[j] > 0 => /\ pc = "serial"
                      /\ task["main"].loop \in {"aligned blocks", "aligned", "blocks", "vectors"}

IInv == TypeOK /\ Running /\ Apart /\ Phase /\ Counted /\ Placed
----------------------------------------------------------------------------
(* Division.                                                               *)
LEMMA Division ==
  ASSUME NEW x \in Nat, NEW s \in Nat \ {0}
  PROVE  /\ x \div s \in Nat
         /\ RoundDown(x, s) = (x \div s) * s
         /\ RoundDown(x, s) \in Nat
         /\ RoundDown(x, s) <= x
         /\ x < RoundDown(x, s) + s
BY SMT DEF RoundDown

LEMMA LaneBound ==
  ASSUME NEW x \in Nat, NEW s \in Nat \ {0}, NEW p \in Nat \ {0}, x < s * p
  PROVE  x \div s \in 0 .. p - 1
BY SMT

LEMMA WholeDivides ==
  ASSUME NEW x \in Nat, NEW s \in Nat \ {0}, Whole(0, x, s)
  PROVE  x % s = 0
<1>1. PICK k \in Nat : x = k * s
  BY SMT DEF Whole
<1>2. (k * s) % s = 0
  BY SMT
<1> QED
  BY <1>1, <1>2

LEMMA WholeFromZero ==
  ASSUME NEW x \in Nat, NEW s \in Nat \ {0}, NEW k \in Nat, x = k * s
  PROVE  Whole(0, x, s)
<1>1. x = 0 + k * s
  BY SMT
<1> QED
  BY <1>1 DEF Whole

\* One step of a loop that is whole steps below its limit.
LEMMA WholeStep ==
  ASSUME NEW x \in Nat, NEW y \in Nat, NEW s \in Nat \ {0}, Whole(x, y, s), x < y
  PROVE  x + s <= y /\ Whole(x + s, y, s)
<1>1. PICK k \in Nat : y = x + k * s
  BY DEF Whole
<1>2. k # 0
  BY <1>1, SMT
<1>3. k - 1 \in Nat /\ y = (x + s) + (k - 1) * s /\ (k - 1) * s >= 0
  BY <1>1, <1>2, SMT
<1> QED
  BY <1>3, SMT DEF Whole

LEMMA Constants ==
  /\ Length \in Nat \ {0} /\ Align \in Nat \ {0} /\ Packet \in Nat \ {0}
  /\ GrainSize \in Nat \ {0}
  /\ BlockSize \in Nat \ {0} /\ BlockSize = Length * Packet /\ Length <= BlockSize
  /\ \A loop \in Loops \ {"idle"} : Step(loop) \in Nat \ {0} /\ Step(loop) <= BlockSize
  /\ "main" \in Threads
<1>1. Length \in Nat \ {0} /\ Align \in Nat \ {0} /\ Packet \in Nat \ {0} /\ GrainSize \in Nat \ {0}
  BY LanesAssumption
<1>2. BlockSize \in Nat \ {0} /\ BlockSize = Length * Packet /\ Length <= BlockSize
  BY <1>1, SMT DEF BlockSize
<1>3. ASSUME NEW loop \in Loops \ {"idle"}
      PROVE  Step(loop) \in Nat \ {0} /\ Step(loop) <= BlockSize
  BY <1>1, <1>2, SMT DEF Step
<1> QED
  BY <1>1, <1>2, <1>3 DEF Threads

\* Whole blocks of a number of whole registers leave whole registers.
LEMMA BlocksOfRegisters ==
  ASSUME NEW x \in Nat, NEW k \in Nat, x = k * Length
  PROVE  \E j \in Nat : x = RoundDown(x, BlockSize) + j * Length
<1> DEFINE m == x \div BlockSize
<1>1. m \in Nat /\ RoundDown(x, BlockSize) = m * BlockSize /\ RoundDown(x, BlockSize) <= x
  BY Constants, Division
<1>2. m * BlockSize = (m * Packet) * Length
  <2> HIDE DEF m
  <2> QED
    BY <1>1, Constants, SMT
<1> HIDE DEF m
<1>3. m * Packet \in Nat /\ (m * Packet) * Length <= k * Length
  BY <1>1, <1>2, Constants, SMT
<1>4. m * Packet <= k
  BY <1>3, Constants, SMT
<1>5. k - m * Packet \in Nat /\ x = RoundDown(x, BlockSize) + (k - m * Packet) * Length
  BY <1>1, <1>2, <1>3, <1>4, Constants, SMT
<1> QED
  BY <1>5

\* Rounded down to blocks and to registers, a number differs by registers.
LEMMA BlocksOfRange ==
  ASSUME NEW x \in Nat
  PROVE  \E j \in Nat : RoundDown(x, Length) = RoundDown(x, BlockSize) + j * Length
<1> DEFINE m == x \div BlockSize
           k == x \div Length
<1>1. m \in Nat /\ RoundDown(x, BlockSize) = m * BlockSize /\ RoundDown(x, BlockSize) <= x
  BY Constants, Division
<1>2. k \in Nat /\ RoundDown(x, Length) = k * Length /\ x < RoundDown(x, Length) + Length
  BY Constants, Division
<1> HIDE DEF m, k
<1>3. m * BlockSize = (m * Packet) * Length
  BY <1>1, Constants, SMT
<1>4. m * Packet \in Nat /\ (m * Packet) * Length < (k + 1) * Length
  BY <1>1, <1>2, <1>3, Constants, SMT
<1>5. m * Packet < k + 1
  BY <1>2, <1>4, Constants, SMT
<1>6. /\ k - m * Packet \in Nat
      /\ RoundDown(x, Length) = RoundDown(x, BlockSize) + (k - m * Packet) * Length
  BY <1>1, <1>2, <1>3, <1>4, <1>5, Constants, SMT
<1> QED
  BY <1>6

\* An aligned address stays aligned after whole registers.
LEMMA AlignedStep ==
  ASSUME NEW x \in Nat, NEW p \in Nat, Whole(0, x, Align)
  PROVE  Whole(0, x + p * Length, Align)
<1>1. PICK k \in Nat : x = k * Align
  BY Constants, SMT DEF Whole
<1>2. PICK q \in Nat : Length = q * Align
  <2>1. Length = (Length \div Align) * Align /\ Length \div Align \in Nat
    BY LanesAssumption, SMT
  <2> QED
    BY <2>1
<1>3. x + p * Length = (k + p * q) * Align /\ k + p * q \in Nat
  BY <1>1, <1>2, Constants, SMT
<1> QED
  BY <1>3, Constants, WholeFromZero

\* The cached peeling bounds.
LEMMA PeelingBounds ==
  ASSUME n \in Nat, n < SizeMod, base \in Nat, odd \in BOOLEAN
  PROVE  /\ align_start \in Nat /\ align_end \in Nat
         /\ align_start <= align_end /\ align_end <= n
         /\ Whole(align_start, align_end, Length)
         /\ align_start = n \/ AlignedAt(align_start)
<1> DEFINE first == (Align - (base % Align)) % Align
<1>1. first \in Nat /\ (base + first) % Align = 0
  <2>1. base % Align \in 0 .. Align - 1 /\ base = (base \div Align) * Align + (base % Align)
    BY Constants, SMT
  <2>2. CASE base % Align = 0
    BY <2>1, <2>2, Constants, SMT
  <2>3. CASE base % Align # 0
    <3>1. first = Align - (base % Align)
      BY <2>1, <2>3, Constants, SMT
    <3>2. base + first = ((base \div Align) + 1) * Align /\ base \div Align \in Nat
      BY <2>1, <3>1, Constants, SMT
    <3>3. (((base \div Align) + 1) * Align) % Align = 0
      BY <3>2, Constants, SMT
    <3> QED
      BY <2>1, <3>1, <3>2, <3>3, Constants, SMT
  <2> QED
    BY <2>2, <2>3
<1>2. Whole(0, base + first, Align)
  <2>1. base + first = ((base + first) \div Align) * Align /\ (base + first) \div Align \in Nat
    BY <1>1, Constants, SMT
  <2>2. base + first \in Nat
    BY <1>1
  <2> HIDE DEF first
  <2> QED
    BY <2>1, <2>2, Constants, WholeFromZero
<1>3. align_start \in Nat /\ align_start <= n /\ (align_start = n \/ (~odd /\ align_start = first))
  BY <1>1 DEF align_start
<1>4. minus(n, align_start) = n - align_start /\ n - align_start \in Nat
  BY <1>3 DEF minus
<1>5. /\ RoundDown(n - align_start, Length) \in Nat
      /\ RoundDown(n - align_start, Length) <= n - align_start
      /\ RoundDown(n - align_start, Length) = ((n - align_start) \div Length) * Length
      /\ (n - align_start) \div Length \in Nat
  BY <1>4, Constants, Division
<1>6. align_end = align_start + RoundDown(n - align_start, Length)
  BY <1>4 DEF align_end
<1>7. Whole(align_start, align_end, Length)
  BY <1>5, <1>6 DEF Whole
<1> QED
  BY <1>2, <1>3, <1>5, <1>6, <1>7 DEF AlignedAt
----------------------------------------------------------------------------
(* Every loop is entered with its invariant.                               *)
LEMMA Minus ==
  ASSUME NEW x \in Nat, NEW y \in Nat, y <= x
  PROVE  minus(x, y) = x - y /\ x - y \in Nat
BY DEF minus

LEMMA SectionBounds ==
  ASSUME NEW t \in TaskType, t.begin <= t.end
  PROVE  /\ VectorsEnd(t) \in Nat /\ VectorsEnd(t) <= t.end
         /\ Whole(t.begin, VectorsEnd(t), Length)
         /\ BlocksEnd(t) \in Nat /\ BlocksEnd(t) <= t.end
         /\ Whole(t.begin, BlocksEnd(t), BlockSize)
         /\ Whole(BlocksEnd(t), VectorsEnd(t), Length)
<1> DEFINE x == t.end - t.begin
           v == RoundDown(x, Length)
           k == x \div Length
<1>1. t.begin \in Nat /\ t.end \in Nat /\ x \in Nat /\ minus(t.end, t.begin) = x
  BY Minus DEF TaskType
<1>2. v \in Nat /\ v <= x /\ v = k * Length /\ k \in Nat
  BY <1>1, Constants, Division
<1>3. VectorsEnd(t) = t.begin + v
  BY <1>1 DEF VectorsEnd
<1>4. minus(VectorsEnd(t), t.begin) = v
  BY <1>1, <1>2, <1>3, Minus, SMT
<1>5. VectorsEnd(t) \in Nat /\ VectorsEnd(t) <= t.end /\ Whole(t.begin, VectorsEnd(t), Length)
  BY <1>1, <1>2, <1>3 DEF Whole
<1>6. \A y \in Nat : /\ RoundDown(y, BlockSize) \in Nat /\ RoundDown(y, BlockSize) <= y
                     /\ \E j \in Nat : RoundDown(y, BlockSize) = j * BlockSize
  BY Constants, Division
<1>7. PICK j \in Nat : v = RoundDown(v, BlockSize) + j * Length
  <2> HIDE DEF v, k
  <2> QED
    BY ONLY <1>2, Constants, BlocksOfRegisters
<1>8. PICK m \in Nat : v = RoundDown(x, BlockSize) + m * Length
  <2>1. v = RoundDown(x, Length)
    OBVIOUS
  <2> HIDE DEF x, v
  <2> QED
    BY ONLY <1>1, <2>1, Constants, BlocksOfRange
<1>9. CASE pc = "parallel"
  <2>1. BlocksEnd(t) = t.begin + RoundDown(x, BlockSize)
    BY <1>1, <1>9 DEF BlocksEnd
  <2>2. VectorsEnd(t) = BlocksEnd(t) + m * Length
    BY <1>1, <1>3, <1>6, <1>8, <2>1, Constants, SMT
  <2> HIDE DEF x, v
  <2> QED
    BY <1>1, <1>5, <1>6, <2>1, <2>2, x = t.end - t.begin DEF Whole, x
<1>10. CASE pc # "parallel"
  <2>1. BlocksEnd(t) = t.begin + RoundDown(v, BlockSize)
    BY <1>4, <1>10 DEF BlocksEnd
  <2>2. VectorsEnd(t) = BlocksEnd(t) + j * Length
    BY <1>1, <1>2, <1>3, <1>6, <1>7, <2>1, Constants, SMT
  <2>3. RoundDown(v, BlockSize) \in Nat /\ RoundDown(v, BlockSize) <= x
    BY <1>1, <1>2, <1>6, SMT
  <2> HIDE DEF v
  <2> QED
    BY <1>1, <1>2, <1>5, <1>6, <2>1, <2>2, <2>3 DEF Whole
<1> QED
  BY <1>9, <1>10

LEMMA UnalignedInv ==
  ASSUME NEW t \in TaskType, t.i <= t.end, t.end <= n, n \in Nat
  PROVE  /\ Unaligned(t) \in TaskType
         /\ Unaligned(t).i = t.i /\ Unaligned(t).end = t.end
         /\ Unaligned(t).loop \in {"blocks", "vectors"}
         /\ LoopInv(Unaligned(t))
<1> DEFINE u == [t EXCEPT !.begin = t.i]
<1>1. u \in TaskType /\ u.begin = t.i /\ u.i = t.i /\ u.end = t.end /\ u.begin <= u.end
  BY DEF TaskType
<1>2. /\ VectorsEnd(u) \in Nat /\ VectorsEnd(u) <= u.end
      /\ Whole(u.begin, VectorsEnd(u), Length)
      /\ BlocksEnd(u) \in Nat /\ BlocksEnd(u) <= u.end
      /\ Whole(u.begin, BlocksEnd(u), BlockSize)
      /\ Whole(BlocksEnd(u), VectorsEnd(u), Length)
  BY <1>1, SectionBounds
<1>3. u.begin <= VectorsEnd(u) /\ u.begin <= BlocksEnd(u)
  BY <1>1, <1>2, Constants, SMT DEF Whole, TaskType
<1>4. CASE op = "fill"
  <2> DEFINE r == Enter(u, "vectors", VectorsEnd(u))
  <2>1. Unaligned(t) = r
    BY <1>4 DEF Unaligned
  <2>2. /\ r \in TaskType /\ r.i = t.i /\ r.end = t.end /\ r.begin = t.i
        /\ r.loop = "vectors" /\ r.limit = VectorsEnd(u)
    BY <1>1, <1>2 DEF Enter, TaskType, Loops
  <2>3. LoopInv(r)
    <3> HIDE DEF r, u
    <3> QED
      BY <1>1, <1>2, <1>3, <2>2 DEF LoopInv, Step
  <2> QED
    BY <2>1, <2>2, <2>3
<1>5. CASE op # "fill"
  <2> DEFINE r == Enter(u, "blocks", BlocksEnd(u))
  <2>1. Unaligned(t) = r
    BY <1>5 DEF Unaligned
  <2>2. /\ r \in TaskType /\ r.i = t.i /\ r.end = t.end /\ r.begin = t.i
        /\ r.loop = "blocks" /\ r.limit = BlocksEnd(u) /\ VectorsEnd(r) = VectorsEnd(u)
    BY <1>1, <1>2 DEF Enter, TaskType, Loops, VectorsEnd
  <2>3. LoopInv(r)
    <3> HIDE DEF r, u
    <3> QED
      BY <1>1, <1>2, <1>3, <2>2 DEF LoopInv, Step
  <2> QED
    BY <2>1, <2>2, <2>3
<1> QED
  BY <1>4, <1>5

SimdLoops == {"aligned blocks", "aligned", "blocks", "vectors"}

LEMMA AfterPeelInv ==
  ASSUME NEW t \in TaskType, t.loop = "peel", t.i = t.limit, LoopInv(t),
         n \in Nat, n < SizeMod, base \in Nat, odd \in BOOLEAN
  PROVE  LET u == AfterPeel(t)
         IN  /\ u \in TaskType /\ u.i = t.i /\ u.end = t.end
             /\ u.loop \in SimdLoops /\ LoopInv(u)
<1> DEFINE u == AfterPeel(t)
           x == align_end - t.i
           r == RoundDown(x, BlockSize)
<1>1. /\ align_start \in Nat /\ align_end \in Nat
      /\ align_start <= align_end /\ align_end <= n
      /\ Whole(align_start, align_end, Length)
      /\ align_start = n \/ AlignedAt(align_start)
  BY PeelingBounds
<1>2. /\ t.i = align_start /\ t.end = n /\ pc # "parallel"
      /\ t.i \in Nat
      /\ t.i = n \/ AlignedAt(t.i)
      /\ x \in Nat /\ minus(align_end, t.i) = x /\ align_end = t.i + x
  <2>1. t.i = align_start /\ t.end = n /\ pc # "parallel"
    BY DEF LoopInv
  <2> QED
    BY <1>1, <2>1, Minus
<1>3. CASE op = "fill"
  <2>1. /\ u \in TaskType /\ u.i = t.i /\ u.end = t.end
        /\ u.loop = "aligned" /\ u.limit = align_end
    BY <1>1, <1>3 DEF AfterPeel, Enter, TaskType, Loops
  <2>2. Whole(align_end, align_end, Length)
    <3>1. align_end = align_end + 0 * Length
      BY <1>1, Constants, SMT
    <3> QED
      BY <3>1 DEF Whole
  <2>3. LoopInv(u)
    <3> HIDE DEF u
    <3> QED
      BY <1>1, <1>2, <2>1, <2>2 DEF LoopInv, Step
  <2> QED
    BY <2>1, <2>3 DEF SimdLoops
<1>4. CASE op # "fill"
  <2>1. /\ r \in Nat /\ r <= x /\ r = (x \div BlockSize) * BlockSize
        /\ x \div BlockSize \in Nat
    BY <1>2, Constants, Division
  <2>2. PICK k \in Nat : align_end = align_start + k * Length
    BY <1>1 DEF Whole
  <2>3. x = k * Length
    BY <1>1, <1>2, <2>2, Constants, SMT
  <2>4. PICK j \in Nat : x = r + j * Length
    BY <1>2, <2>3, BlocksOfRegisters
  <2>5. u = Enter(t, "aligned blocks", t.i + r)
    BY <1>2, <1>4 DEF AfterPeel
  <2>6. /\ u \in TaskType /\ u.i = t.i /\ u.end = t.end
        /\ u.loop = "aligned blocks" /\ u.limit = t.i + r
    <3>1. t.i + r \in Nat
      BY <1>2, <2>1 DEF TaskType
    <3> HIDE DEF u, r
    <3> QED
      BY <2>5, <3>1 DEF Enter, TaskType, Loops
  <2>7. t.i + r <= align_end /\ align_end = (t.i + r) + j * Length
    <3> HIDE DEF x, r
    <3> QED
      BY <1>2, <2>1, <2>4, Constants, SMT DEF TaskType
  <2>8. Whole(t.i, t.i + r, BlockSize) /\ Whole(t.i + r, align_end, Length)
    BY <2>1, <2>7 DEF Whole
  <2>9. LoopInv(u)
    <3> HIDE DEF u, r, x
    <3>1. Step(u.loop) = BlockSize
      BY <2>6 DEF Step
    <3>2. Whole(u.i, u.limit, Step(u.loop)) /\ Whole(u.limit, align_end, Length)
      BY <2>6, <2>8, <3>1, Zenon
    <3>3. u.i <= u.limit /\ u.limit <= u.end /\ u.end <= n
      <4>1. t.i <= t.i + r /\ t.i + r <= n
        BY <1>1, <1>2, <2>1, <2>7, SMT DEF TaskType
      <4>2. n <= n
        OBVIOUS
      <4> QED
        BY <1>2, <2>6, <4>1, <4>2, Zenon
    <3>4. u.loop \in {"aligned blocks", "aligned"} =>
            u.end = n /\ Whole(u.limit, align_end, Length) /\ (u.i = n \/ AlignedAt(u.i))
      BY <1>2, <2>6, <3>2
    <3> QED
      BY <1>2, <2>6, <3>2, <3>3, <3>4 DEF LoopInv
  <2> QED
    BY <2>6, <2>9 DEF SimdLoops
<1> QED
  BY <1>3, <1>4

LEMMA AfterInv ==
  ASSUME NEW t \in TaskType, t.loop # "idle", t.i >= t.limit, LoopInv(t),
         n \in Nat, n < SizeMod, base \in Nat, odd \in BOOLEAN
  PROVE  LET u == After(t)
         IN  /\ t.i = t.limit
             /\ t.loop = "scalars" => u = Idle /\ t.i = t.end
             /\ t.loop # "scalars" =>
                  /\ u \in TaskType /\ u.loop # "idle" /\ u.i = t.i /\ u.end = t.end
                  /\ LoopInv(u)
             /\ t.loop \in SimdLoops \ {"vectors"} => u.loop \in SimdLoops
<1> DEFINE u == After(t)
<1>1. /\ t.i \in Nat /\ t.limit \in Nat /\ t.end \in Nat /\ t.begin \in Nat
      /\ t.i = t.limit /\ t.i <= t.end /\ t.end <= n /\ t.loop \in Loops
  <2>1. t.i \in Nat /\ t.limit \in Nat /\ t.end \in Nat /\ t.begin \in Nat /\ t.loop \in Loops
    BY DEF TaskType
  <2>2. t.i <= t.limit /\ t.limit <= t.end /\ t.end <= n
    BY DEF LoopInv
  <2> QED
    BY <2>1, <2>2
<1>2. Whole(t.i, t.end, 1)
  <2>1. t.end = t.i + (t.end - t.i) * 1 /\ t.end - t.i \in Nat
    BY <1>1, SMT
  <2> QED
    BY <2>1 DEF Whole
<1>3. ASSUME t.loop = "vectors" \/ (t.loop = "peel" /\ op = "reduce" /\ t.i >= n),
             u = Enter(t, "scalars", t.end)
      PROVE  /\ u \in TaskType /\ u.loop = "scalars" /\ u.i = t.i /\ u.end = t.end
             /\ LoopInv(u)
  <2>1. /\ u \in TaskType /\ u.loop = "scalars" /\ u.i = t.i /\ u.end = t.end
        /\ u.limit = t.end
    BY <1>1, <1>3 DEF Enter, TaskType, Loops
  <2>2. LoopInv(u)
    <3> HIDE DEF u
    <3>1. Step(u.loop) = 1
      BY <2>1 DEF Step
    <3>2. Whole(u.i, u.limit, Step(u.loop))
      BY <1>2, <2>1, <3>1, Zenon
    <3>3. u.i <= u.limit /\ u.limit <= u.end /\ u.end <= n
      <4>1. t.end <= t.end
        BY <1>1
      <4> QED
        BY <1>1, <2>1, <4>1, Zenon
    <3> QED
      BY <2>1, <3>2, <3>3, Zenon DEF LoopInv
  <2> QED
    BY <2>1, <2>2
<1>4. CASE t.loop = "peel" /\ op = "reduce" /\ t.i >= n
  BY <1>1, <1>3, <1>4 DEF After, SimdLoops
<1>5. CASE t.loop = "peel" /\ ~(op = "reduce" /\ t.i >= n)
  <2>1. u = AfterPeel(t)
    BY <1>5 DEF After
  <2> QED
    BY <1>1, <1>5, <2>1, AfterPeelInv DEF SimdLoops
<1>6. CASE t.loop = "aligned blocks"
  <2>1. align_end \in Nat /\ align_end <= n
    BY PeelingBounds
  <2>2. /\ u \in TaskType /\ u.loop = "aligned" /\ u.i = t.i /\ u.end = t.end
        /\ u.limit = align_end
    BY <1>6, <2>1 DEF After, Enter, TaskType, Loops
  <2>3. Whole(t.i, align_end, Length) /\ t.end = n /\ pc # "parallel"
        /\ (t.i = n \/ AlignedAt(t.i))
    BY <1>1, <1>6 DEF LoopInv
  <2>4. t.i <= align_end
    BY <1>1, <2>1, <2>3, Constants, SMT DEF Whole
  <2>5. Whole(align_end, align_end, Length)
    <3>1. align_end = align_end + 0 * Length
      BY <2>1, Constants, SMT
    <3> QED
      BY <3>1 DEF Whole
  <2>6. LoopInv(u)
    <3> HIDE DEF u
    <3> QED
      BY <1>1, <2>1, <2>2, <2>3, <2>4, <2>5 DEF LoopInv, Step
  <2> QED
    BY <1>1, <1>6, <2>2, <2>6 DEF SimdLoops
<1>7. CASE t.loop = "aligned"
  <2>1. u = Unaligned(t)
    BY <1>7 DEF After
  <2> QED
    BY <1>1, <1>7, <2>1, UnalignedInv DEF SimdLoops
<1>8. CASE t.loop = "blocks"
  <2>1. t.begin <= t.end /\ Whole(t.i, VectorsEnd(t), Length)
    BY <1>1, <1>8 DEF LoopInv
  <2>2. VectorsEnd(t) \in Nat /\ VectorsEnd(t) <= t.end
    BY <2>1, SectionBounds
  <2>3. /\ u \in TaskType /\ u.loop = "vectors" /\ u.i = t.i /\ u.end = t.end
        /\ u.begin = t.begin /\ u.limit = VectorsEnd(t)
    BY <1>8, <2>2 DEF After, Enter, TaskType, Loops
  <2>4. t.i <= VectorsEnd(t)
    BY <1>1, <2>1, <2>2, Constants, SMT DEF Whole
  <2>5. LoopInv(u)
    <3> HIDE DEF u
    <3> QED
      BY <1>1, <2>1, <2>2, <2>3, <2>4 DEF LoopInv, Step
  <2> QED
    BY <1>1, <1>8, <2>3, <2>5 DEF SimdLoops
<1>9. CASE t.loop = "vectors"
  BY <1>1, <1>3, <1>9 DEF After, SimdLoops
<1>10. CASE t.loop = "scalars"
  BY <1>1, <1>10 DEF After, LoopInv, SimdLoops
<1> QED
  BY <1>1, <1>4, <1>5, <1>6, <1>7, <1>8, <1>9, <1>10 DEF Loops
----------------------------------------------------------------------------
(* The inductive invariant.                                                *)
LEMMA Bounds ==
  ASSUME TypeOK
  PROVE  /\ n \in Nat /\ n < SizeMod /\ base \in Nat /\ odd \in BOOLEAN
         /\ next \in Nat /\ Elements = 0 .. n - 1
         /\ \A w \in Threads : task[w] \in TaskType
BY SizeAssumption DEF TypeOK, Elements

\* A loop's invariant survives a step that leaves the tensor and pc alone.
LEMMA Frame ==
  ASSUME UNCHANGED <<n, base, odd, pc>>, NEW v \in Threads, NEW STATE u,
         task'[v] = u, LoopInv(u)
  PROVE  LoopInv(task[v])'
<1>1. align_start' = align_start /\ align_end' = align_end
  BY DEF align_start, align_end
<1>2. VectorsEnd(task[v])' = VectorsEnd(u)
  BY DEF VectorsEnd
<1>3. AlignedAt(task[v].i)' <=> AlignedAt(u.i)
  BY DEF AlignedAt, Whole
<1>4. Step(task[v].loop)' = Step(u.loop)
  BY DEF Step
<1> QED
  BY <1>1, <1>2, <1>3, <1>4 DEF LoopInv, Whole

LEMMA InitInv == Init => IInv
<1> SUFFICES ASSUME Init PROVE IInv
  OBVIOUS
<1> DEFINE t == task["main"]
<1>1. /\ op \in Ops /\ n \in 0 .. MaxSize /\ base \in Nat /\ odd \in BOOLEAN
      /\ pc = "serial" /\ next = n /\ n \in Nat /\ n < SizeMod
      /\ \A w \in Threads : w # "main" => task[w] = Idle
      /\ Idle \in TaskType /\ First \in TaskType
      /\ First.i = 0 /\ First.end = n /\ Idle.loop = "idle"
  <2>1. /\ op \in Ops /\ n \in 0 .. MaxSize /\ base \in Nat /\ odd \in BOOLEAN
        /\ pc = "serial" /\ next = n /\ n \in Nat /\ n < SizeMod
    BY SizeAssumption DEF Init
  <2>2. \A w \in Threads : w # "main" => task[w] = Idle
    BY DEF Init
  <2>3. Idle \in TaskType /\ Idle.loop = "idle"
    BY DEF Idle, TaskType, Loops
  <2>4. First \in TaskType /\ First.i = 0 /\ First.end = n
    BY <2>1 DEF First, Idle, TaskType, Loops
  <2> QED
    BY <2>1, <2>2, <2>3, <2>4
<1>2. t \in TaskType /\ t.i = 0 /\ t.end = n /\ t.loop # "idle" /\ LoopInv(t)
  <2>1. CASE op = "reduce_expression"
    <3>1. t = Unaligned(First)
      BY <2>1, Constants DEF Init
    <3> QED
      BY <1>1, <3>1, UnalignedInv
  <2>2. CASE op # "reduce_expression"
    <3>1. t = Enter(First, "peel", align_start)
      BY <2>2, Constants DEF Init
    <3>2. align_start \in Nat /\ align_start <= n
      BY <1>1, PeelingBounds
    <3>3. t \in TaskType /\ t.i = 0 /\ t.end = n /\ t.loop = "peel" /\ t.limit = align_start
      BY <1>1, <3>1, <3>2 DEF Enter, TaskType, Loops
    <3>4. Whole(t.i, t.limit, Step(t.loop))
      <4>1. align_start = 0 + align_start * 1 /\ Step("peel") = 1
        BY <3>2 DEF Step
      <4>2. Whole(0, align_start, Step("peel"))
        BY <3>2, <4>1 DEF Whole
      <4> QED
        BY <3>3, <4>2, Zenon
    <3>5. LoopInv(t)
      <4> HIDE DEF t
      <4> QED
        BY <1>1, <3>2, <3>3, <3>4 DEF LoopInv
    <3> QED
      BY <3>3, <3>5
  <2> QED
    BY <2>1, <2>2
<1>3. TypeOK
  <2>1. task \in [Threads -> TaskType]
    BY <1>1, <1>2 DEF Init
  <2>2. count \in [Elements -> Nat] /\ slot \in [Elements -> -1 .. Packet]
    BY Constants DEF Init
  <2>3. /\ op \in Ops /\ n \in 0 .. MaxSize /\ base \in Addresses /\ odd \in BOOLEAN
        /\ pc \in {"serial", "parallel", "done"} /\ next \in Nat
    BY <1>1 DEF Init
  <2> QED
    BY <2>1, <2>2, <2>3 DEF TypeOK
<1>4. Running /\ Apart /\ Phase
  BY <1>1, <1>2 DEF Running, Apart, Phase, Active
<1>5. Counted
  <2> SUFFICES ASSUME NEW j \in Elements PROVE count[j] = 0 /\ Left(j)
    BY DEF Counted
  <2>1. count[j] = 0
    BY DEF Init
  <2>2. t.i <= j /\ j < t.end
    BY <1>1, <1>2 DEF Elements
  <2> QED
    BY <1>2, <2>1, <2>2, Constants DEF Left, Active
<1>6. Placed
  BY DEF Placed, Init
<1> QED
  BY <1>3, <1>4, <1>5, <1>6 DEF IInv

\* One iteration: the elements it takes were left, and are left no more.
LEMMA IterateInv ==
  ASSUME IInv, NEW w \in Threads, Iterate(w)
  PROVE  IInv'
<1> DEFINE t == task[w]
           s == Step(t.loop)
           taken == t.i .. t.i + s - 1
           u == [t EXCEPT !.i = t.i + s]
<1>1. /\ n \in Nat /\ n < SizeMod /\ base \in Nat /\ odd \in BOOLEAN /\ next \in Nat
      /\ Elements = 0 .. n - 1
      /\ \A v \in Threads : task[v] \in TaskType
  BY Bounds DEF IInv
<1>2. t \in TaskType /\ Active(w) /\ LoopInv(t) /\ t.i < t.limit
  BY <1>1 DEF IInv, Running, Iterate, Active
<1>3. /\ t.i \in Nat /\ t.limit \in Nat /\ t.begin \in Nat /\ t.end \in Nat
      /\ t.loop \in Loops \ {"idle"}
      /\ t.limit <= t.end /\ t.end <= n /\ Whole(t.i, t.limit, s)
  <2>1. /\ t.i \in Nat /\ t.limit \in Nat /\ t.begin \in Nat /\ t.end \in Nat
        /\ t.loop \in Loops \ {"idle"}
    BY <1>2 DEF TaskType, Active
  <2>2. t.limit <= t.end /\ t.end <= n /\ Whole(t.i, t.limit, s)
    BY <1>2 DEF LoopInv
  <2> QED
    BY <2>1, <2>2
<1>4. s \in Nat \ {0} /\ s <= BlockSize
  BY <1>3, Constants
<1>5. t.i + s <= t.limit /\ Whole(t.i + s, t.limit, s)
  <2> HIDE DEF t, s
  <2> QED
    BY <1>2, <1>3, <1>4, WholeStep
<1>6. /\ u \in TaskType /\ u.i = t.i + s /\ u.limit = t.limit /\ u.begin = t.begin
      /\ u.end = t.end /\ u.loop = t.loop
  <2>1. t.i + s \in Nat
    BY <1>3, <1>4
  <2> HIDE DEF t, s
  <2> QED
    BY <1>2, <2>1 DEF TaskType
<1>7. LoopInv(u)
  <2>1. Whole(u.i, u.limit, Step(u.loop))
    BY <1>5, <1>6, Zenon
  <2>2. u.i <= u.limit /\ u.limit <= u.end /\ u.end <= n
    BY <1>3, <1>5, <1>6, Zenon
  <2>3. ASSUME t.loop \in {"aligned blocks", "aligned"}
        PROVE  u.end = n /\ Whole(u.limit, align_end, Length) /\ AlignedAt(u.i)
    <3>1. t.end = n /\ Whole(t.limit, align_end, Length) /\ (t.i = n \/ AlignedAt(t.i))
      BY <1>2, <2>3 DEF LoopInv
    <3>2. ~odd /\ Whole(0, base + t.i, Align)
      BY <1>2, <1>3, <3>1 DEF AlignedAt
    <3>3. PICK p \in Nat : s = p * Length
      <4>1. s = Length \/ s = BlockSize
        BY <2>3 DEF Step
      <4>2. Length = 1 * Length /\ BlockSize = Packet * Length
        BY Constants, SMT
      <4> QED
        BY <4>1, <4>2, Constants
    <3>4. base + t.i \in Nat /\ (base + t.i) + p * Length = base + (t.i + s)
      <4> HIDE DEF t, s
      <4> QED
        BY <1>1, <1>3, <1>4, <3>3, Constants, SMT
    <3>5. Whole(0, base + (t.i + s), Align)
      <4>1. Whole(0, (base + t.i) + p * Length, Align)
        <5> HIDE DEF t, s
        <5> QED
          BY <3>2, <3>4, AlignedStep
      <4> QED
        BY <3>4, <4>1, Zenon
    <3> QED
      BY <1>6, <3>1, <3>2, <3>5, Zenon DEF AlignedAt
  <2>4. VectorsEnd(u) = VectorsEnd(t)
    BY <1>6 DEF VectorsEnd
  <2>5. /\ u.loop = "peel" => u.limit = align_start /\ u.end = n
        /\ u.loop = "blocks" => u.begin <= u.end /\ Whole(u.limit, VectorsEnd(u), Length)
        /\ u.loop = "vectors" => u.begin <= u.end
        /\ u.loop = "scalars" => u.limit = u.end
        /\ pc = "parallel" => u.loop \in {"blocks", "vectors", "scalars"}
    <3> HIDE DEF u
    <3> QED
      BY <1>2, <1>6, <2>4, Zenon DEF LoopInv
  <2> HIDE DEF u
  <2> QED
    BY <1>6, <2>1, <2>2, <2>3, <2>5, Zenon DEF LoopInv
<1>8. /\ UNCHANGED <<op, n, base, odd, pc, next>>
      /\ task' = [task EXCEPT ![w] = u]
      /\ count' = [j \in Elements |-> IF j \in taken THEN count[j] + 1 ELSE count[j]]
      /\ slot' = [j \in Elements |-> IF j \in taken THEN Lane(t, j) ELSE slot[j]]
  <2>1. task \in [Threads -> TaskType]
    BY DEF IInv, TypeOK
  <2>2. [task EXCEPT ![w] = u] = [task EXCEPT ![w].i = @ + s]
    OBVIOUS
  <2> QED
    BY <2>2 DEF Iterate
<1>9. /\ task'[w] = u
      /\ \A v \in Threads : v # w => task'[v] = task[v]
      /\ \A v \in Threads : Active(v)' <=> Active(v)
  <2>1. task \in [Threads -> TaskType]
    BY DEF IInv, TypeOK
  <2> HIDE DEF u
  <2> QED
    BY <1>2, <1>6, <1>8, <2>1 DEF Active
<1>10. ASSUME NEW j \in Elements, j \in taken
       PROVE  /\ Left(j) /\ ~Left(j)'
              /\ Lane(t, j) \in 0 .. Packet
              /\ Lane(t, j) > 0 => pc = "serial" /\ t.loop \in SimdLoops
  <2>1. /\ j \in Nat /\ t.i <= j /\ j < t.i + s /\ j < t.end
    <3> HIDE DEF t, s
    <3> QED
      BY <1>1, <1>3, <1>4, <1>5, <1>10, SMT
  <2>2. t.end <= next
    BY <1>2 DEF IInv, Running
  <2>3. Left(j)
    BY <1>2, <2>1 DEF Left
  <2>4. ~(next' <= j)
    BY <1>1, <1>3, <1>8, <2>1, <2>2
  <2>5. ASSUME NEW v \in Threads, Active(v)', task'[v].i <= j, j < task'[v].end
        PROVE  FALSE
    <3>1. CASE v = w
      <4>1. t.i + s <= j
        BY <1>6, <1>9, <2>5, <3>1, Zenon
      <4> QED
        BY <1>3, <1>4, <2>1, <4>1
    <3>2. CASE v # w
      <4>1. Active(v) /\ task'[v] = task[v] /\ task[v] \in TaskType
        BY <1>1, <1>9, <2>5, <3>2
      <4>2. t.end <= task[v].i \/ task[v].end <= t.i
        BY <1>2, <3>2, <4>1 DEF IInv, Apart
      <4>3. task[v].i \in Nat /\ task[v].end \in Nat /\ task[v].i <= j /\ j < task[v].end
        BY <2>5, <4>1 DEF TaskType
      <4> HIDE DEF t
      <4> QED
        BY <1>3, <2>1, <4>2, <4>3
    <3> QED
      BY <3>1, <3>2
  <2>6. ~Left(j)'
    BY <2>4, <2>5 DEF Left
  <2>7. ASSUME Lane(t, j) # 0
        PROVE  /\ Lane(t, j) \in 1 .. Packet
               /\ t.loop \in SimdLoops /\ op \notin {"run", "fill"}
    <3>1. op \notin {"run", "fill"} /\ t.loop \notin {"peel", "scalars"}
          /\ Lane(t, j) = 1 + (j - t.i) \div Length
      BY <2>7 DEF Lane
    <3>2. t.loop \in SimdLoops
      BY <1>3, <3>1 DEF Loops, SimdLoops
    <3>3. j - t.i \in Nat /\ j - t.i < Length * Packet
      <4> HIDE DEF t, s
      <4> QED
        BY <1>3, <1>4, <2>1, Constants
    <3>4. (j - t.i) \div Length \in 0 .. Packet - 1
      BY <3>3, Constants, LaneBound
    <3> HIDE DEF t
    <3> QED
      BY <3>1, <3>2, <3>4, Constants
  <2>8. pc = "serial" \/ op = "run"
    BY <1>2 DEF IInv, Phase, TypeOK
  <2> QED
    BY <2>3, <2>6, <2>7, <2>8, Constants
<1>11. ASSUME NEW j \in Elements, j \notin taken
       PROVE  Left(j)' <=> Left(j)
  <2>1. j \in Nat /\ (j < t.i \/ t.i + s <= j)
    <3> HIDE DEF t, s
    <3> QED
      BY <1>1, <1>3, <1>4, <1>11, SMT
  <2>2. (t.i <= j /\ j < t.end) <=> (u.i <= j /\ j < u.end)
    <3>1. (t.i <= j /\ j < t.end) <=> (t.i + s <= j /\ j < t.end)
      <4> HIDE DEF t, s
      <4> QED
        BY <1>3, <1>4, <2>1
    <3> QED
      BY <1>6, <3>1, Zenon
  <2>3. \A v \in Threads :
          (Active(v) /\ task[v].i <= j /\ j < task[v].end) <=>
          (Active(v)' /\ task'[v].i <= j /\ j < task'[v].end)
    <3> HIDE DEF u
    <3> QED
      BY <1>9, <2>2
  <2> QED
    BY <1>8, <2>3 DEF Left
<1>12. TypeOK'
  <2>1. task' \in [Threads -> TaskType]
    <3> HIDE DEF u
    <3> QED
      BY <1>6, <1>8 DEF IInv, TypeOK
  <2>2. count' \in [Elements -> Nat] /\ slot' \in [Elements -> -1 .. Packet]
    <3>1. count \in [Elements -> Nat] /\ slot \in [Elements -> -1 .. Packet]
      BY DEF IInv, TypeOK
    <3>2. \A j \in Elements : j \in taken => Lane(t, j) \in -1 .. Packet
      BY <1>10, Constants
    <3> HIDE DEF taken, t
    <3> QED
      BY <1>8, <3>1, <3>2
  <2>3. Elements' = Elements
    BY <1>8 DEF Elements
  <2> QED
    BY <1>8, <2>1, <2>2, <2>3 DEF IInv, TypeOK
<1>13. Running'
  <2> SUFFICES ASSUME NEW v \in Threads, Active(v)'
               PROVE  /\ LoopInv(task[v])'
                      /\ task'[v].end <= next'
                      /\ pc' = "serial" => v = "main" /\ task'[v].end = n'
    BY DEF Running
  <2>1. /\ LoopInv(task[v]) /\ task[v].end <= next
        /\ pc = "serial" => v = "main" /\ task[v].end = n
    BY <1>9 DEF IInv, Running
  <2>2. CASE v = w
    <3> HIDE DEF u
    <3>1. LoopInv(task[v])'
      BY <1>7, <1>8, <1>9, <2>2, Frame
    <3> QED
      BY <1>6, <1>8, <1>9, <2>1, <2>2, <3>1
  <2>3. CASE v # w
    <3>1. task'[v] = task[v]
      BY <1>9, <2>3
    <3>2. LoopInv(task[v])'
      BY <1>8, <2>1, <3>1, Frame
    <3> QED
      BY <1>8, <2>1, <3>1, <3>2
  <2> QED
    BY <2>2, <2>3
<1>14. Apart'
  <2> SUFFICES ASSUME NEW v \in Threads, NEW x \in Threads, v # x, Active(v)', Active(x)'
               PROVE  task'[v].end <= task'[x].i \/ task'[x].end <= task'[v].i
    BY DEF Apart
  <2>1. task[v].end <= task[x].i \/ task[x].end <= task[v].i
    BY <1>9 DEF IInv, Apart
  <2>2. /\ task[v] \in TaskType /\ task[x] \in TaskType
        /\ task'[v] = IF v = w THEN u ELSE task[v]
        /\ task'[x] = IF x = w THEN u ELSE task[x]
    BY <1>1, <1>9
  <2>3. u.i \in Nat /\ t.i <= u.i /\ u.end = t.end
    BY <1>3, <1>4, <1>6
  <2>4. CASE v = w
    <3> HIDE DEF u
    <3> QED
      BY <2>1, <2>2, <2>3, <2>4 DEF TaskType
  <2>5. CASE x = w
    <3> HIDE DEF u
    <3> QED
      BY <2>1, <2>2, <2>3, <2>5 DEF TaskType
  <2>6. CASE v # w /\ x # w
    BY <2>1, <2>2, <2>6
  <2> QED
    BY <2>4, <2>5, <2>6
<1>15. Phase'
  BY <1>8, <1>9, Constants DEF IInv, Phase
<1>16. Counted'
  <2> SUFFICES ASSUME NEW j \in Elements
               PROVE  count'[j] = IF Left(j)' THEN 0 ELSE 1
    BY <1>8 DEF Counted, Elements
  <2>1. count[j] = IF Left(j) THEN 0 ELSE 1
    BY DEF IInv, Counted
  <2>2. count'[j] = IF j \in taken THEN count[j] + 1 ELSE count[j]
    BY <1>8
  <2> HIDE DEF taken
  <2> QED
    BY <1>10, <1>11, <2>1, <2>2
<1>17. Placed'
  <2> SUFFICES ASSUME NEW j \in Elements
               PROVE  /\ count'[j] = 1 => slot'[j] >= 0
                      /\ slot'[j] > 0 => pc' = "serial" /\ task'["main"].loop \in SimdLoops
    BY <1>8 DEF Placed, Elements, SimdLoops
  <2>1. /\ count[j] = 1 => slot[j] >= 0
        /\ slot[j] > 0 => pc = "serial" /\ task["main"].loop \in SimdLoops
    BY DEF IInv, Placed, SimdLoops
  <2>2. /\ count'[j] = IF j \in taken THEN count[j] + 1 ELSE count[j]
        /\ slot'[j] = IF j \in taken THEN Lane(t, j) ELSE slot[j]
    BY <1>8
  <2>3. pc = "serial" => w = "main"
    BY <1>2 DEF IInv, Running
  <2>4. pc = "serial" => task'["main"].loop = task["main"].loop
    BY <1>6, <1>9, <2>3
  <2>5. CASE j \in taken
    <3>1. Lane(t, j) \in 0 .. Packet /\ (Lane(t, j) > 0 => pc = "serial" /\ t.loop \in SimdLoops)
      BY <1>10, <2>5
    <3> HIDE DEF taken, t
    <3> QED
      BY <1>8, <2>2, <2>3, <2>4, <2>5, <3>1, Constants DEF t
  <2>6. CASE j \notin taken
    <3> HIDE DEF taken, t
    <3> QED
      BY <1>8, <2>1, <2>2, <2>4, <2>6
  <2> QED
    BY <2>5, <2>6
<1> QED
  BY <1>12, <1>13, <1>14, <1>15, <1>16, <1>17 DEF IInv

\* Leaving a loop: the next loop has the elements the left one had.
LEMMA LeaveInv ==
  ASSUME IInv, NEW w \in Threads, Leave(w)
  PROVE  IInv'
<1> DEFINE t == task[w]
           u == IF Returns(t) THEN Idle ELSE After(t)
<1>1. /\ n \in Nat /\ n < SizeMod /\ base \in Nat /\ odd \in BOOLEAN /\ next \in Nat
      /\ Elements = 0 .. n - 1
      /\ \A v \in Threads : task[v] \in TaskType
  BY Bounds DEF IInv
<1>2. t \in TaskType /\ Active(w) /\ LoopInv(t) /\ t.i >= t.limit
  BY <1>1 DEF IInv, Running, Leave, Active
<1>3. t.i \in Nat /\ t.end \in Nat /\ t.loop \in Loops \ {"idle"}
  BY <1>2 DEF TaskType, Active
<1>4. /\ Idle \in TaskType /\ Idle.loop = "idle"
  BY DEF Idle, TaskType, Loops
<1>5. /\ u \in TaskType
      /\ u = Idle => t.end <= t.i
      /\ u # Idle => u.loop # "idle" /\ u.i = t.i /\ u.end = t.end /\ LoopInv(u)
      /\ t.loop \in SimdLoops \ {"vectors"} => u # Idle /\ u.loop \in SimdLoops
  <2>1. CASE Returns(t)
    <3>1. u = Idle /\ t.loop = "peel" /\ t.i >= n
      BY <2>1 DEF Returns
    <3>2. t.end = n
      BY <1>2, <3>1 DEF LoopInv
    <3> QED
      BY <1>1, <1>3, <1>4, <3>1, <3>2 DEF SimdLoops
  <2>2. CASE ~Returns(t)
    <3>1. u = After(t)
      BY <2>2
    <3>2. /\ t.loop = "scalars" => u = Idle /\ t.i = t.end
          /\ t.loop # "scalars" =>
               /\ u \in TaskType /\ u.loop # "idle" /\ u.i = t.i /\ u.end = t.end
               /\ LoopInv(u)
          /\ t.loop \in SimdLoops \ {"vectors"} => u.loop \in SimdLoops
      <4>1. t.loop # "idle"
        BY <1>3
      <4> QED
        BY <1>1, <1>2, <3>1, <4>1, AfterInv
    <3> HIDE DEF u
    <3>3. CASE t.loop = "scalars"
      BY <1>3, <1>4, <3>2, <3>3 DEF SimdLoops
    <3>4. CASE t.loop # "scalars"
      BY <1>4, <3>2, <3>4
    <3> QED
      BY <3>3, <3>4
  <2> QED
    BY <2>1, <2>2
<1>6. /\ UNCHANGED <<op, n, base, odd, next, count>>
      /\ task' = [task EXCEPT ![w] = u]
      /\ pc' = IF pc = "serial" /\ u = Idle THEN "done" ELSE pc
      /\ slot' = Combined(t)
  BY DEF Leave
<1>7. /\ task'[w] = u
      /\ \A v \in Threads : v # w => task'[v] = task[v]
      /\ Active(w)' <=> u # Idle
      /\ \A v \in Threads : v # w => (Active(v)' <=> Active(v))
  <2>1. task \in [Threads -> TaskType]
    BY DEF IInv, TypeOK
  <2> HIDE DEF u
  <2> QED
    BY <1>4, <1>5, <1>6, <2>1 DEF Active
<1>8. \A v \in Threads : Active(v)' =>
        /\ Active(v) /\ pc' = pc
        /\ task'[v].i = task[v].i /\ task'[v].end = task[v].end
        /\ LoopInv(task'[v])
  <2> SUFFICES ASSUME NEW v \in Threads, Active(v)'
               PROVE  /\ Active(v) /\ pc' = pc
                      /\ task'[v].i = task[v].i /\ task'[v].end = task[v].end
                      /\ LoopInv(task'[v])
    OBVIOUS
  <2>1. CASE v = w
    <3> HIDE DEF u
    <3> QED
      BY <1>2, <1>5, <1>6, <1>7, <2>1
  <2>2. CASE v # w
    <3>1. Active(v) /\ task'[v] = task[v] /\ LoopInv(task[v])
      BY <1>7, <2>2 DEF IInv, Running
    <3>2. pc # "serial"
      BY <1>2, <2>2, <3>1 DEF IInv, Running
    <3> HIDE DEF u
    <3> QED
      BY <1>6, <3>1, <3>2
  <2> QED
    BY <2>1, <2>2
<1>9. \A j \in Elements : Left(j)' <=> Left(j)
  <2> SUFFICES ASSUME NEW j \in Elements PROVE Left(j)' <=> Left(j)
    OBVIOUS
  <2>1. j \in Nat
    BY <1>1
  <2>2. \A v \in Threads :
          (Active(v)' /\ task'[v].i <= j /\ j < task'[v].end) <=>
          (Active(v) /\ task[v].i <= j /\ j < task[v].end)
    <3> SUFFICES ASSUME NEW v \in Threads
                 PROVE  (Active(v)' /\ task'[v].i <= j /\ j < task'[v].end) <=>
                        (Active(v) /\ task[v].i <= j /\ j < task[v].end)
      OBVIOUS
    <3>1. CASE v = w
      <4> HIDE DEF u, t
      <4> QED
        BY <1>2, <1>3, <1>5, <1>7, <1>8, <2>1, <3>1 DEF t
    <3>2. CASE v # w
      BY <1>7, <3>2
    <3> QED
      BY <3>1, <3>2
  <2> QED
    BY <1>6, <2>2 DEF Left
<1>10. \A j \in Elements :
         /\ slot[j] \in -1 .. Packet
         /\ slot'[j] = IF t.loop = "vectors" /\ slot[j] > 0 THEN 0 ELSE slot[j]
  <2>1. slot \in [Elements -> -1 .. Packet]
    BY DEF IInv, TypeOK
  <2> HIDE DEF t
  <2> QED
    BY <1>6, <2>1 DEF Combined
<1>11. TypeOK'
  <2>1. task' \in [Threads -> TaskType]
    <3> HIDE DEF u
    <3> QED
      BY <1>5, <1>6 DEF IInv, TypeOK
  <2>2. slot' \in [Elements -> -1 .. Packet]
    <3>1. slot \in [Elements -> -1 .. Packet]
      BY DEF IInv, TypeOK
    <3> HIDE DEF t
    <3> QED
      BY <1>6, <1>10, <3>1, Constants DEF Combined
  <2>3. Elements' = Elements
    BY <1>6 DEF Elements
  <2>4. pc' \in {"serial", "parallel", "done"}
    <3> HIDE DEF u
    <3> QED
      BY <1>6 DEF IInv, TypeOK
  <2> QED
    BY <1>6, <2>1, <2>2, <2>3, <2>4 DEF IInv, TypeOK
<1>12. Running'
  <2> SUFFICES ASSUME NEW v \in Threads, Active(v)'
               PROVE  /\ LoopInv(task[v])'
                      /\ task'[v].end <= next'
                      /\ pc' = "serial" => v = "main" /\ task'[v].end = n'
    BY DEF Running
  <2>1. /\ task[v].end <= next
        /\ pc = "serial" => v = "main" /\ task[v].end = n
    BY <1>8 DEF IInv, Running
  <2>2. LoopInv(task[v])'
    <3>1. UNCHANGED <<n, base, odd, pc>> /\ LoopInv(task'[v])
      BY <1>6, <1>8
    <3> QED
      BY <3>1, Frame
  <2> QED
    BY <1>6, <1>8, <2>1, <2>2
<1>13. Apart'
  BY <1>8 DEF IInv, Apart
<1>14. Phase'
  <2>1. pc = "serial" => w = "main"
    BY <1>2 DEF IInv, Running
  <2>2. pc' = "serial" => pc = "serial" /\ u # Idle
    <3> HIDE DEF u
    <3> QED
      BY <1>6
  <2>3. pc' = "serial" => Active("main")'
    BY <1>7, <2>1, <2>2
  <2>4. pc' = "parallel" => pc = "parallel"
    <3> HIDE DEF u
    <3> QED
      BY <1>6
  <2>5. pc' = "done" => next' = n' /\ \A v \in Threads : ~Active(v)'
    <3>1. pc = "done" => ~Active(w)
      BY DEF IInv, Phase
    <3>2. pc' = "done" => pc = "serial"
      <4> HIDE DEF u
      <4> QED
        BY <1>2, <1>6, <3>1
    <3>3. pc' = "done" => \A v \in Threads : ~Active(v)'
      BY <1>8, <3>2
    <3> QED
      BY <1>6, <3>2, <3>3 DEF IInv, Phase
  <2> QED
    BY <1>6, <2>2, <2>3, <2>4, <2>5 DEF IInv, Phase
<1>15. Counted'
  <2>1. Elements' = Elements
    BY <1>6 DEF Elements
  <2> QED
    BY <1>6, <1>9, <2>1 DEF IInv, Counted
<1>16. Placed'
  <2> SUFFICES ASSUME NEW j \in Elements
               PROVE  /\ count'[j] = 1 => slot'[j] >= 0
                      /\ slot'[j] > 0 => pc' = "serial" /\ task'["main"].loop \in SimdLoops
    BY <1>6 DEF Placed, Elements, SimdLoops
  <2>1. /\ count[j] = 1 => slot[j] >= 0
        /\ slot[j] > 0 => pc = "serial" /\ task["main"].loop \in SimdLoops
    BY DEF IInv, Placed, SimdLoops
  <2>2. pc = "serial" => w = "main"
    BY <1>2 DEF IInv, Running
  <2>3. count'[j] = 1 => slot'[j] >= 0
    <3> HIDE DEF t
    <3> QED
      BY <1>6, <1>10, <2>1
  <2>4. ASSUME slot'[j] > 0
        PROVE  pc' = "serial" /\ task'["main"].loop \in SimdLoops
    <3>1. slot[j] > 0 /\ t.loop # "vectors"
      <4> HIDE DEF t
      <4> QED
        BY <1>10, <2>4
    <3>2. pc = "serial" /\ w = "main" /\ t.loop \in SimdLoops \ {"vectors"}
      BY <2>1, <2>2, <3>1
    <3> HIDE DEF u
    <3> QED
      BY <1>5, <1>6, <1>7, <3>2
  <2> QED
    BY <2>3, <2>4
<1> QED
  BY <1>11, <1>12, <1>13, <1>14, <1>15, <1>16 DEF IInv

\* From a grain of elements on, the peeled rest becomes chunks.
LEMMA GoParallelInv ==
  ASSUME IInv, GoParallel
  PROVE  IInv'
<1> DEFINE t == task["main"]
<1>1. /\ n \in Nat /\ next \in Nat /\ Elements = 0 .. n - 1
      /\ "main" \in Threads /\ t \in TaskType
  BY Bounds, Constants DEF IInv
<1>2. /\ pc = "serial" /\ op = "run" /\ t.loop = "peel" /\ t.i < n
      /\ pc' = "parallel" /\ next' = t.i
      /\ task' = [task EXCEPT !["main"] = Idle]
      /\ UNCHANGED <<op, n, base, odd, count, slot>>
  BY DEF GoParallel, GoesParallel
<1>3. t.i \in Nat /\ t.end = n /\ next = n /\ Active("main")
  BY <1>1, <1>2 DEF IInv, Running, Phase, TaskType
<1>4. /\ task' \in [Threads -> TaskType] /\ \A v \in Threads : ~Active(v)'
  <2>1. Idle \in TaskType /\ Idle.loop = "idle"
    BY DEF Idle, TaskType, Loops
  <2>2. \A v \in Threads : v # "main" => ~Active(v)
    BY <1>2 DEF IInv, Running
  <2>3. task \in [Threads -> TaskType]
    BY DEF IInv, TypeOK
  <2>4. task' \in [Threads -> TaskType]
    BY <1>2, <2>1, <2>3
  <2>5. \A v \in Threads : task'[v] = IF v = "main" THEN Idle ELSE task[v]
    BY <1>2, <2>3
  <2> QED
    BY <2>1, <2>2, <2>4, <2>5 DEF Active
<1>5. TypeOK'
  <2>1. Elements' = Elements
    BY <1>2 DEF Elements
  <2> QED
    BY <1>2, <1>3, <1>4, <2>1 DEF IInv, TypeOK
<1>6. Running' /\ Apart' /\ Phase'
  BY <1>1, <1>2, <1>3, <1>4 DEF Running, Apart, Phase
<1>7. \A j \in Elements : Left(j)' <=> Left(j)
  <2> SUFFICES ASSUME NEW j \in Elements PROVE Left(j)' <=> Left(j)
    OBVIOUS
  <2>1. j \in Nat /\ j < n
    BY <1>1
  <2>2. Left(j)' <=> t.i <= j
    BY <1>2, <1>4 DEF Left
  <2>3. Left(j) <=> t.i <= j
    <3>1. \A v \in Threads : Active(v) => v = "main"
      BY <1>2 DEF IInv, Running
    <3> QED
      BY <1>1, <1>3, <2>1, <3>1 DEF Left
  <2> QED
    BY <2>2, <2>3
<1>8. Counted'
  <2>1. Elements' = Elements
    BY <1>2 DEF Elements
  <2> QED
    BY <1>2, <1>7, <2>1 DEF IInv, Counted
<1>9. Placed'
  <2>1. \A j \in Elements : (count[j] = 1 => slot[j] >= 0) /\ ~(slot[j] > 0)
    BY <1>2 DEF IInv, Placed
  <2> QED
    BY <1>2, <2>1 DEF Placed, Elements
<1> QED
  BY <1>5, <1>6, <1>8, <1>9 DEF IInv

\* A thread takes the next elements that no chunk holds.
LEMMA TakeChunkInv ==
  ASSUME IInv, NEW w \in Threads, TakeChunk(w)
  PROVE  IInv'
<1>1. /\ n \in Nat /\ next \in Nat /\ Elements = 0 .. n - 1
      /\ \A v \in Threads : task[v] \in TaskType
  BY Bounds DEF IInv
<1>2. PICK end \in next + 1 .. n :
        /\ next' = end
        /\ task' = [task EXCEPT ![w] = Unaligned([Idle EXCEPT !.i = next, !.end = end])]
  BY DEF TakeChunk
<1>3. /\ pc = "parallel" /\ ~Active(w) /\ UNCHANGED <<op, n, base, odd, pc, count, slot>>
  BY DEF TakeChunk, Active
<1> DEFINE u == Unaligned([Idle EXCEPT !.i = next, !.end = end])
<1>4. end \in Nat /\ next < end /\ end <= n
  BY <1>1
<1>5. /\ u \in TaskType /\ u.i = next /\ u.end = end /\ u.loop # "idle" /\ LoopInv(u)
  <2> DEFINE x == [Idle EXCEPT !.i = next, !.end = end]
  <2>1. x \in TaskType /\ x.i = next /\ x.end = end
    BY <1>1, <1>4 DEF Idle, TaskType, Loops
  <2>2. x.i <= x.end /\ x.end <= n
    BY <1>1, <1>4, <2>1
  <2> HIDE DEF x
  <2>3. /\ Unaligned(x) \in TaskType
        /\ Unaligned(x).i = x.i /\ Unaligned(x).end = x.end
        /\ Unaligned(x).loop \in {"blocks", "vectors"}
        /\ LoopInv(Unaligned(x))
    BY <1>1, <2>1, <2>2, UnalignedInv
  <2> QED
    BY <2>1, <2>3 DEF x
<1>6. /\ task' \in [Threads -> TaskType]
      /\ \A v \in Threads : task'[v] = IF v = w THEN u ELSE task[v]
      /\ \A v \in Threads : Active(v)' <=> v = w \/ Active(v)
  <2>1. task \in [Threads -> TaskType]
    BY DEF IInv, TypeOK
  <2>2. task' = [task EXCEPT ![w] = u]
    BY <1>2
  <2> HIDE DEF u
  <2> QED
    BY <1>5, <2>1, <2>2 DEF Active
<1> HIDE DEF u
<1>7. TypeOK'
  <2>1. Elements' = Elements
    BY <1>3 DEF Elements
  <2> QED
    BY <1>2, <1>3, <1>4, <1>6, <2>1 DEF IInv, TypeOK
<1>8. Running'
  <2> SUFFICES ASSUME NEW v \in Threads, Active(v)'
               PROVE  LoopInv(task[v])' /\ task'[v].end <= next'
    BY <1>3 DEF Running
  <2>1. CASE v = w
    <3>1. task'[v] = u /\ LoopInv(u)
      BY <1>5, <1>6, <2>1
    <3>2. LoopInv(task[v])'
      BY <1>3, <3>1, Frame
    <3> QED
      BY <1>2, <1>4, <1>5, <3>1, <3>2
  <2>2. CASE v # w
    <3>1. task'[v] = task[v] /\ Active(v)
      BY <1>6, <2>2
    <3>2. LoopInv(task[v]) /\ task[v].end <= next /\ task[v].end \in Nat
      BY <1>1, <3>1 DEF IInv, Running, TaskType
    <3>3. LoopInv(task[v])'
      BY <1>3, <3>1, <3>2, Frame
    <3> QED
      BY <1>1, <1>2, <1>4, <3>1, <3>2, <3>3
  <2> QED
    BY <2>1, <2>2
<1>9. Apart'
  <2>1. \A v \in Threads : v # w /\ Active(v)' =>
          Active(v) /\ task'[v] = task[v] /\ task[v].end <= next
    BY <1>6 DEF IInv, Running
  <2>2. task'[w].i = next
    BY <1>5, <1>6
  <2> QED
    BY <2>1, <2>2 DEF IInv, Apart
<1>10. Phase'
  BY <1>2, <1>3, <1>4 DEF IInv, Phase
<1>11. \A j \in Elements : Left(j)' <=> Left(j)
  <2> SUFFICES ASSUME NEW j \in Elements PROVE Left(j)' <=> Left(j)
    OBVIOUS
  <2>1. j \in Nat
    BY <1>1
  <2> DEFINE rest == \E v \in Threads : v # w /\ Active(v) /\ task[v].i <= j /\ j < task[v].end
  <2>2. Left(j) <=> next <= j \/ rest
    BY <1>3 DEF Left
  <2>3. Left(j)' <=> end <= j \/ (next <= j /\ j < end) \/ rest
    BY <1>2, <1>5, <1>6 DEF Left
  <2> HIDE DEF rest
  <2> QED
    BY <1>1, <1>4, <2>1, <2>2, <2>3
<1>12. Counted'
  <2>1. Elements' = Elements
    BY <1>3 DEF Elements
  <2> QED
    BY <1>3, <1>11, <2>1 DEF IInv, Counted
<1>13. Placed'
  <2>1. \A j \in Elements : (count[j] = 1 => slot[j] >= 0) /\ ~(slot[j] > 0)
    BY <1>3 DEF IInv, Placed
  <2> QED
    BY <1>3, <2>1 DEF Placed, Elements
<1> QED
  BY <1>7, <1>8, <1>9, <1>10, <1>12, <1>13 DEF IInv

\* The join finds every chunk taken and every thread idle.
LEMMA JoinInv ==
  ASSUME IInv, Join
  PROVE  IInv'
<1>1. /\ n \in Nat /\ next \in Nat /\ next >= n /\ pc = "parallel" /\ pc' = "done"
      /\ \A v \in Threads : ~Active(v)
      /\ UNCHANGED <<op, n, base, odd, next, task, count, slot>>
  BY Bounds DEF IInv, Join, Active
<1>2. Elements' = Elements /\ \A v \in Threads : ~Active(v)'
  BY <1>1 DEF Elements, Active
<1>3. TypeOK'
  BY <1>1, <1>2 DEF IInv, TypeOK
<1>4. Running' /\ Apart' /\ Phase'
  BY <1>1, <1>2 DEF IInv, Running, Apart, Phase
<1>5. Counted'
  <2>1. \A j \in Elements : Left(j)' <=> Left(j)
    BY <1>1, <1>2 DEF Left
  <2> QED
    BY <1>1, <1>2, <2>1 DEF IInv, Counted
<1>6. Placed'
  BY <1>1, <1>2 DEF IInv, Placed
<1> QED
  BY <1>3, <1>4, <1>5, <1>6 DEF IInv

LEMMA StutterInv ==
  ASSUME IInv, UNCHANGED vars
  PROVE  IInv'
<1>1. /\ UNCHANGED <<op, n, base, odd, pc, next, task, count, slot>>
      /\ Elements' = Elements
      /\ \A v \in Threads : Active(v)' <=> Active(v)
  BY DEF vars, Elements, Active
<1>2. TypeOK'
  BY <1>1 DEF IInv, TypeOK
<1>3. Running'
  <2> SUFFICES ASSUME NEW v \in Threads, Active(v)'
               PROVE  /\ LoopInv(task[v])'
                      /\ task'[v].end <= next'
                      /\ pc' = "serial" => v = "main" /\ task'[v].end = n'
    BY DEF Running
  <2>1. /\ LoopInv(task[v]) /\ task[v].end <= next
        /\ pc = "serial" => v = "main" /\ task[v].end = n
    BY <1>1 DEF IInv, Running
  <2>2. LoopInv(task[v])'
    BY <1>1, <2>1, Frame
  <2> QED
    BY <1>1, <2>1, <2>2
<1>4. Apart' /\ Phase'
  <2>1. Apart'
    BY <1>1 DEF IInv, Apart
  <2>2. Phase'
    <3>1. Active("main")' <=> Active("main")
      BY <1>1 DEF Active
    <3> QED
      BY <1>1, <3>1 DEF IInv, Phase
  <2> QED
    BY <2>1, <2>2
<1>5. Counted'
  <2>1. \A j \in Elements : Left(j)' <=> Left(j)
    BY <1>1 DEF Left
  <2> QED
    BY <1>1, <2>1 DEF IInv, Counted
<1>6. Placed'
  BY <1>1 DEF IInv, Placed
<1> QED
  BY <1>2, <1>3, <1>4, <1>5, <1>6 DEF IInv
----------------------------------------------------------------------------
(* The properties.                                                         *)
LEMMA InvOnceEach == IInv => OnceEach
<1> SUFFICES ASSUME IInv PROVE OnceEach
  OBVIOUS
<1>1. n \in Nat /\ Elements = 0 .. n - 1
  BY Bounds DEF IInv
<1> SUFFICES ASSUME NEW j \in Elements
             PROVE  count[j] <= 1 /\ (pc = "done" => count[j] = 1 /\ slot[j] = 0)
  BY DEF OnceEach
<1>2. count[j] = IF Left(j) THEN 0 ELSE 1
  BY DEF IInv, Counted
<1>3. slot[j] \in -1 .. Packet
  BY DEF IInv, TypeOK
<1>4. pc = "done" => ~Left(j)
  BY <1>1 DEF IInv, Phase, Left
<1>5. (count[j] = 1 => slot[j] >= 0) /\ (slot[j] > 0 => pc = "serial")
  BY DEF IInv, Placed
<1> QED
  BY <1>2, <1>3, <1>4, <1>5, Constants

LEMMA InvAccessesLegal == IInv => AccessesLegal
<1> SUFFICES ASSUME IInv, NEW w \in Threads, task[w].loop # "idle", task[w].i < task[w].limit
             PROVE  /\ task[w].i + Step(task[w].loop) <= n
                    /\ task[w].loop \in {"aligned blocks", "aligned"} =>
                         ~odd /\ (base + task[w].i) % Align = 0
  BY DEF AccessesLegal
<1> DEFINE t == task[w]
           s == Step(t.loop)
<1>1. n \in Nat /\ base \in Nat /\ t \in TaskType
  BY Bounds DEF IInv
<1>2. LoopInv(t)
  BY DEF IInv, Running, Active
<1>3. /\ t.i \in Nat /\ t.limit \in Nat /\ t.end \in Nat /\ t.loop \in Loops \ {"idle"}
  BY <1>1 DEF TaskType
<1>4. s \in Nat \ {0}
  BY <1>3, Constants
<1>5. Whole(t.i, t.limit, s) /\ t.limit <= t.end /\ t.end <= n
  BY <1>2 DEF LoopInv
<1>6. t.i + s <= t.limit
  <2>1. t.i < t.limit
    OBVIOUS
  <2> HIDE DEF t, s
  <2> QED
    BY <1>3, <1>4, <1>5, <2>1, WholeStep
<1>7. t.i + s <= n
  <2> HIDE DEF t, s
  <2> QED
    BY <1>1, <1>3, <1>4, <1>5, <1>6
<1>8. ASSUME t.loop \in {"aligned blocks", "aligned"}
      PROVE  ~odd /\ (base + t.i) % Align = 0
  <2>1. t.i = n \/ AlignedAt(t.i)
    BY <1>2, <1>8 DEF LoopInv
  <2>2. t.i # n
    <3> HIDE DEF t, s
    <3> QED
      BY <1>1, <1>3, <1>4, <1>7
  <2>3. ~odd /\ Whole(0, base + t.i, Align)
    BY <2>1, <2>2 DEF AlignedAt
  <2>4. base + t.i \in Nat
    BY <1>1, <1>3
  <2> HIDE DEF t
  <2> QED
    BY <2>3, <2>4, WholeDivides, Constants
<1> QED
  BY <1>7, <1>8

\* Every step of the sweep keeps the invariant.
LEMMA SpecInv == Spec => []IInv
<1>1. Init => IInv
  BY InitInv
<1>2. IInv /\ [Next]_vars => IInv'
  <2> SUFFICES ASSUME IInv, [Next]_vars PROVE IInv'
    OBVIOUS
  <2>1. CASE \E w \in Threads : Iterate(w)
    BY <2>1, IterateInv
  <2>2. CASE \E w \in Threads : Leave(w)
    BY <2>2, LeaveInv
  <2>3. CASE \E w \in Threads : TakeChunk(w)
    BY <2>3, TakeChunkInv
  <2>4. CASE GoParallel
    BY <2>4, GoParallelInv
  <2>5. CASE Join
    BY <2>5, JoinInv
  <2>6. CASE Returned \/ UNCHANGED vars
    BY <2>6, StutterInv DEF Returned
  <2> QED
    BY <2>1, <2>2, <2>3, <2>4, <2>5, <2>6 DEF Next
<1> QED
  BY <1>1, <1>2, PTL DEF Spec

\* The loop counters, the phases and the chunks of the sweep are well typed.
THEOREM SweepTyping == Spec => []TypeOK
<1>1. IInv => TypeOK
  BY DEF IInv
<1> QED
  BY <1>1, SpecInv, PTL

\* Peeling, blocks, registers, scalars and parallel chunks: each element of a
\* tensor of any size at any address is stored or folded in once.
THEOREM SweepSafety == Spec => []OnceEach
<1>1. IInv => OnceEach
  BY InvOnceEach
<1> QED
  BY <1>1, SpecInv, PTL

\* Every access of the sweep is inside the tensor, and aligned where the code
\* claims so, for any size, address and register length.
THEOREM SweepAccesses == Spec => []AccessesLegal
<1>1. IInv => AccessesLegal
  BY InvAccessesLegal
<1> QED
  BY <1>1, SpecInv, PTL
=============================================================================
