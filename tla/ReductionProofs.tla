-------------------------- MODULE ReductionProofs --------------------------
(***************************************************************************)
(* Proofs about Reduction, for any size, block size, items per thread,     *)
(* grid cap, SIMD width and buffers, and for any interleaving of the host  *)
(* with the threads of its kernels: the scratch of a block is race free,   *)
(* partial buffers are bounded, and what a reduction returns has every     *)
(* element folded exactly once.                                            *)
(***************************************************************************)
EXTENDS Reduction, TLAPS, FiniteSetTheorems, WellFoundedInduction

(* What reduce_expression folds on the CPU, for any register, number of    *)
(* accumulators and batch.                                                 *)
LEMMA Division ==
  ASSUME NEW m \in Nat, NEW d \in Nat \ {0}
  PROVE  /\ m \div d \in Nat /\ m % d \in 0 .. d - 1
         /\ m = d * (m \div d) + (m % d)
OBVIOUS

(* A quotient and a remainder are unique. *)
LEMMA Unique ==
  ASSUME NEW d \in Nat \ {0}, NEW q \in Nat, NEW r \in 0 .. d - 1
  PROVE  (d * q + r) % d = r /\ (d * q + r) \div d = q
<1> DEFINE m == d * q + r
<1>1. d * q \in Nat /\ m \in Nat
  OBVIOUS
<1>2. m \div d \in Nat /\ m % d \in 0 .. d - 1 /\ m = d * (m \div d) + (m % d)
  BY <1>1, Division
<1>3. d * (m \div d) + (m % d) = d * q + r
  BY <1>2
<1> DEFINE p == m \div d
           s == m % d
<1>4. p \in Nat /\ s \in 0 .. d - 1 /\ d * p + s = d * q + r
  BY <1>2, <1>3
<1> HIDE DEF m, p, s
<1>5. ~(p < q)
  <2> SUFFICES ASSUME p < q PROVE FALSE
    OBVIOUS
  <2>1. PICK k \in Nat : q = p + 1 + k
    <3>1. q - p - 1 \in Nat /\ q = p + 1 + (q - p - 1)
      BY <1>4
    <3> QED BY <3>1
  <2>2. d * q = d * p + d + d * k /\ d * k \in Nat /\ d * p \in Nat
    BY <1>4, <2>1
  <2> QED BY <1>4, <2>2
<1>6. ~(q < p)
  <2> SUFFICES ASSUME q < p PROVE FALSE
    OBVIOUS
  <2>1. PICK k \in Nat : p = q + 1 + k
    <3>1. p - q - 1 \in Nat /\ p = q + 1 + (p - q - 1)
      BY <1>4
    <3> QED BY <3>1
  <2>2. d * p = d * q + d + d * k /\ d * k \in Nat /\ d * q \in Nat
    BY <1>4, <2>1
  <2> QED BY <1>4, <2>2
<1>7. p = q /\ s = r
  <2>1. p = q
    BY <1>4, <1>5, <1>6
  <2> QED BY <1>1, <1>4, <2>1
<1> QED BY <1>7 DEF p, s, m

LEMMA Position ==
  ASSUME NEW d \in Nat \ {0}, NEW m \in Nat \ {0}, NEW b \in 0 .. m - 1, NEW t \in 0 .. d - 1
  PROVE  m * d \in Nat \ {0} /\ b * d + t \in 0 .. m * d - 1
<1>1. m - b - 1 \in Nat /\ m = b + 1 + (m - b - 1)
  OBVIOUS
<1>2. PICK k \in Nat : m = b + 1 + k
  BY <1>1
<1>3. m * d = b * d + d + k * d /\ k * d \in Nat /\ b * d \in Nat
  BY <1>2
<1> QED BY <1>3

LEMMA Placed ==
  ASSUME NEW d \in Nat \ {0}, NEW m \in Nat \ {0}, NEW p \in 0 .. m * d - 1
  PROVE  /\ p \div d \in 0 .. m - 1 /\ p % d \in 0 .. d - 1
         /\ p = (p \div d) * d + (p % d)
<1>1. m * d \in Nat /\ p \in Nat
  OBVIOUS
<1>2. p \div d \in Nat /\ p % d \in 0 .. d - 1 /\ p = d * (p \div d) + (p % d)
  BY <1>1, Division
<1> DEFINE q == p \div d
           r == p % d
<1>3. q \in Nat /\ r \in 0 .. d - 1 /\ p = d * q + r /\ d * q = q * d
  BY <1>2
<1> HIDE DEF q, r
<1>4. ~(q >= m)
  <2> SUFFICES ASSUME q >= m PROVE FALSE
    OBVIOUS
  <2>1. q - m \in Nat /\ q = m + (q - m)
    BY <1>3
  <2>2. PICK k \in Nat : q = m + k
    BY <2>1
  <2>3. q * d = m * d + k * d /\ k * d \in Nat
    BY <2>2
  <2> QED BY <1>1, <1>3, <2>3
<1> QED BY <1>3, <1>4 DEF q, r

LEMMA Distribute ==
  ASSUME NEW d \in Nat, NEW a \in Nat, NEW b \in Nat
  PROVE  d * a + b * d = d * (a + b)
OBVIOUS

(* The multiples of d in the range of d * q. *)
LEMMA Multiple ==
  ASSUME NEW d \in Nat \ {0}, NEW q \in Int, d * q >= 0
  PROVE  q \in Nat /\ (d * q) \div d = q /\ (d * q) % d = 0
<1>1. ~(q < 0)
  <2> SUFFICES ASSUME q < 0 PROVE FALSE
    OBVIOUS
  <2>1. -1 - q \in Nat /\ q = -1 - (-1 - q)
    OBVIOUS
  <2>2. PICK k \in Nat : q = -1 - k
    BY <2>1
  <2>3. d * q = -d - d * k /\ d * k \in Nat
    BY <2>2
  <2> QED BY <2>3
<1>2. q \in Nat /\ d * q + 0 = d * q /\ 0 \in 0 .. d - 1
  BY <1>1
<1>3. (d * q + 0) % d = 0 /\ (d * q + 0) \div d = q
  BY <1>2, Unique
<1> QED BY <1>2, <1>3
----------------------------------------------------------------------------
CpuCall(c) ==
  /\ c.n \in Nat /\ c.length \in Nat \ {0} /\ c.packet \in Nat \ {0} /\ c.batch \in Nat \ {0}
  /\ c.count \in BOOLEAN

\* A batch from begin on: its whole blocks, the rest, and the registers there.
Block(c) == c.length * c.packet
WholeBlocks(c, begin) == (BatchEnd(c, begin) - begin) \div Block(c)
Rest(c, begin) == begin + WholeBlocks(c, begin) * Block(c)
Registers(c, begin) == (BatchEnd(c, begin) - Rest(c, begin)) \div c.length

LEMMA VectorEnd ==
  ASSUME NEW c, CpuCall(c)
  PROVE  /\ vector_end(c) \in 0 .. c.n
         /\ \E v \in Nat : vector_end(c) = c.length * v
<1>1. c.n \in Nat /\ c.length \in Nat \ {0}
  BY DEF CpuCall
<1>2. c.n \div c.length \in Nat /\ c.n % c.length \in 0 .. c.length - 1
      /\ c.n = c.length * (c.n \div c.length) + (c.n % c.length)
  BY <1>1, Division
<1>3. PICK v \in Nat, r \in Nat : c.n = c.length * v + r /\ r = c.n % c.length
  BY <1>1, <1>2
<1>4. c.length * v \in Nat
  BY <1>1
<1> QED BY <1>1, <1>3, <1>4 DEF vector_end

(* The begin of a batch is a multiple of its size. *)
LEMMA BatchStart ==
  ASSUME NEW c, CpuCall(c), NEW begin \in Batches(c)
  PROVE  /\ begin \in Nat /\ begin < vector_end(c) /\ vector_end(c) \in Nat
         /\ BatchSize(c) \in Nat \ {0}
         /\ \E p \in Nat : begin = BatchSize(c) * p
         /\ \E z \in Nat : BatchSize(c) = c.length * z
<1>1. vector_end(c) \in Nat /\ \E v \in Nat : vector_end(c) = c.length * v
  BY VectorEnd DEF CpuCall
<1>2. begin \in Nat /\ begin < vector_end(c) /\ begin % BatchSize(c) = 0
  BY <1>1 DEF Batches
<1>3. c.length \in Nat \ {0} /\ c.batch \in Nat \ {0}
  BY DEF CpuCall
<1>4. BatchSize(c) \in Nat \ {0} /\ \E z \in Nat : BatchSize(c) = c.length * z
  <2>1. CASE c.count
    <3>1. BatchSize(c) = c.batch * c.length
      BY <2>1 DEF BatchSize
    <3>2. c.batch * c.length \in Nat \ {0} /\ c.batch * c.length = c.length * c.batch
      BY <1>3
    <3> QED BY <1>3, <3>1, <3>2
  <2>2. CASE ~c.count
    BY <1>1, <1>2, <2>2 DEF BatchSize
  <2> QED BY <2>1, <2>2
<1>5. \E p \in Nat : begin = BatchSize(c) * p
  <2> DEFINE d == BatchSize(c)
  <2>1. begin \div d \in Nat /\ begin = d * (begin \div d) + (begin % d)
    BY <1>2, <1>4, Division
  <2>2. d * (begin \div d) \in Nat
    BY <1>4, <2>1
  <2>3. begin = d * (begin \div d)
    BY <1>2, <2>1, <2>2
  <2> QED BY <2>1, <2>3
<1> QED BY <1>1, <1>2, <1>4, <1>5

(* A batch holds whole registers: blocks of them, then single ones. *)
LEMMA BatchShape ==
  ASSUME NEW c, CpuCall(c), NEW begin \in Batches(c)
  PROVE  /\ begin \in Nat /\ BatchEnd(c, begin) \in Nat /\ begin < BatchEnd(c, begin)
         /\ BatchEnd(c, begin) <= begin + BatchSize(c) /\ BatchEnd(c, begin) <= vector_end(c)
         /\ Block(c) \in Nat \ {0}
         /\ WholeBlocks(c, begin) \in Nat /\ Rest(c, begin) \in Nat /\ Rest(c, begin) >= begin
         /\ Registers(c, begin) \in Nat
         /\ BatchEnd(c, begin) = Rest(c, begin) + Registers(c, begin) * c.length
<1> DEFINE d == c.length
           e == BatchEnd(c, begin)
<1>0. d \in Nat \ {0} /\ c.packet \in Nat \ {0}
  BY DEF CpuCall
<1>1. begin \in Nat /\ begin < vector_end(c) /\ vector_end(c) \in Nat /\ BatchSize(c) \in Nat \ {0}
  BY BatchStart
<1>2. e \in Nat /\ begin < e /\ e <= begin + BatchSize(c) /\ e <= vector_end(c)
      /\ e \in {begin + BatchSize(c), vector_end(c)}
  BY <1>1 DEF BatchEnd
<1>3. PICK p \in Nat : begin = BatchSize(c) * p
  BY BatchStart
<1>4. PICK z \in Nat : BatchSize(c) = d * z
  BY BatchStart
<1>5. PICK v \in Nat : vector_end(c) = d * v
  BY VectorEnd
<1>6. begin = d * (z * p) /\ z * p \in Nat
  BY <1>0, <1>3, <1>4
<1>7. PICK w \in Int : e - begin = d * w
  <2>1. CASE e = begin + BatchSize(c)
    BY <1>1, <1>4, <2>1
  <2>2. CASE e = vector_end(c)
    <3>1. PICK q \in Nat : begin = d * q
      BY <1>6
    <3>2. d * v - d * q = d * (v - q) /\ v - q \in Int
      BY <1>0
    <3> QED BY <1>5, <2>2, <3>1, <3>2
  <2> QED BY <1>2, <2>1, <2>2
<1>8. Block(c) \in Nat \ {0} /\ Block(c) = d * c.packet
  BY <1>0 DEF Block
<1> DEFINE m == WholeBlocks(c, begin)
<1>9. m \in Nat /\ \E r \in Nat : e - begin = Block(c) * m + r
  <2>1. e - begin \in Nat
    BY <1>1, <1>2
  <2>2. (e - begin) \div Block(c) \in Nat /\ (e - begin) % Block(c) \in 0 .. Block(c) - 1
        /\ e - begin = Block(c) * ((e - begin) \div Block(c)) + ((e - begin) % Block(c))
    BY <1>8, <2>1, Division
  <2>3. (e - begin) % Block(c) \in Nat
    BY <1>8, <2>2
  <2> QED BY <2>2, <2>3 DEF WholeBlocks
<1> HIDE DEF m
<1>10. PICK r \in Nat : e - begin = Block(c) * m + r
  BY <1>9
<1>11. Rest(c, begin) = begin + m * Block(c) /\ m * Block(c) = Block(c) * m /\ m * Block(c) \in Nat
  BY <1>8, <1>9 DEF Rest, m
<1>12. Rest(c, begin) \in Nat /\ Rest(c, begin) >= begin /\ e - Rest(c, begin) = r
  BY <1>1, <1>2, <1>10, <1>11
<1>13. r = d * (w - c.packet * m) /\ w - c.packet * m \in Int
  <2>1. r = d * w - Block(c) * m
    BY <1>0, <1>7, <1>8, <1>9, <1>10
  <2>2. Block(c) * m = d * (c.packet * m) /\ c.packet * m \in Nat
    BY <1>0, <1>8, <1>9
  <2>3. d * w - d * (c.packet * m) = d * (w - c.packet * m)
    BY <1>0, <2>2
  <2> QED BY <2>1, <2>2, <2>3
<1>14. PICK q \in Int : r = d * q
  BY <1>13
<1>15. q \in Nat /\ (d * q) \div d = q
  BY <1>0, <1>14, Multiple
<1>16. Registers(c, begin) = q
  BY <1>12, <1>14, <1>15 DEF Registers
<1>17. d * q = q * d
  BY <1>0, <1>15
<1>18. e = Rest(c, begin) + q * d
  BY <1>2, <1>12, <1>14, <1>17
<1> QED BY <1>1, <1>2, <1>8, <1>9, <1>12, <1>15, <1>16, <1>18 DEF m
----------------------------------------------------------------------------
(* The elements of a lane: the cells lane of register k of every whole     *)
(* block, and, for the first accumulator, of every single register.        *)
LEMMA LaneIs ==
  ASSUME NEW c, CpuCall(c), NEW begin \in Batches(c),
         NEW k \in 0 .. c.packet - 1, NEW lane \in 0 .. c.length - 1, NEW x
  PROVE  x \in Lane(c, begin, k, lane) <=>
           \/ \E j \in 0 .. WholeBlocks(c, begin) - 1 : x = begin + j * Block(c) + k * c.length + lane
           \/ k = 0 /\ \E j \in 0 .. Registers(c, begin) - 1 : x = Rest(c, begin) + j * c.length + lane
<1> DEFINE A == {begin + j * Block(c) + k * c.length + lane : j \in 0 .. WholeBlocks(c, begin) - 1}
           B == IF k = 0 THEN {Rest(c, begin) + j * c.length + lane : j \in 0 .. Registers(c, begin) - 1}
                ELSE {}
<1>0. /\ c.length \in Nat \ {0} /\ c.packet \in Nat \ {0}
      /\ begin \in Nat /\ Block(c) \in Nat \ {0} /\ WholeBlocks(c, begin) \in Nat
      /\ Rest(c, begin) \in Nat /\ Registers(c, begin) \in Nat
  BY BatchShape DEF CpuCall
<1>1. Lane(c, begin, k, lane) = Combine(A, B)
  BY DEF Lane, WholeBlocks, Rest, Registers, Block
<1>2. ASSUME NEW y, y \in A, y \in B PROVE FALSE
  <2>1. PICK j \in 0 .. WholeBlocks(c, begin) - 1 : y = begin + j * Block(c) + k * c.length + lane
    BY <1>2
  <2>2. k = 0
    BY <1>2
  <2>3. PICK i \in 0 .. Registers(c, begin) - 1 : y = Rest(c, begin) + i * c.length + lane
    BY <1>2, <2>2
  <2>4. WholeBlocks(c, begin) \in Nat \ {0}
    BY <1>0, <2>1
  <2>5. lane \in 0 .. Block(c) - 1
    <3>1. 0 \in 0 .. c.packet - 1 /\ c.packet * c.length = c.length * c.packet
      BY <1>0
    <3>2. 0 * c.length + lane \in 0 .. c.packet * c.length - 1
      BY <1>0, <3>1, Position
    <3>3. 0 * c.length + lane = lane
      BY <1>0
    <3> QED BY <3>1, <3>2, <3>3 DEF Block
  <2>6. j * Block(c) + lane \in 0 .. WholeBlocks(c, begin) * Block(c) - 1
    BY <1>0, <2>1, <2>4, <2>5, Position
  <2>7. y = begin + (j * Block(c) + lane)
    BY <1>0, <2>1, <2>2
  <2>8. y < Rest(c, begin)
    BY <1>0, <2>6, <2>7 DEF Rest
  <2>9. i * c.length \in Nat
    BY <1>0
  <2> QED BY <1>0, <2>3, <2>8, <2>9
<1>3. A \cap B = {}
  BY <1>2
<1>4. Combine(A, B) = A \cup B
  BY <1>3 DEF Combine
<1>5. Lane(c, begin, k, lane) = A \cup B
  BY <1>1, <1>4
<1>6. x \in A <=> \E j \in 0 .. WholeBlocks(c, begin) - 1 : x = begin + j * Block(c) + k * c.length + lane
  OBVIOUS
<1>7. x \in B <=> k = 0 /\ \E j \in 0 .. Registers(c, begin) - 1 : x = Rest(c, begin) + j * c.length + lane
  OBVIOUS
<1> HIDE DEF A, B
<1> QED BY <1>5, <1>6, <1>7

(* The cell of a block that a register and a lane of it name. *)
LEMMA Cell ==
  ASSUME NEW c, CpuCall(c), NEW k \in 0 .. c.packet - 1, NEW lane \in 0 .. c.length - 1
  PROVE  k * c.length + lane \in 0 .. Block(c) - 1
<1>1. c.length \in Nat \ {0} /\ c.packet \in Nat \ {0} /\ c.packet * c.length = Block(c)
  BY DEF CpuCall, Block
<1> QED BY <1>1, Position

(* Where an element of a lane lies, and by which remainders it is known.   *)
LEMMA InLane ==
  ASSUME NEW c, CpuCall(c), NEW begin \in Batches(c),
         NEW k \in 0 .. c.packet - 1, NEW lane \in 0 .. c.length - 1,
         NEW x \in Lane(c, begin, k, lane)
  PROVE  /\ x \in begin .. BatchEnd(c, begin) - 1
         /\ x < Rest(c, begin) => (x - begin) % Block(c) = k * c.length + lane
         /\ x >= Rest(c, begin) => k = 0 /\ (x - Rest(c, begin)) % c.length = lane
         /\ \E q \in Nat : x = begin + c.length * q + lane
<1>0. /\ c.length \in Nat \ {0} /\ c.packet \in Nat \ {0}
      /\ begin \in Nat /\ Block(c) \in Nat \ {0} /\ WholeBlocks(c, begin) \in Nat
      /\ Rest(c, begin) \in Nat /\ Registers(c, begin) \in Nat /\ Rest(c, begin) >= begin
      /\ BatchEnd(c, begin) = Rest(c, begin) + Registers(c, begin) * c.length
      /\ BatchEnd(c, begin) \in Nat
  BY BatchShape DEF CpuCall
<1> DEFINE r == k * c.length + lane
<1>1. r \in 0 .. Block(c) - 1
  BY Cell
<1>2. CASE \E j \in 0 .. WholeBlocks(c, begin) - 1 : x = begin + j * Block(c) + k * c.length + lane
  <2>1. PICK j \in 0 .. WholeBlocks(c, begin) - 1 : x = begin + j * Block(c) + k * c.length + lane
    BY <1>2
  <2>2. j \in Nat /\ WholeBlocks(c, begin) \in Nat \ {0}
    BY <1>0
  <2>3. j * Block(c) \in Nat /\ k * c.length \in Nat /\ lane \in Nat /\ k \in Nat
    BY <1>0, <2>2
  <2>4. x = begin + (j * Block(c) + r)
    BY <1>0, <2>1, <2>3
  <2>5. j * Block(c) + r \in 0 .. WholeBlocks(c, begin) * Block(c) - 1
    BY <1>0, <1>1, <2>2, Position
  <2>6. WholeBlocks(c, begin) * Block(c) \in Nat /\ Registers(c, begin) * c.length \in Nat
    BY <1>0
  <2>7. x \in begin .. Rest(c, begin) - 1 /\ x - begin = j * Block(c) + r
    BY <1>0, <2>4, <2>5, <2>6 DEF Rest
  <2>8. (x - begin) % Block(c) = r
    <3>1. j * Block(c) + r = Block(c) * j + r
      BY <1>0, <2>2
    <3>2. (Block(c) * j + r) % Block(c) = r
      BY <1>0, <1>1, <2>2, Unique
    <3> QED BY <2>7, <3>1, <3>2
  <2>9. x = begin + c.length * (c.packet * j + k) + lane /\ c.packet * j + k \in Nat
    <3>1. j * Block(c) = c.length * (c.packet * j) /\ c.packet * j \in Nat
      BY <1>0, <2>2 DEF Block
    <3>2. c.length * (c.packet * j) + k * c.length = c.length * (c.packet * j + k)
      <4> DEFINE a == c.packet * j
      <4>1. a \in Nat /\ k \in Nat /\ c.length \in Nat
        BY <1>0, <2>3, <3>1
      <4> HIDE DEF a
      <4>2. c.length * a + k * c.length = c.length * (a + k)
        BY <4>1, Distribute
      <4> QED BY <4>2 DEF a
    <3> QED BY <1>0, <2>1, <2>3, <3>1, <3>2
  <2>10. x < Rest(c, begin) /\ x \in begin .. BatchEnd(c, begin) - 1
    BY <1>0, <2>6, <2>7
  <2> QED BY <1>0, <2>7, <2>8, <2>9, <2>10
<1>3. CASE k = 0 /\ \E j \in 0 .. Registers(c, begin) - 1 : x = Rest(c, begin) + j * c.length + lane
  <2>1. PICK j \in 0 .. Registers(c, begin) - 1 : x = Rest(c, begin) + j * c.length + lane
    BY <1>3
  <2>2. j \in Nat /\ Registers(c, begin) \in Nat \ {0} /\ j * c.length \in Nat /\ lane \in Nat
    BY <1>0
  <2>3. j * c.length + lane \in 0 .. Registers(c, begin) * c.length - 1
    BY <1>0, <2>2, Position
  <2>4. x - Rest(c, begin) = j * c.length + lane /\ x >= Rest(c, begin) /\ x \in Nat
    BY <1>0, <2>1, <2>2
  <2>5. x \in begin .. BatchEnd(c, begin) - 1
    <3>1. Registers(c, begin) * c.length \in Nat
      BY <1>0
    <3> QED BY <1>0, <2>3, <2>4, <3>1
  <2>6. (x - Rest(c, begin)) % c.length = lane
    <3>1. j * c.length + lane = c.length * j + lane
      BY <1>0, <2>2
    <3>2. (c.length * j + lane) % c.length = lane
      BY <1>0, <2>2, Unique
    <3> QED BY <2>4, <3>1, <3>2
  <2>7. x = begin + c.length * (c.packet * WholeBlocks(c, begin) + j) + lane
        /\ c.packet * WholeBlocks(c, begin) + j \in Nat
    <3> DEFINE m == WholeBlocks(c, begin)
    <3>1. m * Block(c) = c.length * (c.packet * m) /\ c.packet * m \in Nat
      BY <1>0 DEF Block
    <3>2. Rest(c, begin) = begin + c.length * (c.packet * m)
      BY <3>1 DEF Rest
    <3> HIDE DEF m
    <3>3. c.length * (c.packet * m + j) = c.length * (c.packet * m) + j * c.length
      BY <1>0, <2>2, <3>1
    <3> QED BY <1>0, <2>1, <2>2, <3>1, <3>2, <3>3 DEF m
  <2> QED BY <1>0, <1>3, <2>4, <2>5, <2>6, <2>7
<1> QED BY <1>2, <1>3, LaneIs

(* No element is in two lanes. *)
LEMMA LanesDisjoint ==
  ASSUME NEW c, CpuCall(c), NEW b \in Batches(c), NEW a \in Batches(c),
         NEW k \in 0 .. c.packet - 1, NEW i \in 0 .. c.packet - 1,
         NEW lane \in 0 .. c.length - 1, NEW l \in 0 .. c.length - 1,
         NEW x \in Lane(c, b, k, lane), x \in Lane(c, a, i, l)
  PROVE  b = a /\ k = i /\ lane = l
<1>0. c.length \in Nat \ {0} /\ Block(c) \in Nat \ {0} /\ Rest(c, b) \in Nat
  BY BatchShape DEF CpuCall
<1>1. b = a
  <2> DEFINE d == BatchSize(c)
  <2>1. d \in Nat \ {0} /\ b \in Nat /\ a \in Nat
    BY BatchStart
  <2>2. PICK p \in Nat : b = d * p
    BY BatchStart
  <2>3. PICK q \in Nat : a = d * q
    BY BatchStart
  <2>4. /\ x \in b .. BatchEnd(c, b) - 1 /\ BatchEnd(c, b) <= b + d /\ BatchEnd(c, b) \in Nat
        /\ x \in a .. BatchEnd(c, a) - 1 /\ BatchEnd(c, a) <= a + d /\ BatchEnd(c, a) \in Nat
    BY InLane, BatchShape
  <2> HIDE DEF d
  <2>5. x - b \in 0 .. d - 1 /\ x - a \in 0 .. d - 1 /\ x = b + (x - b) /\ x = a + (x - a)
    BY <2>1, <2>4
  <2>6. PICK r \in 0 .. d - 1, s \in 0 .. d - 1 : x = d * p + r /\ x = d * q + s
    BY <2>2, <2>3, <2>5
  <2>7. (d * p + r) \div d = p /\ (d * q + s) \div d = q
    BY <2>1, Unique
  <2> QED BY <2>2, <2>3, <2>6, <2>7
<1>2. /\ x < Rest(c, b) => (x - b) % Block(c) = k * c.length + lane
      /\ x >= Rest(c, b) => k = 0 /\ (x - Rest(c, b)) % c.length = lane
      /\ x \in Int
  <2>1. x \in Int
    BY InLane, BatchShape
  <2> QED BY <2>1, InLane
<1>3. /\ x < Rest(c, b) => (x - b) % Block(c) = i * c.length + l
      /\ x >= Rest(c, b) => i = 0 /\ (x - Rest(c, b)) % c.length = l
  BY <1>1, InLane
<1>4. CASE x < Rest(c, b)
  <2>1. k * c.length + lane = i * c.length + l
    BY <1>2, <1>3, <1>4
  <2>2. k \in Nat /\ i \in Nat /\ k * c.length = c.length * k /\ i * c.length = c.length * i
    BY <1>0
  <2>3. /\ (c.length * k + lane) \div c.length = k /\ (c.length * k + lane) % c.length = lane
        /\ (c.length * i + l) \div c.length = i /\ (c.length * i + l) % c.length = l
    BY <1>0, <2>2, Unique
  <2> QED BY <1>1, <2>1, <2>2, <2>3
<1>5. CASE x >= Rest(c, b)
  BY <1>1, <1>2, <1>3, <1>5
<1> QED BY <1>0, <1>2, <1>4, <1>5

(* Every element that a register can hold is in a lane. *)
LEMMA LanesCover ==
  ASSUME NEW c, CpuCall(c), NEW x \in 0 .. vector_end(c) - 1
  PROVE  \E b \in Batches(c), k \in 0 .. c.packet - 1, lane \in 0 .. c.length - 1 :
            x \in Lane(c, b, k, lane)
<1>0. c.length \in Nat \ {0} /\ c.packet \in Nat \ {0} /\ c.batch \in Nat \ {0}
      /\ vector_end(c) \in Nat /\ x \in Nat /\ x < vector_end(c)
  BY VectorEnd DEF CpuCall
<1> DEFINE d == BatchSize(c)
<1>1. d \in Nat \ {0}
  BY <1>0 DEF BatchSize
<1> HIDE DEF d
<1> DEFINE b == d * (x \div d)
<1>2. b \in Nat /\ b <= x /\ x < b + d /\ b % d = 0
  <2>1. x \div d \in Nat /\ x % d \in 0 .. d - 1 /\ x = d * (x \div d) + (x % d)
    BY <1>0, <1>1, Division
  <2>2. PICK p \in Nat, r \in 0 .. d - 1 : x = d * p + r /\ p = x \div d
    BY <2>1
  <2>3. d * p \in Nat /\ d * p >= 0
    BY <1>1
  <2>4. (d * p) % d = 0
    BY <1>1, <2>3, Multiple
  <2> QED BY <1>1, <2>2, <2>3, <2>4
<1> HIDE DEF b
<1>3. b \in Batches(c)
  BY <1>0, <1>2 DEF Batches, d
<1>4. x < BatchEnd(c, b)
  BY <1>0, <1>2 DEF BatchEnd, d
<1>5. /\ Block(c) \in Nat \ {0} /\ WholeBlocks(c, b) \in Nat
      /\ Rest(c, b) \in Nat /\ Registers(c, b) \in Nat /\ Rest(c, b) >= b
      /\ BatchEnd(c, b) = Rest(c, b) + Registers(c, b) * c.length
      /\ BatchEnd(c, b) \in Nat
  BY <1>3, BatchShape
<1>6. CASE x < Rest(c, b)
  <2> DEFINE y == x - b
             j == y \div Block(c)
             r == y % Block(c)
             k == r \div c.length
             lane == r % c.length
  <2>1. y \in 0 .. WholeBlocks(c, b) * Block(c) - 1 /\ x = b + y
    <3>1. WholeBlocks(c, b) * Block(c) \in Nat
      BY <1>5
    <3> QED BY <1>0, <1>2, <1>5, <1>6, <3>1 DEF Rest
  <2>2. WholeBlocks(c, b) \in Nat \ {0}
    <3>1. 0 * Block(c) = 0
      BY <1>5
    <3> QED BY <1>5, <2>1, <3>1
  <2> HIDE DEF y
  <2>3. j \in 0 .. WholeBlocks(c, b) - 1 /\ r \in 0 .. Block(c) - 1 /\ y = j * Block(c) + r
    BY <1>5, <2>1, <2>2, Placed
  <2> HIDE DEF j, r
  <2>4. r \in 0 .. c.packet * c.length - 1
    <3>1. c.packet * c.length = Block(c)
      BY <1>0 DEF Block
    <3> QED BY <2>3, <3>1
  <2>5. k \in 0 .. c.packet - 1 /\ lane \in 0 .. c.length - 1 /\ r = k * c.length + lane
    BY <1>0, <2>4, Placed
  <2> HIDE DEF k, lane
  <2>6. x = b + j * Block(c) + k * c.length + lane
    <3>1. j * Block(c) \in Nat /\ k * c.length \in Nat /\ lane \in Nat
      BY <1>0, <1>5, <2>3, <2>5
    <3> QED BY <1>2, <2>1, <2>3, <2>5, <3>1
  <2>7. x \in Lane(c, b, k, lane)
    BY <1>3, <2>3, <2>5, <2>6, LaneIs
  <2> QED BY <1>3, <2>5, <2>7
<1>7. CASE x >= Rest(c, b)
  <2> DEFINE y == x - Rest(c, b)
             j == y \div c.length
             lane == y % c.length
  <2>1. y \in 0 .. Registers(c, b) * c.length - 1 /\ x = Rest(c, b) + y
    <3>1. Registers(c, b) * c.length \in Nat
      BY <1>0, <1>5
    <3> QED BY <1>0, <1>4, <1>5, <1>7, <3>1
  <2>2. Registers(c, b) \in Nat \ {0}
    <3>1. 0 * c.length = 0
      BY <1>0
    <3> QED BY <1>5, <2>1, <3>1
  <2> HIDE DEF y
  <2>3. j \in 0 .. Registers(c, b) - 1 /\ lane \in 0 .. c.length - 1 /\ y = j * c.length + lane
    BY <1>0, <2>1, <2>2, Placed
  <2> HIDE DEF j, lane
  <2>4. x = Rest(c, b) + j * c.length + lane
    <3>1. j * c.length \in Nat /\ lane \in Nat
      BY <1>0, <2>3
    <3> QED BY <1>5, <2>1, <2>3, <3>1
  <2>5. 0 \in 0 .. c.packet - 1
    BY <1>0
  <2>6. x \in Lane(c, b, 0, lane)
    BY <1>3, <2>3, <2>4, <2>5, LaneIs
  <2> QED BY <1>3, <2>3, <2>5, <2>6
<1> QED BY <1>0, <1>5, <1>6, <1>7

(* reduce_expression folds every element of the expression exactly once,   *)
(* whatever the size, the register, the accumulators and the batches.      *)
THEOREM ReduceExpressionFoldsAll ==
  ASSUME NEW c, CpuCall(c)
  PROVE  reduce_expression(c) = 0 .. c.n - 1
<1> DEFINE lanes == Batches(c) \X (0 .. c.packet - 1) \X (0 .. c.length - 1)
           value == [x \in lanes |-> Lane(c, x[1], x[2], x[3])]
           v == vector_end(c)
<1>0. v \in 0 .. c.n /\ c.n \in Nat
  BY VectorEnd DEF CpuCall
<1>1. reduce_expression(c) = Combine(CombineAll(value), v .. c.n - 1)
  BY DEF reduce_expression
<1>2. DOMAIN value = lanes
  OBVIOUS
<1>3. ASSUME NEW p \in lanes
      PROVE  /\ p[1] \in Batches(c) /\ p[2] \in 0 .. c.packet - 1 /\ p[3] \in 0 .. c.length - 1
             /\ p = <<p[1], p[2], p[3]>> /\ value[p] = Lane(c, p[1], p[2], p[3])
  OBVIOUS
<1>4. ASSUME NEW p \in lanes, NEW q \in lanes, p # q PROVE value[p] \cap value[q] = {}
  <2>1. ASSUME NEW x, x \in value[p], x \in value[q] PROVE FALSE
    <3>1. p[1] = q[1] /\ p[2] = q[2] /\ p[3] = q[3]
      BY <1>3, <2>1, LanesDisjoint
    <3> QED BY <1>3, <1>4, <3>1
  <2> QED BY <2>1
<1>5. ASSUME NEW p \in lanes, NEW x \in value[p] PROVE x \in 0 .. v - 1
  <2>1. x \in p[1] .. BatchEnd(c, p[1]) - 1
    BY <1>3, InLane
  <2>2. p[1] \in Nat /\ BatchEnd(c, p[1]) \in Nat /\ BatchEnd(c, p[1]) <= v
    BY <1>3, BatchShape
  <2> QED BY <1>0, <2>1, <2>2
<1>6. ASSUME NEW x \in 0 .. v - 1 PROVE \E p \in lanes : x \in value[p]
  <2>1. PICK b \in Batches(c), k \in 0 .. c.packet - 1, lane \in 0 .. c.length - 1 :
            x \in Lane(c, b, k, lane)
    BY LanesCover
  <2>2. <<b, k, lane>> \in lanes /\ value[<<b, k, lane>>] = Lane(c, b, k, lane)
    OBVIOUS
  <2> QED BY <2>1, <2>2
<1> HIDE DEF lanes, value
<1>7. CombineAll(value) = 0 .. v - 1
  <2>1. ~ \E x, y \in DOMAIN value : x # y /\ value[x] \cap value[y] # {}
    BY <1>2, <1>4
  <2>2. UNION {value[x] : x \in DOMAIN value} = 0 .. v - 1
    BY <1>2, <1>5, <1>6
  <2> QED BY <2>1, <2>2 DEF CombineAll
<1> HIDE DEF v
<1>8. (0 .. v - 1) \cap (v .. c.n - 1) = {} /\ (0 .. v - 1) \cup (v .. c.n - 1) = 0 .. c.n - 1
  BY <1>0
<1>9. Combine(0 .. v - 1, v .. c.n - 1) = 0 .. c.n - 1
  BY <1>8 DEF Combine
<1> QED BY <1>1, <1>7, <1>9

(* A step that is the first to fail has a predecessor that does not.       *)
LEMMA StepByStep ==
  ASSUME NEW m \in Nat, NEW S, 0 \in S, \A k \in 1 .. m : k - 1 \in S => k \in S
  PROVE  m \in S
<1> DEFINE T == (0 .. m) \ S
           R == OpToRel(<, Nat)
<1> SUFFICES ASSUME m \notin S PROVE FALSE
  OBVIOUS
<1>1. T \subseteq Nat /\ T # {}
  OBVIOUS
<1>2. R = {ss \in Nat \X Nat : ss[1] < ss[2]}
  BY DEF OpToRel
<1>3. IsWellFoundedOn(R, Nat)
  BY NatLessThanWellFounded
<1> HIDE DEF R
<1>4. PICK x \in T : \A y \in T : <<y, x>> \notin R
  <2> HIDE DEF T
  <2> QED BY <1>1, <1>3, WFMin
<1>5. x \in 1 .. m /\ x - 1 \in 0 .. m /\ x \in Nat /\ x - 1 \in Nat
  BY <1>4
<1>6. <<x - 1, x>> \in R
  <2>1. <<x - 1, x>> \in Nat \X Nat /\ <<x - 1, x>>[1] < <<x - 1, x>>[2]
    BY <1>5
  <2> QED BY <1>2, <2>1
<1>7. x - 1 \in S
  BY <1>4, <1>5, <1>6
<1> QED BY <1>4, <1>5, <1>7

(* The walk over a strided operand folds every element exactly once.       *)
THEOREM ReduceStridedFoldsAll ==
  ASSUME NEW c, c.n \in Nat
  PROVE  reduce_strided(c) = 0 .. c.n - 1
<1> DEFINE m == c.n
           Body(f) == [i \in 0 .. m |-> IF i = 0 THEN {} ELSE Combine(f[i - 1], {i - 1})]
           first == [i \in 0 .. m |-> 0 .. i - 1]
           acc == CHOOSE f : f = Body(f)
<1>1. ASSUME NEW i \in 1 .. m PROVE Combine(0 .. (i - 1) - 1, {i - 1}) = 0 .. i - 1
  <2>1. (0 .. (i - 1) - 1) \cap {i - 1} = {} /\ (0 .. (i - 1) - 1) \cup {i - 1} = 0 .. i - 1
    OBVIOUS
  <2> QED BY <2>1 DEF Combine
<1>2. first = Body(first)
  <2>1. ASSUME NEW i \in 0 .. m
        PROVE  first[i] = IF i = 0 THEN {} ELSE Combine(first[i - 1], {i - 1})
    <3>1. CASE i = 0
      BY <3>1
    <3>2. CASE i # 0
      <4>1. i \in 1 .. m /\ first[i - 1] = 0 .. (i - 1) - 1
        BY <3>2
      <4> QED BY <1>1, <3>2, <4>1
    <3> QED BY <3>1, <3>2
  <2> QED BY <2>1
<1>3. \E f : f = Body(f)
  <2> HIDE DEF Body, first
  <2> QED BY <1>2
<1>4. acc = Body(acc)
  <2> HIDE DEF Body
  <2> QED BY <1>3
<1>5. reduce_strided(c) = acc[m]
  BY DEF reduce_strided
<1> HIDE DEF acc
<1> DEFINE S == {i \in 0 .. m : acc[i] = 0 .. i - 1}
<1>6. 0 \in S
  BY <1>4
<1>7. ASSUME NEW k \in 1 .. m, k - 1 \in S PROVE k \in S
  <2>1. acc[k] = Combine(acc[k - 1], {k - 1})
    <3>1. k \in 0 .. m /\ k # 0
      OBVIOUS
    <3>2. Body(acc)[k] = Combine(acc[k - 1], {k - 1})
      BY <3>1, Zenon
    <3> HIDE DEF Body
    <3> QED BY <1>4, <3>2, Zenon
  <2>2. acc[k - 1] = 0 .. (k - 1) - 1
    BY <1>7
  <2> QED BY <1>1, <2>1, <2>2
<1>8. m \in S
  <2> HIDE DEF S
  <2> QED BY <1>6, <1>7, StepByStep
<1> QED BY <1>5, <1>8

(* A lane of a counting reduction holds no more elements than a batch has  *)
(* steps, so that a float lane counts exactly.                             *)
LEMMA LaneSize ==
  ASSUME NEW c, CpuCall(c), c.count, NEW begin \in Batches(c),
         NEW k \in 0 .. c.packet - 1, NEW lane \in 0 .. c.length - 1
  PROVE  Cardinality(Lane(c, begin, k, lane)) \in Nat
         /\ Cardinality(Lane(c, begin, k, lane)) <= c.batch
<1>0. c.length \in Nat \ {0} /\ c.batch \in Nat \ {0} /\ BatchSize(c) = c.batch * c.length
  BY DEF CpuCall, BatchSize
<1> DEFINE S == Lane(c, begin, k, lane)
           T == 0 .. c.batch - 1
           f == [x \in S |-> (x - begin) \div c.length]
<1>1. ASSUME NEW x \in S PROVE f[x] \in T /\ x = begin + c.length * f[x] + lane
  <2>1. begin \in Nat /\ BatchEnd(c, begin) \in Nat /\ x \in begin .. BatchEnd(c, begin) - 1
        /\ BatchEnd(c, begin) <= begin + c.batch * c.length
    BY <1>0, BatchShape, InLane
  <2>2. PICK q \in Nat : x = begin + c.length * q + lane
    BY InLane
  <2>3. c.batch * c.length \in Nat /\ c.length * q \in Nat /\ lane \in Nat
    BY <1>0
  <2>4. x - begin \in 0 .. c.batch * c.length - 1 /\ x - begin = c.length * q + lane
    BY <2>1, <2>2, <2>3
  <2>5. (c.length * q + lane) \div c.length = q
    BY <1>0, Unique
  <2>6. (x - begin) \div c.length \in 0 .. c.batch - 1
    BY <1>0, <2>4, Placed
  <2> QED BY <2>2, <2>4, <2>5, <2>6
<1>2. f \in [S -> T] /\ \A x, y \in S : f[x] = f[y] => x = y
  <2>1. f \in [S -> T]
    BY <1>1
  <2>2. ASSUME NEW x \in S, NEW y \in S, f[x] = f[y] PROVE x = y
    BY <1>1, <2>2
  <2> QED BY <2>1, <2>2
<1> HIDE DEF S, T, f
<1>3. f \in Injection(S, T)
  BY <1>2 DEF Injection, IsInjective
<1>4. IsFiniteSet(T) /\ Cardinality(T) = c.batch
  <2>1. 0 \in Int /\ c.batch - 1 \in Int /\ ~(0 > c.batch - 1) /\ c.batch - 1 - 0 + 1 = c.batch
    BY <1>0
  <2>2. IsFiniteSet(0 .. c.batch - 1)
        /\ Cardinality(0 .. c.batch - 1) = IF 0 > c.batch - 1 THEN 0 ELSE c.batch - 1 - 0 + 1
    BY <2>1, FS_Interval
  <2> QED BY <2>1, <2>2 DEF T
<1>5. IsFiniteSet(S) /\ Cardinality(S) <= Cardinality(T)
  BY <1>3, <1>4, FS_Injection
<1>6. Cardinality(S) \in Nat
  BY <1>5, FS_CardinalityType
<1> QED BY <1>4, <1>5, <1>6 DEF S

----------------------------------------------------------------------------
(* The host and the kernels.                                               *)
Gpu == call.device = "gpu"

\* Where the host is, what it owns and what the next kernel will read.
HostInv ==
  /\ call \in Calls /\ pc \in HostState /\ n \in Nat
  /\ buf \in Buffers \cup {None} /\ next \in Buffers \cup {None} /\ owned \subseteq Buffers
  /\ Gpu /\ pc \notin {"returned", "thrown"} => n >= 1
  /\ Gpu /\ pc # "returned" /\ buf # None => n <= call.maxBlocks
  /\ pc \in {"allocate", "launch", "free"} /\ buf = None => n = call.n
  /\ pc \in {"allocate", "sync"} => next = None /\ owned = {buf} \ {None}
  /\ pc \in {"launch", "free"} => next \in Buffers /\ next # buf /\ owned = {buf, next} \ {None}
  /\ pc = "sync" => buf # None /\ n = 1
  /\ pc \in {"launch", "free", "sync"} => Gpu
  /\ pc = "returned" => owned = {}
  /\ \E x, y \in Buffers \cup {None} : owned \subseteq {x, y}
  /\ pc = "thrown" /\ call.device = "metal" /\ call.extended => owned = {}
  /\ call.device = "cpu" \/ (call.device = "metal" /\ ~call.extended) => buf = None
  /\ ~Gpu => queue = <<>> /\ grid = <<>>

Entries == [op : {"kernel"}, in : Buffers \cup {None}, out : Buffers, n : Nat, blocks : Nat]
           \cup [op : {"copy"}, in : Buffers]
KernelOK(e) ==
  e.op = "kernel" => /\ e.n >= 1 /\ e.blocks = gpu_reduce_blocks(e.n) /\ e.in # e.out
                     /\ e.in # None => e.n <= call.maxBlocks
                     /\ e.in = None => e.n = call.n
QueueInv == queue \in Seq(Entries) /\ \A k \in 1 .. Len(queue) : KernelOK(queue[k])

\* The threads of a block are in one phase: they sum, or they are at the same
\* level of the tree, or they are past it.
Phase(th) ==
  /\ th \in [Threads -> ThreadState]
  /\ \A t \in Threads :
       /\ th[t].stride = th[0].stride /\ th[t].stride <= call.block
       /\ th[t].stride = call.block => th[t].pc \in {"sum", "barrier"}
       /\ th[t].stride # call.block /\ th[t].stride # 0 => th[t].pc \in {"tree", "barrier"}
       /\ th[t].stride = 0 => th[t].pc = "done" \/ (t = 0 /\ th[t].pc = "out")

GridInv ==
  /\ Running => queue # <<>> /\ kernel.op = "kernel" /\ DOMAIN grid = 0 .. kernel.blocks - 1
  /\ DOMAIN smem = DOMAIN grid
  /\ \A b \in DOMAIN grid : Phase(grid[b]) /\ DOMAIN smem[b] = Threads

SInv == HostInv /\ QueueInv /\ GridInv

(* What the data are worth, unless the call threw.                         *)
\* The first m values of f hold every element of the expression once.
Whole(f, m) ==
  /\ \A i, j \in 0 .. m - 1 : i # j => f[i] \cap f[j] = {}
  /\ UNION {f[i] : i \in 0 .. m - 1} = 0 .. call.n - 1

\* What the kernel e reads.
Source(e) == [i \in 0 .. e.n - 1 |-> IF e.in = None THEN {i} ELSE mem[e.in][i]]

\* What follows a kernel on the stream reads what it wrote.
Follows(d, e) ==
  /\ d.op = "kernel" /\ e.in = d.out
  /\ e.op = "kernel" => e.n = d.blocks
  /\ e.op = "copy" => d.blocks = 1
Linked ==
  /\ \A k \in 1 .. Len(queue) - 1 : Follows(queue[k], queue[k + 1])
  /\ queue # <<>> =>
       /\ kernel.op = "kernel" => Whole(Source(kernel), kernel.n)
       /\ kernel.op = "copy" => Whole(mem[kernel.in], 1)

\* Once the stream is idle, a holds m partials.
Ready(a, m) ==
  IF queue = <<>> THEN Whole(mem[a], m)
  ELSE LET e == queue[Len(queue)] IN e.op = "kernel" /\ e.out = a /\ e.blocks = m
HostData ==
  /\ pc \in {"allocate", "launch"} => IF buf = None THEN queue = <<>> ELSE Ready(buf, n)
  /\ pc = "free" => Ready(next, gpu_reduce_blocks(n))
  /\ pc = "sync" => IF queue = <<>> THEN host = 0 .. call.n - 1 ELSE queue[Len(queue)].op = "copy"
  /\ pc = "returned" => host = 0 .. call.n - 1

\* What a thread folds, and what is folded together when s cells are left.
Share(b, t) == UNION {Input(i) : i \in Indices(b, t)}
Merged(b, t, s) == UNION {Share(b, u) : u \in {u \in Threads : u % s = t}}

BlockData(b) ==
  LET th == grid[b]
  IN  /\ \A t \in Threads :
           /\ th[t].pc = "barrier" /\ t < th[t].stride => smem[b][t] = Merged(b, t, th[t].stride)
           /\ t < 2 * th[t].stride /\ (th[t].pc = "tree" \/ (th[t].pc = "barrier" /\ t >= th[t].stride))
                => smem[b][t] = Merged(b, t, 2 * th[t].stride)
           /\ th[t].stride \in BlockSizes \cup {0} /\ th[t].stride <= call.block
      /\ th[0].pc = "out" => smem[b][0] = Merged(b, 0, 1)
      /\ th[0].stride = 0 /\ th[0].pc = "done" => mem[kernel.out][b] = Merged(b, 0, 1)

DataOK == Linked /\ HostData /\ \A b \in DOMAIN grid : BlockData(b)
DInv ==
  Gpu => /\ DOMAIN mem = Buffers /\ \A a \in Buffers : DOMAIN mem[a] = 0 .. call.maxBlocks - 1
         /\ pc # "thrown" => DataOK
----------------------------------------------------------------------------
(* The grid has at least one block and no more than the cap.               *)
LEMMA Blocks ==
  ASSUME call \in Calls, Gpu, NEW m \in Nat, m >= 1
  PROVE  gpu_reduce_blocks(m) \in 1 .. call.maxBlocks
<1>1. call.block \in Nat \ {0} /\ call.items \in Nat \ {0} /\ call.maxBlocks \in Nat \ {0}
  BY CallsAssumption DEF Gpu, BlockSizes
<1> DEFINE tile == call.block * call.items
<1>2. tile \in Nat \ {0}
  BY <1>1
<1>3. m \div tile \in Nat /\ m % tile \in 0 .. tile - 1 /\ m = tile * (m \div tile) + (m % tile)
  BY <1>2, Division
<1> DEFINE q == m \div tile
           r == m % tile
<1>4. q \in Nat /\ r \in Nat /\ m = tile * q + r /\ (r = 0 => q # 0)
  BY <1>2, <1>3
<1>5. gpu_reduce_blocks(m) = IF q + (IF r # 0 THEN 1 ELSE 0) < call.maxBlocks
                             THEN q + (IF r # 0 THEN 1 ELSE 0) ELSE call.maxBlocks
  BY DEF gpu_reduce_blocks
<1> HIDE DEF tile, q, r
<1> QED BY <1>1, <1>4, <1>5
----------------------------------------------------------------------------
(* The structure: types, buffers and phases.                               *)
LEMMA GpuConstants ==
  ASSUME call \in Calls, Gpu
  PROVE  call.block \in BlockSizes /\ call.items \in Nat \ {0} /\ call.maxBlocks \in Nat \ {0}
BY CallsAssumption DEF Gpu

LEMMA BlockPositive == \A s \in BlockSizes : s \in Nat \ {0}
BY DEF BlockSizes

LEMMA InitSInv == Init => SInv
<1> SUFFICES ASSUME Init PROVE SInv
  OBVIOUS
<1>1. HostInv
  BY CallsAssumption, NoneAssumption DEF Init, HostInv, HostState, Gpu
<1>2. QueueInv
  BY DEF Init, QueueInv
<1>3. GridInv
  BY DEF Init, GridInv, Running
<1> QED BY <1>1, <1>2, <1>3 DEF SInv

(* An entry goes to the end of the queue: the head stays, if there is one. *)
LEMMA Appended ==
  ASSUME NEW S, NEW q \in Seq(S), NEW e \in S
  PROVE  /\ Append(q, e) \in Seq(S) /\ Append(q, e) # <<>>
         /\ Len(Append(q, e)) = Len(q) + 1
         /\ \A k \in 1 .. Len(q) : Append(q, e)[k] = q[k]
         /\ Append(q, e)[Len(q) + 1] = e
         /\ q # <<>> => Head(Append(q, e)) = Head(q) /\ Len(q) >= 1
         /\ q = <<>> => Head(Append(q, e)) = e
OBVIOUS

LEMMA EnqueueSInv ==
  ASSUME QueueInv, GridInv, NEW e \in Entries, KernelOK(e),
         queue' = Append(queue, e), UNCHANGED <<call, grid, smem>>
  PROVE  QueueInv' /\ GridInv'
<1>0. queue \in Seq(Entries)
  BY DEF QueueInv
<1>1. /\ queue' \in Seq(Entries) /\ queue' # <<>>
      /\ Len(queue') = Len(queue) + 1
      /\ \A k \in 1 .. Len(queue) : queue'[k] = queue[k]
      /\ queue'[Len(queue) + 1] = e
      /\ queue # <<>> => Head(queue') = Head(queue)
  BY <1>0, Appended
<1>2. ASSUME NEW d PROVE KernelOK(d)' = KernelOK(d)
  BY DEF KernelOK, gpu_reduce_blocks
<1>3. QueueInv'
  <2>1. ASSUME NEW k \in 1 .. Len(queue') PROVE KernelOK(queue'[k])
    <3>1. k \in 1 .. Len(queue) \/ k = Len(queue) + 1
      BY <1>0, <1>1
    <3> QED BY <1>1, <3>1 DEF QueueInv
  <2> QED BY <1>1, <1>2, <2>1 DEF QueueInv
<1>4. ASSUME NEW th PROVE Phase(th)' = Phase(th)
  BY DEF Phase, Threads, ThreadState
<1>5. GridInv'
  BY <1>1, <1>4 DEF GridInv, Running, kernel, Threads
<1> QED BY <1>3, <1>5

LEMMA SameStructure ==
  ASSUME QueueInv, GridInv, UNCHANGED <<call, queue, grid, smem>>
  PROVE  QueueInv' /\ GridInv'
BY DEF QueueInv, GridInv, KernelOK, gpu_reduce_blocks, Phase, Threads, ThreadState, Running, kernel

LEMMA AllocateSInv == ASSUME SInv, AllocatePartials PROVE SInv'
<1>1. HostInv'
  BY NoneAssumption DEF SInv, HostInv, AllocatePartials, Throw, HostState, Gpu, device
<1>2. UNCHANGED <<call, queue, grid, smem>>
  BY DEF AllocatePartials, Throw, device
<1> QED BY <1>1, <1>2, SameStructure DEF SInv

LEMMA LaunchSInv == ASSUME SInv, Launch PROVE SInv'
<1>0. pc = "launch" /\ Gpu /\ call \in Calls /\ next \in Buffers /\ buf \in Buffers \cup {None}
      /\ next # buf /\ n \in Nat /\ n >= 1
  BY DEF SInv, HostInv, Launch
<1>1. HostInv'
  BY <1>0 DEF SInv, HostInv, Launch, Throw, HostState, Gpu
<1> DEFINE e == Kernel(buf, next, n)
<1>2. e \in Entries /\ KernelOK(e)
  <2>1. gpu_reduce_blocks(n) \in Nat
    BY <1>0, Blocks, GpuConstants
  <2> QED BY <1>0, <2>1 DEF SInv, HostInv, Kernel, Entries, KernelOK
<1>3. UNCHANGED <<call, grid, smem>> /\ queue' \in {queue, Append(queue, e)}
  BY DEF Launch, Throw
<1> HIDE DEF e
<1>4. CASE queue' = queue
  BY <1>1, <1>3, <1>4, SameStructure DEF SInv
<1>5. CASE queue' = Append(queue, e)
  BY <1>1, <1>2, <1>3, <1>5, EnqueueSInv DEF SInv
<1> QED BY <1>3, <1>4, <1>5

LEMMA FreeSInv == ASSUME SInv, FreeConsumed PROVE SInv'
<1>0. pc = "free" /\ Gpu /\ call \in Calls /\ n \in Nat /\ n >= 1
  BY DEF SInv, HostInv, FreeConsumed
<1>1. gpu_reduce_blocks(n) \in 1 .. call.maxBlocks /\ call.maxBlocks \in Nat
  BY <1>0, Blocks, GpuConstants
<1>2. n' \in 1 .. call.maxBlocks /\ n' \in Nat /\ n' >= 1 /\ n' <= call.maxBlocks
  BY <1>1 DEF FreeConsumed
<1>3. HostInv'
  BY <1>0, <1>2, NoneAssumption DEF SInv, HostInv, FreeConsumed, HostState, Gpu, device
<1>4. UNCHANGED <<call, queue, grid, smem>>
  BY DEF FreeConsumed, device
<1> QED BY <1>3, <1>4, SameStructure DEF SInv

LEMMA CopySInv == ASSUME SInv, CopyToHost PROVE SInv'
<1>0. pc = "allocate" /\ Gpu /\ buf \in Buffers /\ n = 1
  BY DEF SInv, HostInv, CopyToHost, MorePasses, Gpu
<1>1. HostInv'
  BY <1>0, NoneAssumption DEF SInv, HostInv, CopyToHost, Throw, HostState, Gpu
<1> DEFINE e == [op |-> "copy", in |-> buf]
<1>2. e \in Entries /\ KernelOK(e)
  BY <1>0 DEF Entries, KernelOK
<1>3. UNCHANGED <<call, grid, smem>> /\ queue' \in {queue, Append(queue, e)}
  BY DEF CopyToHost, Throw
<1> HIDE DEF e
<1>4. CASE queue' = queue
  BY <1>1, <1>3, <1>4, SameStructure DEF SInv
<1>5. CASE queue' = Append(queue, e)
  BY <1>1, <1>2, <1>3, <1>5, EnqueueSInv DEF SInv
<1> QED BY <1>3, <1>4, <1>5

LEMMA SynchronizeSInv == ASSUME SInv, SynchronizeAndReturn PROVE SInv'
<1>1. HostInv'
  BY NoneAssumption DEF SInv, HostInv, SynchronizeAndReturn, Throw, HostState, Gpu, device
<1>2. UNCHANGED <<call, queue, grid, smem>>
  BY DEF SynchronizeAndReturn, Throw, device
<1> QED BY <1>1, <1>2, SameStructure DEF SInv

LEMMA MetalPassSInv == ASSUME SInv, MetalPass PROVE SInv'
<1>0. pc = "allocate" /\ call \in Calls /\ call.device = "metal" /\ call.extended /\ n \in Nat
  BY DEF SInv, HostInv, MetalPass
<1>1. call.width \in Nat \ {0}
  BY <1>0, CallsAssumption DEF Widths
<1>2. n \div call.width \in Nat
  BY <1>0, <1>1, Division
<1>3. Groups(n) \in Nat
  BY <1>2 DEF Groups
<1>4. HostInv'
  <2>1. CASE MetalThrow
    BY <1>0, <2>1, NoneAssumption DEF SInv, HostInv, MetalThrow, HostState, Gpu, device
  <2>2. CASE ~MetalThrow
    <3>1. /\ \E a \in Buffers \ owned : buf' = a /\ owned' = {a}
          /\ n' = Groups(n)
          /\ UNCHANGED <<call, pc, next, host, device>>
      BY <2>2 DEF MetalPass
    <3> QED BY <1>0, <1>3, <3>1, NoneAssumption DEF SInv, HostInv, HostState, Gpu, device
  <2> QED BY <2>1, <2>2
<1>5. UNCHANGED <<call, queue, grid, smem>>
  BY DEF MetalPass, MetalThrow, device
<1> QED BY <1>4, <1>5, SameStructure DEF SInv

LEMMA OtherHostSInv ==
  ASSUME SInv, MetalReturn \/ MetalMaterialize \/ CpuReturn PROVE SInv'
<1>1. CASE MetalReturn
  <2>1. HostInv'
    BY <1>1, NoneAssumption DEF SInv, HostInv, MetalReturn, MetalThrow, HostState, Gpu, device
  <2>2. UNCHANGED <<call, queue, grid, smem>>
    BY <1>1 DEF MetalReturn, MetalThrow, device
  <2> QED BY <2>1, <2>2, SameStructure DEF SInv
<1>2. CASE MetalMaterialize
  <2>1. HostInv'
    <3>1. /\ pc = "allocate" /\ call.device = "metal" /\ ~call.extended
          /\ pc' \in {"returned", "thrown"} /\ UNCHANGED <<call, n, buf, next, queue, grid>>
      BY <1>2 DEF MetalMaterialize, device
    <3>2. buf = None /\ owned = {}
      BY <3>1 DEF SInv, HostInv
    <3>3. owned' = {} \/ (pc' = "thrown" /\ \E a \in Buffers : owned' = {a})
      BY <1>2, <3>2 DEF MetalMaterialize
    <3>4. owned' \subseteq Buffers /\ (pc' = "returned" => owned' = {})
          /\ \E x, y \in Buffers \cup {None} : owned' \subseteq {x, y}
      BY <3>1, <3>3
    <3> QED BY <3>1, <3>4, NoneAssumption DEF SInv, HostInv, HostState, Gpu
  <2>2. UNCHANGED <<call, queue, grid, smem>>
    BY <1>2 DEF MetalMaterialize, device
  <2> QED BY <2>1, <2>2, SameStructure DEF SInv
<1>3. CASE CpuReturn
  <2>1. HostInv'
    BY <1>3, NoneAssumption DEF SInv, HostInv, CpuReturn, HostState, Gpu, device
  <2>2. UNCHANGED <<call, queue, grid, smem>>
    BY <1>3 DEF CpuReturn, device
  <2> QED BY <2>1, <2>2, SameStructure DEF SInv
<1> QED BY <1>1, <1>2, <1>3

----------------------------------------------------------------------------
(* A step of the device leaves the host alone. *)
LEMMA DeviceHostInv ==
  ASSUME HostInv, Gpu, UNCHANGED <<call, pc, n, buf, next, owned>>
  PROVE  HostInv'
BY DEF HostInv, Gpu

LEMMA QueueInvTail ==
  ASSUME QueueInv, queue # <<>>, queue' = Tail(queue), UNCHANGED call
  PROVE  QueueInv'
<1>1. queue \in Seq(Entries)
  BY DEF QueueInv
<1>2. /\ queue' \in Seq(Entries) /\ Len(queue') = Len(queue) - 1
      /\ \A k \in 1 .. Len(queue') : queue'[k] = queue[k + 1] /\ k + 1 \in 1 .. Len(queue)
  BY <1>1
<1>3. ASSUME NEW d PROVE KernelOK(d)' = KernelOK(d)
  BY DEF KernelOK, gpu_reduce_blocks
<1> QED BY <1>2, <1>3 DEF QueueInv

LEMMA QueueInvSame == ASSUME QueueInv, UNCHANGED <<call, queue>> PROVE QueueInv'
BY DEF QueueInv, KernelOK, gpu_reduce_blocks

(* The head of the queue is one of its entries. *)
LEMMA HeadOK ==
  ASSUME QueueInv, queue # <<>>
  PROVE  kernel \in Entries /\ KernelOK(kernel) /\ kernel = queue[1] /\ 1 \in 1 .. Len(queue)
BY DEF QueueInv, kernel

LEMMA StartSInv == ASSUME SInv, StartKernel PROVE SInv'
<1>0. Gpu /\ call \in Calls /\ QueueInv /\ queue # <<>> /\ kernel.op = "kernel"
  BY DEF SInv, HostInv, StartKernel
<1>1. call.block \in Nat \ {0}
  BY <1>0, GpuConstants, BlockPositive
<1>2. HostInv'
  BY <1>0, DeviceHostInv DEF SInv, StartKernel
<1>3. QueueInv'
  BY <1>0, QueueInvSame DEF StartKernel
<1> DEFINE th == [t \in Threads |-> [pc |-> "sum", stride |-> call.block]]
           sm == [t \in Threads |-> {Poison}]
<1>4. Phase(th) /\ DOMAIN sm = Threads
  <2>2. 0 \in Threads
    BY <1>1 DEF Threads
  <2> QED BY <1>1, <2>2 DEF Phase, Threads, ThreadState
<1>5. /\ DOMAIN grid' = 0 .. kernel.blocks - 1 /\ DOMAIN smem' = 0 .. kernel.blocks - 1
      /\ \A b \in 0 .. kernel.blocks - 1 : grid'[b] = th /\ smem'[b] = sm
      /\ UNCHANGED <<call, queue>>
  BY DEF StartKernel
<1> HIDE DEF th, sm
<1>6. GridInv'
  <2>1. kernel' = kernel /\ Threads' = Threads
    BY <1>5 DEF kernel, Threads
  <2>2. ASSUME NEW u PROVE Phase(u)' = Phase(u)
    BY <1>5 DEF Phase, Threads, ThreadState
  <2> QED BY <1>0, <1>4, <1>5, <2>1, <2>2 DEF GridInv
<1> QED BY <1>2, <1>3, <1>6 DEF SInv

LEMMA EndSInv ==
  ASSUME SInv, RunCopy \/ FinishKernel
  PROVE  SInv'
<1>0. Gpu /\ QueueInv /\ queue # <<>> /\ call' = call /\ queue' = Tail(queue)
      /\ grid' = <<>> /\ DOMAIN smem' = DOMAIN grid'
  BY DEF SInv, HostInv, GridInv, RunCopy, FinishKernel, Running
<1>1. HostInv'
  BY <1>0, DeviceHostInv DEF SInv, RunCopy, FinishKernel
<1>2. QueueInv'
  BY <1>0, QueueInvTail
<1>3. GridInv'
  <2>1. DOMAIN grid' = {}
    BY <1>0
  <2> QED BY <1>0, <2>1 DEF GridInv, Running
<1> QED BY <1>1, <1>2, <1>3 DEF SInv

(* A step within block b keeps the structure if b is still in one phase.   *)
LEMMA BlockStepSInv ==
  ASSUME SInv, NEW b \in DOMAIN grid, NEW th, Phase(th), DeviceOnly,
         grid' = [grid EXCEPT ![b] = th],
         DOMAIN smem' = DOMAIN smem, DOMAIN smem'[b] = Threads,
         \A c \in DOMAIN smem : c # b => smem'[c] = smem[c]
  PROVE  SInv'
<1>0. grid # <<>>
  <2>1. ASSUME grid = <<>> PROVE DOMAIN grid = {}
    BY <2>1
  <2> QED BY <2>1
<1>1. Gpu /\ UNCHANGED <<call, pc, n, buf, next, owned, queue>>
  BY <1>0 DEF SInv, HostInv, DeviceOnly
<1>2. HostInv' /\ QueueInv'
  BY <1>1, DeviceHostInv, QueueInvSame DEF SInv
<1>3. /\ DOMAIN grid' = DOMAIN grid
      /\ grid'[b] = th /\ \A c \in DOMAIN grid : c # b => grid'[c] = grid[c]
  OBVIOUS
<1>4. ASSUME NEW u PROVE Phase(u)' = Phase(u)
  BY <1>1 DEF Phase, Threads, ThreadState
<1>5. kernel' = kernel /\ Threads' = Threads
  BY <1>1 DEF kernel, Threads
<1>6. GridInv /\ Running
  BY <1>0 DEF SInv, Running
<1>7. GridInv'
  BY <1>1, <1>3, <1>4, <1>5, <1>6 DEF GridInv
<1> QED BY <1>2, <1>7 DEF SInv

LEMMA PhaseMember ==
  ASSUME NEW th, Phase(th), NEW t \in Threads, NEW v \in ThreadState
  PROVE  /\ th \in [Threads -> ThreadState] /\ DOMAIN th = Threads /\ th[t] \in ThreadState
         /\ [th EXCEPT ![t] = v] \in [Threads -> ThreadState]
         /\ [th EXCEPT ![t] = v][t] = v
         /\ \A u \in Threads : u # t => [th EXCEPT ![t] = v][u] = th[u]
BY DEF Phase

(* A thread whose stride does not change keeps its block in one phase.     *)
LEMMA PhaseStep ==
  ASSUME NEW th, Phase(th), NEW t \in Threads, NEW v \in ThreadState,
         0 \in Threads, v.stride = th[t].stride,
         v.stride = call.block => v.pc \in {"sum", "barrier"},
         v.stride # call.block /\ v.stride # 0 => v.pc \in {"tree", "barrier"},
         v.stride = 0 => v.pc = "done"
  PROVE  Phase([th EXCEPT ![t] = v])
<1> DEFINE w == [th EXCEPT ![t] = v]
<1>1. w \in [Threads -> ThreadState] /\ w[t] = v /\ \A u \in Threads : u # t => w[u] = th[u]
  BY PhaseMember
<1>2. \A u \in Threads : w[u].stride = th[u].stride
  BY <1>1
<1> HIDE DEF w
<1>3. Phase(w)
  BY <1>1, <1>2 DEF Phase
<1> QED BY <1>3 DEF w

LEMMA ThreadsOK ==
  ASSUME SInv, Gpu
  PROVE  call.block \in Nat \ {0} /\ 0 \in Threads /\ Threads \subseteq Nat
<1>1. call.block \in Nat \ {0}
  BY GpuConstants, BlockPositive DEF SInv, HostInv
<1> QED BY <1>1 DEF Threads

(* A running grid is a GPU's, and its blocks are in one phase. *)
LEMMA RunningOK ==
  ASSUME SInv, NEW b \in DOMAIN grid
  PROVE  Gpu /\ Phase(grid[b]) /\ b \in DOMAIN smem /\ DOMAIN smem[b] = Threads
<1>1. ASSUME grid = <<>> PROVE DOMAIN grid = {}
  BY <1>1
<1>2. grid # <<>>
  BY <1>1
<1> QED BY <1>2 DEF SInv, HostInv, GridInv

LEMMA AccumulateSInv ==
  ASSUME SInv, NEW b \in DOMAIN grid, NEW t \in Threads, Accumulate(b, t) PROVE SInv'
<1>0. Gpu /\ Phase(grid[b]) /\ b \in DOMAIN smem /\ DOMAIN smem[b] = Threads
  BY RunningOK
<1>1. call.block \in Nat \ {0} /\ 0 \in Threads
  BY <1>0, ThreadsOK
<1> DEFINE v == [pc |-> "barrier", stride |-> call.block]
           x == CombineAll([i \in Indices(b, t) |-> Input(i)])
           th == [grid[b] EXCEPT ![t] = v]
           sm == [smem[b] EXCEPT ![t] = x]
<1>2. grid[b][t].pc = "sum" /\ DeviceOnly
      /\ grid' = [grid EXCEPT ![b] = th] /\ smem' = [smem EXCEPT ![b] = sm]
  BY DEF Accumulate
<1>3. v \in ThreadState
  BY <1>1 DEF ThreadState
<1>4. grid[b][t].stride = call.block
  BY <1>0, <1>2 DEF Phase
<1>5. /\ DOMAIN smem' = DOMAIN smem /\ DOMAIN smem'[b] = Threads
      /\ \A c \in DOMAIN smem : c # b => smem'[c] = smem[c]
  BY <1>0, <1>2
<1>6. Phase(th)
  <2>1. v.pc = "barrier" /\ v.stride = call.block
    OBVIOUS
  <2> HIDE DEF v
  <2> QED BY <1>0, <1>1, <1>3, <1>4, <2>1, PhaseStep
<1> HIDE DEF v, x, th, sm
<1> QED BY <1>2, <1>5, <1>6, BlockStepSInv

LEMMA Half ==
  ASSUME NEW s \in Nat \ {0}
  PROVE  s \div 2 \in Nat /\ s \div 2 < s
BY Division

LEMMA BarrierSInv ==
  ASSUME SInv, NEW b \in DOMAIN grid, Barrier(b) PROVE SInv'
<1>0. Gpu /\ Phase(grid[b]) /\ b \in DOMAIN smem /\ DOMAIN smem[b] = Threads
  BY RunningOK
<1>1. call.block \in Nat \ {0} /\ 0 \in Threads
  BY <1>0, ThreadsOK
<1> DEFINE s == grid[b][0].stride
           r == s \div 2
           th == [t \in Threads |-> [stride |-> r, pc |-> AfterBarrier(r, t)]]
<1>2. \A t \in Threads : grid[b][t].pc = "barrier" /\ grid[b][t].stride = s
  BY <1>0 DEF Barrier, Phase
<1>3. s \in Nat \ {0} /\ s <= call.block
  BY <1>0, <1>1, <1>2 DEF Phase, ThreadState
<1>4. r \in Nat /\ r < call.block
  BY <1>1, <1>3, Half
<1>5. grid' = [grid EXCEPT ![b] = th] /\ UNCHANGED smem /\ DeviceOnly
  <2>1. grid' = [grid EXCEPT ![b] = [t \in Threads |->
                  [stride |-> grid[b][t].stride \div 2, pc |-> AfterBarrier(grid[b][t].stride \div 2, t)]]]
    BY DEF Barrier
  <2>2. [t \in Threads |->
          [stride |-> grid[b][t].stride \div 2, pc |-> AfterBarrier(grid[b][t].stride \div 2, t)]] = th
    BY <1>2
  <2> HIDE DEF th
  <2> QED BY <2>1, <2>2 DEF Barrier
<1>6. Phase(th)
  <2>1. th \in [Threads -> ThreadState]
    BY <1>4 DEF ThreadState, AfterBarrier
  <2>2. \A t \in Threads : /\ th[t].stride = r
                           /\ th[t].pc = AfterBarrier(r, t)
    OBVIOUS
  <2> HIDE DEF th, r
  <2> QED BY <1>1, <1>4, <2>1, <2>2 DEF Phase, AfterBarrier
<1> HIDE DEF th
<1> QED BY <1>0, <1>5, <1>6, BlockStepSInv

LEMMA TreeSInv ==
  ASSUME SInv, NEW b \in DOMAIN grid, NEW t \in Threads, TreeLevel(b, t) PROVE SInv'
<1>0. Gpu /\ Phase(grid[b]) /\ b \in DOMAIN smem /\ DOMAIN smem[b] = Threads
  BY RunningOK
<1>1. call.block \in Nat \ {0} /\ 0 \in Threads
  BY <1>0, ThreadsOK
<1> DEFINE v == [grid[b][t] EXCEPT !.pc = "barrier"]
           th == [grid[b] EXCEPT ![t] = v]
<1>2. grid[b][t].pc = "tree" /\ DeviceOnly /\ grid' = [grid EXCEPT ![b] = th]
  BY DEF TreeLevel
<1>3. v \in ThreadState /\ v.pc = "barrier" /\ v.stride = grid[b][t].stride
  BY <1>0 DEF Phase, ThreadState
<1>4. v.stride # 0
  BY <1>0, <1>2, <1>3 DEF Phase
<1>5. /\ DOMAIN smem' = DOMAIN smem /\ DOMAIN smem'[b] = Threads
      /\ \A c \in DOMAIN smem : c # b => smem'[c] = smem[c]
  BY <1>0 DEF TreeLevel
<1> HIDE DEF v
<1>6. Phase(th)
  BY <1>0, <1>1, <1>3, <1>4, PhaseStep
<1> HIDE DEF th
<1> QED BY <1>2, <1>5, <1>6, BlockStepSInv

LEMMA WriteSInv ==
  ASSUME SInv, NEW b \in DOMAIN grid, NEW t \in Threads, WritePartial(b, t) PROVE SInv'
<1>0. Gpu /\ Phase(grid[b]) /\ b \in DOMAIN smem /\ DOMAIN smem[b] = Threads
  BY RunningOK
<1>1. call.block \in Nat \ {0} /\ 0 \in Threads
  BY <1>0, ThreadsOK
<1> DEFINE v == [grid[b][t] EXCEPT !.pc = "done"]
           th == [grid[b] EXCEPT ![t] = v]
<1>2. grid[b][t].pc = "out" /\ DeviceOnly /\ grid' = [grid EXCEPT ![b] = th] /\ smem' = smem
  BY DEF WritePartial
<1>3. v \in ThreadState /\ v.pc = "done" /\ v.stride = grid[b][t].stride
  BY <1>0 DEF Phase, ThreadState
<1>4. v.stride = 0
  BY <1>0, <1>1, <1>2, <1>3 DEF Phase
<1>5. /\ DOMAIN smem' = DOMAIN smem /\ DOMAIN smem'[b] = Threads
      /\ \A c \in DOMAIN smem : c # b => smem'[c] = smem[c]
  BY <1>0, <1>2
<1> HIDE DEF v
<1>6. Phase(th)
  BY <1>0, <1>1, <1>3, <1>4, PhaseStep
<1> HIDE DEF th
<1> QED BY <1>2, <1>5, <1>6, BlockStepSInv

LEMMA NextSInv == SInv /\ [Next]_vars => SInv'
<1> SUFFICES ASSUME SInv, [Next]_vars PROVE SInv'
  OBVIOUS
<1>1. CASE Host
  BY <1>1, AllocateSInv, LaunchSInv, FreeSInv, CopySInv, SynchronizeSInv, MetalPassSInv,
     OtherHostSInv DEF Host
<1>2. CASE Device
  BY <1>2, StartSInv, EndSInv, BarrierSInv, AccumulateSInv, TreeSInv, WriteSInv DEF Device
<1>3. CASE UNCHANGED vars
  <2>1. HostInv'
    BY <1>3 DEF SInv, HostInv, vars, Gpu
  <2> QED BY <1>3, <2>1, SameStructure DEF SInv, vars
<1> QED BY <1>1, <1>2, <1>3 DEF Next, Over

LEMMA SpecSInv == Spec => []SInv
BY InitSInv, NextSInv, PTL DEF Spec

(* Types: a kernel has between one block and the cap, and no kernel after  *)
(* the first reads more partials than the cap.                             *)
THEOREM ReductionTyping == Spec => []TypeOK
<1>1. ASSUME SInv PROVE TypeOK
  <2>0. HostInv /\ QueueInv /\ GridInv
    BY <1>1 DEF SInv
  <2>1. pc \in HostState /\ n \in Nat /\ {buf, next} \subseteq Buffers \cup {None}
        /\ owned \subseteq Buffers
    BY <2>0 DEF HostInv
  <2>2. ASSUME NEW k \in DOMAIN queue, queue[k].op = "kernel"
        PROVE  /\ queue[k].blocks \in 1 .. call.maxBlocks
               /\ queue[k].in # None => queue[k].n <= call.maxBlocks
    <3>1. queue \in Seq(Entries) /\ k \in 1 .. Len(queue) /\ KernelOK(queue[k])
      BY <2>0 DEF QueueInv
    <3>2. queue # <<>>
      BY <3>1
    <3>3. Gpu /\ call \in Calls
      BY <2>0, <3>2 DEF HostInv
    <3>4. queue[k] \in Entries
      BY <3>1
    <3>5. queue[k].n \in Nat /\ queue[k].n >= 1
      BY <2>2, <3>1, <3>4 DEF KernelOK, Entries
    <3>6. gpu_reduce_blocks(queue[k].n) \in 1 .. call.maxBlocks
      BY <3>3, <3>5, Blocks
    <3> QED BY <2>2, <3>1, <3>6 DEF KernelOK
  <2>3. \A b \in DOMAIN grid : grid[b] \in [Threads -> ThreadState]
    BY <2>0 DEF GridInv, Phase
  <2>4. DOMAIN smem = DOMAIN grid
    BY <2>0 DEF GridInv
  <2> QED BY <2>1, <2>2, <2>3, <2>4 DEF TypeOK
<1> QED BY <1>1, SpecSInv, PTL

(* Between two barriers no two threads of a block touch a cell of the      *)
(* scratch that one of them writes, for any power-of-two block and any     *)
(* interleaving: the barriers of gpu_reduce_block keep a block in one phase.*)
THEOREM ReductionRaceFree == Spec => []NoScratchRace
<1>1. ASSUME SInv PROVE NoScratchRace
  <2> SUFFICES ASSUME NEW b \in DOMAIN grid, NEW t \in Threads, NEW u \in Threads, t # u
               PROVE  Written(b, t) \cap Touched(b, u) = {}
    BY DEF NoScratchRace
  <2>0. Gpu /\ Phase(grid[b])
    BY <1>1, RunningOK
  <2>1. call.block \in Nat \ {0} /\ 0 \in Threads /\ Threads \subseteq Nat
    BY <1>1, <2>0, ThreadsOK
  <2> DEFINE s == grid[b][t].stride
  <2>2. s \in Nat /\ grid[b][u].stride = s
    BY <2>0, <2>1 DEF Phase, ThreadState
  <2>3. Written(b, t) \subseteq {t}
    BY DEF Written
  <2>4. ASSUME t \in Written(b, t), t \in Touched(b, u) PROVE FALSE
    <3>1. grid[b][t].pc = "sum" \/ (grid[b][t].pc = "tree" /\ t < s)
      BY <2>4 DEF Written, Touched
    <3>2. CASE grid[b][t].pc = "sum"
      <4>1. grid[b][u].pc \in {"sum", "barrier"}
        BY <2>0, <2>1, <2>2, <3>2 DEF Phase
      <4> QED BY <2>4, <4>1 DEF Touched
    <3>3. CASE grid[b][t].pc = "tree" /\ t < s
      <4>1. grid[b][u].pc \in {"tree", "barrier"}
        BY <2>0, <2>1, <2>2, <3>3 DEF Phase
      <4>2. u < s /\ t \in {u, u + s}
        BY <2>2, <2>4, <4>1 DEF Touched
      <4> QED BY <2>1, <2>2, <3>3, <4>2
    <3> QED BY <3>1, <3>2, <3>3
  <2> QED BY <2>3, <2>4
<1> QED BY <1>1, SpecSInv, PTL

(* At most two partial buffers are in use at any time, and none when the   *)
(* call returns, or throws where the buffers are RAII handles.             *)
THEOREM ReductionBounded == Spec => []PartialsBounded
<1>1. ASSUME SInv PROVE PartialsBounded
  <2>1. PICK x, y \in Buffers \cup {None} : owned \subseteq {x, y}
    BY <1>1 DEF SInv, HostInv
  <2>2. IsFiniteSet({x}) /\ Cardinality({x}) = 1
    BY FS_Singleton
  <2>3. IsFiniteSet({x, y}) /\ Cardinality({x, y}) <= 2
    <3>1. {x, y} = {x} \cup {y}
      OBVIOUS
    <3>2. /\ IsFiniteSet({x} \cup {y})
          /\ Cardinality({x} \cup {y}) = IF y \in {x} THEN Cardinality({x}) ELSE Cardinality({x}) + 1
      BY <2>2, FS_AddElement
    <3> QED BY <2>2, <3>1, <3>2
  <2>4. Cardinality(owned) <= Cardinality({x, y})
    BY <2>1, <2>3, FS_Subset
  <2>5. Cardinality(owned) \in Nat /\ Cardinality({x, y}) \in Nat
    BY <2>1, <2>3, FS_Subset, FS_CardinalityType
  <2>6. Cardinality(owned) <= 2
    BY <2>3, <2>4, <2>5
  <2>7. (pc = "returned" \/ (pc = "thrown" /\ call.device = "metal" /\ call.extended)) => owned = {}
    BY <1>1 DEF SInv, HostInv
  <2> QED BY <2>6, <2>7 DEF PartialsBounded
<1> QED BY <1>1, SpecSInv, PTL

----------------------------------------------------------------------------
(* The data: who folds what.                                               *)
(* A grid-stride loop from f in steps of d visits the indices that leave   *)
(* the remainder f.                                                        *)
LEMMA GridStride ==
  ASSUME NEW d \in Nat \ {0}, NEW f \in 0 .. d - 1, NEW m \in Nat, NEW i \in 0 .. m - 1
  PROVE  i >= f /\ (i - f) % d = 0 <=> i % d = f
<1>1. ASSUME i >= f, (i - f) % d = 0 PROVE i % d = f
  <2>1. i - f \in Nat
    BY <1>1
  <2>2. (i - f) \div d \in Nat /\ i - f = d * ((i - f) \div d) + ((i - f) % d)
    BY <2>1, Division
  <2>3. PICK q \in Nat : i - f = d * q
    BY <1>1, <2>2
  <2>4. i = d * q + f
    BY <2>3
  <2> QED BY <2>4, Unique
<1>2. ASSUME i % d = f PROVE i >= f /\ (i - f) % d = 0
  <2>1. i \div d \in Nat /\ i = d * (i \div d) + (i % d)
    BY Division
  <2>2. PICK q \in Nat : i = d * q + f
    BY <1>2, <2>1
  <2>3. i >= f /\ i - f = d * q + 0 /\ 0 \in 0 .. d - 1 /\ d * q \in Nat
    BY <2>2
  <2>4. (d * q + 0) % d = 0
    BY <2>3, Unique
  <2> QED BY <2>3, <2>4
<1> QED BY <1>1, <1>2

(* The kernel that runs. *)
LEMMA RunningKernel ==
  ASSUME SInv, NEW b \in DOMAIN grid
  PROVE  /\ Gpu /\ queue # <<>> /\ kernel.op = "kernel" /\ Running /\ call \in Calls
         /\ kernel.n \in Nat \ {0} /\ kernel.blocks \in 1 .. call.maxBlocks
         /\ call.block \in BlockSizes /\ call.block \in Nat \ {0} /\ call.maxBlocks \in Nat \ {0}
         /\ DOMAIN grid = 0 .. kernel.blocks - 1
         /\ kernel.out \in Buffers /\ kernel.in \in Buffers \cup {None} /\ kernel.in # kernel.out
<1>1. ASSUME grid = <<>> PROVE DOMAIN grid = {}
  BY <1>1
<1>2. Running
  BY <1>1 DEF Running
<1>3. Gpu /\ call \in Calls /\ queue # <<>> /\ kernel.op = "kernel"
      /\ DOMAIN grid = 0 .. kernel.blocks - 1
  BY <1>2 DEF SInv, HostInv, GridInv, Running
<1>4. kernel \in Entries /\ KernelOK(kernel)
  BY <1>3, HeadOK DEF SInv
<1>5. kernel.n \in Nat \ {0} /\ kernel.blocks = gpu_reduce_blocks(kernel.n)
      /\ kernel.out \in Buffers /\ kernel.in \in Buffers \cup {None} /\ kernel.in # kernel.out
  BY <1>3, <1>4 DEF KernelOK, Entries
<1>6. gpu_reduce_blocks(kernel.n) \in 1 .. call.maxBlocks
  BY <1>3, <1>5, Blocks
<1>7. call.block \in BlockSizes /\ call.block \in Nat \ {0} /\ call.maxBlocks \in Nat \ {0}
  BY <1>3, GpuConstants, BlockPositive
<1> QED BY <1>2, <1>3, <1>5, <1>6, <1>7

(* The thread of the grid that folds the input i. *)
LEMMA IndicesOf ==
  ASSUME SInv, NEW b \in DOMAIN grid, NEW t \in Threads
  PROVE  /\ First(b, t) \in Nat
         /\ \A i : i \in Indices(b, t) <=>
              i \in 0 .. kernel.n - 1 /\ i % (kernel.blocks * call.block) = First(b, t)
<1> DEFINE d == kernel.blocks * call.block
           f == First(b, t)
<1>0. kernel.blocks \in Nat \ {0} /\ call.block \in Nat \ {0} /\ kernel.n \in Nat
      /\ b \in 0 .. kernel.blocks - 1 /\ t \in 0 .. call.block - 1
  BY RunningKernel DEF Threads
<1>1. d \in Nat \ {0} /\ f \in 0 .. d - 1
  BY <1>0, Position DEF First
<1>2. Indices(b, t) = {i \in f .. kernel.n - 1 : (i - f) % d = 0}
  BY DEF Indices
<1> HIDE DEF d, f
<1>3. \A i \in 0 .. kernel.n - 1 : i >= f /\ (i - f) % d = 0 <=> i % d = f
  BY <1>0, <1>1, GridStride, ZenonT(120)
<1>4. \A i : i \in Indices(b, t) <=> i \in 0 .. kernel.n - 1 /\ i % d = f
  BY <1>0, <1>1, <1>2, <1>3
<1> QED BY <1>1, <1>4 DEF d, f

LEMMA IndicesDisjoint ==
  ASSUME SInv, NEW b \in DOMAIN grid, NEW t \in Threads,
         NEW c \in DOMAIN grid, NEW u \in Threads, NEW i \in Indices(b, t), i \in Indices(c, u)
  PROVE  b = c /\ t = u
<1>0. call.block \in Nat \ {0} /\ b \in Nat /\ c \in Nat
      /\ t \in 0 .. call.block - 1 /\ u \in 0 .. call.block - 1
  BY RunningKernel DEF Threads
<1>1. First(b, t) = First(c, u)
  BY IndicesOf
<1>2. First(b, t) = call.block * b + t /\ First(c, u) = call.block * c + u
  BY <1>0 DEF First
<1>3. /\ (call.block * b + t) % call.block = t /\ (call.block * b + t) \div call.block = b
      /\ (call.block * c + u) % call.block = u /\ (call.block * c + u) \div call.block = c
  BY <1>0, Unique
<1> QED BY <1>1, <1>2, <1>3

LEMMA IndicesCover ==
  ASSUME SInv, NEW b0 \in DOMAIN grid, NEW i \in 0 .. kernel.n - 1
  PROVE  \E b \in DOMAIN grid, t \in Threads : i \in Indices(b, t)
<1> DEFINE d == kernel.blocks * call.block
           p == i % d
<1>0. kernel.blocks \in Nat \ {0} /\ call.block \in Nat \ {0} /\ kernel.n \in Nat
      /\ DOMAIN grid = 0 .. kernel.blocks - 1 /\ Threads = 0 .. call.block - 1
  BY RunningKernel DEF Threads
<1>1. d \in Nat \ {0} /\ i \in Nat
  BY <1>0
<1>2. p \in 0 .. d - 1
  BY <1>1, Division
<1>3. /\ p \div call.block \in 0 .. kernel.blocks - 1 /\ p % call.block \in 0 .. call.block - 1
      /\ p = (p \div call.block) * call.block + (p % call.block)
  BY <1>0, <1>2, Placed
<1> DEFINE b == p \div call.block
           t == p % call.block
<1>4. b \in DOMAIN grid /\ t \in Threads /\ First(b, t) = p
  BY <1>0, <1>3 DEF First
<1>5. p = i % (kernel.blocks * call.block)
  OBVIOUS
<1> HIDE DEF b, t, p, d
<1>6. i \in Indices(b, t)
  BY <1>4, <1>5, IndicesOf
<1> QED BY <1>4, <1>6

Reading == Whole(Source(kernel), kernel.n)

LEMMA InputsOnce ==
  ASSUME SInv, Running, Reading
  PROVE  /\ \A i, j \in 0 .. kernel.n - 1 : i # j => Input(i) \cap Input(j) = {}
         /\ UNION {Input(i) : i \in 0 .. kernel.n - 1} = 0 .. call.n - 1
<1>1. Source(kernel) = [i \in 0 .. kernel.n - 1 |-> Input(i)]
  BY DEF Source, Input
<1> QED BY <1>1 DEF Reading, Whole

LEMMA InShare ==
  ASSUME NEW b, NEW t, NEW x
  PROVE  x \in Share(b, t) <=> \E i \in Indices(b, t) : x \in Input(i)
BY DEF Share

LEMMA InMerged ==
  ASSUME NEW b, NEW t, NEW s, NEW x
  PROVE  x \in Merged(b, t, s) <=> \E u \in Threads : u % s = t /\ x \in Share(b, u)
BY DEF Merged

LEMMA SharesDisjoint ==
  ASSUME SInv, Running, Reading, NEW b \in DOMAIN grid, NEW t \in Threads,
         NEW c \in DOMAIN grid, NEW u \in Threads, NEW x \in Share(b, t), x \in Share(c, u)
  PROVE  b = c /\ t = u
<1>1. PICK i \in Indices(b, t) : x \in Input(i)
  BY InShare
<1>2. PICK j \in Indices(c, u) : x \in Input(j)
  BY InShare
<1>3. i \in 0 .. kernel.n - 1 /\ j \in 0 .. kernel.n - 1
  BY IndicesOf
<1>4. i = j
  BY <1>1, <1>2, <1>3, InputsOnce
<1> QED BY <1>4, IndicesDisjoint

(* What a thread folds holds nothing twice. *)
LEMMA ShareFolded ==
  ASSUME SInv, Running, Reading, NEW b \in DOMAIN grid, NEW t \in Threads
  PROVE  CombineAll([i \in Indices(b, t) |-> Input(i)]) = Share(b, t)
<1> DEFINE f == [i \in Indices(b, t) |-> Input(i)]
<1>1. \A i \in Indices(b, t) : i \in 0 .. kernel.n - 1
  BY IndicesOf
<1>2. \A i, j \in Indices(b, t) : i # j => Input(i) \cap Input(j) = {}
  BY <1>1, InputsOnce
<1>3. ~ \E i, j \in DOMAIN f : i # j /\ f[i] \cap f[j] # {}
  BY <1>2
<1>4. UNION {f[i] : i \in DOMAIN f} = Share(b, t)
  BY DEF Share
<1> HIDE DEF f
<1>5. CombineAll(f) = Share(b, t)
  BY <1>3, <1>4 DEF CombineAll
<1> QED BY <1>5 DEF f

(* Halving a stride: a remainder modulo s is one of two modulo 2 * s. *)
LEMMA Remainders ==
  ASSUME NEW s \in Nat \ {0}, NEW t \in 0 .. s - 1, NEW u \in Nat
  PROVE  u % s = t <=> u % (2 * s) = t \/ u % (2 * s) = t + s
<1> DEFINE p == u \div (2 * s)
           r == u % (2 * s)
<1>1. p \in Nat /\ r \in 0 .. 2 * s - 1 /\ u = 2 * s * p + r
  <2>1. 2 * s \in Nat \ {0}
    OBVIOUS
  <2> QED BY <2>1, Division
<1> HIDE DEF p, r
<1>2. CASE r < s
  <2>1. u = s * (2 * p) + r /\ 2 * p \in Nat /\ r \in 0 .. s - 1
    BY <1>1, <1>2
  <2>2. u % s = r
    BY <2>1, Unique
  <2> QED BY <1>1, <1>2, <2>2 DEF r
<1>3. CASE r >= s
  <2>1. r - s \in 0 .. s - 1 /\ 2 * p + 1 \in Nat
    BY <1>1, <1>3
  <2>2. s * (2 * p + 1) = 2 * s * p + s
    BY <1>1
  <2>3. u = s * (2 * p + 1) + (r - s)
    BY <1>1, <2>2
  <2>4. u % s = r - s
    BY <2>1, <2>3, Unique
  <2> QED BY <1>1, <1>3, <2>1, <2>4 DEF r
<1> QED BY <1>1, <1>2, <1>3

LEMMA MergedSplit ==
  ASSUME SInv, Running, Reading, NEW b \in DOMAIN grid, NEW s \in Nat \ {0}, NEW t \in 0 .. s - 1
  PROVE  Combine(Merged(b, t, 2 * s), Merged(b, t + s, 2 * s)) = Merged(b, t, s)
<1>0. Threads \subseteq Nat
  BY ThreadsOK, RunningKernel
<1>1. \A u \in Threads : u % s = t <=> u % (2 * s) = t \/ u % (2 * s) = t + s
  BY <1>0, Remainders
<1>2. ASSUME NEW x, x \in Merged(b, t, 2 * s), x \in Merged(b, t + s, 2 * s) PROVE FALSE
  <2>1. PICK u \in Threads : u % (2 * s) = t /\ x \in Share(b, u)
    BY <1>2, InMerged
  <2>2. PICK v \in Threads : v % (2 * s) = t + s /\ x \in Share(b, v)
    BY <1>2, InMerged
  <2>3. u = v
    BY <2>1, <2>2, SharesDisjoint
  <2> QED BY <2>1, <2>2, <2>3
<1>3. ASSUME NEW x PROVE x \in Merged(b, t, 2 * s) \/ x \in Merged(b, t + s, 2 * s) <=> x \in Merged(b, t, s)
  <2>1. x \in Merged(b, t, s) <=> \E u \in Threads : u % s = t /\ x \in Share(b, u)
    BY InMerged
  <2>2. x \in Merged(b, t, 2 * s) <=> \E u \in Threads : u % (2 * s) = t /\ x \in Share(b, u)
    BY InMerged
  <2>3. x \in Merged(b, t + s, 2 * s) <=> \E u \in Threads : u % (2 * s) = t + s /\ x \in Share(b, u)
    BY InMerged
  <2> QED BY <1>1, <2>1, <2>2, <2>3
<1>4. Merged(b, t, 2 * s) \cap Merged(b, t + s, 2 * s) = {}
  BY <1>2
<1>5. Merged(b, t, 2 * s) \cup Merged(b, t + s, 2 * s) = Merged(b, t, s)
  BY <1>3
<1> QED BY <1>4, <1>5 DEF Combine

LEMMA MergedOwn ==
  ASSUME SInv, NEW b \in DOMAIN grid, NEW t \in Threads
  PROVE  Merged(b, t, call.block) = Share(b, t)
<1>0. Threads = 0 .. call.block - 1 /\ call.block \in Nat \ {0}
  BY RunningKernel DEF Threads
<1>1. ASSUME NEW u \in Threads PROVE u % call.block = u
  BY <1>0
<1>2. ASSUME NEW x PROVE x \in Merged(b, t, call.block) <=> x \in Share(b, t)
  BY <1>1, InMerged
<1> QED BY <1>2

LEMMA InAll ==
  ASSUME SInv, NEW b \in DOMAIN grid, NEW x
  PROVE  x \in Merged(b, 0, 1) <=> \E u \in Threads : x \in Share(b, u)
<1>1. ASSUME NEW u \in Threads PROVE u % 1 = 0
  BY RunningKernel DEF Threads
<1> QED BY <1>1, InMerged

(* The partials of a kernel hold every element once if its input does. *)
LEMMA PartialsWhole ==
  ASSUME SInv, Running, Reading, NEW f, \A b \in DOMAIN grid : f[b] = Merged(b, 0, 1)
  PROVE  Whole(f, kernel.blocks)
<1>0. grid # <<>> /\ DOMAIN grid = 0 .. kernel.blocks - 1
  BY DEF SInv, GridInv, Running
<1>1. ASSUME NEW b \in DOMAIN grid, NEW c \in DOMAIN grid, NEW x, x \in f[b], x \in f[c] PROVE b = c
  <2>1. PICK t \in Threads : x \in Share(b, t)
    BY <1>1, InAll
  <2>2. PICK u \in Threads : x \in Share(c, u)
    BY <1>1, InAll
  <2> QED BY <2>1, <2>2, SharesDisjoint
<1>2. ASSUME NEW x, NEW b \in DOMAIN grid, x \in f[b] PROVE x \in 0 .. call.n - 1
  <2>1. PICK t \in Threads : x \in Share(b, t)
    BY <1>2, InAll
  <2>2. PICK i \in Indices(b, t) : x \in Input(i)
    BY <2>1, InShare
  <2>3. i \in 0 .. kernel.n - 1
    BY IndicesOf
  <2> QED BY <2>2, <2>3, InputsOnce
<1>3. ASSUME NEW x \in 0 .. call.n - 1 PROVE \E b \in DOMAIN grid : x \in f[b]
  <2>1. PICK i \in 0 .. kernel.n - 1 : x \in Input(i)
    BY InputsOnce
  <2>2. 0 \in DOMAIN grid
    <3>1. Gpu /\ call \in Calls /\ queue # <<>> /\ kernel.op = "kernel"
      BY DEF SInv, HostInv, GridInv, Running
    <3>2. kernel \in Entries /\ KernelOK(kernel)
      BY <3>1, HeadOK DEF SInv
    <3>3. kernel.blocks \in 1 .. call.maxBlocks
      BY <3>1, <3>2, Blocks DEF KernelOK, Entries
    <3>4. call.maxBlocks \in Nat
      BY <3>1, GpuConstants
    <3> QED BY <1>0, <3>3, <3>4
  <2>3. PICK b \in DOMAIN grid, t \in Threads : i \in Indices(b, t)
    BY <2>2, IndicesCover
  <2>4. x \in Share(b, t)
    BY <2>1, <2>3, InShare
  <2>5. x \in Merged(b, 0, 1)
    BY <2>3, <2>4, InAll
  <2> QED BY <2>3, <2>5
<1> QED BY <1>0, <1>1, <1>2, <1>3 DEF Whole

----------------------------------------------------------------------------
(* The data: every step keeps them.                                        *)
LEMMA NoGrid == ASSUME grid = <<>> PROVE DOMAIN grid = {}
OBVIOUS

LEMMA InitDInv == Init => DInv
<1> SUFFICES ASSUME Init, Gpu
             PROVE  /\ DOMAIN mem = Buffers /\ \A a \in Buffers : DOMAIN mem[a] = 0 .. call.maxBlocks - 1
                    /\ DataOK
  BY DEF DInv
<1>1. DOMAIN mem = Buffers /\ \A a \in Buffers : DOMAIN mem[a] = 0 .. call.maxBlocks - 1
  BY DEF Init, Gpu
<1>2. queue = <<>> /\ grid = <<>> /\ buf = None /\ pc \in {"returned", "allocate"}
      /\ (pc = "returned" => call.n = 0) /\ host = {}
  BY DEF Init
<1>3. Linked
  BY <1>2 DEF Linked
<1>4. HostData
  BY <1>2 DEF HostData
<1>5. DOMAIN grid = {}
  BY <1>2, NoGrid
<1> QED BY <1>1, <1>3, <1>4, <1>5 DEF DataOK

(* What the threads fold does not change while the kernel runs, if nobody  *)
(* writes the buffer that it reads.                                        *)
LEMMA SameMerged ==
  ASSUME UNCHANGED call, kernel' = kernel,
         kernel.in # None => mem'[kernel.in] = mem[kernel.in]
  PROVE  \A b, t, s : Merged(b, t, s)' = Merged(b, t, s)
<1>1. \A i : Input(i)' = Input(i)
  BY DEF Input
<1>2. \A b, t : Indices(b, t)' = Indices(b, t)
  BY DEF Indices, First
<1>3. \A b, t : Share(b, t)' = Share(b, t)
  BY <1>1, <1>2 DEF Share
<1>4. Threads' = Threads
  BY DEF Threads
<1> QED BY <1>3, <1>4 DEF Merged

LEMMA SameBlockData ==
  ASSUME NEW b, BlockData(b), UNCHANGED call, kernel' = kernel,
         grid'[b] = grid[b], smem'[b] = smem[b],
         kernel.in # None => mem'[kernel.in] = mem[kernel.in],
         mem'[kernel.out][b] = mem[kernel.out][b]
  PROVE  BlockData(b)'
<1>1. \A t, s : Merged(b, t, s)' = Merged(b, t, s)
  BY SameMerged
<1>2. Threads' = Threads
  BY DEF Threads
<1> QED BY <1>1, <1>2 DEF BlockData

LEMMA SameBlocks ==
  ASSUME SInv, \A b \in DOMAIN grid : BlockData(b), UNCHANGED <<call, grid, smem, mem>>,
         queue # <<>> => kernel' = kernel
  PROVE  \A b \in DOMAIN grid' : BlockData(b)'
<1> SUFFICES ASSUME NEW b \in DOMAIN grid PROVE BlockData(b)'
  OBVIOUS
<1>1. queue # <<>>
  BY RunningKernel
<1> QED BY <1>1, SameBlockData

LEMMA SameWhole ==
  ASSUME UNCHANGED call
  PROVE  \A f, m : Whole(f, m)' = Whole(f, m)
BY DEF Whole

LEMMA EnqueueLinked ==
  ASSUME QueueInv, Linked, NEW e \in Entries, queue' = Append(queue, e), UNCHANGED <<call, mem>>,
         queue = <<>> => /\ e.op = "kernel" => Whole(Source(e), e.n)
                         /\ e.op = "copy" => Whole(mem[e.in], 1),
         queue # <<>> => Follows(queue[Len(queue)], e)
  PROVE  Linked' /\ queue' # <<>> /\ queue'[Len(queue')] = e /\ (queue # <<>> => kernel' = kernel)
<1>0. queue \in Seq(Entries)
  BY DEF QueueInv
<1>1. /\ queue' \in Seq(Entries) /\ queue' # <<>>
      /\ Len(queue') = Len(queue) + 1
      /\ \A k \in 1 .. Len(queue) : queue'[k] = queue[k]
      /\ queue'[Len(queue) + 1] = e
      /\ queue # <<>> => Head(queue') = Head(queue) /\ Len(queue) >= 1
      /\ queue = <<>> => Head(queue') = e
  BY <1>0, Appended
<1>2. \A f, m : Whole(f, m)' = Whole(f, m)
  BY SameWhole
<1>3. \A d : Source(d)' = Source(d)
  BY DEF Source
<1>4. ASSUME NEW k \in 1 .. Len(queue') - 1 PROVE Follows(queue'[k], queue'[k + 1])
  <2>1. k \in 1 .. Len(queue) /\ Len(queue) \in Nat
    BY <1>0, <1>1
  <2>2. CASE k = Len(queue)
    BY <1>1, <2>1, <2>2
  <2>3. CASE k # Len(queue)
    <3>1. k \in 1 .. Len(queue) - 1 /\ k + 1 \in 1 .. Len(queue)
      BY <2>1, <2>3
    <3> QED BY <1>1, <2>1, <3>1 DEF Linked
  <2> QED BY <2>2, <2>3
<1>5. kernel' = IF queue = <<>> THEN e ELSE kernel
  BY <1>1 DEF kernel
<1>6. \A d, c : Follows(d, c)' = Follows(d, c)
  BY DEF Follows
<1>7. /\ kernel'.op = "kernel" => Whole(Source(kernel'), kernel'.n)
      /\ kernel'.op = "copy" => Whole(mem[kernel'.in], 1)
  BY <1>5 DEF Linked
<1>8. Linked'
  BY <1>2, <1>3, <1>4, <1>6, <1>7 DEF Linked
<1> QED BY <1>1, <1>5, <1>8

LEMMA SameLinked ==
  ASSUME Linked, UNCHANGED <<call, queue, mem>> PROVE Linked'
<1>1. \A f, m : Whole(f, m)' = Whole(f, m)
  BY SameWhole
<1>2. \A d : Source(d)' = Source(d)
  BY DEF Source
<1>3. \A d, c : Follows(d, c)' = Follows(d, c)
  BY DEF Follows
<1>4. kernel' = kernel
  BY DEF kernel
<1> QED BY <1>1, <1>2, <1>3, <1>4 DEF Linked

LEMMA HostSteps ==
  ASSUME SInv, DInv, Gpu, pc \notin {"returned", "thrown"}, UNCHANGED <<call, mem>>,
         pc' # "thrown" => DataOK'
  PROVE  DInv'
BY DEF DInv, Gpu

LEMMA AllocateDInv == ASSUME SInv, DInv, AllocatePartials PROVE DInv'
<1>1. pc = "allocate" /\ Gpu /\ UNCHANGED <<call, n, buf, mem, host, queue, grid, smem>>
      /\ pc' \in {"launch", "thrown"} /\ DataOK
  BY DEF AllocatePartials, Throw, Gpu, device, DInv
<1>2. ASSUME pc' = "launch" PROVE DataOK'
  <2>1. HostData'
    BY <1>1, <1>2 DEF DataOK, HostData, Ready, Whole
  <2>2. Linked'
    BY <1>1, SameLinked DEF DataOK
  <2>3. \A b \in DOMAIN grid' : BlockData(b)'
    BY <1>1, SameBlocks DEF DataOK, kernel
  <2> QED BY <2>1, <2>2, <2>3 DEF DataOK
<1> QED BY <1>1, <1>2, HostSteps

LEMMA LaunchDInv == ASSUME SInv, DInv, Launch PROVE DInv'
<1>1. pc = "launch" /\ Gpu /\ UNCHANGED <<call, n, buf, next, mem, host, grid, smem>>
      /\ pc' \in {"free", "thrown"} /\ DataOK
  BY DEF Launch, Throw, SInv, HostInv, DInv
<1>2. next \in Buffers /\ buf \in Buffers \cup {None} /\ n \in Nat /\ n >= 1 /\ call \in Calls
      /\ (buf = None => n = call.n)
  BY <1>1 DEF SInv, HostInv
<1>3. ASSUME pc' = "free" PROVE DataOK'
  <2> DEFINE e == Kernel(buf, next, n)
  <2>1. e \in Entries
    <3>1. gpu_reduce_blocks(n) \in Nat
      BY <1>1, <1>2, Blocks, GpuConstants
    <3> QED BY <1>2, <3>1 DEF Kernel, Entries
  <2>2. queue' = Append(queue, e)
    BY <1>1, <1>3 DEF Launch, Throw
  <2>3. e.op = "kernel" /\ e.in = buf /\ e.out = next /\ e.n = n /\ e.blocks = gpu_reduce_blocks(n)
    BY DEF Kernel
  <2> HIDE DEF e
  <2>4. IF buf = None THEN queue = <<>> ELSE Ready(buf, n)
    BY <1>1 DEF DataOK, HostData
  <2>5. ASSUME queue = <<>> PROVE Whole(Source(e), e.n)
    <3>1. CASE buf = None
      <4>1. Source(e) = [i \in 0 .. n - 1 |-> {i}]
        BY <2>3, <3>1 DEF Source
      <4>2. n = call.n
        BY <1>2, <3>1
      <4> QED BY <1>2, <2>3, <4>1, <4>2 DEF Whole
    <3>2. CASE buf # None
      <4>1. Source(e) = [i \in 0 .. n - 1 |-> mem[buf][i]]
        BY <2>3, <3>2 DEF Source
      <4>2. Whole(mem[buf], n)
        BY <2>4, <2>5, <3>2 DEF Ready
      <4> QED BY <2>3, <4>1, <4>2 DEF Whole
    <3> QED BY <3>1, <3>2
  <2>6. ASSUME queue # <<>> PROVE Follows(queue[Len(queue)], e)
    BY <2>3, <2>4, <2>6 DEF Ready, Follows
  <2>7. e.op # "copy"
    BY <2>3
  <2>8. QueueInv /\ Linked
    BY <1>1 DEF SInv, DataOK
  <2>9. Linked' /\ queue' # <<>> /\ queue'[Len(queue')] = e /\ (queue # <<>> => kernel' = kernel)
    BY <1>1, <2>1, <2>2, <2>5, <2>6, <2>7, <2>8, EnqueueLinked
  <2>10. gpu_reduce_blocks(n)' = gpu_reduce_blocks(n)
    BY <1>1 DEF gpu_reduce_blocks
  <2>11. HostData'
    BY <1>1, <1>3, <2>3, <2>9, <2>10 DEF HostData, Ready
  <2>12. \A b \in DOMAIN grid' : BlockData(b)'
    BY <1>1, <2>9, SameBlocks DEF DataOK
  <2> QED BY <2>9, <2>11, <2>12 DEF DataOK
<1> QED BY <1>1, <1>3, HostSteps

LEMMA FreeDInv == ASSUME SInv, DInv, FreeConsumed PROVE DInv'
<1>1. pc = "free" /\ Gpu /\ UNCHANGED <<call, mem, host, queue, grid, smem>>
      /\ pc' = "allocate" /\ DataOK /\ next # None
      /\ buf' = next /\ n' = gpu_reduce_blocks(n)
  BY NoneAssumption DEF FreeConsumed, SInv, HostInv, DInv, device
<1>2. HostData'
  <2>1. \A f, m : Whole(f, m)' = Whole(f, m)
    BY <1>1, SameWhole
  <2>2. Ready(next, gpu_reduce_blocks(n))
    BY <1>1 DEF DataOK, HostData
  <2> QED BY <1>1, <2>1, <2>2 DEF HostData, Ready
<1>3. Linked'
  BY <1>1, SameLinked DEF DataOK
<1>4. \A b \in DOMAIN grid' : BlockData(b)'
  BY <1>1, SameBlocks DEF DataOK, kernel
<1> QED BY <1>1, <1>2, <1>3, <1>4, HostSteps DEF DataOK

LEMMA CopyDInv == ASSUME SInv, DInv, CopyToHost PROVE DInv'
<1>1. pc = "allocate" /\ Gpu /\ UNCHANGED <<call, n, buf, next, mem, host, grid, smem>>
      /\ pc' \in {"sync", "thrown"} /\ DataOK /\ buf # None /\ n \in Nat /\ n <= 1 /\ n >= 1
      /\ buf \in Buffers
  BY DEF CopyToHost, MorePasses, Throw, Gpu, SInv, HostInv, DInv
<1>2. ASSUME pc' = "sync" PROVE DataOK'
  <2> DEFINE e == [op |-> "copy", in |-> buf]
  <2>1. e \in Entries /\ e.op = "copy" /\ e.in = buf
    BY <1>1 DEF Entries
  <2>2. queue' = Append(queue, e)
    BY <1>1, <1>2 DEF CopyToHost, Throw
  <2> HIDE DEF e
  <2>3. Ready(buf, n) /\ n = 1
    BY <1>1 DEF DataOK, HostData
  <2>4. QueueInv /\ Linked
    BY <1>1 DEF SInv, DataOK
  <2>5. queue = <<>> => Whole(mem[e.in], 1)
    BY <2>1, <2>3 DEF Ready
  <2>6. queue # <<>> => Follows(queue[Len(queue)], e)
    BY <2>1, <2>3 DEF Ready, Follows
  <2>7. e.op # "kernel"
    BY <2>1
  <2>8. Linked' /\ queue' # <<>> /\ queue'[Len(queue')] = e /\ (queue # <<>> => kernel' = kernel)
    BY <1>1, <2>1, <2>2, <2>4, <2>5, <2>6, <2>7, EnqueueLinked
  <2>9. HostData'
    BY <1>1, <1>2, <2>1, <2>8 DEF HostData
  <2>10. \A b \in DOMAIN grid' : BlockData(b)'
    BY <1>1, <2>8, SameBlocks DEF DataOK
  <2> QED BY <2>8, <2>9, <2>10 DEF DataOK
<1> QED BY <1>1, <1>2, HostSteps

LEMMA SynchronizeDInv == ASSUME SInv, DInv, SynchronizeAndReturn PROVE DInv'
<1>1. pc = "sync" /\ Gpu /\ UNCHANGED <<call, mem, host, queue, grid, smem>>
      /\ pc' \in {"returned", "thrown"} /\ DataOK
  BY DEF SynchronizeAndReturn, Throw, SInv, HostInv, DInv, device
<1>2. ASSUME pc' = "returned" PROVE DataOK'
  <2>1. queue = <<>>
    BY <1>1, <1>2 DEF SynchronizeAndReturn, Throw
  <2>2. HostData'
    BY <1>1, <1>2, <2>1 DEF DataOK, HostData
  <2>3. Linked'
    BY <1>1, SameLinked DEF DataOK
  <2>4. \A b \in DOMAIN grid' : BlockData(b)'
    BY <1>1, SameBlocks DEF DataOK, kernel
  <2> QED BY <2>2, <2>3, <2>4 DEF DataOK
<1> QED BY <1>1, <1>2, HostSteps

(* A step of the device after which the queue is the same, and so are the  *)
(* buffers but for the one that its kernel writes.                         *)
LEMMA DeviceSteps ==
  ASSUME SInv, DInv, Gpu, UNCHANGED <<call, pc, n, buf, next, queue, host>>,
         queue # <<>>, DOMAIN mem' = DOMAIN mem,
         \A a \in Buffers : DOMAIN mem'[a] = DOMAIN mem[a],
         kernel.in # None => mem'[kernel.in] = mem[kernel.in],
         pc # "thrown" => \A b \in DOMAIN grid' : BlockData(b)'
  PROVE  DInv'
<1>1. /\ DOMAIN mem' = Buffers
      /\ \A a \in Buffers : DOMAIN mem'[a] = 0 .. call'.maxBlocks - 1
  BY DEF DInv
<1>2. ASSUME pc # "thrown" PROVE DataOK'
  <2>0. DataOK
    BY <1>2 DEF DInv
  <2>1. HostData'
    <3>1. gpu_reduce_blocks(n)' = gpu_reduce_blocks(n)
      BY DEF gpu_reduce_blocks
    <3> QED BY <2>0, <3>1 DEF DataOK, HostData, Ready
  <2>2. Linked'
    <3>1. \A f, m : Whole(f, m)' = Whole(f, m)
      BY SameWhole
    <3>2. kernel' = kernel
      BY DEF kernel
    <3>3. Source(kernel)' = Source(kernel)
      BY <3>2 DEF Source
    <3>4. \A d, c : Follows(d, c)' = Follows(d, c)
      BY DEF Follows
    <3>5. kernel.op = "copy" => mem'[kernel.in] = mem[kernel.in]
      <4>1. kernel \in Entries
        BY HeadOK DEF SInv
      <4>2. kernel.op = "copy" => kernel.in \in Buffers
        BY <4>1 DEF Entries
      <4> QED BY <4>2, NoneAssumption
    <3> QED BY <2>0, <3>1, <3>2, <3>3, <3>4, <3>5 DEF DataOK, Linked
  <2> QED BY <1>2, <2>1, <2>2 DEF DataOK
<1> QED BY <1>1, <1>2 DEF DInv

LEMMA StartDInv == ASSUME SInv, DInv, StartKernel PROVE DInv'
<1>0. Gpu /\ call \in Calls /\ queue # <<>> /\ UNCHANGED <<call, pc, n, buf, next, queue, host, mem>>
  BY DEF SInv, HostInv, StartKernel
<1>1. call.block \in BlockSizes /\ call.block \in Nat \ {0}
  BY <1>0, GpuConstants, BlockPositive
<1> DEFINE th == [t \in Threads |-> [pc |-> "sum", stride |-> call.block]]
<1>2. ASSUME NEW b \in DOMAIN grid' PROVE BlockData(b)'
  <2>1. grid'[b] = th
    BY <1>2 DEF StartKernel
  <2>2. \A t \in Threads : th[t].pc = "sum" /\ th[t].stride = call.block
    OBVIOUS
  <2>3. 0 \in Threads /\ Threads' = Threads
    BY <1>0, <1>1 DEF Threads
  <2> HIDE DEF th
  <2> QED BY <1>0, <1>1, <2>1, <2>2, <2>3 DEF BlockData
<1> QED BY <1>0, <1>2, DeviceSteps

(* A step within block b. *)
LEMMA BlockSteps ==
  ASSUME SInv, DInv, NEW b \in DOMAIN grid, DeviceOnly, NEW th,
         grid' = [grid EXCEPT ![b] = th],
         DOMAIN mem' = DOMAIN mem,
         \A a \in Buffers : DOMAIN mem'[a] = DOMAIN mem[a],
         \A a \in Buffers \ {kernel.out} : mem'[a] = mem[a],
         \A c \in DOMAIN grid : c # b => mem'[kernel.out][c] = mem[kernel.out][c],
         \A c \in DOMAIN smem : c # b => smem'[c] = smem[c],
         DataOK => BlockData(b)'
  PROVE  DInv'
<1>1. /\ Gpu /\ queue # <<>> /\ UNCHANGED <<call, pc, n, buf, next, queue, host>>
      /\ kernel.in # None => mem'[kernel.in] = mem[kernel.in]
  BY RunningKernel DEF DeviceOnly
<1>2. kernel' = kernel /\ DOMAIN smem = DOMAIN grid /\ DOMAIN grid' = DOMAIN grid
      /\ \A c \in DOMAIN grid : c # b => grid'[c] = grid[c]
  BY <1>1 DEF kernel, SInv, GridInv
<1>3. ASSUME pc # "thrown", NEW c \in DOMAIN grid' PROVE BlockData(c)'
  <2>1. DataOK
    BY <1>1, <1>3 DEF DInv
  <2>2. CASE c = b
    BY <2>1, <2>2
  <2>3. CASE c # b
    <3>1. BlockData(c)
      BY <1>2, <1>3, <2>1 DEF DataOK
    <3>2. /\ grid'[c] = grid[c] /\ smem'[c] = smem[c]
          /\ mem'[kernel.out][c] = mem[kernel.out][c]
      BY <1>2, <1>3, <2>3
    <3> QED BY <1>1, <1>2, <3>1, <3>2, SameBlockData
  <2> QED BY <2>2, <2>3
<1> QED BY <1>1, <1>3, DeviceSteps

LEMMA SameInBlock ==
  ASSUME SInv, NEW b \in DOMAIN grid, DeviceOnly,
         \A a \in Buffers \ {kernel.out} : mem'[a] = mem[a]
  PROVE  /\ UNCHANGED call /\ kernel' = kernel /\ Threads' = Threads
         /\ \A t, s : Merged(b, t, s)' = Merged(b, t, s)
<1>1. UNCHANGED <<call, queue>> /\ kernel' = kernel
      /\ (kernel.in # None => mem'[kernel.in] = mem[kernel.in])
  BY RunningKernel DEF DeviceOnly, kernel
<1>2. Threads' = Threads
  BY <1>1 DEF Threads
<1> QED BY <1>1, <1>2, SameMerged

LEMMA DataReading ==
  ASSUME SInv, DataOK, NEW b \in DOMAIN grid
  PROVE  Running /\ Reading /\ BlockData(b)
<1>1. Running /\ queue # <<>> /\ kernel.op = "kernel"
  BY RunningKernel
<1> QED BY <1>1 DEF DataOK, Linked, Reading

LEMMA AccumulateDInv ==
  ASSUME SInv, DInv, NEW b \in DOMAIN grid, NEW t \in Threads, Accumulate(b, t) PROVE DInv'
<1>0. Gpu /\ Phase(grid[b]) /\ b \in DOMAIN smem /\ DOMAIN smem[b] = Threads /\ call.block \in Nat \ {0}
  BY RunningOK, ThreadsOK
<1> DEFINE v == [pc |-> "barrier", stride |-> call.block]
           x == CombineAll([i \in Indices(b, t) |-> Input(i)])
           th == [grid[b] EXCEPT ![t] = v]
           sm == [smem[b] EXCEPT ![t] = x]
<1>1. grid[b][t].pc = "sum" /\ DeviceOnly /\ mem' = mem
      /\ grid' = [grid EXCEPT ![b] = th] /\ smem' = [smem EXCEPT ![b] = sm]
  BY DEF Accumulate
<1>2. /\ grid'[b] = th /\ smem'[b] = sm /\ \A c \in DOMAIN smem : c # b => smem'[c] = smem[c]
      /\ th[t] = v /\ sm[t] = x
      /\ \A u \in Threads : u # t => th[u] = grid[b][u] /\ sm[u] = smem[b][u]
  BY <1>0, <1>1 DEF Phase
<1>3. ASSUME DataOK PROVE BlockData(b)'
  <2>1. Running /\ Reading /\ BlockData(b)
    BY <1>3, DataReading
  <2>2. x = Merged(b, t, call.block)
    BY <2>1, ShareFolded, MergedOwn
  <2>3. UNCHANGED call /\ kernel' = kernel /\ Threads' = Threads
        /\ \A u, s : Merged(b, u, s)' = Merged(b, u, s)
    BY <1>1, SameInBlock
  <2>4. v.pc = "barrier" /\ v.stride = call.block /\ grid[b][t].stride = call.block
    BY <1>0, <1>1 DEF Phase
  <2>5. call.block \in BlockSizes /\ t < call.block /\ Threads = 0 .. call.block - 1
    BY RunningKernel DEF Threads
  <2> HIDE DEF v, x, th, sm
  <2>6. \A u \in Threads :
           /\ th[u].pc = "barrier" /\ u < th[u].stride => sm[u] = Merged(b, u, th[u].stride)
           /\ u < 2 * th[u].stride /\ (th[u].pc = "tree" \/ (th[u].pc = "barrier" /\ u >= th[u].stride))
                => sm[u] = Merged(b, u, 2 * th[u].stride)
           /\ th[u].stride \in BlockSizes \cup {0} /\ th[u].stride <= call.block
    <3> TAKE u \in Threads
    <3>1. CASE u = t
      <4>1. th[u].pc = "barrier" /\ th[u].stride = call.block
        BY <1>2, <2>4, <3>1
      <4>2. sm[u] = Merged(b, u, call.block)
        BY <1>2, <2>2, <3>1
      <4> QED BY <1>0, <2>5, <3>1, <4>1, <4>2
    <3>2. CASE u # t
      BY <1>2, <2>1, <3>2 DEF BlockData
    <3> QED BY <3>1, <3>2
  <2>7. 0 \in Threads /\ th[0].pc # "out" /\ th[0].pc # "done"
    <3>1. 0 \in Threads /\ grid[b][0].pc \in {"sum", "barrier"}
      BY <1>0, <2>4, <2>5 DEF Phase
    <3> QED BY <1>2, <2>4, <3>1
  <2> QED BY <1>1, <1>2, <2>3, <2>6, <2>7 DEF BlockData
<1> HIDE DEF th, sm
<1> QED BY <1>1, <1>2, <1>3, BlockSteps

(* The strides of a tree: a power of two, halved down to zero. *)
LEMMA Strides ==
  \A s \in BlockSizes :
    /\ s \div 2 \in BlockSizes \cup {0} /\ (s = 1 => s \div 2 = 0) /\ (s # 1 => s = 2 * (s \div 2))
    /\ \A d \in BlockSizes : s < d => 2 * s <= d
BY DEF BlockSizes

LEMMA BarrierDInv ==
  ASSUME SInv, DInv, NEW b \in DOMAIN grid, Barrier(b) PROVE DInv'
<1>0. Gpu /\ Phase(grid[b]) /\ call.block \in Nat \ {0} /\ 0 \in Threads /\ Threads \subseteq Nat
  BY RunningOK, ThreadsOK
<1> DEFINE s == grid[b][0].stride
           r == s \div 2
           th == [t \in Threads |-> [stride |-> r, pc |-> AfterBarrier(r, t)]]
<1>1. \A t \in Threads : grid[b][t].pc = "barrier" /\ grid[b][t].stride = s
  BY <1>0 DEF Barrier, Phase
<1>2. grid' = [grid EXCEPT ![b] = th] /\ UNCHANGED <<smem, mem>> /\ DeviceOnly
  <2>1. grid' = [grid EXCEPT ![b] = [t \in Threads |->
                  [stride |-> grid[b][t].stride \div 2, pc |-> AfterBarrier(grid[b][t].stride \div 2, t)]]]
    BY DEF Barrier
  <2>2. [t \in Threads |->
          [stride |-> grid[b][t].stride \div 2, pc |-> AfterBarrier(grid[b][t].stride \div 2, t)]] = th
    BY <1>1
  <2> HIDE DEF th
  <2> QED BY <2>1, <2>2 DEF Barrier
<1>3. grid'[b] = th
  BY <1>2
<1>4. ASSUME DataOK PROVE BlockData(b)'
  <2>1. BlockData(b)
    BY <1>4, DataReading
  <2>2. UNCHANGED call /\ kernel' = kernel /\ Threads' = Threads
        /\ \A u, w : Merged(b, u, w)' = Merged(b, u, w)
    BY <1>2, SameInBlock
  <2>3. s \in Nat \ {0}
    BY <1>0, <1>1 DEF Phase, ThreadState
  <2>4. s \in BlockSizes /\ s <= call.block
    BY <1>0, <2>1, <2>3 DEF BlockData
  <2>5. r \in BlockSizes \cup {0} /\ (s = 1 => r = 0) /\ (s # 1 => s = 2 * r)
    BY <2>4, Strides
  <2>6. r \in Nat /\ r <= call.block
    BY <1>0, <2>3, <2>4, Half
  <2>7. \A t \in Threads : th[t].stride = r /\ th[t].pc = AfterBarrier(r, t)
    OBVIOUS
  <2>8. \A t \in Threads : t < s => smem[b][t] = Merged(b, t, s)
    BY <1>1, <2>1 DEF BlockData
  <2> HIDE DEF th, r, s
  <2>9. ASSUME NEW t \in Threads
        PROVE  /\ ~(th[t].pc = "barrier")
               /\ t < 2 * th[t].stride /\ th[t].pc = "tree" => smem[b][t] = Merged(b, t, 2 * th[t].stride)
               /\ th[t].stride \in BlockSizes \cup {0} /\ th[t].stride <= call.block
    <3>1. th[t].pc # "barrier" /\ (th[t].pc = "tree" => r > 0)
      BY <2>7 DEF AfterBarrier
    <3>2. r > 0 => s = 2 * r
      BY <2>5
    <3> QED BY <1>0, <2>5, <2>6, <2>7, <2>8, <3>1, <3>2
  <2>10. th[0].pc = "out" => smem[b][0] = Merged(b, 0, 1)
    <3>1. th[0].pc = "out" => ~(r > 0)
      BY <1>0, <2>7 DEF AfterBarrier
    <3>2. ~(r > 0) => s = 1
      BY <2>3, <2>5, <2>6
    <3> QED BY <1>0, <2>8, <3>1, <3>2
  <2>11. th[0].pc # "done"
    BY <1>0, <2>7 DEF AfterBarrier
  <2> QED BY <1>2, <1>3, <2>2, <2>9, <2>10, <2>11 DEF BlockData
<1> HIDE DEF th
<1> QED BY <1>2, <1>4, BlockSteps

LEMMA TreeDInv ==
  ASSUME SInv, DInv, NEW b \in DOMAIN grid, NEW t \in Threads, TreeLevel(b, t) PROVE DInv'
<1>0. Gpu /\ Phase(grid[b]) /\ b \in DOMAIN smem /\ DOMAIN smem[b] = Threads
      /\ call.block \in Nat \ {0} /\ 0 \in Threads /\ Threads \subseteq Nat
  BY RunningOK, ThreadsOK
<1> DEFINE s == grid[b][t].stride
           v == [grid[b][t] EXCEPT !.pc = "barrier"]
           th == [grid[b] EXCEPT ![t] = v]
<1>1. grid[b][t].pc = "tree" /\ DeviceOnly /\ mem' = mem /\ grid' = [grid EXCEPT ![b] = th]
      /\ smem' = IF t < s THEN [smem EXCEPT ![b][t] = Combine(@, smem[b][t + s])] ELSE smem
  BY DEF TreeLevel
<1>2. /\ grid'[b] = th /\ th[t] = v /\ \A u \in Threads : u # t => th[u] = grid[b][u]
      /\ \A c \in DOMAIN smem : c # b => smem'[c] = smem[c]
      /\ \A u \in Threads : u # t => smem'[b][u] = smem[b][u]
      /\ t < s => smem'[b][t] = Combine(smem[b][t], smem[b][t + s])
      /\ ~(t < s) => smem'[b][t] = smem[b][t]
  BY <1>0, <1>1 DEF Phase
<1>3. ASSUME DataOK PROVE BlockData(b)'
  <2>1. Running /\ Reading /\ BlockData(b)
    BY <1>3, DataReading
  <2>2. UNCHANGED call /\ kernel' = kernel /\ Threads' = Threads
        /\ \A u, w : Merged(b, u, w)' = Merged(b, u, w)
    BY <1>1, SameInBlock
  <2>3. v.pc = "barrier" /\ v.stride = s /\ s \in Nat
    BY <1>0 DEF Phase, ThreadState
  <2>4. s # 0 /\ s # call.block /\ \A u \in Threads : grid[b][u].stride = s
    BY <1>0, <1>1 DEF Phase
  <2>5. s \in BlockSizes /\ s < call.block
    BY <1>0, <2>1, <2>3, <2>4 DEF BlockData
  <2>6. 2 * s <= call.block
    BY <2>5, Strides, RunningKernel
  <2>7. Threads = 0 .. call.block - 1
    BY DEF Threads
  <2>8. t < 2 * s => smem[b][t] = Merged(b, t, 2 * s)
    BY <1>1, <2>1 DEF BlockData
  <2>9. ASSUME t < s PROVE smem'[b][t] = Merged(b, t, s)
    <3>1. t + s \in Threads /\ t + s < 2 * s /\ t + s >= s /\ t \in 0 .. s - 1
      BY <1>0, <2>3, <2>6, <2>7, <2>9, SMTT(60)
    <3>2. grid[b][t + s].pc \in {"tree", "barrier"} /\ grid[b][t + s].stride = s
      BY <1>0, <2>4, <3>1 DEF Phase
    <3>3. smem[b][t + s] = Merged(b, t + s, 2 * s)
      BY <2>1, <3>1, <3>2 DEF BlockData
    <3>4. smem[b][t] = Merged(b, t, 2 * s)
      BY <2>3, <2>8, <2>9, <3>1
    <3>5. Combine(Merged(b, t, 2 * s), Merged(b, t + s, 2 * s)) = Merged(b, t, s)
      BY <2>1, <2>3, <2>4, <3>1, MergedSplit
    <3> QED BY <1>2, <2>9, <3>3, <3>4, <3>5
  <2> HIDE DEF v, th, s
  <2>10. \A u \in Threads :
           /\ th[u].pc = "barrier" /\ u < th[u].stride => smem'[b][u] = Merged(b, u, th[u].stride)
           /\ u < 2 * th[u].stride /\ (th[u].pc = "tree" \/ (th[u].pc = "barrier" /\ u >= th[u].stride))
                => smem'[b][u] = Merged(b, u, 2 * th[u].stride)
           /\ th[u].stride \in BlockSizes \cup {0} /\ th[u].stride <= call.block
    <3> TAKE u \in Threads
    <3>1. CASE u = t
      <4>1. th[u].pc = "barrier" /\ th[u].stride = s
        BY <1>2, <2>3, <3>1
      <4>2. u < s => smem'[b][u] = Merged(b, u, s)
        BY <2>9, <3>1
      <4>3. u < 2 * s /\ u >= s => smem'[b][u] = Merged(b, u, 2 * s)
        BY <1>0, <1>2, <2>3, <2>8, <3>1
      <4>4. s \in BlockSizes /\ s <= call.block
        BY <1>0, <2>3, <2>5
      <4> QED BY <4>1, <4>2, <4>3, <4>4
    <3>2. CASE u # t
      BY <1>2, <2>1, <3>2 DEF BlockData
    <3> QED BY <3>1, <3>2
  <2>11. th[0].pc # "out" /\ th[0].pc # "done"
    <3>1. grid[b][0].pc \in {"tree", "barrier"}
      BY <1>0, <2>4 DEF Phase
    <3> QED BY <1>0, <1>2, <2>3, <3>1
  <2> QED BY <1>1, <1>2, <2>2, <2>10, <2>11 DEF BlockData
<1> HIDE DEF th
<1> QED BY <1>1, <1>2, <1>3, BlockSteps

LEMMA WriteDInv ==
  ASSUME SInv, DInv, NEW b \in DOMAIN grid, NEW t \in Threads, WritePartial(b, t) PROVE DInv'
<1>0. Gpu /\ Phase(grid[b]) /\ b \in DOMAIN smem /\ DOMAIN smem[b] = Threads
      /\ call.block \in Nat \ {0} /\ 0 \in Threads /\ Threads \subseteq Nat
  BY RunningOK, ThreadsOK
<1> DEFINE v == [grid[b][t] EXCEPT !.pc = "done"]
           th == [grid[b] EXCEPT ![t] = v]
<1>1. grid[b][t].pc = "out" /\ DeviceOnly /\ grid' = [grid EXCEPT ![b] = th] /\ smem' = smem
      /\ mem' = [mem EXCEPT ![kernel.out][b] = smem[b][0]]
  BY DEF WritePartial
<1>2. t = 0 /\ grid[b][0].stride = 0
  BY <1>0, <1>1 DEF Phase
<1>3. kernel.out \in DOMAIN mem /\ b \in DOMAIN mem[kernel.out] /\ DOMAIN mem = Buffers
  <2>1. kernel.out \in Buffers /\ b \in 0 .. kernel.blocks - 1
        /\ kernel.blocks \in 1 .. call.maxBlocks /\ call.maxBlocks \in Nat
    BY RunningKernel
  <2>2. b \in 0 .. call.maxBlocks - 1
    BY <2>1
  <2> QED BY <1>0, <2>1, <2>2 DEF DInv
<1>4. /\ DOMAIN mem' = DOMAIN mem
      /\ \A a \in Buffers : DOMAIN mem'[a] = DOMAIN mem[a]
      /\ \A a \in Buffers \ {kernel.out} : mem'[a] = mem[a]
      /\ \A c \in DOMAIN grid : c # b => mem'[kernel.out][c] = mem[kernel.out][c]
      /\ mem'[kernel.out][b] = smem[b][0]
  <2>1. mem' = [mem EXCEPT ![kernel.out] = [mem[kernel.out] EXCEPT ![b] = smem[b][0]]]
    BY <1>1
  <2> DEFINE m == [mem[kernel.out] EXCEPT ![b] = smem[b][0]]
  <2>2. DOMAIN m = DOMAIN mem[kernel.out] /\ m[b] = smem[b][0]
    BY <1>3
  <2>3. \A c \in DOMAIN mem[kernel.out] : c # b => m[c] = mem[kernel.out][c]
    BY <1>3
  <2>4. DOMAIN grid \subseteq DOMAIN mem[kernel.out]
    <3>1. kernel.out \in Buffers /\ DOMAIN grid = 0 .. kernel.blocks - 1
          /\ kernel.blocks \in 1 .. call.maxBlocks /\ call.maxBlocks \in Nat
      BY RunningKernel
    <3>2. DOMAIN mem[kernel.out] = 0 .. call.maxBlocks - 1
      BY <1>0, <3>1 DEF DInv
    <3> QED BY <3>1, <3>2
  <2> HIDE DEF m
  <2>5. mem' = [mem EXCEPT ![kernel.out] = m]
    BY <2>1 DEF m
  <2> QED BY <1>3, <2>2, <2>3, <2>4, <2>5
<1>5. /\ grid'[b] = th /\ th[t] = v /\ \A u \in Threads : u # t => th[u] = grid[b][u]
  BY <1>0, <1>1 DEF Phase
<1>6. ASSUME DataOK PROVE BlockData(b)'
  <2>1. Running /\ Reading /\ BlockData(b)
    BY <1>6, DataReading
  <2>2. UNCHANGED call /\ kernel' = kernel /\ Threads' = Threads
        /\ \A u, w : Merged(b, u, w)' = Merged(b, u, w)
    BY <1>1, <1>4, SameInBlock
  <2>3. v.pc = "done" /\ v.stride = 0
    BY <1>0, <1>2 DEF Phase, ThreadState
  <2>4. smem[b][0] = Merged(b, 0, 1)
    BY <1>1, <1>2, <2>1 DEF BlockData
  <2> HIDE DEF v, th
  <2>5. \A u \in Threads :
           /\ th[u].pc = "barrier" /\ u < th[u].stride => smem[b][u] = Merged(b, u, th[u].stride)
           /\ u < 2 * th[u].stride /\ (th[u].pc = "tree" \/ (th[u].pc = "barrier" /\ u >= th[u].stride))
                => smem[b][u] = Merged(b, u, 2 * th[u].stride)
           /\ th[u].stride \in BlockSizes \cup {0} /\ th[u].stride <= call.block
    <3> TAKE u \in Threads
    <3>1. CASE u = t
      <4>1. th[u].pc = "done" /\ th[u].stride = 0
        BY <1>5, <2>3, <3>1
      <4> QED BY <1>0, <4>1
    <3>2. CASE u # t
      BY <1>5, <2>1, <3>2 DEF BlockData
    <3> QED BY <3>1, <3>2
  <2>6. th[0].pc = "done"
    BY <1>2, <1>5, <2>3
  <2> QED BY <1>1, <1>4, <1>5, <2>2, <2>4, <2>5, <2>6 DEF BlockData
<1> HIDE DEF th
<1> QED BY <1>1, <1>4, <1>6, BlockSteps

(* The oldest entry is done: what follows it reads whole partials. *)
LEMMA Dequeued ==
  ASSUME SInv, queue # <<>>, Linked, queue' = Tail(queue), UNCHANGED <<call, mem>>,
         kernel.op = "kernel" => Whole(mem[kernel.out], kernel.blocks)
  PROVE  /\ Linked'
         /\ queue' = <<>> => Len(queue) = 1
         /\ queue' # <<>> => queue'[Len(queue')] = queue[Len(queue)] /\ kernel.op = "kernel"
<1>0. queue \in Seq(Entries)
  BY DEF SInv, QueueInv
<1>1. /\ queue' \in Seq(Entries) /\ Len(queue') = Len(queue) - 1 /\ Len(queue) \in Nat \ {0}
      /\ \A k \in 1 .. Len(queue') : queue'[k] = queue[k + 1] /\ k + 1 \in 1 .. Len(queue)
  BY <1>0
<1>2. /\ \A f, m : Whole(f, m)' = Whole(f, m)
      /\ \A d : Source(d)' = Source(d)
      /\ \A d, c : Follows(d, c)' = Follows(d, c)
  <2>1. \A f, m : Whole(f, m)' = Whole(f, m)
    BY SameWhole
  <2> QED BY <2>1 DEF Source, Follows
<1>3. kernel \in Entries /\ kernel = queue[1]
  BY HeadOK DEF SInv
<1>4. ASSUME queue' # <<>>
      PROVE  /\ Len(queue') \in Nat \ {0} /\ kernel' = queue[2] /\ kernel' \in Entries
             /\ Follows(kernel, kernel') /\ queue'[Len(queue')] = queue[Len(queue)]
  <2>1. Len(queue') \in Nat \ {0}
    BY <1>1, <1>4
  <2>2. 1 \in 1 .. Len(queue) - 1 /\ Len(queue') \in 1 .. Len(queue')
    BY <1>1, <2>1
  <2>3. Follows(queue[1], queue[1 + 1])
    BY <2>2 DEF Linked
  <2>4. kernel' = queue'[1] /\ queue'[1] = queue[1 + 1] /\ queue'[1] \in Entries
    BY <1>1, <2>1, <2>2 DEF kernel
  <2> QED BY <1>1, <1>3, <2>1, <2>2, <2>3, <2>4
<1>5. ASSUME NEW k \in 1 .. Len(queue') - 1 PROVE Follows(queue'[k], queue'[k + 1])
  <2>1. k \in 1 .. Len(queue') /\ k + 1 \in 1 .. Len(queue') /\ k + 1 \in 1 .. Len(queue) - 1
    BY <1>1
  <2> QED BY <1>1, <2>1 DEF Linked
<1>6. ASSUME queue' # <<>>
      PROVE  /\ kernel'.op = "kernel" => Whole(Source(kernel'), kernel'.n)
             /\ kernel'.op = "copy" => Whole(mem[kernel'.in], 1)
  <2>1. /\ kernel.op = "kernel" /\ kernel'.in = kernel.out
        /\ kernel'.op = "kernel" => kernel'.n = kernel.blocks
        /\ kernel'.op = "copy" => kernel.blocks = 1
    BY <1>4, <1>6 DEF Follows
  <2>2. kernel.out \in Buffers /\ kernel.out # None
    BY <1>3, <2>1, NoneAssumption DEF Entries
  <2>3. Whole(mem[kernel.out], kernel.blocks)
    BY <2>1
  <2>4. Source(kernel') = [i \in 0 .. kernel'.n - 1 |-> mem[kernel.out][i]]
    BY <2>1, <2>2 DEF Source
  <2>5. ASSUME kernel'.op = "kernel" PROVE Whole(Source(kernel'), kernel'.n)
    <3> DEFINE m == kernel'.n
    <3>1. Whole(mem[kernel.out], m)
      BY <2>1, <2>3, <2>5
    <3>2. Source(kernel') = [i \in 0 .. m - 1 |-> mem[kernel.out][i]]
      BY <2>4
    <3> HIDE DEF m
    <3>3. Whole(Source(kernel'), m)
      BY <3>1, <3>2 DEF Whole
    <3> QED BY <3>3 DEF m
  <2> QED BY <2>1, <2>3, <2>5
<1>7. Linked'
  BY <1>2, <1>5, <1>6 DEF Linked
<1>8. ASSUME queue' = <<>> PROVE Len(queue) = 1
  <2>1. Len(<<>>) = 0
    OBVIOUS
  <2>2. Len(queue') = 0
    BY <1>8, <2>1, Zenon
  <2> QED BY <1>1, <2>2
<1>9. ASSUME queue' # <<>> PROVE kernel.op = "kernel"
  BY <1>4, <1>9 DEF Follows
<1> QED BY <1>4, <1>7, <1>8, <1>9

LEMMA CopyRunDInv == ASSUME SInv, DInv, RunCopy PROVE DInv'
<1>0. Gpu /\ queue # <<>> /\ kernel.op = "copy" /\ grid = <<>>
      /\ UNCHANGED <<call, pc, n, buf, next, owned, mem, grid, smem>>
      /\ host' = mem[kernel.in][0] /\ queue' = Tail(queue)
  BY DEF RunCopy, Running, SInv, HostInv
<1>1. ASSUME pc # "thrown" PROVE DataOK'
  <2>0. DataOK
    BY <1>0, <1>1 DEF DInv
  <2>1. Linked' /\ (queue' = <<>> => Len(queue) = 1) /\ queue' = <<>>
    BY <1>0, <2>0, Dequeued DEF DataOK
  <2>2. Len(queue) = 1 /\ queue[Len(queue)] = kernel
    BY <2>1, <1>0, HeadOK DEF SInv
  <2>3. Whole(mem[kernel.in], 1)
    BY <1>0, <2>0 DEF DataOK, Linked
  <2>4. host' = 0 .. call.n - 1
    <3>1. UNION {mem[kernel.in][i] : i \in 0 .. 1 - 1} = mem[kernel.in][0]
      OBVIOUS
    <3> QED BY <1>0, <2>3, <3>1 DEF Whole
  <2>5. pc \notin {"allocate", "launch", "free"}
    BY <1>0, <2>0, <2>2 DEF DataOK, HostData, Ready
  <2>6. HostData'
    BY <1>0, <2>1, <2>4, <2>5 DEF HostData
  <2>7. DOMAIN grid' = {}
    BY <1>0
  <2> QED BY <2>1, <2>6, <2>7 DEF DataOK
<1> QED BY <1>0, <1>1 DEF DInv

LEMMA FinishDInv == ASSUME SInv, DInv, FinishKernel PROVE DInv'
<1>0. Running /\ (\A b \in DOMAIN grid, t \in Threads : grid[b][t].pc = "done")
      /\ UNCHANGED <<call, pc, n, buf, next, owned, mem, host>>
      /\ queue' = Tail(queue) /\ grid' = <<>>
  BY DEF FinishKernel
<1>1. Gpu /\ queue # <<>> /\ kernel.op = "kernel"
  BY <1>0 DEF SInv, HostInv, GridInv, Running
<1>2. ASSUME pc # "thrown" PROVE DataOK'
  <2>0. DataOK
    BY <1>1, <1>2 DEF DInv
  <2>1. Reading
    BY <1>1, <2>0 DEF DataOK, Linked, Reading
  <2>2. ASSUME NEW b \in DOMAIN grid PROVE mem[kernel.out][b] = Merged(b, 0, 1)
    <3>1. 0 \in Threads /\ call.block \in Nat \ {0} /\ Phase(grid[b])
      BY <1>1, ThreadsOK, RunningOK
    <3>2. grid[b][0].pc = "done"
      BY <1>0, <3>1
    <3>3. grid[b][0].stride = 0
      BY <3>1, <3>2 DEF Phase
    <3> QED BY <2>0, <3>1, <3>2, <3>3 DEF DataOK, BlockData
  <2>3. Whole(mem[kernel.out], kernel.blocks)
    BY <1>0, <2>1, <2>2, PartialsWhole
  <2>4. /\ Linked'
        /\ queue' = <<>> => Len(queue) = 1
        /\ queue' # <<>> => queue'[Len(queue')] = queue[Len(queue)]
    BY <1>0, <1>1, <2>0, <2>3, Dequeued DEF DataOK
  <2>5. queue' = <<>> => queue[Len(queue)] = kernel
    BY <1>1, <2>4, HeadOK DEF SInv
  <2>6. \A f, m : Whole(f, m)' = Whole(f, m)
    BY <1>0, SameWhole
  <2>7. HostData'
    <3>1. gpu_reduce_blocks(n)' = gpu_reduce_blocks(n)
      BY <1>0 DEF gpu_reduce_blocks
    <3>2. \A a, m : Ready(a, m) => Ready(a, m)'
      BY <1>0, <1>1, <2>3, <2>4, <2>5, <2>6 DEF Ready
    <3>3. pc \in {"allocate", "launch"} => buf # None /\ Ready(buf, n)
      BY <1>1, <2>0 DEF DataOK, HostData
    <3>4. pc = "free" => Ready(next, gpu_reduce_blocks(n))
      BY <2>0 DEF DataOK, HostData
    <3>5. pc = "sync" => queue' # <<>> /\ queue'[Len(queue')].op = "copy"
      BY <1>1, <2>0, <2>4, <2>5 DEF DataOK, HostData
    <3>6. pc = "returned" => host = 0 .. call.n - 1
      BY <2>0 DEF DataOK, HostData
    <3> QED BY <1>0, <3>1, <3>2, <3>3, <3>4, <3>5, <3>6 DEF HostData
  <2>8. DOMAIN grid' = {}
    BY <1>0
  <2> QED BY <2>4, <2>7, <2>8 DEF DataOK
<1> QED BY <1>0, <1>1, <1>2 DEF DInv

LEMMA StutterDInv == ASSUME SInv, DInv, UNCHANGED vars PROVE DInv'
<1>1. UNCHANGED <<call, pc, n, buf, next, mem, host, queue, grid, smem>>
  BY DEF vars
<1>2. ASSUME Gpu, pc # "thrown" PROVE DataOK'
  <2>0. DataOK
    BY <1>2 DEF DInv
  <2>1. Linked'
    BY <1>1, <2>0, SameLinked DEF DataOK
  <2>2. \A f, m : Whole(f, m)' = Whole(f, m)
    BY <1>1, SameWhole
  <2>3. gpu_reduce_blocks(n)' = gpu_reduce_blocks(n)
    BY <1>1 DEF gpu_reduce_blocks
  <2>4. HostData'
    BY <1>1, <2>0, <2>2, <2>3 DEF DataOK, HostData, Ready
  <2>5. \A b \in DOMAIN grid' : BlockData(b)'
    BY <1>1, <2>0, SameBlocks DEF DataOK, kernel
  <2> QED BY <2>1, <2>4, <2>5 DEF DataOK
<1> QED BY <1>1, <1>2 DEF DInv, Gpu

LEMMA NextDInv == SInv /\ DInv /\ [Next]_vars => DInv'
<1> SUFFICES ASSUME SInv, DInv, [Next]_vars PROVE DInv'
  OBVIOUS
<1>1. CASE AllocatePartials \/ Launch \/ FreeConsumed \/ CopyToHost \/ SynchronizeAndReturn
  BY <1>1, AllocateDInv, LaunchDInv, FreeDInv, CopyDInv, SynchronizeDInv
<1>2. CASE MetalPass \/ MetalReturn \/ MetalMaterialize \/ CpuReturn
  <2>1. call' = call /\ call.device # "gpu"
    BY <1>2 DEF MetalPass, MetalReturn, MetalThrow, MetalMaterialize, CpuReturn
  <2> QED BY <2>1 DEF DInv, Gpu
<1>3. CASE StartKernel \/ RunCopy \/ FinishKernel
  BY <1>3, StartDInv, CopyRunDInv, FinishDInv
<1>4. CASE \E b \in DOMAIN grid : Barrier(b) \/ \E t \in Threads :
             Accumulate(b, t) \/ TreeLevel(b, t) \/ WritePartial(b, t)
  BY <1>4, BarrierDInv, AccumulateDInv, TreeDInv, WriteDInv
<1>5. CASE UNCHANGED vars
  BY <1>5, StutterDInv
<1> QED BY <1>1, <1>2, <1>3, <1>4, <1>5 DEF Next, Host, Device, Over

LEMMA SpecDInv == Spec => []DInv
<1>1. Spec => []SInv
  BY SpecSInv
<1>2. Init => DInv
  BY InitDInv
<1>3. SInv /\ DInv /\ [Next]_vars => DInv'
  BY NextDInv
<1> QED BY <1>1, <1>2, <1>3, PTL DEF Spec

----------------------------------------------------------------------------
(* Metal's own kernel: the fold of a SIMD group, one level at a time.      *)
Offsets == Widths \cup {1}

\* The registers after a level with this offset, from those before it; the
\* loop starts with the values of `inputs`.
Level(inputs, w, active, before, offset) ==
  [lane \in 0 .. w - 1 |->
     IF offset >= w THEN inputs[lane]
     ELSE IF lane + offset < active THEN Combine(before[lane], before[lane + offset])
     ELSE before[lane]]
Solves(v, inputs, w, active) ==
  v = [offset \in Offsets |-> Level(inputs, w, active, v[2 * offset], offset)]
Levels(v, inputs, w, active) ==
  \A offset \in Offsets : v[offset] = Level(inputs, w, active, v[2 * offset], offset)

\* What the lanes that are equal to this one modulo s hold before the fold.
Held(inputs, active, lane, s) ==
  UNION {inputs[i] : i \in {i \in 0 .. active - 1 : i % s = lane}}
FoldedTo(v, inputs, active, s) ==
  \A lane \in 0 .. s - 1 : lane < active => v[lane] = Held(inputs, active, lane, s)
Disjoint(inputs, m) == \A i, j \in 0 .. m - 1 : i # j => inputs[i] \cap inputs[j] = {}

(* The recursion has a solution: it is unfolded from the widest group.     *)
LEMMA RegistersExist ==
  ASSUME NEW inputs, NEW w \in Widths, NEW active
  PROVE  \E v : Solves(v, inputs, w, active)
<1> DEFINE L(before, offset) == Level(inputs, w, active, before, offset)
           v64 == L(<<>>, 64)
           v32 == L(v64, 32)
           v16 == L(v32, 16)
           v8 == L(v16, 8)
           v4 == L(v8, 4)
           v2 == L(v4, 2)
           v1 == L(v2, 1)
           v == [o \in Offsets |-> IF o = 64 THEN v64 ELSE IF o = 32 THEN v32
                  ELSE IF o = 16 THEN v16 ELSE IF o = 8 THEN v8 ELSE IF o = 4 THEN v4
                  ELSE IF o = 2 THEN v2 ELSE v1]
<1>1. ASSUME NEW before, NEW other PROVE L(before, 64) = L(other, 64)
  <2>1. 64 >= w
    BY DEF Widths
  <2> QED BY <2>1 DEF Level
<1>2. Offsets = {1, 2, 4, 8, 16, 32, 64}
  BY DEF Offsets, Widths
<1> HIDE DEF L
<1>3. /\ v[64] = v64 /\ v[32] = v32 /\ v[16] = v16 /\ v[8] = v8 /\ v[4] = v4
      /\ v[2] = v2 /\ v[1] = v1
  <2> HIDE DEF v64, v32, v16, v8, v4, v2, v1
  <2> QED BY <1>2
<1>4. v[64] = L(v[128], 64)
  BY <1>1, <1>3
<1> DEFINE u == [offset \in Offsets |-> L(v[2 * offset], offset)]
<1>5. ASSUME NEW o \in Offsets PROVE v[o] = L(v[2 * o], o)
  <2> HIDE DEF v
  <2>1. CASE o = 64
    BY <1>4, <2>1
  <2>2. CASE o = 32
    BY <1>3, <2>2
  <2>3. CASE o = 16
    BY <1>3, <2>3
  <2>4. CASE o = 8
    BY <1>3, <2>4
  <2>5. CASE o = 4
    BY <1>3, <2>5
  <2>6. CASE o = 2
    BY <1>3, <2>6
  <2>7. CASE o = 1
    BY <1>3, <2>7
  <2> QED BY <1>2, <2>1, <2>2, <2>3, <2>4, <2>5, <2>6, <2>7
<1>6. v = u
  <2> DEFINE f(o) == IF o = 64 THEN v64 ELSE IF o = 32 THEN v32
                  ELSE IF o = 16 THEN v16 ELSE IF o = 8 THEN v8 ELSE IF o = 4 THEN v4
                  ELSE IF o = 2 THEN v2 ELSE v1
  <2>1. v = [o \in Offsets |-> f(o)]
    OBVIOUS
  <2> HIDE DEF f, v
  <2>2. \A o \in Offsets : f(o) = L(v[2 * o], o)
    BY <1>5, <2>1
  <2> QED BY <2>1, <2>2
<1>7. v = [offset \in Offsets |-> Level(inputs, w, active, v[2 * offset], offset)]
  <2> HIDE DEF v
  <2> QED BY <1>6 DEF L
<1> HIDE DEF v
<1>8. Solves(v, inputs, w, active)
  BY <1>7 DEF Solves
<1> QED BY <1>8

(* One level of the fold halves the number of registers that matter.       *)
LEMMA LevelFolds ==
  ASSUME NEW inputs, NEW w \in Nat, NEW active \in Nat, Disjoint(inputs, active), NEW before,
         NEW s \in Nat \ {0}, 2 * s <= w, FoldedTo(before, inputs, active, 2 * s)
  PROVE  FoldedTo(Level(inputs, w, active, before, s), inputs, active, s)
<1> SUFFICES ASSUME NEW lane \in 0 .. s - 1, lane < active
             PROVE  Level(inputs, w, active, before, s)[lane] = Held(inputs, active, lane, s)
  BY DEF FoldedTo
<1> DEFINE low == Held(inputs, active, lane, 2 * s)
           high == Held(inputs, active, lane + s, 2 * s)
<1>1. lane \in Nat /\ lane \in 0 .. w - 1 /\ lane \in 0 .. 2 * s - 1
      /\ lane + s \in 0 .. 2 * s - 1 /\ ~(s >= w)
  OBVIOUS
<1>2. \A i \in 0 .. active - 1 : i % s = lane <=> i % (2 * s) = lane \/ i % (2 * s) = lane + s
  <2>1. \A i \in 0 .. active - 1 : i \in Nat
    OBVIOUS
  <2> QED BY <2>1, Remainders, ZenonT(120)
<1>3. \A x : x \in Held(inputs, active, lane, s) <=> x \in low \/ x \in high
  <2> TAKE x
  <2>1. x \in Held(inputs, active, lane, s) <=>
          \E i \in 0 .. active - 1 : i % s = lane /\ x \in inputs[i]
    BY DEF Held
  <2>2. x \in low <=> \E i \in 0 .. active - 1 : i % (2 * s) = lane /\ x \in inputs[i]
    BY DEF Held
  <2>3. x \in high <=> \E i \in 0 .. active - 1 : i % (2 * s) = lane + s /\ x \in inputs[i]
    BY DEF Held
  <2> HIDE DEF low, high
  <2> QED BY <1>2, <2>1, <2>2, <2>3
<1>4. before[lane] = low
  BY <1>1 DEF FoldedTo
<1>5. CASE lane + s < active
  <2>1. before[lane + s] = high
    BY <1>1, <1>5 DEF FoldedTo
  <2>2. low \cap high = {}
    <3>1. SUFFICES ASSUME NEW x, x \in low, x \in high PROVE FALSE
      BY <3>1
    <3>2. PICK i \in 0 .. active - 1 : i % (2 * s) = lane /\ x \in inputs[i]
      BY <3>1 DEF Held
    <3>3. PICK j \in 0 .. active - 1 : j % (2 * s) = lane + s /\ x \in inputs[j]
      BY <3>1 DEF Held
    <3>4. i = j
      BY <3>2, <3>3 DEF Disjoint
    <3>5. lane # lane + s
      BY <1>1
    <3> QED BY <3>2, <3>3, <3>4, <3>5
  <2>3. Level(inputs, w, active, before, s)[lane] = Combine(before[lane], before[lane + s])
    BY <1>1, <1>5 DEF Level
  <2> HIDE DEF low, high
  <2>4. low \cup high = Held(inputs, active, lane, s)
    BY <1>3
  <2> QED BY <1>4, <2>1, <2>2, <2>3, <2>4 DEF Combine
<1>6. CASE ~(lane + s < active)
  <2>1. high = {}
    <3>1. ASSUME NEW i \in 0 .. active - 1 PROVE i % (2 * s) # lane + s
      <4>1. i \in Nat /\ 2 * s \in Nat \ {0}
        OBVIOUS
      <4> DEFINE q == i \div (2 * s)
                 r == i % (2 * s)
      <4>2. q \in Nat /\ r \in 0 .. 2 * s - 1 /\ i = (2 * s) * q + r /\ (2 * s) * q \in Nat
        <5> DEFINE d == 2 * s
        <5>1. i \in Nat /\ d \in Nat \ {0}
          BY <4>1
        <5> HIDE DEF d
        <5>2. i \div d \in Nat /\ i % d \in 0 .. d - 1 /\ i = d * (i \div d) + (i % d)
          BY <5>1, Division
        <5>3. d * (i \div d) \in Nat
          BY <5>1, <5>2
        <5> QED BY <5>2, <5>3 DEF d
      <4> HIDE DEF q, r
      <4>3. r <= i
        BY <4>1, <4>2
      <4>4. r # lane + s
        BY <1>1, <1>6, <4>2, <4>3
      <4> QED BY <4>4 DEF r
    <3> QED BY <3>1 DEF Held
  <2>2. Level(inputs, w, active, before, s)[lane] = before[lane]
    BY <1>1, <1>6 DEF Level
  <2> HIDE DEF low, high
  <2> QED BY <1>3, <1>4, <2>1, <2>2
<1> QED BY <1>5, <1>6

(* Before the first level the registers hold the inputs.                   *)
LEMMA LevelStarts ==
  ASSUME NEW inputs, NEW w \in Nat \ {0}, NEW active \in Nat, active <= w, NEW before
  PROVE  FoldedTo(Level(inputs, w, active, before, w), inputs, active, w)
<1> SUFFICES ASSUME NEW lane \in 0 .. w - 1, lane < active
             PROVE  Level(inputs, w, active, before, w)[lane] = Held(inputs, active, lane, w)
  BY DEF FoldedTo
<1>1. Level(inputs, w, active, before, w)[lane] = inputs[lane]
  BY DEF Level
<1>2. \A i \in 0 .. active - 1 : i % w = i
  OBVIOUS
<1>3. {i \in 0 .. active - 1 : i % w = lane} = {lane}
  BY <1>2
<1>4. Held(inputs, active, lane, w) = UNION {inputs[i] : i \in {lane}}
  BY <1>3 DEF Held
<1> QED BY <1>1, <1>4

(* After the last level lane 0 holds all inputs of the group.              *)
LEMMA RegistersFold ==
  ASSUME NEW inputs, NEW w \in Widths, NEW active \in Nat \ {0}, active <= w,
         Disjoint(inputs, active), NEW v, Levels(v, inputs, w, active)
  PROVE  v[1][0] = UNION {inputs[i] : i \in 0 .. active - 1}
<1> DEFINE F(s) == FoldedTo(v[s], inputs, active, s)
<1>0. w \in Nat \ {0}
  BY DEF Widths
<1>1. w \in Offsets /\ Offsets = {1, 2, 4, 8, 16, 32, 64} /\ w \in {2, 4, 8, 16, 32, 64}
  BY DEF Offsets, Widths
<1>2. F(w)
  BY <1>0, <1>1, LevelStarts DEF Levels
<1>3. ASSUME NEW s \in Offsets, 2 * s <= w, F(2 * s) PROVE F(s)
  <2>1. s \in Nat \ {0}
    BY <1>1
  <2>2. FoldedTo(Level(inputs, w, active, v[2 * s], s), inputs, active, s)
    BY <1>0, <1>3, <2>1, LevelFolds
  <2> QED BY <2>2 DEF Levels
<1> HIDE DEF F
<1>4. 32 < w => F(32)
  <2>1. 32 < w => w = 64 /\ 2 * 32 = 64 /\ 2 * 32 <= w
    BY <1>1
  <2> QED BY <1>1, <1>2, <1>3, <2>1
<1>5. 16 < w => F(16)
  <2>1. 16 < w => (w = 32 \/ 32 < w) /\ 2 * 16 = 32 /\ 2 * 16 <= w
    BY <1>1
  <2> QED BY <1>1, <1>2, <1>3, <1>4, <2>1
<1>6. 8 < w => F(8)
  <2>1. 8 < w => (w = 16 \/ 16 < w) /\ 2 * 8 = 16 /\ 2 * 8 <= w
    BY <1>1
  <2> QED BY <1>1, <1>2, <1>3, <1>5, <2>1
<1>7. 4 < w => F(4)
  <2>1. 4 < w => (w = 8 \/ 8 < w) /\ 2 * 4 = 8 /\ 2 * 4 <= w
    BY <1>1
  <2> QED BY <1>1, <1>2, <1>3, <1>6, <2>1
<1>8. 2 < w => F(2)
  <2>1. 2 < w => (w = 4 \/ 4 < w) /\ 2 * 2 = 4 /\ 2 * 2 <= w
    BY <1>1
  <2> QED BY <1>1, <1>2, <1>3, <1>7, <2>1
<1>9. F(1)
  <2>1. (w = 2 \/ 2 < w) /\ 2 * 1 = 2 /\ 2 * 1 <= w
    BY <1>1
  <2> QED BY <1>1, <1>2, <1>3, <1>8, <2>1
<1>10. v[1][0] = Held(inputs, active, 0, 1)
  BY <1>9 DEF F, FoldedTo
<1>11. \A i \in 0 .. active - 1 : i % 1 = 0
  OBVIOUS
<1>12. {i \in 0 .. active - 1 : i % 1 = 0} = 0 .. active - 1
  BY <1>11
<1> QED BY <1>10, <1>12 DEF Held

\* A Metal reduction with its own kernel, whose groups of m inputs these are.
Extended == call.device = "metal" /\ call.extended
Active(g) == IF n - g * call.width < call.width THEN n - g * call.width ELSE call.width
GroupInputs(g) == [lane \in 0 .. call.width - 1 |-> MetalInput(g * call.width + lane)]

LEMMA SimdFoldIs ==
  ASSUME call \in Calls, Extended, NEW g
  PROVE  \E v : Levels(v, GroupInputs(g), call.width, Active(g)) /\ SimdFold(g) = v[1][0]
<1>1. call.width \in Widths
  BY CallsAssumption DEF Extended
<1> DEFINE w == call.width
           B(f) == [offset \in Offsets |-> Level(GroupInputs(g), w, Active(g), f[2 * offset], offset)]
           v == CHOOSE f : f = B(f)
<1>2. \E f : f = B(f)
  <2>1. \E f : Solves(f, GroupInputs(g), w, Active(g))
    BY <1>1, RegistersExist
  <2> QED BY <2>1 DEF Solves
<1>3. v = B(v)
  <2> HIDE DEF B
  <2> QED BY <1>2
<1>4. Levels(v, GroupInputs(g), w, Active(g))
  <2> HIDE DEF v
  <2> QED BY <1>3 DEF Levels
<1>5. SimdFold(g) = v[1][0]
  BY ZenonT(120) DEF SimdFold, Level, Active, GroupInputs, Offsets
<1> HIDE DEF v
<1> QED BY <1>4, <1>5

\* What the next dispatch reads holds every element once.
MetalReading == Whole([i \in 0 .. n - 1 |-> MetalInput(i)], n)

\* Where the dispatches have come; the call's last buffer holds the result.
MInv ==
  Extended =>
    /\ DOMAIN mem = Buffers /\ \A a \in Buffers : DOMAIN mem[a] = 0 .. call.n - 1
    /\ pc = "allocate" => n \in 1 .. call.n /\ (buf # None => Whole(mem[buf], n))
    /\ pc = "returned" => host = 0 .. call.n - 1

(* Group g begins within the input, at g * width, and its lanes that have  *)
(* an input are the next ones; every input has its group.                  *)
LEMMA GroupShape ==
  ASSUME call \in Calls, Extended, n \in Nat \ {0}, NEW g \in 0 .. Groups(n) - 1
  PROVE  /\ g * call.width \in Nat /\ Active(g) \in Nat \ {0} /\ Active(g) <= call.width
         /\ \A lane \in 0 .. Active(g) - 1 :
              /\ lane \in 0 .. call.width - 1
              /\ g * call.width + lane \in 0 .. n - 1
              /\ (g * call.width + lane) \div call.width = g
         /\ \A i \in 0 .. n - 1 : i \div call.width = g =>
              i % call.width \in 0 .. Active(g) - 1 /\ i = g * call.width + (i % call.width)
<1> DEFINE w == call.width
           q == n \div w
           r == n % w
           b == g * w
<1>1. w \in Nat \ {0}
  BY CallsAssumption DEF Extended, Widths
<1>2. q \in Nat /\ r \in 0 .. w - 1 /\ n = w * q + r
  BY <1>1, Division
<1>3. g \in Nat /\ (g < q \/ (g = q /\ r # 0))
  <2>1. Groups(n) = q + (IF r # 0 THEN 1 ELSE 0)
    BY DEF Groups
  <2> HIDE DEF q, r
  <2> QED BY <1>2, <2>1
<1>4. b \in Nat /\ b < n
  <2>0. b \in Nat
    BY <1>1, <1>3
  <2>1. CASE g = q
    <3>1. b = w * q
      BY <1>1, <1>2, <2>1
    <3> HIDE DEF q, r, b, w
    <3> QED BY <1>2, <1>3, <2>0, <2>1, <3>1
  <2>2. CASE g < q
    <3>1. PICK k \in Nat : q = g + 1 + k
      <4>1. q - g - 1 \in Nat /\ q = g + 1 + (q - g - 1)
        BY <1>2, <1>3, <2>2
      <4> QED BY <4>1
    <3> HIDE DEF q, r
    <3>2. w * q = b + w + w * k /\ w * k \in Nat
      BY <1>1, <1>3, <3>1
    <3> HIDE DEF b, w
    <3> QED BY <1>1, <1>2, <2>0, <3>2
  <2> QED BY <1>3, <2>1, <2>2
<1>5. Active(g) = IF n - b < w THEN n - b ELSE w
  BY DEF Active
<1>6. Active(g) \in Nat \ {0} /\ Active(g) <= w /\ Active(g) <= n - b
  <2> HIDE DEF b, w
  <2> QED BY <1>1, <1>4, <1>5
<1>7. ASSUME NEW lane \in 0 .. Active(g) - 1
      PROVE  /\ lane \in 0 .. w - 1 /\ b + lane \in 0 .. n - 1 /\ (b + lane) \div w = g
  <2>1. lane \in 0 .. w - 1 /\ b + lane \in 0 .. n - 1
    <3> HIDE DEF b, w
    <3> QED BY <1>1, <1>4, <1>6
  <2>2. (w * g + lane) \div w = g
    <3> HIDE DEF w
    <3> QED BY <1>1, <1>3, <2>1, Unique
  <2>3. w * g = b
    BY <1>1, <1>3
  <2> QED BY <2>1, <2>2, <2>3
<1>8. ASSUME NEW i \in 0 .. n - 1, i \div w = g
      PROVE  i % w \in 0 .. Active(g) - 1 /\ i = b + (i % w)
  <2>1. i \in Nat
    OBVIOUS
  <2>2. i % w \in 0 .. w - 1 /\ i = w * g + (i % w)
    <3> HIDE DEF w
    <3> QED BY <1>1, <1>8, <2>1, Division
  <2>3. w * g = b
    BY <1>1, <1>3
  <2> DEFINE m == i % w
  <2>4. m \in 0 .. w - 1 /\ i = b + m
    BY <2>2, <2>3
  <2> HIDE DEF m, b, w
  <2>5. m \in 0 .. Active(g) - 1
    BY <1>1, <1>4, <1>5, <2>1, <2>4
  <2> QED BY <2>4, <2>5 DEF m
<1> QED BY <1>4, <1>6, <1>7, <1>8

(* A group folds the inputs of its lanes, each once.                       *)
LEMMA GroupFolds ==
  ASSUME call \in Calls, Extended, n \in Nat \ {0}, MetalReading, NEW g \in 0 .. Groups(n) - 1
  PROVE  \A x : x \in SimdFold(g) <=>
           \E i \in 0 .. n - 1 : i \div call.width = g /\ x \in MetalInput(i)
<1> DEFINE f == GroupInputs(g)
           b == g * call.width
<1>1. PICK v : Levels(v, f, call.width, Active(g)) /\ SimdFold(g) = v[1][0]
  BY SimdFoldIs
<1>2. /\ Active(g) \in Nat \ {0} /\ Active(g) <= call.width /\ call.width \in Widths
      /\ b \in Nat
  BY GroupShape, CallsAssumption DEF Extended
<1>3. \A lane \in 0 .. Active(g) - 1 :
        f[lane] = MetalInput(b + lane) /\ b + lane \in 0 .. n - 1 /\ lane \in Nat
        /\ (b + lane) \div call.width = g
  BY GroupShape DEF GroupInputs
<1>4. \A i, j \in 0 .. n - 1 : i # j => MetalInput(i) \cap MetalInput(j) = {}
  BY DEF MetalReading, Whole
<1> HIDE DEF f
<1>5. Disjoint(f, Active(g))
  <2> SUFFICES ASSUME NEW i \in 0 .. Active(g) - 1, NEW j \in 0 .. Active(g) - 1, i # j
               PROVE  f[i] \cap f[j] = {}
    BY DEF Disjoint
  <2>1. b + i # b + j
    BY <1>2, <1>3
  <2> QED BY <1>3, <1>4, <2>1
<1>6. SimdFold(g) = UNION {f[i] : i \in 0 .. Active(g) - 1}
  BY <1>1, <1>2, <1>5, RegistersFold
<1> TAKE x
<1>7. ASSUME x \in SimdFold(g)
      PROVE  \E i \in 0 .. n - 1 : i \div call.width = g /\ x \in MetalInput(i)
  <2>1. PICK lane \in 0 .. Active(g) - 1 : x \in f[lane]
    BY <1>6, <1>7
  <2> QED BY <1>3, <2>1
<1>8. ASSUME NEW i \in 0 .. n - 1, i \div call.width = g, x \in MetalInput(i)
      PROVE  x \in SimdFold(g)
  <2>1. i % call.width \in 0 .. Active(g) - 1 /\ i = b + (i % call.width)
    BY <1>8, GroupShape
  <2> QED BY <1>3, <1>6, <1>8, <2>1
<1> QED BY <1>7, <1>8

(* There is a group at least, and no more groups than inputs; every input  *)
(* is in one of them.                                                      *)
LEMMA GroupsOf ==
  ASSUME call \in Calls, Extended, n \in Nat \ {0}
  PROVE  /\ Groups(n) \in 1 .. n
         /\ \A i \in 0 .. n - 1 : i \div call.width \in 0 .. Groups(n) - 1
<1> DEFINE w == call.width
           q == n \div w
           r == n % w
<1>1. w \in Nat \ {0}
  BY CallsAssumption DEF Extended, Widths
<1>2. q \in Nat /\ r \in 0 .. w - 1 /\ n = w * q + r
  BY <1>1, Division
<1>3. Groups(n) = q + (IF r # 0 THEN 1 ELSE 0)
  BY DEF Groups
<1> DEFINE wq == w * q
<1>4. wq \in Nat /\ n = wq + r /\ wq >= q /\ (q = 0 => wq = 0)
  <2>1. PICK k \in Nat : w = k + 1
    BY <1>1
  <2>2. wq = k * q + q /\ k * q \in Nat
    BY <1>2, <2>1
  <2>3. q = 0 => wq = 0
    BY <1>1
  <2> QED BY <1>2, <2>2, <2>3
<1>5. Groups(n) \in 1 .. n
  <2> HIDE DEF wq, q, r, w
  <2> QED BY <1>1, <1>2, <1>3, <1>4
<1>6. ASSUME NEW i \in 0 .. n - 1 PROVE i \div w \in 0 .. Groups(n) - 1
  <2> DEFINE p == i \div w
             m == i % w
  <2>1. i \in Nat
    OBVIOUS
  <2>2. p \in Nat /\ m \in 0 .. w - 1 /\ i = w * p + m
    BY <1>1, <2>1, Division
  <2> HIDE DEF p, m, q, r, w
  <2>3. ~(p >= Groups(n))
    <3>1. SUFFICES ASSUME p >= Groups(n) PROVE FALSE
      OBVIOUS
    <3>2. p >= q /\ (r # 0 => p >= q + 1) /\ Groups(n) \in Nat
      BY <1>2, <1>3, <1>5, <2>2, <3>1
    <3>3. PICK k \in Nat : p = q + k /\ (r # 0 => k >= 1)
      BY <1>2, <2>2, <3>2
    <3>4. w * p = wq + w * k
      BY <1>1, <1>2, <3>3
    <3>5. w * k \in Nat /\ (k >= 1 => w * k >= w)
      <4>1. k >= 1 => \E h \in Nat : k = h + 1
        BY <3>3
      <4>2. ASSUME NEW h \in Nat, k = h + 1 PROVE w * k = w * h + w /\ w * h \in Nat
        BY <1>1, <4>2
      <4>3. w * k \in Nat
        BY <1>1, <3>3
      <4>4. k >= 1 => w * k >= w
        <5>1. SUFFICES ASSUME k >= 1 PROVE w * k >= w
          OBVIOUS
        <5>2. PICK h \in Nat : k = h + 1
          BY <4>1, <5>1
        <5>3. w * k = w * h + w /\ w * h \in Nat
          BY <4>2, <5>2
        <5> QED BY <1>1, <5>3
      <4> QED BY <4>3, <4>4
    <3> DEFINE wk == w * k
    <3>6. i = wq + wk + m /\ wk \in Nat /\ (k >= 1 => wk >= w)
      BY <1>1, <1>4, <2>2, <3>4, <3>5
    <3> HIDE DEF wq, wk
    <3> QED BY <1>1, <1>2, <1>4, <2>1, <2>2, <3>3, <3>6
  <2>4. p \in 0 .. Groups(n) - 1
    BY <1>5, <2>2, <2>3
  <2> QED BY <2>4 DEF p
<1> QED BY <1>5, <1>6

(* What one dispatch writes holds every element once.                      *)
LEMMA GroupsWhole ==
  ASSUME call \in Calls, Extended, n \in Nat \ {0}, MetalReading,
         NEW f, \A g \in 0 .. Groups(n) - 1 : f[g] = SimdFold(g)
  PROVE  Whole(f, Groups(n))
<1> DEFINE m == Groups(n)
<1>1. /\ \A i, j \in 0 .. n - 1 : i # j => MetalInput(i) \cap MetalInput(j) = {}
      /\ UNION {MetalInput(i) : i \in 0 .. n - 1} = 0 .. call.n - 1
  <2> DEFINE h == [i \in 0 .. n - 1 |-> MetalInput(i)]
  <2>1. \A i \in 0 .. n - 1 : h[i] = MetalInput(i)
    OBVIOUS
  <2>2. Whole(h, n)
    BY DEF MetalReading
  <2> HIDE DEF h
  <2>3. {h[i] : i \in 0 .. n - 1} = {MetalInput(i) : i \in 0 .. n - 1}
    BY <2>1
  <2> QED BY <2>1, <2>2, <2>3 DEF Whole
<1>2. ASSUME NEW g \in 0 .. m - 1, NEW x
      PROVE  x \in f[g] <=> \E i \in 0 .. n - 1 : i \div call.width = g /\ x \in MetalInput(i)
  BY <1>2, GroupFolds
<1>3. \A i \in 0 .. n - 1 : i \div call.width \in 0 .. m - 1
  BY GroupsOf
<1> HIDE DEF m
<1>4. ASSUME NEW g \in 0 .. m - 1, NEW h \in 0 .. m - 1, g # h PROVE f[g] \cap f[h] = {}
  <2>1. SUFFICES ASSUME NEW x, x \in f[g], x \in f[h] PROVE FALSE
    BY <2>1
  <2>2. PICK i \in 0 .. n - 1 : i \div call.width = g /\ x \in MetalInput(i)
    BY <1>2, <2>1
  <2>3. PICK j \in 0 .. n - 1 : j \div call.width = h /\ x \in MetalInput(j)
    BY <1>2, <2>1
  <2>4. i = j
    BY <1>1, <2>2, <2>3
  <2> QED BY <1>4, <2>2, <2>3, <2>4
<1>5. ASSUME NEW x PROVE x \in UNION {f[g] : g \in 0 .. m - 1} <=> x \in 0 .. call.n - 1
  <2>1. x \in 0 .. call.n - 1 <=> \E i \in 0 .. n - 1 : x \in MetalInput(i)
    BY <1>1
  <2>2. x \in UNION {f[g] : g \in 0 .. m - 1} <=> \E g \in 0 .. m - 1 : x \in f[g]
    OBVIOUS
  <2>3. (\E g \in 0 .. m - 1 : x \in f[g]) <=> \E i \in 0 .. n - 1 : x \in MetalInput(i)
    BY <1>2, <1>3
  <2> QED BY <2>1, <2>2, <2>3
<1>6. Whole(f, m)
  BY <1>4, <1>5 DEF Whole
<1> QED BY <1>6 DEF m

LEMMA InitMInv == Init => MInv
<1> SUFFICES ASSUME Init, Extended PROVE MInv
  BY DEF MInv
<1>1. call \in Calls /\ n = call.n /\ call.n \in Nat /\ buf = None /\ host = {}
      /\ pc = IF n = 0 THEN "returned" ELSE "allocate"
  BY CallsAssumption DEF Init
<1>2. mem = [a \in Buffers |-> [c \in 0 .. n - 1 |-> {Poison}]]
  BY DEF Init, Extended
<1>3. \A a \in Buffers : DOMAIN mem[a] = 0 .. call.n - 1
  BY <1>1, <1>2
<1>4. n = 0 => host = 0 .. call.n - 1
  BY <1>1
<1> QED BY <1>1, <1>2, <1>3, <1>4 DEF MInv

LEMMA PassMInv == ASSUME SInv, MInv, Extended, MetalPass PROVE MInv'
<1>0. call \in Calls /\ call' = call /\ pc = "allocate" /\ (buf = None => n = call.n)
      /\ call.n \in Nat /\ n \in 1 .. call.n
  BY CallsAssumption DEF SInv, HostInv, MInv, MetalPass, MetalThrow
<1>1. n \in Nat \ {0} /\ Groups(n) \in 1 .. n
  <2>1. n \in Nat \ {0}
    BY <1>0
  <2> QED BY <1>0, <2>1, GroupsOf
<1>2. Extended'
  BY <1>0 DEF Extended
<1>3. CASE MetalThrow
  <2>1. pc' = "thrown" /\ mem' = mem
    BY <1>3 DEF MetalThrow
  <2> QED BY <1>0, <2>1 DEF MInv
<1>4. CASE ~MetalThrow
  <2>1. PICK a \in Buffers \ owned :
          /\ mem' = [mem EXCEPT ![a] = [c \in DOMAIN mem[a] |->
                       IF c < Groups(n) THEN SimdFold(c) ELSE mem[a][c]]]
          /\ buf' = a
    BY <1>4 DEF MetalPass
  <2>2. n' = Groups(n) /\ pc' = pc
    BY <1>4 DEF MetalPass
  <2> DEFINE cells == [c \in DOMAIN mem[a] |-> IF c < Groups(n) THEN SimdFold(c) ELSE mem[a][c]]
  <2>3. DOMAIN mem = Buffers /\ \A b \in Buffers : DOMAIN mem[b] = 0 .. call.n - 1
    BY DEF MInv
  <2>4. DOMAIN cells = 0 .. call.n - 1 /\ \A c \in 0 .. Groups(n) - 1 : cells[c] = SimdFold(c)
    <3>1. \A c \in 0 .. Groups(n) - 1 : c \in 0 .. call.n - 1 /\ c < Groups(n)
      BY <1>0, <1>1
    <3> QED BY <2>3, <3>1
  <2>5. MetalReading
    <3>1. CASE buf = None
      <4>1. \A i \in 0 .. n - 1 : MetalInput(i) = {i}
        BY <1>1, <3>1 DEF MetalInput
      <4> DEFINE h == [i \in 0 .. n - 1 |-> MetalInput(i)]
      <4>2. \A i \in 0 .. n - 1 : h[i] = {i}
        BY <4>1
      <4> HIDE DEF h
      <4>3. Whole(h, n)
        <5>1. UNION {h[i] : i \in 0 .. n - 1} = 0 .. n - 1
          BY <4>2
        <5> QED BY <1>0, <3>1, <4>2, <5>1 DEF Whole
      <4> QED BY <4>3 DEF h, MetalReading
    <3>2. CASE buf # None
      <4>1. \A i \in 0 .. n - 1 : MetalInput(i) = mem[buf][i]
        BY <1>1, <3>2 DEF MetalInput
      <4>2. Whole(mem[buf], n)
        BY <1>0, <3>2 DEF MInv
      <4> DEFINE h == [i \in 0 .. n - 1 |-> MetalInput(i)]
      <4>3. \A i \in 0 .. n - 1 : h[i] = mem[buf][i]
        BY <4>1
      <4> HIDE DEF h
      <4>4. {h[i] : i \in 0 .. n - 1} = {mem[buf][i] : i \in 0 .. n - 1}
        BY <4>3
      <4>5. Whole(h, n)
        BY <4>2, <4>3, <4>4 DEF Whole
      <4> QED BY <4>5 DEF h, MetalReading
    <3> QED BY <3>1, <3>2
  <2> HIDE DEF cells
  <2>6. Whole(cells, Groups(n))
    BY <1>0, <1>1, <2>4, <2>5, GroupsWhole
  <2>7. mem' = [mem EXCEPT ![a] = cells]
    BY <2>1 DEF cells
  <2>8. DOMAIN mem' = Buffers /\ mem'[a] = cells /\ \A b \in Buffers : DOMAIN mem'[b] = 0 .. call.n - 1
    BY <2>3, <2>4, <2>7
  <2>9. Whole(mem[buf], n)'
    <3>1. mem'[buf'] = cells /\ n' = Groups(n) /\ call' = call
      BY <1>0, <2>1, <2>2, <2>8
    <3>2. Whole(mem[buf], n)' <=> Whole(cells, Groups(n))
      BY <3>1 DEF Whole
    <3> QED BY <2>6, <3>2
  <2>10. n' \in 1 .. call.n
    BY <1>0, <1>1, <2>2
  <2> QED BY <1>0, <2>2, <2>8, <2>9, <2>10 DEF MInv
<1> QED BY <1>3, <1>4

LEMMA ReturnMInv == ASSUME SInv, MInv, Extended, MetalReturn PROVE MInv'
<1>0. pc = "allocate" /\ buf # None /\ ~(n > 1) /\ call' = call /\ mem' = mem
  BY DEF MetalReturn, MetalThrow, MorePasses
<1>1. n = 1 /\ Whole(mem[buf], n)
  <2>1. call.n \in Nat /\ n \in 1 .. call.n
    BY <1>0, CallsAssumption DEF MInv, SInv, HostInv
  <2> QED BY <1>0, <2>1 DEF MInv
<1>2. mem[buf][0] = 0 .. call.n - 1
  <2>1. UNION {mem[buf][i] : i \in 0 .. 1 - 1} = mem[buf][0]
    OBVIOUS
  <2> QED BY <1>1, <2>1 DEF Whole
<1>3. pc' = "thrown" \/ (pc' = "returned" /\ host' = mem[buf][0])
  BY DEF MetalReturn, MetalThrow
<1> QED BY <1>0, <1>2, <1>3 DEF MInv

LEMMA NextMInv == SInv /\ MInv /\ [Next]_vars => MInv'
<1> SUFFICES ASSUME SInv, MInv, [Next]_vars, Extended' PROVE MInv'
  BY DEF MInv
<1>0. call' = call
  BY DEF Next, Host, Device, Over, vars, AllocatePartials, Launch, FreeConsumed, CopyToHost,
         SynchronizeAndReturn, Throw, MetalPass, MetalReturn, MetalThrow, MetalMaterialize,
         CpuReturn, StartKernel, RunCopy, FinishKernel, Barrier, Accumulate, TreeLevel,
         WritePartial, DeviceOnly
<1>1. Extended /\ ~Gpu /\ queue = <<>> /\ grid = <<>>
  BY <1>0 DEF Extended, Gpu, SInv, HostInv
<1>2. ~Device
  <2>1. DOMAIN grid = {}
    BY <1>1, NoGrid
  <2> QED BY <1>1, <2>1 DEF Device, StartKernel, RunCopy, FinishKernel, Running
<1>3. CASE MetalPass
  BY <1>1, <1>3, PassMInv
<1>4. CASE MetalReturn
  BY <1>1, <1>4, ReturnMInv
<1>5. CASE UNCHANGED vars
  <2>1. UNCHANGED <<call, pc, n, buf, mem, host>>
    BY <1>5 DEF vars
  <2> QED BY <1>1, <2>1 DEF MInv, Whole
<1>6. ~MetalMaterialize /\ ~CpuReturn
  BY <1>1 DEF Extended, MetalMaterialize, CpuReturn
<1>7. ~(AllocatePartials \/ Launch \/ FreeConsumed \/ CopyToHost \/ SynchronizeAndReturn)
  BY <1>1 DEF Gpu, SInv, HostInv, AllocatePartials, Launch, FreeConsumed, CopyToHost,
              SynchronizeAndReturn
<1> QED BY <1>2, <1>3, <1>4, <1>5, <1>6, <1>7 DEF Next, Host, Over

----------------------------------------------------------------------------
(* On the CPU, and where Metal leaves the fold to the library, the host    *)
(* computes the result in one step.                                        *)
AtOnce == call.device = "cpu" \/ (call.device = "metal" /\ ~call.extended)
OInv ==
  AtOnce =>
    /\ pc = "returned" => host = 0 .. call.n - 1
    /\ pc = "allocate" /\ call.device = "metal" =>
         DOMAIN mem = Buffers /\ \A a \in Buffers : DOMAIN mem[a] = 0 .. call.n - 1

(* Values that each hold one element hold the first m together.            *)
LEMMA CombineSingles ==
  ASSUME NEW m \in Nat, NEW g, DOMAIN g = 0 .. m - 1, \A i \in 0 .. m - 1 : g[i] = {i}
  PROVE  CombineAll(g) = 0 .. m - 1
<1>1. UNION {g[i] : i \in DOMAIN g} = 0 .. m - 1
  OBVIOUS
<1>2. ~ \E i, j \in DOMAIN g : i # j /\ g[i] \cap g[j] # {}
  OBVIOUS
<1> QED BY <1>1, <1>2 DEF CombineAll

LEMMA CpuConstants ==
  ASSUME call \in Calls, call.device = "cpu" PROVE CpuCall(call)
BY CallsAssumption DEF CpuCall

LEMMA NextOInv == SInv /\ OInv /\ [Next]_vars => OInv'
<1> SUFFICES ASSUME SInv, OInv, [Next]_vars, AtOnce'
             PROVE  /\ pc' = "returned" => host' = 0 .. call'.n - 1
                    /\ pc' = "allocate" /\ call'.device = "metal" =>
                         DOMAIN mem' = Buffers /\ \A a \in Buffers : DOMAIN mem'[a] = 0 .. call'.n - 1
  BY DEF OInv
<1>1. CASE CpuReturn
  <2>1. call \in Calls /\ call.device = "cpu" /\ n = call.n /\ call' = call
    BY <1>1 DEF SInv, HostInv, CpuReturn
  <2>2. reduce_expression(call) = 0 .. call.n - 1
    BY <2>1, CpuConstants, ReduceExpressionFoldsAll
  <2>3. reduce_strided(call) = 0 .. call.n - 1
    BY <2>1, CallsAssumption, ReduceStridedFoldsAll
  <2>4. pc' = "returned"
    BY <1>1 DEF CpuReturn
  <2> QED BY <1>1, <2>1, <2>2, <2>3, <2>4 DEF CpuReturn
<1>2. CASE MetalMaterialize
  <2>1. n = call.n /\ call' = call
    BY <1>2 DEF SInv, HostInv, MetalMaterialize
  <2>2. n \in Nat /\ buf = None /\ ~call.extended /\ call \in Calls
    BY <1>2, <2>1, CallsAssumption DEF SInv, HostInv, MetalMaterialize
  <2>3. \A i \in 0 .. n - 1 : MetalInput(i) = {i}
    BY <2>2 DEF MetalInput
  <2>4. DOMAIN mem = Buffers /\ \A a \in Buffers : DOMAIN mem[a] = 0 .. call.n - 1
    BY <1>2 DEF OInv, AtOnce, MetalMaterialize
  <2>5. pc' # "allocate"
    BY <1>2 DEF MetalMaterialize
  <2>6. CASE call.leaf /\ host' = CombineAll([i \in 0 .. n - 1 |-> MetalInput(i)])
    <3> DEFINE g == [i \in 0 .. n - 1 |-> MetalInput(i)]
    <3>1. DOMAIN g = 0 .. n - 1 /\ \A i \in 0 .. n - 1 : g[i] = {i}
      BY <2>3
    <3> HIDE DEF g
    <3>2. CombineAll(g) = 0 .. n - 1
      BY <2>2, <3>1, CombineSingles
    <3> QED BY <2>1, <2>5, <2>6, <3>2 DEF g
  <2>7. CASE \E tmp \in Buffers :
               /\ mem' = Materialized(tmp)
               /\ host' = CombineAll([i \in 0 .. n - 1 |-> mem'[tmp][i]])
    <3>1. PICK tmp \in Buffers :
               /\ mem' = Materialized(tmp)
               /\ host' = CombineAll([i \in 0 .. n - 1 |-> mem'[tmp][i]])
      BY <2>7
    <3> DEFINE g == [i \in 0 .. n - 1 |-> mem'[tmp][i]]
    <3>2. mem'[tmp] = [i \in DOMAIN mem[tmp] |-> IF i < n THEN MetalInput(i) ELSE mem[tmp][i]]
      BY <2>4, <3>1 DEF Materialized
    <3>3. \A i \in 0 .. n - 1 : mem'[tmp][i] = {i}
      BY <2>1, <2>2, <2>3, <2>4, <3>2
    <3>4. DOMAIN g = 0 .. n - 1 /\ \A i \in 0 .. n - 1 : g[i] = {i}
      BY <3>3
    <3> HIDE DEF g
    <3>5. CombineAll(g) = 0 .. n - 1
      BY <2>2, <3>4, CombineSingles
    <3> QED BY <2>1, <2>5, <3>1, <3>5 DEF g
  <2>8. CASE pc' = "thrown"
    BY <2>8
  <2> QED BY <1>2, <2>6, <2>7, <2>8 DEF MetalMaterialize
<1>3. CASE MetalPass \/ MetalReturn
  BY <1>3 DEF MetalPass, MetalReturn, MetalThrow, AtOnce
<1>4. CASE AllocatePartials \/ Launch \/ FreeConsumed \/ CopyToHost \/ SynchronizeAndReturn
  <2>1. Gpu /\ call' = call
    BY <1>4 DEF SInv, HostInv, Gpu, AllocatePartials, Launch, FreeConsumed, CopyToHost,
                SynchronizeAndReturn, Throw
  <2> QED BY <2>1 DEF AtOnce, Gpu
<1>5. CASE Device
  <2>1. call' = call
    BY <1>5 DEF Device, StartKernel, RunCopy, FinishKernel, Barrier, Accumulate, TreeLevel,
                WritePartial, DeviceOnly
  <2>2. queue # <<>> \/ grid # <<>>
    <3>1. grid = <<>> => DOMAIN grid = {}
      BY NoGrid
    <3> QED BY <1>5, <3>1 DEF Device, StartKernel, RunCopy, FinishKernel, Running
  <2>3. Gpu
    BY <2>2 DEF SInv, HostInv
  <2> QED BY <2>1, <2>3 DEF AtOnce, Gpu
<1>6. CASE UNCHANGED vars
  BY <1>6 DEF OInv, AtOnce, vars
<1> QED BY <1>1, <1>2, <1>3, <1>4, <1>5, <1>6 DEF Next, Host, Over

(* A reduction that returns has folded every element of the expression     *)
(* exactly once: on a GPU for every size, power-of-two block, cap and      *)
(* number of passes, whatever the order in which host, stream and threads  *)
(* take their steps and whichever freed buffer the allocator hands out     *)
(* again; on Metal for every size and SIMD width, through every dispatch;  *)
(* on the CPU for every register, accumulators and batch.                  *)
THEOREM ReductionOnce == Spec => []ReducesOnce
<1>1. ASSUME SInv, DInv, OInv, MInv PROVE ReducesOnce
  <2>1. call.device \in {"gpu", "metal", "cpu"}
    BY <1>1, CallsAssumption DEF SInv, HostInv
  <2> QED BY <1>1, <2>1 DEF ReducesOnce, OInv, AtOnce, MInv, Extended, DInv, DataOK, HostData, Gpu
<1>2. Spec => []SInv
  BY SpecSInv
<1>3. Spec => []DInv
  BY SpecDInv
<1>4. Init => OInv
  BY DEF Init, OInv
<1>5. SInv /\ OInv /\ [Next]_vars => OInv'
  BY NextOInv
<1>6. Init => MInv
  BY InitMInv
<1>7. SInv /\ MInv /\ [Next]_vars => MInv'
  BY NextMInv
<1> QED BY <1>1, <1>2, <1>3, <1>4, <1>5, <1>6, <1>7, PTL DEF Spec

(* The counts of a float lane stay below what a float has exactly.         *)
THEOREM ReductionCounts == Spec => []CountsExact
<1>1. ASSUME SInv PROVE CountsExact
  <2> SUFFICES ASSUME call.device = "cpu", call.count,
                      NEW begin \in Batches(call), NEW k \in 0 .. call.packet - 1,
                      NEW lane \in 0 .. call.length - 1
               PROVE  Cardinality(Lane(call, begin, k, lane)) <= call.exact
    BY DEF CountsExact
  <2>1. call \in Calls /\ CpuCall(call)
    BY <1>1, CpuConstants DEF SInv, HostInv
  <2>2. call.batch \in Nat /\ call.exact \in Nat /\ call.batch <= call.exact
    BY <2>1, CallsAssumption DEF CpuCall
  <2>3. Cardinality(Lane(call, begin, k, lane)) \in Nat
        /\ Cardinality(Lane(call, begin, k, lane)) <= call.batch
    BY <2>1, LaneSize
  <2> QED BY <2>2, <2>3
<1> QED BY <1>1, SpecSInv, PTL
=============================================================================
