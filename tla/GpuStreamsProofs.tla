--------------------------- MODULE GpuStreamsProofs ---------------------------
(***************************************************************************)
(* Proofs about GpuStreams, for any blocks, streams, bounds and any number *)
(* of pending operations: where every created stream synchronises with the *)
(* default one, no block is recycled under a pending use that was recorded,*)
(* and a call that waits on the default stream joins every writer.         *)
(***************************************************************************)
EXTENDS GpuStreams, TLAPS, FiniteSetTheorems

Ops == [stream : Selections, reads : SUBSET Blocks, writes : SUBSET Blocks,
        holds : SUBSET Blocks, past : SUBSET Blocks, loose : SUBSET Blocks]
Books == [Blocks -> [free : BOOLEAN, stream : Selections \cup {None}, recorded : SUBSET Selections]]

\* Why the use of b by the k-th pending operation cannot be overtaken: it runs
\* on the stream of b's pool, or the default one; or, in the life of b that it
\* belongs to, its stream is recorded, the host waits for it, or, once b is
\* freed, an event follows it there.
Covered(q, books, w, k, b) ==
  \/ q[k].stream \in {books[b].stream, Null}
  \/ b \notin q[k].past /\ ~books[b].free /\ q[k].stream \in books[b].recorded \cup {w}
  \/ b \notin q[k].past /\ books[b].free
     /\ \E m \in DOMAIN q : m > k /\ b \in q[m].holds /\ q[m].stream = q[k].stream

Safe(q, books, w) ==
  /\ q \in Seq(Ops) /\ books \in Books
  /\ \A b \in Blocks : IsFiniteSet(books[b].recorded) /\ (~books[b].free => books[b].stream \in Selections)
  /\ \A k \in DOMAIN q :
       /\ q[k].past \subseteq Uses(q[k])
       /\ \A b \in q[k].holds : books[b].free
       /\ \A b \in Uses(q[k]) :
            /\ books[b].stream \in Selections
            /\ b \notin q[k].loose => Covered(q, books, w, k, b)

Owned == tensors \in [Blocks -> Nat] /\ \A b \in Blocks : tensors[b] > 0 => ~block[b].free
Waiting ==
  /\ waiting \in [stream : Selections \cup {None}, reads : SUBSET Blocks]
  /\ waiting.stream = None => waiting = Idle
SafeInv == Safe(queue, block, waiting.stream) /\ Owned /\ Waiting

\* While the host waits for the default stream, that is where the last
\* operation is pending, if any is.
JoinInv == waiting.stream = Null => queue = <<>> \/ queue[Len(queue)].stream = Null
----------------------------------------------------------------------------
(* The allocator's books. *)
LEMMA Recording ==
  ASSUME NEW bk \in Books, NEW B, NEW s \in Selections, NEW r, r = record_stream(bk, B, s)
  PROVE  /\ r \in Books
         /\ \A b \in Blocks :
              /\ r[b].free = bk[b].free /\ r[b].stream = bk[b].stream
              /\ bk[b].recorded \subseteq r[b].recorded
              /\ r[b].recorded \in {bk[b].recorded, bk[b].recorded \cup {s}}
              /\ b \in B => s \in r[b].recorded \cup {r[b].stream}
<1>1. ASSUME NEW b \in Blocks
      PROVE  r[b] = IF b \in B /\ bk[b].stream # s
                    THEN [free |-> bk[b].free, stream |-> bk[b].stream, recorded |-> bk[b].recorded \cup {s}]
                    ELSE bk[b]
  <2>1. bk[b] \in [free : BOOLEAN, stream : Selections \cup {None}, recorded : SUBSET Selections]
    BY DEF Books
  <2>2. [bk[b] EXCEPT !.recorded = @ \cup {s}]
          = [free |-> bk[b].free, stream |-> bk[b].stream, recorded |-> bk[b].recorded \cup {s}]
    BY <2>1
  <2> QED BY <2>2 DEF record_stream
<1>2. DOMAIN r = Blocks /\ r = [b \in Blocks |-> r[b]]
  BY DEF record_stream
<1>3. ASSUME NEW b \in Blocks
      PROVE  r[b] \in [free : BOOLEAN, stream : Selections \cup {None}, recorded : SUBSET Selections]
  <2>1. bk[b] \in [free : BOOLEAN, stream : Selections \cup {None}, recorded : SUBSET Selections]
    BY DEF Books
  <2>2. bk[b].recorded \cup {s} \subseteq Selections
    BY <2>1
  <2>3. CASE b \in B /\ bk[b].stream # s
    <3>1. r[b] = [free |-> bk[b].free, stream |-> bk[b].stream, recorded |-> bk[b].recorded \cup {s}]
      BY <1>1, <2>3
    <3> QED BY <2>1, <2>2, <3>1
  <2>4. CASE ~(b \in B /\ bk[b].stream # s)
    BY <1>1, <2>1, <2>4
  <2> QED BY <2>3, <2>4
<1>4. r \in Books
  BY <1>2, <1>3 DEF Books
<1>5. ASSUME NEW b \in Blocks
      PROVE  /\ r[b].free = bk[b].free /\ r[b].stream = bk[b].stream
             /\ bk[b].recorded \subseteq r[b].recorded
             /\ r[b].recorded \in {bk[b].recorded, bk[b].recorded \cup {s}}
             /\ b \in B => s \in r[b].recorded \cup {r[b].stream}
  <2>1. CASE b \in B /\ bk[b].stream # s
    <3>1. r[b] = [free |-> bk[b].free, stream |-> bk[b].stream, recorded |-> bk[b].recorded \cup {s}]
      BY <1>1, <2>1
    <3> QED BY <3>1
  <2>2. CASE ~(b \in B /\ bk[b].stream # s)
    <3>1. r[b] = bk[b]
      BY <1>1, <2>2
    <3> QED BY <2>2, <3>1
  <2> QED BY <2>1, <2>2
<1> QED BY <1>4, <1>5

LEMMA RecordSafe ==
  ASSUME NEW q, NEW bk, NEW w, Safe(q, bk, w), NEW B, NEW s \in Selections
  PROVE  Safe(q, record_stream(bk, B, s), w)
<1> DEFINE r == record_stream(bk, B, s)
<1>0. bk \in Books /\ q \in Seq(Ops)
  BY DEF Safe
<1>1. /\ r \in Books
      /\ \A b \in Blocks :
           /\ r[b].free = bk[b].free /\ r[b].stream = bk[b].stream
           /\ bk[b].recorded \subseteq r[b].recorded
           /\ r[b].recorded \in {bk[b].recorded, bk[b].recorded \cup {s}}
  BY <1>0, Recording
<1> HIDE DEF r
<1>2. ASSUME NEW b \in Blocks PROVE IsFiniteSet(r[b].recorded)
  <2>1. IsFiniteSet(bk[b].recorded)
    BY DEF Safe
  <2>2. IsFiniteSet(bk[b].recorded \cup {s})
    BY <2>1, FS_AddElement
  <2> QED BY <1>1, <2>1, <2>2
<1>3. \A k \in DOMAIN q : q[k] \in Ops
  BY <1>0
<1>4. \A k \in DOMAIN q : Uses(q[k]) \subseteq Blocks /\ q[k].holds \subseteq Blocks
  BY <1>3 DEF Ops, Uses
<1>5. \A k \in DOMAIN q, b \in Blocks : Covered(q, bk, w, k, b) => Covered(q, r, w, k, b)
  BY <1>1 DEF Covered
<1>6. Safe(q, r, w)
  BY <1>0, <1>1, <1>2, <1>4, <1>5 DEF Safe
<1> QED BY <1>6 DEF r

LEMMA ResolvedSafe ==
  ASSUME NEW w, Safe(queue, block, w), NEW X, NEW s \in Selections
  PROVE  /\ Safe(queue, Resolved(X, s), w)
         /\ \A b \in Blocks : /\ Resolved(X, s)[b].free = block[b].free
                              /\ Resolved(X, s)[b].stream = block[b].stream
                              /\ b \in X => s \in Resolved(X, s)[b].recorded \cup {block[b].stream, Null}
<1>1. block \in Books
  BY DEF Safe
<1> QED BY <1>1, Recording, RecordSafe DEF Resolved

(* A new operation: every block that it uses is on the stream of its pool, *)
(* or records the operation's, or the host waits for it.                   *)
Fits(e, books, w) ==
  /\ e \in Ops /\ e.holds = {} /\ e.past = {}
  /\ \A b \in Uses(e) :
       /\ ~books[b].free
       /\ b \notin e.loose => e.stream \in {books[b].stream, Null, w} \cup books[b].recorded

LEMMA AppendSafe ==
  ASSUME NEW q, NEW bk, Safe(q, bk, None), NEW w, NEW e, Fits(e, bk, w)
  PROVE  Safe(Append(q, e), bk, w)
<1> DEFINE p == Append(q, e)
<1>0. bk \in Books /\ q \in Seq(Ops) /\ e \in Ops
  BY DEF Safe, Fits
<1>1. p \in Seq(Ops) /\ DOMAIN p = DOMAIN q \cup {Len(q) + 1} /\ p[Len(q) + 1] = e
      /\ (\A k \in DOMAIN q : p[k] = q[k] /\ k \in Nat) /\ Len(q) \in Nat
  BY <1>0
<1> HIDE DEF p
<1>2. \A k \in DOMAIN q : q[k].stream # None
  <2>1. \A k \in DOMAIN q : q[k] \in Ops
    BY <1>0
  <2> QED BY <2>1, NoneAssumption DEF Ops
<1>3. ASSUME NEW k \in DOMAIN q, NEW b, Covered(q, bk, None, k, b) PROVE Covered(p, bk, w, k, b)
  BY <1>1, <1>2, <1>3 DEF Covered
<1>4. ASSUME NEW k \in DOMAIN p
      PROVE  /\ p[k].past \subseteq Uses(p[k])
             /\ \A b \in p[k].holds : bk[b].free
             /\ \A b \in Uses(p[k]) : /\ bk[b].stream \in Selections
                                      /\ b \notin p[k].loose => Covered(p, bk, w, k, b)
  <2>1. CASE k \in DOMAIN q
    BY <1>1, <1>3, <2>1 DEF Safe
  <2>2. CASE k = Len(q) + 1
    <3>1. p[k] = e
      BY <1>1, <2>2
    <3>2. Uses(e) \subseteq Blocks
      BY <1>0 DEF Uses, Ops
    <3>3. \A b \in Uses(e) : bk[b].stream \in Selections
      BY <3>2 DEF Safe, Fits
    <3>4. \A b \in Uses(e) : b \notin e.loose => Covered(p, bk, w, k, b)
      BY <3>1 DEF Fits, Covered
    <3> QED BY <3>1, <3>3, <3>4 DEF Fits
  <2> QED BY <1>1, <2>1, <2>2
<1>5. Safe(p, bk, w)
  BY <1>0, <1>1, <1>4 DEF Safe
<1> QED BY <1>5 DEF p

(* A block may be handed out: nothing holds it, and it is of the stream's  *)
(* pool or new.                                                            *)
Free(q, books, b, s) ==
  /\ b \in Blocks /\ books[b].free /\ books[b].stream \in {s, None}
  /\ \A k \in DOMAIN q : b \notin q[k].holds
Aged(q, b) ==
  [k \in DOMAIN q |-> IF b \in Uses(q[k]) THEN [q[k] EXCEPT !.past = @ \cup {b}] ELSE q[k]]

LEMMA AgedOne ==
  ASSUME NEW e \in Ops, NEW b
  PROVE  [e EXCEPT !.past = @ \cup {b}]
           = [stream |-> e.stream, reads |-> e.reads, writes |-> e.writes,
              holds |-> e.holds, past |-> e.past \cup {b}, loose |-> e.loose]
BY DEF Ops

LEMMA Aging ==
  ASSUME NEW q \in Seq(Ops), NEW b \in Blocks
  PROVE  /\ Aged(q, b) \in Seq(Ops) /\ DOMAIN Aged(q, b) = DOMAIN q
         /\ \A k \in DOMAIN q :
              /\ Aged(q, b)[k].stream = q[k].stream /\ Uses(Aged(q, b)[k]) = Uses(q[k])
              /\ Aged(q, b)[k].holds = q[k].holds /\ Aged(q, b)[k].loose = q[k].loose
              /\ Aged(q, b)[k].past = IF b \in Uses(q[k]) THEN q[k].past \cup {b} ELSE q[k].past
<1> DEFINE p == Aged(q, b)
<1>1. \A k \in DOMAIN q : q[k] \in Ops
  OBVIOUS
<1> DEFINE aged(e) == [stream |-> e.stream, reads |-> e.reads, writes |-> e.writes,
                       holds |-> e.holds, past |-> e.past \cup {b}, loose |-> e.loose]
<1>2. ASSUME NEW k \in DOMAIN q
      PROVE  p[k] = IF b \in Uses(q[k]) THEN aged(q[k]) ELSE q[k]
  <2>1. q[k] \in Ops
    BY <1>1
  <2>2. p[k] = IF b \in Uses(q[k]) THEN [q[k] EXCEPT !.past = @ \cup {b}] ELSE q[k]
    BY DEF Aged
  <2> QED BY <2>1, <2>2, AgedOne
<1>3. ASSUME NEW k \in DOMAIN q
      PROVE  /\ p[k] \in Ops
             /\ p[k].stream = q[k].stream /\ p[k].reads = q[k].reads /\ p[k].writes = q[k].writes
             /\ p[k].holds = q[k].holds /\ p[k].loose = q[k].loose
             /\ p[k].past = IF b \in Uses(q[k]) THEN q[k].past \cup {b} ELSE q[k].past
  <2>1. q[k] \in Ops
    BY <1>1
  <2>2. CASE b \in Uses(q[k])
    <3>1. p[k] = aged(q[k])
      BY <1>2, <2>2
    <3>2. q[k].past \cup {b} \subseteq Blocks
      BY <2>1 DEF Ops
    <3> QED BY <2>1, <2>2, <3>1, <3>2 DEF Ops
  <2>3. CASE b \notin Uses(q[k])
    <3>1. p[k] = q[k]
      BY <1>2, <2>3
    <3> QED BY <2>1, <2>3, <3>1
  <2> QED BY <2>2, <2>3
<1>4. DOMAIN p = DOMAIN q /\ p = [k \in DOMAIN q |-> p[k]]
  BY DEF Aged
<1> HIDE DEF p
<1>5. p \in Seq(Ops)
  <2>1. DOMAIN q = 1 .. Len(q) /\ Len(q) \in Nat
    OBVIOUS
  <2>2. p \in [1 .. Len(q) -> Ops]
    BY <1>3, <1>4, <2>1
  <2> QED BY <2>1, <2>2
<1> QED BY <1>3, <1>4, <1>5 DEF p, Uses

LEMMA TakenBooks ==
  ASSUME NEW bk \in Books, NEW b \in Blocks, NEW s \in Selections
  PROVE  /\ Taken(bk, b, s) \in Books
         /\ ~Taken(bk, b, s)[b].free /\ Taken(bk, b, s)[b].stream = s
         /\ Taken(bk, b, s)[b].recorded = {}
         /\ \A c \in Blocks : c # b => Taken(bk, b, s)[c] = bk[c]
<1>1. Taken(bk, b, s) = [bk EXCEPT ![b] = [free |-> FALSE, stream |-> s, recorded |-> {}]]
  BY DEF Taken
<1> QED BY <1>1 DEF Books

LEMMA TakeSafe ==
  ASSUME NEW q, NEW bk, Safe(q, bk, None), NEW s \in Selections, NEW b, Free(q, bk, b, s)
  PROVE  Safe(Aged(q, b), Taken(bk, b, s), None)
<1> DEFINE p == Aged(q, b)
           t == Taken(bk, b, s)
<1>0. bk \in Books /\ q \in Seq(Ops) /\ b \in Blocks
  BY DEF Safe, Free
<1>2. t \in Books /\ ~t[b].free /\ t[b].stream = s /\ t[b].recorded = {}
      /\ \A c \in Blocks : c # b => t[c] = bk[c]
  BY <1>0, TakenBooks
<1>3. /\ p \in Seq(Ops) /\ DOMAIN p = DOMAIN q
      /\ \A k \in DOMAIN q :
           /\ p[k].stream = q[k].stream /\ Uses(p[k]) = Uses(q[k])
           /\ p[k].holds = q[k].holds /\ p[k].loose = q[k].loose
           /\ p[k].past = IF b \in Uses(q[k]) THEN q[k].past \cup {b} ELSE q[k].past
  BY <1>0, Aging
<1> HIDE DEF p, t
<1>4. \A k \in DOMAIN q : q[k] \in Ops
  BY <1>0
<1>5. \A k \in DOMAIN q : Uses(q[k]) \subseteq Blocks /\ q[k].holds \subseteq Blocks
                          /\ q[k].stream \in Selections
  BY <1>4 DEF Ops, Uses
<1>6. \A c \in Blocks : IsFiniteSet(t[c].recorded) /\ (~t[c].free => t[c].stream \in Selections)
  BY <1>2, FS_EmptySet DEF Safe
<1>7. ASSUME NEW k \in DOMAIN q, NEW c \in Uses(q[k])
      PROVE  /\ t[c].stream \in Selections
             /\ c \notin q[k].loose => Covered(p, t, None, k, c)
  <2>1. bk[c].stream \in Selections /\ (c \notin q[k].loose => Covered(q, bk, None, k, c))
    BY DEF Safe
  <2>2. CASE c # b
    <3>1. t[c] = bk[c] /\ p[k].past \ {b} = q[k].past \ {b}
      BY <1>2, <1>3, <1>5, <2>2
    <3>2. Covered(q, bk, None, k, c) => Covered(p, t, None, k, c)
      BY <1>3, <1>5, <2>2, <3>1 DEF Covered
    <3> QED BY <2>1, <3>1, <3>2
  <2>3. CASE c = b
    <3>1. bk[b].stream = s /\ t[b].stream = s
      BY <1>2, <2>1, <2>3, NoneAssumption DEF Free
    <3>2. c \notin q[k].loose => q[k].stream \in {s, Null}
      BY <2>1, <2>3, <3>1 DEF Free, Covered
    <3> QED BY <1>3, <2>3, <3>1, <3>2 DEF Covered
  <2> QED BY <2>2, <2>3
<1>8. \A k \in DOMAIN q : p[k].past \subseteq Uses(p[k]) /\ \A c \in p[k].holds : t[c].free
  <2> TAKE k \in DOMAIN q
  <2>1. q[k].past \subseteq Uses(q[k]) /\ (\A c \in q[k].holds : bk[c].free) /\ b \notin q[k].holds
    BY DEF Safe, Free
  <2> QED BY <1>2, <1>3, <1>5, <2>1
<1>9. Safe(p, t, None)
  BY <1>2, <1>3, <1>6, <1>7, <1>8 DEF Safe
<1> QED BY <1>9 DEF p, t
----------------------------------------------------------------------------
(* The events of a freed block follow the uses that were recorded. *)
LEMMA Concat ==
  ASSUME NEW S, NEW q \in Seq(S), NEW ev \in Seq(S)
  PROVE  /\ q \o ev \in Seq(S) /\ Len(q) \in Nat
         /\ \A k \in DOMAIN q : k \in DOMAIN (q \o ev) /\ (q \o ev)[k] = q[k] /\ k \in 1 .. Len(q)
         /\ \A j \in DOMAIN ev : /\ j \in Nat \ {0} /\ Len(q) + j \in DOMAIN (q \o ev)
                                 /\ (q \o ev)[Len(q) + j] = ev[j]
         /\ \A k \in DOMAIN (q \o ev) : k \in DOMAIN q \/ \E j \in DOMAIN ev : k = Len(q) + j
<1>1. /\ DOMAIN q = 1 .. Len(q) /\ Len(q) \in Nat /\ DOMAIN ev = 1 .. Len(ev) /\ Len(ev) \in Nat
      /\ DOMAIN (q \o ev) = 1 .. Len(q) + Len(ev) /\ q \o ev \in Seq(S)
  OBVIOUS
<1>2. \A k \in 1 .. Len(q) : (q \o ev)[k] = q[k]
  BY <1>1
<1>3. \A j \in 1 .. Len(ev) : (q \o ev)[Len(q) + j] = ev[j]
  BY <1>1
<1>4. ASSUME NEW k \in 1 .. Len(q) + Len(ev)
      PROVE  k \in 1 .. Len(q) \/ \E j \in 1 .. Len(ev) : k = Len(q) + j
  <2>1. CASE k <= Len(q)
    BY <1>1, <2>1
  <2>2. CASE k > Len(q)
    <3>1. k - Len(q) \in 1 .. Len(ev) /\ k = Len(q) + (k - Len(q))
      BY <1>1, <2>2
    <3> QED BY <3>1
  <2> QED BY <1>1, <2>1, <2>2
<1>5. \A j \in 1 .. Len(ev) : j \in Nat \ {0} /\ Len(q) + j \in 1 .. Len(q) + Len(ev)
  BY <1>1
<1>6. \A k \in 1 .. Len(q) : k \in 1 .. Len(q) + Len(ev)
  BY <1>1
<1> QED BY <1>1, <1>2, <1>3, <1>4, <1>5, <1>6

LEMMA SetToSeqCovers ==
  ASSUME NEW S, IsFiniteSet(S)
  PROVE  SetToSeq(S) \in Seq(S) /\ \A x \in S : \E j \in DOMAIN SetToSeq(S) : SetToSeq(S)[j] = x
<1> DEFINE n == Cardinality(S)
           f == SetToSeq(S)
<1>1. n \in Nat /\ ExistsBijection(1 .. n, S)
  BY FS_CardinalityType
<1>2. PICK g \in Bijection(1 .. n, S) : TRUE
  BY <1>1 DEF ExistsBijection
<1>3. g \in [1 .. n -> S] /\ IsInjective(g)
  BY <1>2 DEF Bijection, Injection
<1>4. f \in [1 .. n -> S] /\ IsInjective(f)
  BY <1>3 DEF SetToSeq
<1> HIDE DEF f
<1>5. f \in Injection(1 .. n, S)
  BY <1>4 DEF Injection
<1>6. IsFiniteSet(1 .. n) /\ Cardinality(1 .. n) = n
  <2>1. 0 \in Int /\ n \in Int /\ 1 \in Int
    BY <1>1
  <2>2. Cardinality(1 .. n) = IF 1 > n THEN 0 ELSE n - 1 + 1
    BY <2>1, FS_Interval
  <2> QED BY <1>1, <2>1, <2>2, FS_Interval
<1>7. f \in Surjection(1 .. n, S)
  BY <1>5, <1>6, FS_Injection
<1>8. \A x \in S : \E j \in 1 .. n : f[j] = x
  BY <1>7 DEF Surjection
<1>9. DOMAIN f = 1 .. n /\ f \in Seq(S)
  BY <1>1, <1>4
<1>10. f \in Seq(S) /\ \A x \in S : \E j \in DOMAIN f : f[j] = x
  BY <1>8, <1>9
<1> QED BY <1>10 DEF f

Follow(ev, books, b) ==
  /\ ev \in Seq(Ops)
  /\ \A j \in DOMAIN ev : ev[j].holds = {b} /\ Uses(ev[j]) = {} /\ ev[j].past = {}
  /\ \A s \in books[b].recorded : \E j \in DOMAIN ev : ev[j].stream = s

LEMMA EventOf ==
  ASSUME NEW s \in Selections, NEW b \in Blocks
  PROVE  /\ Event(s, b) \in Ops /\ Event(s, b).stream = s /\ Event(s, b).holds = {b}
         /\ Uses(Event(s, b)) = {} /\ Event(s, b).past = {}
<1>1. Event(s, b) = [stream |-> s, reads |-> {}, writes |-> {}, holds |-> {b}, past |-> {}, loose |-> {}]
  BY DEF Event, Operation
<1> QED BY <1>1 DEF Ops, Uses

LEMMA EventsFollow ==
  ASSUME NEW b \in Blocks, block \in Books, IsFiniteSet(block[b].recorded)
  PROVE  Follow(Events(b), block, b)
<1> DEFINE others == SetToSeq(block[b].recorded)
           ev == Events(b)
<1>1. block[b].recorded \subseteq Selections
  BY DEF Books
<1>2. others \in Seq(block[b].recorded)
      /\ \A s \in block[b].recorded : \E j \in DOMAIN others : others[j] = s
  BY SetToSeqCovers
<1>3. DOMAIN ev = DOMAIN others /\ ev = [k \in DOMAIN others |-> Event(others[k], b)]
  BY DEF Events
<1> HIDE DEF others, ev
<1>4. \A j \in DOMAIN others : others[j] \in Selections
  BY <1>1, <1>2
<1>5. \A j \in DOMAIN others :
        /\ ev[j] \in Ops /\ ev[j].stream = others[j] /\ ev[j].holds = {b}
        /\ Uses(ev[j]) = {} /\ ev[j].past = {}
  BY <1>3, <1>4, EventOf
<1>6. ev \in Seq(Ops)
  <2>1. DOMAIN others = 1 .. Len(others) /\ Len(others) \in Nat
    BY <1>2
  <2>2. ev \in [1 .. Len(others) -> Ops]
    BY <1>3, <1>5, <2>1
  <2> QED BY <2>1, <2>2
<1>7. Follow(ev, block, b)
  BY <1>2, <1>3, <1>5, <1>6 DEF Follow
<1> QED BY <1>7 DEF ev

LEMMA FreedBooks ==
  ASSUME NEW bk \in Books, NEW b \in Blocks
  PROVE  /\ Freed(bk, b) \in Books
         /\ Freed(bk, b)[b].free /\ Freed(bk, b)[b].recorded = {}
         /\ Freed(bk, b)[b].stream = bk[b].stream
         /\ \A c \in Blocks : c # b => Freed(bk, b)[c] = bk[c]
<1> DEFINE f == Freed(bk, b)
           e == [free |-> TRUE, stream |-> bk[b].stream, recorded |-> {}]
<1>1. bk[b] \in [free : BOOLEAN, stream : Selections \cup {None}, recorded : SUBSET Selections]
  BY DEF Books
<1>4. f[b] = e /\ DOMAIN f = Blocks /\ \A c \in Blocks : c # b => f[c] = bk[c]
  BY DEF Freed, Books
<1>5. f = [c \in Blocks |-> f[c]]
  BY DEF Freed, Books
<1> HIDE DEF f
<1>6. f[b].free /\ f[b].recorded = {} /\ f[b].stream = bk[b].stream
  BY <1>4
<1>7. e \in [free : BOOLEAN, stream : Selections \cup {None}, recorded : SUBSET Selections]
  BY <1>1
<1> HIDE DEF e
<1>8. \A c \in Blocks : f[c] \in [free : BOOLEAN, stream : Selections \cup {None}, recorded : SUBSET Selections]
  BY <1>4, <1>7 DEF Books
<1>9. f \in Books
  BY <1>5, <1>8 DEF Books
<1> QED BY <1>4, <1>6, <1>9 DEF f

LEMMA FreeSafe ==
  ASSUME NEW q, NEW bk, Safe(q, bk, None), NEW b \in Blocks, ~bk[b].free,
         NEW ev, Follow(ev, bk, b)
  PROVE  Safe(q \o ev, Freed(bk, b), None)
<1> DEFINE p == q \o ev
           f == Freed(bk, b)
<1>0. bk \in Books /\ q \in Seq(Ops) /\ ev \in Seq(Ops)
  BY DEF Safe, Follow
<1>1. /\ f \in Books /\ f[b].free /\ f[b].recorded = {} /\ f[b].stream = bk[b].stream
      /\ \A c \in Blocks : c # b => f[c] = bk[c]
  BY <1>0, FreedBooks
<1>2. /\ p \in Seq(Ops) /\ Len(q) \in Nat
      /\ \A k \in DOMAIN q : k \in DOMAIN p /\ p[k] = q[k] /\ k \in 1 .. Len(q)
      /\ \A j \in DOMAIN ev : j \in Nat \ {0} /\ Len(q) + j \in DOMAIN p /\ p[Len(q) + j] = ev[j]
      /\ \A k \in DOMAIN p : k \in DOMAIN q \/ \E j \in DOMAIN ev : k = Len(q) + j
  BY <1>0, Concat
<1> HIDE DEF p, f
<1>3. \A k \in DOMAIN q : q[k] \in Ops
  BY <1>0
<1>4. \A k \in DOMAIN q : Uses(q[k]) \subseteq Blocks /\ q[k].holds \subseteq Blocks
                          /\ q[k].stream \in Selections /\ q[k].stream # None
  BY <1>3, NoneAssumption DEF Ops, Uses
<1>5. \A c \in Blocks : IsFiniteSet(f[c].recorded) /\ (~f[c].free => f[c].stream \in Selections)
  BY <1>1, FS_EmptySet DEF Safe
<1>6. ASSUME NEW k \in DOMAIN q, NEW c \in Blocks, Covered(q, bk, None, k, c)
      PROVE  Covered(p, f, None, k, c)
  <2>1. p[k] = q[k] /\ f[c].stream = bk[c].stream
    BY <1>1, <1>2
  <2>2. CASE q[k].stream \in {bk[c].stream, Null}
    BY <2>1, <2>2 DEF Covered
  <2>3. CASE c \notin q[k].past /\ ~bk[c].free /\ q[k].stream \in bk[c].recorded \cup {None}
    <3>1. q[k].stream \in bk[c].recorded
      BY <1>4, <2>3
    <3>2. CASE c = b
      <4>1. PICK j \in DOMAIN ev : ev[j].stream = q[k].stream
        BY <3>1, <3>2 DEF Follow
      <4>2. ev[j].holds = {b}
        BY DEF Follow
      <4>3. Len(q) + j \in DOMAIN p /\ p[Len(q) + j] = ev[j] /\ Len(q) + j > k
        BY <1>2
      <4> QED BY <1>1, <2>1, <2>3, <3>2, <4>1, <4>2, <4>3 DEF Covered
    <3>3. CASE c # b
      BY <1>1, <2>1, <2>3, <3>3 DEF Covered
    <3> QED BY <3>2, <3>3
  <2>4. CASE /\ c \notin q[k].past /\ bk[c].free
             /\ \E m \in DOMAIN q : m > k /\ c \in q[m].holds /\ q[m].stream = q[k].stream
    <3>1. c # b /\ f[c].free
      BY <1>1, <2>4
    <3>2. PICK m \in DOMAIN q : m > k /\ c \in q[m].holds /\ q[m].stream = q[k].stream
      BY <2>4
    <3>3. m \in DOMAIN p /\ p[m] = q[m]
      BY <1>2
    <3> QED BY <2>1, <2>4, <3>1, <3>2, <3>3 DEF Covered
  <2> QED BY <1>6, <2>2, <2>3, <2>4 DEF Covered
<1>7. ASSUME NEW k \in DOMAIN p
      PROVE  /\ p[k].past \subseteq Uses(p[k])
             /\ \A c \in p[k].holds : f[c].free
             /\ \A c \in Uses(p[k]) : /\ f[c].stream \in Selections
                                      /\ c \notin p[k].loose => Covered(p, f, None, k, c)
  <2>1. CASE k \in DOMAIN q
    <3>1. p[k] = q[k] /\ Uses(q[k]) \subseteq Blocks /\ q[k].holds \subseteq Blocks
      BY <1>2, <1>4, <2>1
    <3>2. q[k].past \subseteq Uses(q[k]) /\ \A c \in q[k].holds : bk[c].free
      BY <2>1 DEF Safe
    <3>3. \A c \in Uses(q[k]) : bk[c].stream \in Selections /\ (c \notin q[k].loose => Covered(q, bk, None, k, c))
      BY <2>1 DEF Safe
    <3>4. \A c \in Uses(q[k]) : f[c].stream \in Selections
      BY <1>1, <3>1, <3>3
    <3>5. \A c \in Uses(q[k]) : c \notin q[k].loose => Covered(p, f, None, k, c)
      BY <1>6, <2>1, <3>1, <3>3
    <3>6. \A c \in q[k].holds : f[c].free
      BY <1>1, <3>1, <3>2
    <3> QED BY <3>1, <3>2, <3>4, <3>5, <3>6
  <2>2. CASE \E j \in DOMAIN ev : k = Len(q) + j
    <3>1. PICK j \in DOMAIN ev : k = Len(q) + j
      BY <2>2
    <3>2. p[k] = ev[j] /\ ev[j].holds = {b} /\ Uses(ev[j]) = {} /\ ev[j].past = {}
      BY <1>2, <3>1 DEF Follow
    <3> QED BY <1>1, <3>2
  <2> QED BY <1>2, <2>1, <2>2
<1>8. Safe(p, f, None)
  BY <1>1, <1>2, <1>5, <1>7 DEF Safe
<1> QED BY <1>8 DEF p, f
----------------------------------------------------------------------------
(* The device, and the end of a wait. *)
LEMMA Removal ==
  ASSUME NEW S, NEW q \in Seq(S), NEW k \in DOMAIN q
  PROVE  /\ RemoveAt(q, k) \in Seq(S) /\ Len(q) \in Nat \ {0} /\ k \in 1 .. Len(q)
         /\ Len(RemoveAt(q, k)) = Len(q) - 1
         /\ \A j \in 1 .. k - 1 : RemoveAt(q, k)[j] = q[j]
         /\ \A j \in k .. Len(q) - 1 : RemoveAt(q, k)[j] = q[j + 1]
<1> DEFINE l == SubSeq(q, 1, k - 1)
           r == SubSeq(q, k + 1, Len(q))
<1>1. Len(q) \in Nat \ {0} /\ k \in 1 .. Len(q) /\ DOMAIN q = 1 .. Len(q)
  OBVIOUS
<1>2. l \in Seq(S) /\ Len(l) = k - 1 /\ \A j \in 1 .. k - 1 : l[j] = q[j]
  BY <1>1
<1>3. r \in Seq(S) /\ Len(r) = Len(q) - k /\ \A j \in 1 .. Len(q) - k : r[j] = q[k + j]
  BY <1>1
<1> HIDE DEF l, r
<1>4. RemoveAt(q, k) = l \o r
  BY DEF RemoveAt, l, r
<1>5. l \o r \in Seq(S) /\ Len(l \o r) = Len(q) - 1
  <2>0. l \in Seq(S) /\ r \in Seq(S)
    BY <1>2, <1>3
  <2>1. Len(l \o r) = Len(l) + Len(r)
    BY <2>0
  <2>2. (k - 1) + (Len(q) - k) = Len(q) - 1
    BY <1>1
  <2> QED BY <1>2, <1>3, <2>1, <2>2
<1>6. \A j \in 1 .. k - 1 : (l \o r)[j] = q[j]
  BY <1>1, <1>2, <1>3
<1>7. ASSUME NEW j \in k .. Len(q) - 1 PROVE (l \o r)[j] = q[j + 1]
  <2>1. j - (k - 1) \in 1 .. Len(q) - k /\ k + (j - (k - 1)) = j + 1
    BY <1>1
  <2>2. (l \o r)[j] = r[j - (k - 1)]
    BY <1>1, <1>2, <1>3
  <2> QED BY <1>3, <2>1, <2>2
<1> QED BY <1>1, <1>4, <1>5, <1>6, <1>7

LEMMA FinishSafe ==
  ASSUME NEW q, NEW bk, NEW w, Safe(q, bk, w), NEW k \in DOMAIN q,
         \A j \in 1 .. k - 1 : q[j].stream # q[k].stream
  PROVE  Safe(RemoveAt(q, k), bk, w)
<1> DEFINE p == RemoveAt(q, k)
           old(j) == IF j < k THEN j ELSE j + 1
           new(j) == IF j < k THEN j ELSE j - 1
<1>0. bk \in Books /\ q \in Seq(Ops)
  BY DEF Safe
<1>1. /\ p \in Seq(Ops) /\ Len(q) \in Nat \ {0} /\ k \in 1 .. Len(q) /\ Len(p) = Len(q) - 1
      /\ \A j \in 1 .. k - 1 : p[j] = q[j]
      /\ \A j \in k .. Len(q) - 1 : p[j] = q[j + 1]
  BY <1>0, Removal
<1> HIDE DEF p
<1>2. DOMAIN p = 1 .. Len(q) - 1 /\ DOMAIN q = 1 .. Len(q)
  BY <1>0, <1>1
<1>3. \A j \in DOMAIN p : old(j) \in DOMAIN q /\ p[j] = q[old(j)]
  <2> TAKE j \in DOMAIN p
  <2>1. CASE j < k
    BY <1>1, <1>2, <2>1
  <2>2. CASE ~(j < k)
    BY <1>1, <1>2, <2>2
  <2> QED BY <2>1, <2>2
<1>4. \A m \in DOMAIN q \ {k} :
        /\ new(m) \in DOMAIN p /\ p[new(m)] = q[m]
        /\ \A j \in DOMAIN p : m > old(j) => new(m) > j
  <2> TAKE m \in DOMAIN q \ {k}
  <2>1. CASE m < k
    BY <1>1, <1>2, <2>1
  <2>2. CASE m > k
    <3>1. m - 1 \in k .. Len(q) - 1 /\ (m - 1) + 1 = m
      BY <1>1, <1>2, <2>2
    <3>2. new(m) = m - 1
      BY <1>1, <1>2, <2>2
    <3> QED BY <1>1, <1>2, <2>2, <3>1, <3>2
  <2> QED BY <1>1, <1>2, <2>1, <2>2
<1> HIDE DEF old, new
<1>5. ASSUME NEW j \in DOMAIN p, NEW b, Covered(q, bk, w, old(j), b)
      PROVE  Covered(p, bk, w, j, b)
  <2>1. p[j] = q[old(j)] /\ old(j) \in DOMAIN q
    BY <1>3
  <2>2. CASE \/ q[old(j)].stream \in {bk[b].stream, Null}
             \/ /\ b \notin q[old(j)].past /\ ~bk[b].free
                /\ q[old(j)].stream \in bk[b].recorded \cup {w}
    BY <2>1, <2>2 DEF Covered
  <2>3. CASE b \notin q[old(j)].past /\ bk[b].free
             /\ \E m \in DOMAIN q : m > old(j) /\ b \in q[m].holds /\ q[m].stream = q[old(j)].stream
    <3>1. PICK m \in DOMAIN q : m > old(j) /\ b \in q[m].holds /\ q[m].stream = q[old(j)].stream
      BY <2>3
    <3>2. m # k
      <4>1. ASSUME m = k PROVE old(j) \in 1 .. k - 1
        BY <1>1, <1>2, <2>1, <3>1, <4>1
      <4> QED BY <3>1, <4>1
    <3>3. new(m) \in DOMAIN p /\ p[new(m)] = q[m] /\ new(m) > j
      BY <1>4, <3>1, <3>2
    <3> QED BY <2>1, <2>3, <3>1, <3>3 DEF Covered
  <2> QED BY <1>5, <2>2, <2>3 DEF Covered
<1>6. ASSUME NEW j \in DOMAIN p
      PROVE  /\ p[j].past \subseteq Uses(p[j])
             /\ \A b \in p[j].holds : bk[b].free
             /\ \A b \in Uses(p[j]) : /\ bk[b].stream \in Selections
                                      /\ b \notin p[j].loose => Covered(p, bk, w, j, b)
  <2>1. p[j] = q[old(j)] /\ old(j) \in DOMAIN q
    BY <1>3
  <2>2. /\ q[old(j)].past \subseteq Uses(q[old(j)])
        /\ \A b \in q[old(j)].holds : bk[b].free
        /\ \A b \in Uses(q[old(j)]) : /\ bk[b].stream \in Selections
                                      /\ b \notin q[old(j)].loose => Covered(q, bk, w, old(j), b)
    BY <2>1 DEF Safe
  <2> QED BY <1>5, <2>1, <2>2
<1>7. \A b \in Blocks : IsFiniteSet(bk[b].recorded) /\ (~bk[b].free => bk[b].stream \in Selections)
  BY DEF Safe
<1>8. Safe(p, bk, w)
  BY <1>0, <1>1, <1>6, <1>7 DEF Safe
<1> QED BY <1>8 DEF p

LEMMA ReturnSafe ==
  ASSUME NEW q, NEW bk, NEW w, Safe(q, bk, w), \A k \in DOMAIN q : q[k].stream # w
  PROVE  Safe(q, bk, None)
<1>1. \A k \in DOMAIN q : \A b : Covered(q, bk, w, k, b) => Covered(q, bk, None, k, b)
  BY DEF Covered
<1> QED BY <1>1 DEF Safe

(* An operation that is issued, with the blocks it leaves loose. *)
LEMMA LooseOne ==
  ASSUME NEW o \in Ops, NEW L
  PROVE  [o EXCEPT !.loose = L]
           = [stream |-> o.stream, reads |-> o.reads, writes |-> o.writes,
              holds |-> o.holds, past |-> o.past, loose |-> L]
BY DEF Ops

LEMMA IssueSafe ==
  ASSUME NEW q, NEW bk, Safe(q, bk, None), NEW w, NEW s \in Selections,
         NEW X \in SUBSET Blocks, NEW W \in SUBSET Blocks, NEW L \in SUBSET Blocks,
         \A b \in X \cup W :
           /\ ~bk[b].free
           /\ b \notin L => s \in {bk[b].stream, Null, w} \cup bk[b].recorded
  PROVE  /\ Safe(Append(q, [Operation(s, X, W) EXCEPT !.loose = L]), bk, w)
         /\ L = {} => Safe(Append(q, Operation(s, X, W)), bk, w)
<1> DEFINE e == [stream |-> s, reads |-> X, writes |-> W, holds |-> {}, past |-> {}, loose |-> L]
<1>0. /\ Operation(s, X, W) \in Ops /\ Operation(s, X, W).stream = s
      /\ Operation(s, X, W).reads = X /\ Operation(s, X, W).writes = W
      /\ Operation(s, X, W).holds = {} /\ Operation(s, X, W).past = {}
  BY DEF Operation, Ops
<1>1. [Operation(s, X, W) EXCEPT !.loose = L] = e /\ (L = {} => Operation(s, X, W) = e)
  <2>1. L = {} => Operation(s, X, W) = e
    BY DEF Operation
  <2> QED BY <1>0, <2>1, LooseOne
<1>2. e \in Ops
  BY DEF Ops
<1>3. Fits(e, bk, w)
  BY <1>2 DEF Fits, Uses
<1> HIDE DEF e
<1>4. Safe(Append(q, e), bk, w)
  BY <1>3, AppendSafe
<1> QED BY <1>1, <1>4
----------------------------------------------------------------------------
(* The calls of the host. *)
LEMMA AtRest ==
  ASSUME SafeInv, waiting = Idle
  PROVE  /\ Safe(queue, block, None) /\ block \in Books
         /\ tensors \in [Blocks -> Nat]
         /\ \A b \in Live : b \in Blocks /\ ~block[b].free /\ block[b].stream \in Selections
<1>1. waiting.stream = None
  BY DEF Idle
<1>2. Safe(queue, block, None)
  BY <1>1 DEF SafeInv
<1> QED BY <1>2 DEF SafeInv, Owned, Live, Safe

LEMMA Resting ==
  ASSUME waiting = Idle, UNCHANGED waiting, Safe(queue', block', None), Owned'
  PROVE  SafeInv'
<1>1. waiting' = Idle /\ waiting'.stream = None
  BY DEF Idle
<1>2. Waiting'
  BY <1>1 DEF Waiting, Idle
<1> QED BY <1>1, <1>2 DEF SafeInv

LEMMA WaitsFor ==
  ASSUME NEW s \in Selections, NEW X \in SUBSET Blocks, waiting' = [stream |-> s, reads |-> X],
         Safe(queue', block', s), Owned'
  PROVE  SafeInv'
<1>1. waiting'.stream = s /\ s # None
  BY NoneAssumption
<1>2. Waiting'
  BY <1>1 DEF Waiting
<1> QED BY <1>1, <1>2 DEF SafeInv

LEMMA MoreOwned ==
  ASSUME NEW b \in Blocks, More(b), tensors \in [Blocks -> Nat],
         \A c \in Blocks : (c = b \/ tensors[c] > 0) => ~block'[c].free
  PROVE  Owned'
<1>1. tensors' = [tensors EXCEPT ![b] = tensors[b] + 1]
  BY DEF More
<1>2. tensors' \in [Blocks -> Nat] /\ \A c \in Blocks : c # b => tensors'[c] = tensors[c]
  BY <1>1
<1>3. \A c \in Blocks : tensors'[c] > 0 => ~block'[c].free
  BY <1>2
<1> QED BY <1>2, <1>3 DEF Owned

LEMMA AllocatableFree ==
  ASSUME NEW bk, \A c \in Blocks : bk[c].free = block[c].free /\ bk[c].stream = block[c].stream,
         NEW s, NEW b \in Allocatable(s)
  PROVE  Free(queue, bk, b, s)
BY DEF Allocatable, Held, Free

LEMMA ConstructSafe ==
  ASSUME SafeInv, NEW s \in Selections, Construct(s)
  PROVE  SafeInv'
<1>1. PICK b \in Allocatable(s) : More(b) /\ block' = Taken(block, b, s) /\ queue' = NewLife(b)
  BY DEF Construct
<1>2. waiting = Idle /\ UNCHANGED waiting
  BY DEF Construct
<1>3. Free(queue, block, b, s) /\ b \in Blocks
  BY AllocatableFree DEF Allocatable
<1>4. queue' = Aged(queue, b)
  BY <1>1 DEF NewLife, Aged
<1>5. Safe(queue', block', None)
  BY <1>1, <1>2, <1>3, <1>4, AtRest, TakeSafe
<1>6. Owned'
  <2>1. ~block'[b].free /\ \A c \in Blocks : c # b => block'[c] = block[c]
    BY <1>1, <1>2, <1>3, AtRest, TakenBooks
  <2>2. \A c \in Blocks : tensors[c] > 0 => ~block[c].free
    BY DEF SafeInv, Owned
  <2> QED BY <1>1, <1>2, <1>3, <2>1, <2>2, AtRest, MoreOwned
<1> QED BY <1>2, <1>5, <1>6, Resting

LEMMA ConstructFromSafe ==
  ASSUME SafeInv, NEW s \in Selections, NEW X \in SUBSET Live, ConstructFrom(X, s)
  PROVE  SafeInv'
<1> DEFINE R == Resolved(X, s)
<1>1. waiting = Idle /\ UNCHANGED waiting
  BY DEF ConstructFrom, Room
<1>2. /\ Safe(queue, block, None) /\ block \in Books /\ tensors \in [Blocks -> Nat]
      /\ \A b \in X : b \in Blocks /\ ~block[b].free
  BY <1>1, AtRest
<1>3. /\ Safe(queue, R, None)
      /\ \A c \in Blocks : /\ R[c].free = block[c].free /\ R[c].stream = block[c].stream
                           /\ c \in X => s \in R[c].recorded \cup {block[c].stream, Null}
  BY <1>2, ResolvedSafe
<1>4. \A c \in Blocks : tensors[c] > 0 => ~R[c].free
  BY <1>3 DEF SafeInv, Owned
<1>5. ASSUME NEW b \in Allocatable(s), queue' = Append(NewLife(b), Operation(s, X, {b})),
             \/ More(b) /\ block' = Taken(R, b, s)
             \/ block' = Freed(Taken(R, b, s), b) /\ UNCHANGED tensors
      PROVE  SafeInv'
  <2> DEFINE T == Taken(R, b, s)
             p == Append(NewLife(b), Operation(s, X, {b}))
  <2>0. p = Append(Aged(queue, b), Operation(s, X, {b}))
    BY DEF NewLife, Aged
  <2>1. Free(queue, R, b, s) /\ b \in Blocks /\ block[b].free
    BY <1>3, AllocatableFree DEF Allocatable
  <2>2. /\ T \in Books /\ ~T[b].free /\ T[b].stream = s /\ T[b].recorded = {}
        /\ \A c \in Blocks : c # b => T[c] = R[c]
    <3>1. R \in Books
      BY <1>3 DEF Safe
    <3> QED BY <2>1, <3>1, TakenBooks
  <2>3. Safe(Aged(queue, b), T, None)
    BY <1>3, <2>1, TakeSafe
  <2> HIDE DEF T
  <2>4. \A c \in X \cup {b} : ~T[c].free /\ s \in {T[c].stream, Null, None} \cup T[c].recorded
    <3>1. ~T[b].free /\ s \in {T[b].stream, Null, None} \cup T[b].recorded
      BY <2>2
    <3>2. ASSUME NEW c \in X
          PROVE  ~T[c].free /\ s \in {T[c].stream, Null, None} \cup T[c].recorded
      <4>1. c # b /\ c \in Blocks
        BY <1>2, <2>1
      <4> QED BY <1>2, <1>3, <2>2, <4>1
    <3> QED BY <3>1, <3>2
  <2>5. Safe(p, T, None)
    <3>1. X \in SUBSET Blocks /\ {b} \in SUBSET Blocks /\ {} \in SUBSET Blocks
      BY <1>2, <2>1
    <3> QED BY <2>0, <2>3, <2>4, <3>1, IssueSafe
  <2> HIDE DEF p
  <2>6. queue' = p
    BY <1>5 DEF p
  <2>7. CASE More(b) /\ block' = T
    <3>1. Owned'
      BY <1>2, <1>4, <2>1, <2>2, <2>7, MoreOwned
    <3> QED BY <1>1, <2>5, <2>6, <2>7, <3>1, Resting
  <2>8. CASE block' = Freed(T, b) /\ UNCHANGED tensors
    <3>1. p \in Seq(Ops) /\ p \o <<>> = p
      BY <2>5 DEF Safe
    <3>2. Follow(<<>>, T, b)
      BY <2>2 DEF Follow
    <3>3. Safe(p \o <<>>, Freed(T, b), None)
      BY <2>1, <2>2, <2>5, <3>2, FreeSafe
    <3>4. Safe(queue', block', None)
      BY <2>6, <2>8, <3>1, <3>3
    <3>5. \A c \in Blocks : c # b => block'[c] = R[c]
      BY <2>1, <2>2, <2>8, FreedBooks
    <3>6. \A c \in Blocks : tensors[c] > 0 => ~block'[c].free
      BY <1>3, <1>4, <2>1, <3>5
    <3>7. Owned'
      BY <1>2, <2>8, <3>6 DEF Owned
    <3> QED BY <1>1, <3>4, <3>7, Resting
  <2> QED BY <1>5, <2>7, <2>8 DEF T
<1>6. CASE block' = R /\ UNCHANGED <<tensors, queue>>
  <2>1. Owned'
    BY <1>2, <1>4, <1>6 DEF Owned
  <2> QED BY <1>1, <1>3, <1>6, <2>1, Resting
<1> QED BY <1>5, <1>6 DEF ConstructFrom

\* The allocator's books, once s is recorded on the blocks X.
Recorded(books, X, s) ==
  /\ Safe(queue, books, None)
  /\ \A c \in Blocks :
       /\ books[c].free = block[c].free /\ books[c].stream = block[c].stream
       /\ c \in X => s \in books[c].recorded \cup {block[c].stream, Null}
Assigned(b, X, s, books, final) ==
  \/ queue' = Append(queue, Operation(s, X, {b})) /\ block' = final
  \/ /\ queue' = Append(queue, [Operation(s, X, {b}) EXCEPT !.loose = Unrecorded(books, {b}, s)])
     /\ block' = books
  \/ UNCHANGED queue /\ block' = books

LEMMA RecordToo ==
  ASSUME NEW books, NEW X \in SUBSET Blocks, NEW s \in Selections, Recorded(books, X, s), NEW B \in SUBSET Blocks
  PROVE  Recorded(record_stream(books, B, s), X \cup B, s)
<1> DEFINE final == record_stream(books, B, s)
<1>1. books \in Books /\ Safe(queue, books, None)
  BY DEF Safe, Recorded
<1>2. \A c \in Blocks :
        /\ final[c].free = books[c].free /\ final[c].stream = books[c].stream
        /\ books[c].recorded \subseteq final[c].recorded
        /\ c \in B => s \in final[c].recorded \cup {final[c].stream}
  BY <1>1, Recording
<1>3. Safe(queue, final, None)
  BY <1>1, RecordSafe
<1> HIDE DEF final
<1>4. Recorded(final, X \cup B, s)
  BY <1>2, <1>3 DEF Recorded
<1> QED BY <1>4 DEF final

LEMMA Assigning ==
  ASSUME SafeInv, waiting = Idle, UNCHANGED <<tensors, waiting>>,
         NEW b \in Live, NEW X \in SUBSET Live, NEW s \in Selections, NEW books, NEW final,
         Recorded(books, X, s), Recorded(final, X \cup {b}, s), Assigned(b, X, s, books, final)
  PROVE  SafeInv'
<1>1. /\ tensors \in [Blocks -> Nat]
      /\ \A c \in X \cup {b} : c \in Blocks /\ ~block[c].free
  BY AtRest
<1>2. X \in SUBSET Blocks /\ {b} \in SUBSET Blocks /\ {} \in SUBSET Blocks
  BY <1>1
<1>3. \A c \in Blocks : block'[c].free = block[c].free
  BY DEF Assigned, Recorded
<1>4. Owned'
  <2>1. \A c \in Blocks : tensors[c] > 0 => ~block[c].free
    BY DEF SafeInv, Owned
  <2> QED BY <1>1, <1>3, <2>1 DEF Owned
<1>5. CASE queue' = Append(queue, Operation(s, X, {b})) /\ block' = final
  <2>1. \A c \in X \cup {b} : ~final[c].free /\ s \in {final[c].stream, Null, None} \cup final[c].recorded
    BY <1>1 DEF Recorded
  <2>2. Safe(queue, final, None)
    BY DEF Recorded
  <2>3. Safe(Append(queue, Operation(s, X, {b})), final, None)
    BY <1>2, <2>1, <2>2, IssueSafe
  <2> QED BY <1>4, <1>5, <2>3, Resting
<1>6. CASE /\ queue' = Append(queue, [Operation(s, X, {b}) EXCEPT !.loose = Unrecorded(books, {b}, s)])
           /\ block' = books
  <2> DEFINE L == Unrecorded(books, {b}, s)
  <2>1. L \in SUBSET Blocks /\ (b \notin L => s \in books[b].recorded \cup {books[b].stream})
    BY <1>2 DEF Unrecorded
  <2> HIDE DEF L
  <2>2. \A c \in X \cup {b} :
          ~books[c].free /\ (c \notin L => s \in {books[c].stream, Null, None} \cup books[c].recorded)
    BY <1>1, <2>1 DEF Recorded
  <2>3. Safe(queue, books, None)
    BY DEF Recorded
  <2>4. Safe(Append(queue, [Operation(s, X, {b}) EXCEPT !.loose = L]), books, None)
    BY <1>2, <2>1, <2>2, <2>3, IssueSafe
  <2> QED BY <1>4, <1>6, <2>4, Resting DEF L
<1>7. CASE UNCHANGED queue /\ block' = books
  BY <1>4, <1>7, Resting DEF Recorded
<1> QED BY <1>5, <1>6, <1>7 DEF Assigned

LEMMA AssignSafe ==
  ASSUME SafeInv, NEW b \in Live, NEW X \in SUBSET Live, NEW s \in Selections, assign(b, X, s)
  PROVE  SafeInv'
<1> DEFINE R == Resolved(X, s)
           F == IF s = Null THEN R ELSE record_stream(R, {b}, s)
<1>1. waiting = Idle /\ UNCHANGED <<tensors, waiting>>
  BY DEF assign, Room
<1>2. Safe(queue, block, None) /\ {b} \in SUBSET Blocks /\ X \in SUBSET Blocks
  BY <1>1, AtRest DEF Live
<1>3. Recorded(R, X, s)
  BY <1>2, ResolvedSafe DEF Recorded
<1>4. Assigned(b, X, s, R, F)
  BY DEF assign, Issue, Assigned
<1> HIDE DEF R
<1>5. Recorded(F, X \cup {b}, s)
  <2>1. CASE s = Null
    BY <1>3, <2>1 DEF Recorded
  <2>2. CASE s # Null
    <3>1. F = record_stream(R, {b}, s)
      BY <2>2
    <3> QED BY <1>2, <1>3, <3>1, RecordToo
  <2> QED BY <2>1, <2>2
<1> HIDE DEF F
<1> QED BY <1>1, <1>3, <1>4, <1>5, Assigning

LEMMA AssignAsyncSafe ==
  ASSUME SafeInv, NEW b \in Live, NEW X \in SUBSET Live, NEW s \in Selections, assign_async(b, X, s)
  PROVE  SafeInv'
<1> DEFINE R == record_stream(block, X, s)
           F == record_stream(R, {b}, s)
<1>1. waiting = Idle /\ UNCHANGED <<tensors, waiting>>
  BY DEF assign_async, Room
<1>2. Safe(queue, block, None) /\ {b} \in SUBSET Blocks /\ X \in SUBSET Blocks /\ {} \in SUBSET Blocks
  BY <1>1, AtRest DEF Live
<1>3. Recorded(R, X, s)
  <2>1. Recorded(block, {}, s)
    BY <1>2 DEF Recorded
  <2>2. {} \cup X = X
    OBVIOUS
  <2>3. Recorded(R, {} \cup X, s)
    BY <1>2, <2>1, RecordToo
  <2> QED BY <2>2, <2>3
<1>4. Assigned(b, X, s, R, F)
  BY DEF assign_async, Issue, Assigned
<1> HIDE DEF R
<1>5. Recorded(F, X \cup {b}, s)
  BY <1>2, <1>3, RecordToo
<1> HIDE DEF F
<1> QED BY <1>1, <1>3, <1>4, <1>5, Assigning

LEMMA DestroySafe ==
  ASSUME SafeInv, NEW b \in Live, Destroy(b)
  PROVE  SafeInv'
<1>1. waiting = Idle /\ UNCHANGED waiting /\ tensors' = [tensors EXCEPT ![b] = tensors[b] - 1]
  BY DEF Destroy
<1>2. /\ Safe(queue, block, None) /\ block \in Books /\ tensors \in [Blocks -> Nat]
      /\ b \in Blocks /\ ~block[b].free
  BY <1>1, AtRest
<1>3. /\ tensors' \in [Blocks -> Nat] /\ tensors'[b] = tensors[b] - 1
      /\ \A c \in Blocks : c # b => tensors'[c] = tensors[c]
  <2>1. tensors[b] - 1 \in Nat
    BY <1>2 DEF Live
  <2> QED BY <1>1, <1>2, <2>1
<1>4. \A c \in Blocks : tensors[c] > 0 => ~block[c].free
  BY DEF SafeInv, Owned
<1>5. CASE tensors[b] = 1
  <2>1. block' = Freed(block, b) /\ queue' = queue \o Events(b)
    BY <1>5 DEF Destroy
  <2>2. IsFiniteSet(block[b].recorded)
    BY <1>2 DEF Safe
  <2>3. Safe(queue', block', None)
    BY <1>2, <2>1, <2>2, EventsFollow, FreeSafe
  <2>4. \A c \in Blocks : c # b => block'[c] = block[c]
    BY <1>2, <2>1, FreedBooks
  <2>5. \A c \in Blocks : tensors'[c] > 0 => ~block'[c].free
    BY <1>3, <1>4, <1>5, <2>4
  <2> QED BY <1>1, <1>3, <2>3, <2>5, Resting DEF Owned
<1>6. CASE tensors[b] # 1
  <2>1. UNCHANGED <<block, queue>>
    BY <1>6 DEF Destroy
  <2>2. \A c \in Blocks : tensors'[c] > 0 => ~block'[c].free
    BY <1>2, <1>3, <1>4, <2>1
  <2> QED BY <1>1, <1>2, <1>3, <2>1, <2>2, Resting DEF Owned
<1> QED BY <1>5, <1>6

LEMMA ShareSafe ==
  ASSUME SafeInv, NEW b \in Live, Share(b)
  PROVE  SafeInv'
<1>1. waiting = Idle /\ UNCHANGED <<block, queue, waiting>> /\ More(b)
  BY DEF Share
<1>2. Safe(queue, block, None) /\ tensors \in [Blocks -> Nat] /\ b \in Blocks /\ ~block[b].free
  BY <1>1, AtRest
<1>3. \A c \in Blocks : tensors[c] > 0 => ~block[c].free
  BY DEF SafeInv, Owned
<1>4. Owned'
  BY <1>1, <1>2, <1>3, MoreOwned
<1> QED BY <1>1, <1>2, <1>4, Resting

\* The host issues an operation on s and waits for it.
LEMMA WaitSafe ==
  ASSUME SafeInv, waiting = Idle, NEW s \in Selections,
         NEW X \in SUBSET Live, NEW W \in SUBSET Live, NEW reads \in SUBSET Blocks,
         queue' = Append(queue, Operation(s, X, W)), waiting' = [stream |-> s, reads |-> reads],
         UNCHANGED <<tensors, block>>
  PROVE  SafeInv'
<1>1. Safe(queue, block, None) /\ \A b \in X \cup W : b \in Blocks /\ ~block[b].free
  BY AtRest
<1>2. X \in SUBSET Blocks /\ W \in SUBSET Blocks /\ {} \in SUBSET Blocks
  BY <1>1
<1>3. \A b \in X \cup W : ~block[b].free /\ (b \notin {} => s \in {block[b].stream, Null, s} \cup block[b].recorded)
  BY <1>1
<1>4. Safe(Append(queue, Operation(s, X, W)), block, s)
  BY <1>1, <1>2, <1>3, IssueSafe
<1>5. Owned'
  BY DEF SafeInv, Owned
<1> QED BY <1>4, <1>5, WaitsFor

LEMMA CopySafe ==
  ASSUME SafeInv, NEW b \in Live, copy_from_host(b) \/ copy_logical_to_host(b)
  PROVE  SafeInv'
<1>1. waiting = Idle
  BY DEF copy_from_host, copy_logical_to_host, Room
<1>2. b \in Blocks /\ block[b].stream \in Selections
  BY <1>1, AtRest
<1>3. {} \in SUBSET Live /\ {b} \in SUBSET Live /\ {} \in SUBSET Blocks /\ {b} \in SUBSET Blocks
  BY <1>2
<1>4. CASE copy_from_host(b)
  BY <1>1, <1>2, <1>3, <1>4, WaitSafe DEF copy_from_host, Issue
<1>5. CASE copy_logical_to_host(b)
  BY <1>1, <1>2, <1>3, <1>5, WaitSafe DEF copy_logical_to_host, Issue
<1> QED BY <1>4, <1>5

LEMMA CloneSafe ==
  ASSUME SafeInv, NEW b \in Live, clone(b)
  PROVE  SafeInv'
<1> DEFINE s == block[b].stream
<1>1. waiting = Idle /\ waiting' = [stream |-> s, reads |-> {b}]
  BY DEF clone, Room
<1>2. PICK new \in Allocatable(s) :
        /\ More(new) /\ block' = Taken(block, new, s)
        /\ queue' = Append(NewLife(new), Operation(s, {b}, {new}))
  BY DEF clone
<1>3. /\ Safe(queue, block, None) /\ block \in Books /\ tensors \in [Blocks -> Nat]
      /\ b \in Blocks /\ ~block[b].free /\ s \in Selections
  BY <1>1, AtRest
<1>4. Free(queue, block, new, s) /\ new \in Blocks /\ block[new].free
  BY AllocatableFree DEF Allocatable
<1>5. NewLife(new) = Aged(queue, new)
  BY DEF NewLife, Aged
<1>6. new # b /\ {b} \in SUBSET Blocks /\ {new} \in SUBSET Blocks /\ {} \in SUBSET Blocks
  BY <1>3, <1>4
<1>7. /\ ~block'[new].free /\ block'[new].stream = s
      /\ \A c \in Blocks : c # new => block'[c] = block[c]
  BY <1>2, <1>3, <1>4, TakenBooks
<1>8. Safe(Aged(queue, new), block', None)
  BY <1>2, <1>3, <1>4, TakeSafe
<1>9. \A c \in {b} \cup {new} :
        ~block'[c].free /\ (c \notin {} => s \in {block'[c].stream, Null, s} \cup block'[c].recorded)
  BY <1>3, <1>6, <1>7
<1>10. Safe(queue', block', s)
  BY <1>2, <1>3, <1>5, <1>6, <1>8, <1>9, IssueSafe
<1>11. Owned'
  <2>1. \A c \in Blocks : tensors[c] > 0 => ~block[c].free
    BY DEF SafeInv, Owned
  <2> QED BY <1>2, <1>3, <1>4, <1>7, <2>1, MoreOwned
<1> QED BY <1>1, <1>3, <1>6, <1>10, <1>11, WaitsFor

LEMMA ReduceSafe ==
  ASSUME SafeInv, NEW X \in SUBSET Live, NEW first \in X, try_reduce_gpu(X, first)
  PROVE  SafeInv'
<1> DEFINE s == block[first].stream
           L == Unrecorded(block, X, s)
<1>1. waiting = Idle /\ UNCHANGED <<tensors, block>>
  BY DEF try_reduce_gpu, Room
<1>2. Safe(queue, block, None) /\ s \in Selections /\ \A b \in X : b \in Blocks /\ ~block[b].free
  BY <1>1, AtRest
<1>3. X \in SUBSET Blocks /\ {} \in SUBSET Live /\ {} \in SUBSET Blocks /\ L \in SUBSET Blocks
  BY <1>2 DEF Unrecorded
<1>4. \/ queue' = Append(queue, Operation(s, X, {})) /\ waiting' = [stream |-> s, reads |-> X]
      \/ /\ queue' = Append(queue, [Operation(s, X, {}) EXCEPT !.loose = L])
         /\ UNCHANGED waiting
  BY DEF try_reduce_gpu, Issue
<1>5. \A b \in X \cup {} :
        ~block[b].free /\ (b \notin L => s \in {block[b].stream, Null, None} \cup block[b].recorded)
  BY <1>2 DEF Unrecorded
<1> HIDE DEF s, L
<1>6. CASE queue' = Append(queue, Operation(s, X, {})) /\ waiting' = [stream |-> s, reads |-> X]
  BY <1>1, <1>2, <1>3, <1>6, WaitSafe
<1>7. CASE queue' = Append(queue, [Operation(s, X, {}) EXCEPT !.loose = L]) /\ UNCHANGED waiting
  <2>1. Safe(queue', block', None)
    BY <1>1, <1>2, <1>3, <1>5, <1>7, IssueSafe
  <2>2. Owned'
    BY <1>1 DEF SafeInv, Owned
  <2> QED BY <1>1, <1>7, <2>1, <2>2, Resting
<1> QED BY <1>4, <1>6, <1>7

LEMMA SynchronizedSafe ==
  ASSUME SafeInv, SynchronizedReturn
  PROVE  SafeInv'
<1>1. waiting' = Idle /\ waiting'.stream = None
  BY DEF SynchronizedReturn, Idle
<1>2. Safe(queue, block, None)
  BY ReturnSafe DEF SafeInv, SynchronizedReturn
<1>3. Owned' /\ Waiting'
  BY <1>1 DEF SynchronizedReturn, SafeInv, Owned, Waiting, Idle
<1> QED BY <1>1, <1>2, <1>3 DEF SafeInv, SynchronizedReturn

LEMMA FinishedSafe ==
  ASSUME SafeInv, NEW s \in Selections, Finish(s)
  PROVE  SafeInv'
<1>1. PICK k \in DOMAIN queue :
        /\ queue[k].stream = s /\ queue' = RemoveAt(queue, k)
        /\ \A j \in 1 .. k - 1 : ~Waits(queue[j].stream, s)
  BY DEF Finish
<1>2. \A j \in 1 .. k - 1 : queue[j].stream # queue[k].stream
  BY <1>1 DEF Waits
<1>3. UNCHANGED <<tensors, block, waiting>>
  BY DEF Finish
<1>4. Safe(queue', block, waiting.stream)
  BY <1>1, <1>2, FinishSafe DEF SafeInv
<1> QED BY <1>3, <1>4 DEF SafeInv, Owned, Waiting
----------------------------------------------------------------------------
LEMMA SafeInit == Init => SafeInv
<1> SUFFICES ASSUME Init PROVE SafeInv
  OBVIOUS
<1>1. queue = <<>> /\ queue \in Seq(Ops) /\ DOMAIN queue = {}
  BY DEF Init
<1>2. \A b \in Blocks : block[b] = [free |-> TRUE, stream |-> None, recorded |-> {}]
  BY DEF Init
<1>3. block \in Books
  BY DEF Init, Books
<1>4. \A b \in Blocks : IsFiniteSet(block[b].recorded) /\ block[b].free
  BY <1>2, FS_EmptySet
<1>5. Safe(queue, block, waiting.stream)
  BY <1>1, <1>3, <1>4 DEF Safe
<1>6. Owned /\ Waiting
  BY <1>4 DEF Init, Owned, Waiting, Idle
<1> QED BY <1>5, <1>6 DEF SafeInv

LEMMA SafeStep == SafeInv /\ [Next]_vars => SafeInv'
<1> SUFFICES ASSUME SafeInv, [Next]_vars PROVE SafeInv'
  OBVIOUS
<1>1. Homes \subseteq Selections /\ \A X \in Operands : X \in SUBSET Live
  BY StreamsAssumption DEF Operands
<1>2. CASE UNCHANGED vars
  BY <1>2 DEF vars, SafeInv, Owned, Waiting
<1>3. CASE SynchronizedReturn
  BY <1>3, SynchronizedSafe
<1>4. CASE \E s \in Homes : Construct(s)
  BY <1>1, <1>4, ConstructSafe
<1>5. CASE \E s \in Homes : \E X \in Operands : ConstructFrom(X, s)
  BY <1>1, <1>5, ConstructFromSafe
<1>6. CASE \E b \in Live : Share(b)
  BY <1>6, ShareSafe
<1>7. CASE \E b \in Live : Destroy(b)
  BY <1>7, DestroySafe
<1>8. CASE \E b \in Live : clone(b)
  BY <1>8, CloneSafe
<1>9. CASE \E b \in Live : copy_from_host(b) \/ copy_logical_to_host(b)
  BY <1>9, CopySafe
<1>10. CASE \E b \in Live : \E X \in Operands \cup {{}}, s \in Selections : assign(b, X, s)
  BY <1>1, <1>10, AssignSafe
<1>11. CASE \E b \in Live : \E X \in Operands \cup {{}}, s \in Selections : assign_async(b, X, s)
  BY <1>1, <1>11, AssignAsyncSafe
<1>12. CASE \E X \in Operands : \E first \in X : try_reduce_gpu(X, first)
  BY <1>1, <1>12, ReduceSafe
<1>13. CASE \E s \in Selections : Finish(s)
  BY <1>13, FinishedSafe
<1> QED BY <1>2, <1>3, <1>4, <1>5, <1>6, <1>7, <1>8, <1>9, <1>10, <1>11, <1>12, <1>13 DEF Next, Host

LEMMA SafeAlways == Spec => []SafeInv
BY SafeInit, SafeStep, PTL DEF Spec

(* The books are well formed: a block that a tensor or a view retains is   *)
(* allocated, whatever else shares or destroys it, and one that an event   *)
(* holds is not.                                                           *)
THEOREM StreamsTyping == Spec => []TypeOK
<1>1. SafeInv => TypeOK
  <2> SUFFICES ASSUME SafeInv PROVE TypeOK
    OBVIOUS
  <2>1. queue \in Seq(Ops) /\ block \in Books /\ \A k \in DOMAIN queue : \A b \in queue[k].holds : block[b].free
    BY DEF SafeInv, Safe
  <2>2. \A k \in DOMAIN queue : queue[k] \in Ops
    BY <2>1
  <2>3. \A k \in DOMAIN queue : queue[k].stream \in Selections
    BY <2>2 DEF Ops
  <2>4. waiting.stream \in Selections \cup {None}
    BY DEF SafeInv, Waiting
  <2> QED BY <2>1, <2>3, <2>4 DEF SafeInv, Owned, Live, Books, TypeOK
<1> QED BY <1>1, SafeAlways, PTL

(* No call recycles a block under a use that an exception did not leave    *)
(* unrecorded, if the created streams synchronise with the default one:    *)
(* the code records no use there.  A use of b's old contents is pending    *)
(* only on the stream of b's pool, or the default one, for on any other    *)
(* stream its record made an event hold b until it had finished.           *)
THEOREM StreamsSafeReuse ==
  ASSUME Blocking = Streams
  PROVE  Spec => []SafeReuse
<1>1. SafeInv => SafeReuse
  <2> SUFFICES ASSUME SafeInv, NEW j \in DOMAIN queue, NEW i \in 1 .. j - 1,
                      NEW b \in (queue[i].past \ queue[j].past) \cap Uses(queue[j]),
                      b \notin queue[i].loose, block[b].stream \in {queue[j].stream, Null}
               PROVE  Ordered(i, j)
    BY DEF SafeReuse
  <2>1. queue \in Seq(Ops)
    BY DEF SafeInv, Safe
  <2>2. i \in DOMAIN queue
    BY <2>1
  <2>3. queue[i] \in Ops /\ queue[j] \in Ops
    BY <2>1, <2>2
  <2>4. queue[i].stream \in Selections /\ queue[j].stream \in Selections
    BY <2>3 DEF Ops
  <2>5. b \in queue[i].past /\ queue[i].past \subseteq Uses(queue[i])
    BY <2>2 DEF SafeInv, Safe
  <2>6. Covered(queue, block, waiting.stream, i, b)
    BY <2>2, <2>5 DEF SafeInv, Safe
  <2>7. queue[i].stream \in {block[b].stream, Null}
    BY <2>5, <2>6 DEF Covered
  <2> QED BY <2>4, <2>7 DEF Ordered, Waits, Selections
<1> QED BY <1>1, SafeAlways, PTL
----------------------------------------------------------------------------
(* The join. *)
LEMMA LastIssued ==
  ASSUME NEW q \in Seq(Ops), NEW s, NEW X, NEW W, s = Null,
         NEW p, p = Append(q, Operation(s, X, W))
  PROVE  p[Len(p)].stream = Null
<1>1. Len(p) = Len(q) + 1 /\ p[Len(q) + 1] = Operation(s, X, W)
  OBVIOUS
<1> QED BY <1>1 DEF Operation

LEMMA JoinStep ==
  ASSUME Blocking = Streams, SafeInv, JoinInv, [Next]_vars
  PROVE  JoinInv'
<1>0. /\ queue \in Seq(Ops)
      /\ \A b : NewLife(b) \in Seq(Ops) \/ b \notin Blocks
  <2>1. queue \in Seq(Ops)
    BY DEF SafeInv, Safe
  <2>2. \A b : NewLife(b) = Aged(queue, b)
    BY DEF NewLife, Aged
  <2> QED BY <2>1, <2>2, Aging
<1> SUFFICES ASSUME waiting'.stream = Null PROVE queue' = <<>> \/ queue'[Len(queue')].stream = Null
  BY DEF JoinInv
<1>1. waiting' # Idle
  BY NoneAssumption DEF Idle, Selections
<1>2. CASE UNCHANGED vars
  BY <1>2 DEF vars, JoinInv
<1>3. CASE Host
  <2>1. waiting = Idle /\ UNCHANGED waiting => FALSE
    BY <1>1
  <2>2. \/ \E b \in Live : copy_from_host(b) \/ copy_logical_to_host(b) \/ clone(b)
        \/ \E X \in Operands : \E first \in X : try_reduce_gpu(X, first)
    BY <1>1, <1>3, <2>1 DEF Host, SynchronizedReturn, Construct, ConstructFrom, Room, Share, Destroy,
       assign, assign_async
  <2>3. ASSUME NEW b \in Live, copy_from_host(b) PROVE queue'[Len(queue')].stream = Null
    <3>1. queue' = Append(queue, Operation(block[b].stream, {}, {b})) /\ waiting'.stream = block[b].stream
      BY <2>3 DEF copy_from_host, Issue
    <3> QED BY <1>0, <3>1, LastIssued
  <2>4. ASSUME NEW b \in Live, copy_logical_to_host(b) PROVE queue'[Len(queue')].stream = Null
    <3>1. queue' = Append(queue, Operation(block[b].stream, {b}, {})) /\ waiting'.stream = block[b].stream
      BY <2>4 DEF copy_logical_to_host, Issue
    <3> QED BY <1>0, <3>1, LastIssued
  <2>5. ASSUME NEW b \in Live, clone(b) PROVE queue'[Len(queue')].stream = Null
    <3>1. PICK new \in Allocatable(block[b].stream) :
            queue' = Append(NewLife(new), Operation(block[b].stream, {b}, {new}))
      BY <2>5 DEF clone
    <3>2. waiting'.stream = block[b].stream
      BY <2>5 DEF clone
    <3>3. NewLife(new) \in Seq(Ops)
      BY <1>0 DEF Allocatable
    <3> QED BY <3>1, <3>2, <3>3, LastIssued
  <2>6. ASSUME NEW X \in Operands, NEW first \in X, try_reduce_gpu(X, first)
        PROVE queue'[Len(queue')].stream = Null
    <3>1. waiting = Idle
      BY <2>6 DEF try_reduce_gpu, Room
    <3>2. queue' = Append(queue, Operation(block[first].stream, X, {})) /\ waiting'.stream = block[first].stream
      BY <1>1, <2>6, <3>1 DEF try_reduce_gpu, Issue
    <3> QED BY <1>0, <3>2, LastIssued
  <2> QED BY <2>2, <2>3, <2>4, <2>5, <2>6
<1>4. ASSUME NEW s \in Selections, Finish(s)
      PROVE  queue' = <<>> \/ queue'[Len(queue')].stream = Null
  <2>1. PICK k \in DOMAIN queue :
          /\ queue[k].stream = s /\ queue' = RemoveAt(queue, k)
          /\ \A j \in 1 .. k - 1 : ~Waits(queue[j].stream, s)
    BY <1>4 DEF Finish
  <2>2. waiting.stream = Null
    BY <1>4 DEF Finish
  <2>3. queue[Len(queue)].stream = Null
    BY <2>1, <2>2 DEF JoinInv
  <2>4. /\ queue' \in Seq(Ops) /\ Len(queue) \in Nat \ {0} /\ k \in 1 .. Len(queue)
        /\ Len(queue') = Len(queue) - 1
        /\ \A j \in k .. Len(queue) - 1 : queue'[j] = queue[j + 1]
    BY <1>0, <2>1, Removal
  <2>5. CASE k = Len(queue)
    <3>1. s = Null
      BY <2>1, <2>3, <2>5
    <3>2. \A j \in DOMAIN queue : queue[j] \in Ops
      BY <1>0
    <3>3. \A j \in DOMAIN queue : Waits(queue[j].stream, Null)
      BY <3>2 DEF Ops, Selections, Waits
    <3>4. k = 1
      <4>1. ASSUME k > 1 PROVE 1 \in 1 .. k - 1 /\ 1 \in DOMAIN queue
        BY <1>0, <2>4, <4>1
      <4> QED BY <2>1, <2>4, <3>1, <3>3, <4>1
    <3>5. Len(queue') = 0
      BY <2>4, <2>5, <3>4
    <3> QED BY <2>4, <3>5
  <2>6. CASE k < Len(queue)
    <3>1. Len(queue') \in k .. Len(queue) - 1 /\ Len(queue') + 1 = Len(queue)
      BY <2>4, <2>6
    <3>2. queue'[Len(queue')] = queue[Len(queue)]
      BY <2>4, <3>1
    <3> QED BY <2>3, <3>2
  <2> QED BY <2>4, <2>5, <2>6
<1> QED BY <1>2, <1>3, <1>4 DEF Next

LEMMA JoinAction ==
  ASSUME SafeInv, JoinInv, [Next]_vars, waiting # Idle, waiting' = Idle, waiting.stream = Null
  PROVE  queue = <<>>
<1>1. SynchronizedReturn
  BY DEF Next, Host, vars, SynchronizedReturn, Construct, ConstructFrom, Room, Share, Destroy, clone,
     copy_from_host, copy_logical_to_host, assign, assign_async, try_reduce_gpu, Finish
<1>2. \A k \in DOMAIN queue : queue[k].stream # Null
  BY <1>1 DEF SynchronizedReturn
<1>3. queue \in Seq(Ops)
  BY DEF SafeInv, Safe
<1>4. ASSUME queue # <<>> PROVE Len(queue) \in DOMAIN queue
  BY <1>3, <1>4
<1> QED BY <1>2, <1>4 DEF JoinInv

(* A call that waits on the default stream returns when nothing at all is  *)
(* pending: while it waits, the last operation is its own, on the default  *)
(* stream, and that one finishes after every other.                        *)
THEOREM StreamsJoin ==
  ASSUME Blocking = Streams
  PROVE  Spec => DefaultStreamJoins
<1>1. Init => JoinInv
  BY DEF Init, JoinInv
<1>2. SafeInv /\ JoinInv /\ [Next]_vars => JoinInv'
  BY JoinStep
<1>3. SafeInv /\ JoinInv /\ [Next]_vars =>
        [waiting # Idle /\ waiting' = Idle /\ waiting.stream = Null =>
           \A k \in DOMAIN queue : queue[k].writes \cap waiting.reads = {}]_vars
  <2> SUFFICES ASSUME SafeInv, JoinInv, [Next]_vars,
                      waiting # Idle, waiting' = Idle, waiting.stream = Null
               PROVE  \A k \in DOMAIN queue : queue[k].writes \cap waiting.reads = {}
    OBVIOUS
  <2>1. queue = <<>>
    BY JoinAction
  <2> QED BY <2>1
<1> QED BY <1>1, <1>2, <1>3, SafeAlways, PTL DEF Spec, DefaultStreamJoins
=============================================================================
