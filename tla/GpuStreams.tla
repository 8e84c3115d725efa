----------------------------- MODULE GpuStreams -----------------------------
(***************************************************************************)
(* GPU tensors, their storage and the streams that use it, as one host     *)
(* thread sees them (include/terminals/tensor.h): the host only issues     *)
(* operations, and may destroy a tensor, or build another, while kernels   *)
(* on several streams still have to read or write.  The stream of a call   *)
(* is the tensor's own, the caller's, or the ambient one, which may be any *)
(* (StreamGuard models how guards select it, and nothing here depends on   *)
(* what was selected before): an input of the call.                        *)
(*                                                                         *)
(* External: the caching allocator and the device.  A freed block goes     *)
(* back to the pool of the stream it was allocated on, and is handed out   *)
(* there at once; if other streams were recorded on it, only after an      *)
(* event on each.  A stream runs its operations in order; the legacy       *)
(* default stream waits for the blocking streams, and they for it.         *)
(***************************************************************************)
EXTENDS Naturals, Sequences, FiniteSets, SequencesExt, Functions

CONSTANTS Blocks,    \* blocks of device memory
          Streams,   \* streams the caller created
          Null,      \* the default stream
          Blocking,  \* the streams created to synchronise with the default one
          Homes,     \* the streams that tensors are constructed on
          None,      \* no stream
          MaxTensors,  \* bound: tensors and views alive at once
          MaxOperands, \* bound: blocks that an expression reads
          MaxQueue     \* bound: pending operations when the host issues another

Selections == Streams \cup {Null}

ASSUME StreamsAssumption ==
  Null \notin Streams /\ Blocking \subseteq Streams /\ Homes \subseteq Selections
ASSUME NoneAssumption == None \notin Selections
ASSUME BoundsAssumption == {MaxTensors, MaxOperands, MaxQueue} \subseteq Nat

VARIABLES
  tensors,  \* block -> how many tensors and views retain it
  block,    \* block -> [free, stream, recorded]: the allocator's books
  queue,    \* issued and not finished: kernels, copies and events, in order
  waiting   \* what the host waits for: a stream, and the blocks it reads
vars == <<tensors, block, queue, waiting>>

Idle == [stream |-> None, reads |-> {}]
Uses(e) == e.reads \cup e.writes
Operation(s, reads, writes) ==
  [stream |-> s, reads |-> reads, writes |-> writes,
   holds |-> {},      \* the block that an event keeps from being recycled
   past |-> {},       \* ghost: blocks whose use here belongs to an earlier life
   loose |-> {}]      \* ghost: blocks that an exception left unrecorded
Event(s, b) == [Operation(s, {}, {}) EXCEPT !.holds = {b}]

Live == {b \in Blocks : tensors[b] > 0}
Held(b) == \E k \in DOMAIN queue : b \in queue[k].holds

TypeOK ==
  /\ tensors \in [Blocks -> Nat]
  /\ block \in [Blocks -> [free : BOOLEAN, stream : Selections \cup {None}, recorded : SUBSET Selections]]
  /\ \A b \in Live : ~block[b].free
  /\ \A k \in DOMAIN queue :
       /\ queue[k].stream \in Selections
       /\ \A b \in queue[k].holds : block[b].free
  /\ waiting.stream \in Selections \cup {None}

Init ==
  /\ tensors = [b \in Blocks |-> 0]
  /\ block = [b \in Blocks |-> [free |-> TRUE, stream |-> None, recorded |-> {}]]
  /\ queue = <<>> /\ waiting = Idle
----------------------------------------------------------------------------
(* The allocator.                                                          *)

\* Mutant: nobody records the streams.
NeverRecorded(books, B, s) == books

\* record_stream on a set of blocks; a block's own stream needs no record.
record_stream(books, B, s) ==
  [b \in Blocks |-> IF b \in B /\ books[b].stream # s
                    THEN [books[b] EXCEPT !.recorded = @ \cup {s}] ELSE books[b]]
Unrecorded(books, B, s) == {b \in B : s \notin books[b].recorded \cup {books[b].stream}}

\* Blocks an allocation on stream s may return: of its pool, or never used.
Allocatable(s) == {b \in Blocks : block[b].free /\ ~Held(b) /\ block[b].stream \in {s, None}}
Taken(books, b, s) == [books EXCEPT ![b] = [free |-> FALSE, stream |-> s, recorded |-> {}]]
\* The pending uses of b belong to its last life.
NewLife(b) ==
  [k \in DOMAIN queue |-> IF b \in Uses(queue[k]) THEN [queue[k] EXCEPT !.past = @ \cup {b}]
                          ELSE queue[k]]

Freed(books, b) == [books EXCEPT ![b] = [free |-> TRUE, stream |-> @.stream, recorded |-> {}]]
Events(b) ==
  LET others == SetToSeq(block[b].recorded)
  IN  [k \in DOMAIN others |-> Event(others[k], b)]
----------------------------------------------------------------------------
(* The host.  Every call starts when no other waits for the device.        *)
Room == waiting = Idle /\ Len(queue) < MaxQueue
More(b) ==
  /\ SumFunction(tensors) < MaxTensors
  /\ tensors' = [tensors EXCEPT ![b] = @ + 1]
Issue(e) == queue' = Append(queue, e)

\* A constructor that is given dimensions, and a stream or the default one.
Construct(s) ==
  /\ waiting = Idle
  /\ \E b \in Allocatable(s) : More(b) /\ block' = Taken(block, b, s) /\ queue' = NewLife(b)
  /\ UNCHANGED waiting

\* resolve_ambient_stream: the operands are recorded, unless on the default stream.
Resolved(X, s) == IF s = Null THEN block ELSE record_stream(block, X, s)

\* init_from_expression.  Whatever throws after the stream was resolved leaves
\* the recording; after the launch, the new block goes back to its pool.
ConstructFrom(X, s) ==
  /\ Room
  /\ \/ \E b \in Allocatable(s) :
          /\ queue' = Append(NewLife(b), Operation(s, X, {b}))
          /\ \/ More(b) /\ block' = Taken(Resolved(X, s), b, s)
             \/ block' = Freed(Taken(Resolved(X, s), b, s), b) /\ UNCHANGED tensors
     \/ block' = Resolved(X, s) /\ UNCHANGED <<tensors, queue>>
  /\ UNCHANGED waiting

\* assign, and operator=(scalar) when there is no operand.  The overlap check
\* and the launch may throw after the operands were recorded; an error that
\* an earlier launch left throws after this one was issued.
assign(b, X, s) ==
  LET books == Resolved(X, s)
      e == Operation(s, X, {b})
  IN  /\ Room
      /\ \/ Issue(e) /\ block' = IF s = Null THEN books ELSE record_stream(books, {b}, s)
         \/ Issue([e EXCEPT !.loose = Unrecorded(books, {b}, s)]) /\ block' = books
         \/ UNCHANGED queue /\ block' = books
      /\ UNCHANGED <<tensors, waiting>>

\* assign_async, and fill_async and the asynchronous copy_from_host when there
\* is no operand: the caller's stream is recorded, even the default one.
assign_async(b, X, s) ==
  LET books == record_stream(block, X, s)
      e == Operation(s, X, {b})
  IN  /\ Room
      /\ \/ Issue(e) /\ block' = record_stream(books, {b}, s)
         \/ Issue([e EXCEPT !.loose = Unrecorded(books, {b}, s)]) /\ block' = books
         \/ UNCHANGED queue /\ block' = books
      /\ UNCHANGED <<tensors, waiting>>

\* Views and view copies retain the storage.
Share(b) ==
  /\ waiting = Idle /\ More(b)
  /\ UNCHANGED <<block, queue, waiting>>

\* Mutant: the block is freed with the tensor, views or not.
DestroyStorage(b) ==
  /\ waiting = Idle /\ tensors' = [tensors EXCEPT ![b] = @ - 1]
  /\ block' = Freed(block, b) /\ queue' = queue \o Events(b)
  /\ UNCHANGED waiting

\* Mutant: the storage of a tensor is never given back.
DestroyLeaks(b) ==
  /\ waiting = Idle /\ tensors' = [tensors EXCEPT ![b] = @ - 1]
  /\ UNCHANGED <<block, queue, waiting>>

\* The last owner frees the block.
Destroy(b) ==
  /\ waiting = Idle /\ tensors' = [tensors EXCEPT ![b] = @ - 1]
  /\ IF tensors[b] = 1 THEN block' = Freed(block, b) /\ queue' = queue \o Events(b)
     ELSE UNCHANGED <<block, queue>>
  /\ UNCHANGED waiting

\* copy_sync on the tensor's own stream: from the host, to the host, to a clone
\* (whose strided case is a copy to the host, and one from it).
copy_from_host(b) ==
  /\ Room /\ Issue(Operation(block[b].stream, {}, {b}))
  /\ waiting' = [stream |-> block[b].stream, reads |-> {}]
  /\ UNCHANGED <<tensors, block>>

\* Mutant: the copy is issued on the tensor's stream, the default one is waited for.
WaitForDefault(b) ==
  /\ Room /\ Issue(Operation(block[b].stream, {b}, {}))
  /\ waiting' = [stream |-> Null, reads |-> {b}]
  /\ UNCHANGED <<tensors, block>>

copy_logical_to_host(b) ==
  /\ Room /\ Issue(Operation(block[b].stream, {b}, {}))
  /\ waiting' = [stream |-> block[b].stream, reads |-> {b}]
  /\ UNCHANGED <<tensors, block>>

clone(b) ==
  LET s == block[b].stream
  IN  /\ Room
      /\ \E new \in Allocatable(s) :
           /\ More(new) /\ block' = Taken(block, new, s)
           /\ queue' = Append(NewLife(new), Operation(s, {b}, {new}))
      /\ waiting' = [stream |-> s, reads |-> {b}]

\* try_reduce_gpu: on the stream of the first operand; nothing is recorded,
\* and the host waits, unless a later pass of the reduction throws.
try_reduce_gpu(X, first) ==
  LET s == block[first].stream
  IN  /\ Room
      /\ \/ /\ Issue(Operation(s, X, {}))
            /\ waiting' = [stream |-> s, reads |-> X]
         \/ /\ Issue([Operation(s, X, {}) EXCEPT !.loose = Unrecorded(block, X, s)])
            /\ UNCHANGED waiting
      /\ UNCHANGED <<tensors, block>>

SynchronizedReturn ==
  /\ waiting # Idle /\ waiting' = Idle
  /\ \A k \in DOMAIN queue : queue[k].stream # waiting.stream
  /\ UNCHANGED <<tensors, block, queue>>

Operands == {X \in SUBSET Live : Cardinality(X) \in 1 .. MaxOperands}

Host ==
  \/ SynchronizedReturn
  \/ \E s \in Homes : Construct(s) \/ \E X \in Operands : ConstructFrom(X, s)
  \/ \E b \in Live :
       \/ Share(b) \/ Destroy(b) \/ clone(b)
       \/ copy_from_host(b) \/ copy_logical_to_host(b)
       \/ \E X \in Operands \cup {{}}, s \in Selections : assign(b, X, s) \/ assign_async(b, X, s)
  \/ \E X \in Operands : \E first \in X : try_reduce_gpu(X, first)
----------------------------------------------------------------------------
(* The device.                                                             *)

\* Does an operation on stream t, issued later, wait for one on stream s?
Waits(s, t) == s = t \/ (s = Null /\ t \in Blocking) \/ (t = Null /\ s \in Blocking)

\* The oldest operation of stream s finishes.
Finish(s) ==
  /\ \E k \in DOMAIN queue :
       /\ queue[k].stream = s
       /\ \A j \in 1 .. k - 1 : ~Waits(queue[j].stream, s)
       /\ queue' = RemoveAt(queue, k)
  /\ UNCHANGED <<tensors, block, waiting>>

Next == Host \/ \E s \in Selections : Finish(s)

\* Every stream makes progress.  Nothing makes the program issue calls, or end.
Fairness == \A s \in Selections : WF_vars(Finish(s))

Spec == Init /\ [][Next]_vars /\ Fairness
----------------------------------------------------------------------------
Ordered(i, j) ==
  \/ Waits(queue[i].stream, queue[j].stream)
  \/ \E k \in i + 1 .. j - 1 : /\ Waits(queue[i].stream, queue[k].stream)
                               /\ Waits(queue[k].stream, queue[j].stream)

(* "The caching allocator won't recycle their storage until that stream's  *)
(* work completes": an operation on the new contents of a block runs after *)
(* every operation on its old contents that is still pending and conflicts *)
(* with it, on whatever streams that was issued.  Its own stream must be   *)
(* the one the block was allocated on, unless that is the default stream:  *)
(* nothing orders another stream after the pool's.  An exception may leave *)
(* a block in use and unrecorded.  And streams must synchronise with the   *)
(* default one, because uses on the default stream are not recorded.       *)
SafeReuse ==
  \A j \in DOMAIN queue : \A i \in 1 .. j - 1 :
    \A b \in (queue[i].past \ queue[j].past) \cap Uses(queue[j]) :
      /\ b \in (queue[i].writes \cup queue[j].writes) \ queue[i].loose
      /\ block[b].stream \in {queue[j].stream, Null}
      => Ordered(i, j)

(* A call that waits on the default stream is a join point: when it        *)
(* returns, nothing issued before is still writing what it read, whatever  *)
(* stream it was issued on (the comments of assign_async and               *)
(* copy_from_host).  On another stream it is not.                          *)
DefaultStreamJoins ==
  [][waiting # Idle /\ waiting' = Idle /\ waiting.stream = Null =>
       \A k \in DOMAIN queue : queue[k].writes \cap waiting.reads = {}]_vars

(* Storage nobody retains comes back to its pool: recordings, those of     *)
(* rejected assignments too, delay a block and never keep it.              *)
Recycled == \A b \in Blocks : b \notin Live ~> (b \in Live \/ (block[b].free /\ ~Held(b)))
=============================================================================
