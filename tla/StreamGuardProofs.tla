------------------------- MODULE StreamGuardProofs -------------------------
(***************************************************************************)
(* Proofs about StreamGuard: the map entry of a live guard is always there *)
(* and counts the live guards, and nested guards implement the stack of    *)
(* selections, for any devices, streams and number of guards.              *)
(***************************************************************************)
EXTENDS StreamGuard, TLAPS

(* The inductive invariant of the map: types, pinning, no idle entry. *)
IInv == TypeOK /\ GuardsPinned /\ NoIdleEntry

(* With sets d's entry and leaves the others alone. *)
LEMMA WithType ==
  ASSUME TypeOK, NEW d \in Devices, NEW e \in StreamState
  PROVE  /\ DOMAIN With(d, e) \subseteq Devices
         /\ With(d, e) \in [DOMAIN With(d, e) -> StreamState]
         /\ DOMAIN With(d, e) = DOMAIN streams \cup {d}
         /\ With(d, e)[d] = e
         /\ \A x \in DOMAIN streams : x # d => With(d, e)[x] = streams[x]
BY DEF TypeOK, With

(* Erased drops d's entry and leaves the others alone. *)
LEMMA ErasedType ==
  ASSUME TypeOK, NEW d \in Devices
  PROVE  /\ DOMAIN Erased(d) \subseteq Devices
         /\ Erased(d) \in [DOMAIN Erased(d) -> StreamState]
         /\ DOMAIN Erased(d) = DOMAIN streams \ {d}
         /\ \A x \in DOMAIN Erased(d) : Erased(d)[x] = streams[x]
BY DEF TypeOK, Erased

(* Entry and current_stream are well typed. *)
LEMMA EntryType ==
  ASSUME TypeOK, NEW d \in Devices
  PROVE  Entry(d) \in StreamState /\ current_stream(d) \in Selections
BY DEF TypeOK, Entry, current_stream, StreamState, Selections

(* Removing one element of a non-empty sequence. *)
LEMMA WithoutType ==
  ASSUME NEW q \in Seq(Selections), NEW i \in 1 .. Len(q)
  PROVE  Without(q, i) \in Seq(Selections) /\ Len(Without(q, i)) = Len(q) - 1
<1>1. Len(q) - 1 \in Nat OBVIOUS
<1>2. Without(q, i) \in [1 .. Len(q) - 1 -> Selections]
  BY DEF Without
<1> QED BY <1>1, <1>2 DEF Without

(* Initially no entry and no guard. *)
LEMMA InitIInv == Init => IInv
BY DEF Init, IInv, TypeOK, GuardsPinned, NoIdleEntry, StreamState

(* A step that writes d's entry and changes at most d's guards preserves   *)
(* the invariant when the entry counts d's guards and is not idle.         *)
LEMMA EntryWritten ==
  ASSUME IInv, NEW d \in Devices, NEW e \in StreamState,
         streams' = With(d, e),
         guards' \in [Devices -> Seq(Selections)],
         \A x \in Devices : x # d => guards'[x] = guards[x],
         e.guards = Len(guards'[d]),
         e.guards = 0 => e.stream # Null
  PROVE  IInv'
<1>1. /\ DOMAIN streams' = DOMAIN streams \cup {d}
      /\ DOMAIN streams' \subseteq Devices
      /\ streams' \in [DOMAIN streams' -> StreamState]
      /\ streams'[d] = e
      /\ \A x \in DOMAIN streams : x # d => streams'[x] = streams[x]
  BY WithType DEF IInv
<1>2. TypeOK'
  BY <1>1 DEF TypeOK
<1>3. GuardsPinned'
  BY <1>1 DEF GuardsPinned, IInv
<1>4. NoIdleEntry'
  <2> SUFFICES ASSUME NEW x \in DOMAIN streams', streams'[x].guards = 0
               PROVE  streams'[x].stream # Null
    BY DEF NoIdleEntry
  <2>1. CASE x = d
    BY <2>1, <1>1
  <2>2. CASE x # d
    BY <2>2, <1>1 DEF IInv, NoIdleEntry
  <2> QED BY <2>1, <2>2
<1> QED BY <1>2, <1>3, <1>4 DEF IInv

LEMMA SetPreserves ==
  ASSUME IInv, NEW d \in Devices, NEW s \in Selections, set_current_stream(d, s)
  PROVE  IInv'
<1> USE DEF IInv
<1>1. CASE s # Null
  <2> DEFINE e == [Entry(d) EXCEPT !.stream = s]
  <2>1. e \in StreamState /\ e.stream = s /\ e.guards = Entry(d).guards
    BY EntryType DEF StreamState
  <2>2. streams' = With(d, e) /\ guards' = guards
    BY <1>1 DEF set_current_stream
  <2>3. e.guards = Len(guards[d])
    BY <2>1 DEF Entry, GuardsPinned, TypeOK
  <2> HIDE DEF e
  <2> QED BY <1>1, <2>1, <2>2, <2>3, EntryWritten DEF TypeOK
<1>2. CASE s = Null /\ streams[d].guards = 0
  <2>1. d \in DOMAIN streams /\ streams' = Erased(d) /\ guards' = guards
    BY <1>2 DEF set_current_stream
  <2>2. guards[d] = <<>>
    BY <1>2, <2>1 DEF GuardsPinned, TypeOK
  <2> QED BY <2>1, <2>2, ErasedType DEF TypeOK, GuardsPinned, NoIdleEntry
<1>3. CASE s = Null /\ streams[d].guards # 0
  <2> DEFINE e == [streams[d] EXCEPT !.stream = Null]
  <2>1. d \in DOMAIN streams /\ streams' = With(d, e) /\ guards' = guards
    BY <1>3 DEF set_current_stream
  <2>2. e \in StreamState /\ e.guards = streams[d].guards
    BY <2>1 DEF TypeOK, StreamState, Selections
  <2> HIDE DEF e
  <2>3. e.guards = Len(guards[d]) /\ e.guards # 0
    BY <1>3, <2>1, <2>2 DEF GuardsPinned
  <2> QED BY <2>1, <2>2, <2>3, EntryWritten DEF TypeOK
<1> QED BY <1>1, <1>2, <1>3

LEMMA ConstructPreserves ==
  ASSUME IInv, NEW d \in Devices, NEW s \in Selections, ConstructGuard(d, s)
  PROVE  IInv'
<1> USE DEF IInv
<1> DEFINE e == [stream |-> s, guards |-> Entry(d).guards + 1]
<1>1. e \in StreamState /\ e.guards = Entry(d).guards + 1
  BY EntryType DEF StreamState
<1>2. streams' = With(d, e) /\ guards' = [guards EXCEPT ![d] = Append(@, current_stream(d))]
  BY DEF ConstructGuard
<1>3. Entry(d).guards = Len(guards[d])
  BY DEF Entry, GuardsPinned, TypeOK
<1>4. /\ guards' \in [Devices -> Seq(Selections)]
      /\ Len(guards'[d]) = Len(guards[d]) + 1
      /\ \A x \in Devices : x # d => guards'[x] = guards[x]
  BY <1>2, EntryType DEF TypeOK
<1>5. e.guards = Len(guards'[d]) /\ e.guards # 0
  BY <1>1, <1>3, <1>4 DEF TypeOK
<1> HIDE DEF e
<1> QED BY <1>1, <1>2, <1>4, <1>5, EntryWritten

LEMMA DestroyPreserves ==
  ASSUME IInv, NEW d \in Devices, NEW i \in 1 .. Len(guards[d]), DestroyGuard(d, i)
  PROVE  IInv'
<1> USE DEF IInv
<1> DEFINE prev == guards[d][i]
           left == Entry(d).guards - 1
           e == [stream |-> prev, guards |-> left]
<1>1. guards[d] \in Seq(Selections) /\ guards[d] # <<>> /\ Len(guards[d]) > 0
  BY DEF TypeOK
<1>2. prev \in Selections
  BY <1>1
<1>3. d \in DOMAIN streams /\ left = Len(guards[d]) - 1 /\ left \in Nat
  BY <1>1 DEF GuardsPinned, Entry
<1>4. guards' = [guards EXCEPT ![d] = Without(@, i)]
  BY DEF DestroyGuard
<1>5. /\ guards' \in [Devices -> Seq(Selections)]
      /\ Len(guards'[d]) = left
      /\ \A x \in Devices : x # d => guards'[x] = guards[x]
  BY <1>1, <1>3, <1>4, WithoutType DEF TypeOK
<1>6. CASE left = 0 /\ prev = Null
  <2>1. streams' = Erased(d)
    BY <1>6 DEF DestroyGuard
  <2>2. guards'[d] = <<>>
    BY <1>5, <1>6
  <2> QED BY <2>1, <2>2, <1>5, ErasedType DEF TypeOK, GuardsPinned, NoIdleEntry
<1>7. CASE ~(left = 0 /\ prev = Null)
  <2>1. streams' = With(d, e)
    BY <1>7 DEF DestroyGuard
  <2>2. e \in StreamState /\ e.guards = left /\ e.stream = prev
    BY <1>2, <1>3 DEF StreamState
  <2> HIDE DEF e, prev, left
  <2> QED BY <1>3, <1>5, <1>7, <2>1, <2>2, EntryWritten
<1> QED BY <1>6, <1>7

LEMMA StepIInv == IInv /\ [Next]_vars => IInv'
<1> SUFFICES ASSUME IInv, [Next]_vars PROVE IInv'
  OBVIOUS
<1>1. CASE UNCHANGED vars
  BY <1>1 DEF vars, IInv, TypeOK, GuardsPinned, NoIdleEntry
<1>2. CASE Next
  BY <1>2, SetPreserves, ConstructPreserves, DestroyPreserves DEF Next
<1> QED BY <1>1, <1>2

(* Every behaviour of the guards and the setters keeps the invariant. *)
LEMMA SpecIInv == Spec => []IInv
BY InitIInv, StepIInv, PTL DEF Spec

(* The map holds stream states on devices only, and a guard remembers a    *)
(* selection: ~stream_guard restores a stream that somebody had selected.  *)
THEOREM GuardTyping == Spec => []TypeOK
<1>1. IInv => TypeOK
  BY DEF IInv
<1> QED BY <1>1, SpecIInv, PTL

(* Whatever the order in which guards end and whatever streams are set in  *)
(* between, a live guard's entry is in the map and counts the live guards  *)
(* (~stream_guard may dereference find() unchecked).                       *)
THEOREM GuardSafety == Spec => []GuardsPinned
<1>1. IInv => GuardsPinned
  BY DEF IInv
<1> QED BY <1>1, SpecIInv, PTL

(* An entry that no guard pins selects a stream: set_current_stream and    *)
(* ~stream_guard leave no idle entry in the map.                           *)
THEOREM GuardNoIdle == Spec => []NoIdleEntry
<1>1. IInv => NoIdleEntry
  BY DEF IInv
<1> QED BY <1>1, SpecIInv, PTL
----------------------------------------------------------------------------
(* Writing or erasing d's entry changes the ambient stream of d only. *)
LEMMA CurrentWritten ==
  ASSUME TypeOK, NEW d \in Devices, NEW e \in StreamState, streams' = With(d, e)
  PROVE  /\ current_stream(d)' = e.stream
         /\ \A x \in Devices : x # d => current_stream(x)' = current_stream(x)
<1>1. /\ DOMAIN streams' = DOMAIN streams \cup {d}
      /\ streams'[d] = e
      /\ \A x \in DOMAIN streams : x # d => streams'[x] = streams[x]
  BY WithType
<1> QED BY <1>1 DEF current_stream

LEMMA CurrentErased ==
  ASSUME TypeOK, NEW d \in Devices, streams' = Erased(d)
  PROVE  /\ current_stream(d)' = Null
         /\ \A x \in Devices : x # d => current_stream(x)' = current_stream(x)
<1>1. /\ DOMAIN streams' = DOMAIN streams \ {d}
      /\ \A x \in DOMAIN streams' : streams'[x] = streams[x]
  BY ErasedType
<1> QED BY <1>1 DEF current_stream

Ambient == [d \in Scoped |-> Append(guards[d], current_stream(d))]

(* A step on scoped device d changes the abstract stack of d only. *)
LEMMA AmbientUpdate ==
  ASSUME TypeOK, NEW d \in Scoped, NEW q, NEW c,
         guards' = [guards EXCEPT ![d] = q],
         current_stream(d)' = c,
         \A x \in Devices : x # d => current_stream(x)' = current_stream(x)
  PROVE  Ambient' = [Ambient EXCEPT ![d] = Append(q, c)]
BY ScopedAssumption DEF Ambient, TypeOK

LEMMA SetRefines ==
  ASSUME IInv, NEW d \in Scoped, NEW s \in Selections, set_current_stream(d, s)
  PROVE  Ambient' = [Ambient EXCEPT ![d][Len(Ambient[d])] = s]
<1>0. d \in Devices
  BY ScopedAssumption
<1> USE <1>0
<1>1. /\ current_stream(d)' = s
      /\ \A x \in Devices : x # d => current_stream(x)' = current_stream(x)
  <2>1. CASE s # Null
    <3>1. streams' = With(d, [Entry(d) EXCEPT !.stream = s])
      BY <2>1 DEF set_current_stream
    <3>2. [Entry(d) EXCEPT !.stream = s] \in StreamState
      BY EntryType DEF IInv, StreamState
    <3>3. [Entry(d) EXCEPT !.stream = s].stream = s
      BY EntryType DEF IInv, StreamState
    <3> QED BY <3>1, <3>2, <3>3, CurrentWritten DEF IInv
  <2>2. CASE s = Null /\ streams[d].guards = 0
    BY <2>2, CurrentErased DEF IInv, set_current_stream
  <2>3. CASE s = Null /\ streams[d].guards # 0
    <3>1. d \in DOMAIN streams /\ streams' = With(d, [streams[d] EXCEPT !.stream = Null])
      BY <2>3 DEF set_current_stream
    <3>2. [streams[d] EXCEPT !.stream = Null] \in StreamState
      BY <3>1 DEF IInv, TypeOK, StreamState, Selections
    <3>3. [streams[d] EXCEPT !.stream = Null].stream = Null
      BY <3>1 DEF IInv, TypeOK, StreamState
    <3> QED BY <2>3, <3>1, <3>2, <3>3, CurrentWritten DEF IInv
  <2> QED BY <2>1, <2>2, <2>3
<1>2. guards' = [guards EXCEPT ![d] = guards[d]] /\ guards[d] \in Seq(Selections)
  BY DEF set_current_stream, IInv, TypeOK
<1>3. Ambient' = [Ambient EXCEPT ![d] = Append(guards[d], s)]
  BY <1>1, <1>2, AmbientUpdate DEF IInv
<1>4. Ambient[d] = Append(guards[d], current_stream(d)) /\ current_stream(d) \in Selections
  BY EntryType DEF Ambient, IInv
<1>5. [Ambient[d] EXCEPT ![Len(Ambient[d])] = s] = Append(guards[d], s)
  <2> DEFINE q == guards[d]
             a == Append(q, current_stream(d))
             b == [a EXCEPT ![Len(a)] = s]
             c == Append(q, s)
  <2>1. a \in Seq(Selections) /\ Len(a) = Len(q) + 1 /\ \A j \in 1 .. Len(q) : a[j] = q[j]
    BY <1>2, <1>4
  <2>2. c \in Seq(Selections) /\ Len(c) = Len(q) + 1 /\ c[Len(q) + 1] = s
        /\ \A j \in 1 .. Len(q) : c[j] = q[j]
    BY <1>2
  <2>3. Len(q) \in Nat
    BY <1>2
  <2> HIDE DEF q, a, c
  <2>4. DOMAIN b = 1 .. Len(q) + 1 /\ \A j \in 1 .. Len(q) + 1 : b[j] = c[j]
    BY <2>1, <2>2, <2>3
  <2>5. b = c
    BY <2>1, <2>2, <2>3, <2>4
  <2> QED BY <2>5, <1>4 DEF a, b, c, q
<1> QED BY <1>3, <1>5 DEF Ambient

LEMMA ConstructRefines ==
  ASSUME IInv, NEW d \in Scoped, NEW s \in Selections, ConstructGuard(d, s)
  PROVE  Ambient' = [Ambient EXCEPT ![d] = Append(@, s)]
<1>0. d \in Devices
  BY ScopedAssumption
<1> USE <1>0
<1> DEFINE e == [stream |-> s, guards |-> Entry(d).guards + 1]
<1>1. e \in StreamState /\ e.stream = s
  BY EntryType DEF StreamState, IInv
<1>2. streams' = With(d, e) /\ guards' = [guards EXCEPT ![d] = Append(guards[d], current_stream(d))]
  BY DEF ConstructGuard
<1> HIDE DEF e
<1>3. /\ current_stream(d)' = s
      /\ \A x \in Devices : x # d => current_stream(x)' = current_stream(x)
  BY <1>1, <1>2, CurrentWritten DEF IInv
<1>4. Ambient' = [Ambient EXCEPT ![d] = Append(Append(guards[d], current_stream(d)), s)]
  BY <1>2, <1>3, AmbientUpdate DEF IInv
<1> QED BY <1>4 DEF Ambient

LEMMA DestroyRefines ==
  ASSUME IInv, NEW d \in Scoped, NEW i \in 1 .. Len(guards[d]), DestroyGuard(d, i)
  PROVE  /\ Len(Ambient[d]) > 1
         /\ Ambient' = [Ambient EXCEPT ![d] = SubSeq(@, 1, Len(@) - 1)]
<1>0. d \in Devices
  BY ScopedAssumption
<1> USE <1>0
<1> DEFINE q == guards[d]
           prev == guards[d][i]
           left == Entry(d).guards - 1
           e == [stream |-> prev, guards |-> left]
<1>1. q \in Seq(Selections) /\ q # <<>> /\ i = Len(q) /\ Len(q) \in Nat \ {0}
  BY DEF IInv, TypeOK, DestroyGuard
<1>2. prev \in Selections
  BY <1>1
<1>3. d \in DOMAIN streams /\ left = Len(q) - 1 /\ left \in Nat
  BY <1>1 DEF IInv, GuardsPinned, Entry
<1>4. guards' = [guards EXCEPT ![d] = Without(q, i)]
  BY DEF DestroyGuard
<1>5. /\ current_stream(d)' = prev
      /\ \A x \in Devices : x # d => current_stream(x)' = current_stream(x)
  <2>1. CASE left = 0 /\ prev = Null
    BY <2>1, CurrentErased DEF DestroyGuard, IInv
  <2>2. CASE ~(left = 0 /\ prev = Null)
    <3>1. streams' = With(d, e)
      BY <2>2 DEF DestroyGuard
    <3>2. e \in StreamState /\ e.stream = prev
      BY <1>2, <1>3 DEF StreamState
    <3> HIDE DEF e, prev, left, q
    <3> QED BY <3>1, <3>2, CurrentWritten DEF IInv
  <2> QED BY <2>1, <2>2
<1>6. Ambient' = [Ambient EXCEPT ![d] = Append(Without(q, i), prev)]
  BY <1>4, <1>5, AmbientUpdate DEF IInv
<1>7. Append(Without(q, i), prev) = q
  <2>1. Without(q, i) \in Seq(Selections) /\ Len(Without(q, i)) = Len(q) - 1
    BY <1>1, WithoutType
  <2>2. \A j \in 1 .. Len(q) - 1 : Without(q, i)[j] = q[j]
    BY <1>1 DEF Without
  <2> HIDE DEF q, prev
  <2>3. Append(Without(q, i), prev) \in Seq(Selections)
    BY <2>1, <1>2
  <2>4. Len(Append(Without(q, i), prev)) = Len(q)
    BY <2>1, <1>1
  <2>5. \A j \in 1 .. Len(q) : Append(Without(q, i), prev)[j] = q[j]
    BY <2>1, <2>2, <1>1, <1>2 DEF prev, q
  <2> QED BY <1>1, <2>3, <2>4, <2>5
<1>8. current_stream(d) \in Selections /\ Ambient[d] = Append(q, current_stream(d))
  BY EntryType DEF Ambient, IInv
<1>9. Len(Ambient[d]) > 1 /\ SubSeq(Ambient[d], 1, Len(Ambient[d]) - 1) = q
  BY <1>1, <1>8
<1> QED BY <1>6, <1>7, <1>9

(* A step on another device leaves the scoped stacks alone. *)
LEMMA OtherRefines ==
  ASSUME IInv, NEW d \in Devices, d \notin Scoped, NEW q,
         guards' = [guards EXCEPT ![d] = q],
         (\E e \in StreamState : streams' = With(d, e)) \/ streams' = Erased(d)
  PROVE  Ambient' = Ambient
<1>1. \A x \in Devices : x # d => current_stream(x)' = current_stream(x)
  BY CurrentWritten, CurrentErased DEF IInv
<1>2. \A x \in Scoped : guards'[x] = guards[x] /\ current_stream(x)' = current_stream(x)
  BY <1>1, ScopedAssumption DEF IInv, TypeOK
<1> QED BY <1>2 DEF Ambient

LEMMA OtherSteps ==
  ASSUME IInv, NEW d \in Devices, d \notin Scoped,
         \/ \E s \in Selections : set_current_stream(d, s) \/ ConstructGuard(d, s)
         \/ \E i \in 1 .. Len(guards[d]) : DestroyGuard(d, i)
  PROVE  Ambient' = Ambient
<1>1. ASSUME NEW s \in Selections, set_current_stream(d, s) PROVE Ambient' = Ambient
  <2>1. guards' = [guards EXCEPT ![d] = guards[d]]
    BY <1>1 DEF set_current_stream, IInv, TypeOK
  <2>2. [Entry(d) EXCEPT !.stream = s] \in StreamState
    BY EntryType DEF IInv, StreamState
  <2>3. s = Null => [streams[d] EXCEPT !.stream = Null] \in StreamState \/ streams' = Erased(d)
    BY <1>1 DEF set_current_stream, IInv, TypeOK, StreamState, Selections
  <2> QED BY <1>1, <2>1, <2>2, <2>3, OtherRefines DEF set_current_stream
<1>2. ASSUME NEW s \in Selections, ConstructGuard(d, s) PROVE Ambient' = Ambient
  <2>1. [stream |-> s, guards |-> Entry(d).guards + 1] \in StreamState
    BY EntryType DEF IInv, StreamState
  <2> QED BY <1>2, <2>1, OtherRefines DEF ConstructGuard
<1>3. ASSUME NEW i \in 1 .. Len(guards[d]), DestroyGuard(d, i) PROVE Ambient' = Ambient
  <2>1. guards[d][i] \in Selections /\ guards[d] # <<>>
    BY <1>3 DEF IInv, TypeOK
  <2>2. Entry(d).guards - 1 \in Nat
    BY <2>1 DEF IInv, TypeOK, GuardsPinned, Entry
  <2>3. [stream |-> guards[d][i], guards |-> Entry(d).guards - 1] \in StreamState
    BY <2>1, <2>2 DEF StreamState
  <2> QED BY <1>3, <2>3, OtherRefines DEF DestroyGuard
<1> QED BY <1>1, <1>2, <1>3

(* Guards that end innermost first (the scopes of stream_guard.h) implement *)
(* the stack of selections of AmbientStream, for any number of guards, and  *)
(* whatever the guards of the other devices do.                             *)
THEOREM GuardRefinement == Spec => ImplementsStack
<1>1. Init => Abstract!Init
  <2> SUFFICES ASSUME Init PROVE Abstract!Init
    OBVIOUS
  <2>1. \A d \in Scoped : guards[d] = <<>> /\ current_stream(d) = Null
    BY ScopedAssumption DEF Init, current_stream
  <2>2. Append(<<>>, Null) = <<Null>>
    <3>1. Null \in Selections /\ <<>> \in Seq(Selections)
      BY DEF Selections
    <3> QED BY <3>1
  <2>3. \A d \in Scoped : Append(guards[d], current_stream(d)) = <<Null>>
    BY <2>1, <2>2, Zenon
  <2> QED BY <2>3 DEF Abstract!Init
<1>2. IInv /\ [Next]_vars => [Abstract!Next]_Ambient
  <2> SUFFICES ASSUME IInv, [Next]_vars PROVE Abstract!Next \/ UNCHANGED Ambient
    OBVIOUS
  <2>1. CASE UNCHANGED vars
    BY <2>1 DEF vars, Ambient, current_stream
  <2>2. ASSUME NEW d \in Scoped, NEW s \in Selections, set_current_stream(d, s)
        PROVE  Abstract!Next
    BY <2>2, SetRefines DEF Abstract!Next, Abstract!Select, Ambient
  <2>3. ASSUME NEW d \in Scoped, NEW s \in Selections, ConstructGuard(d, s)
        PROVE  Abstract!Next
    BY <2>3, ConstructRefines DEF Abstract!Next, Abstract!Enter, Ambient
  <2>4. ASSUME NEW d \in Scoped, NEW i \in 1 .. Len(guards[d]), DestroyGuard(d, i)
        PROVE  Abstract!Next
    BY <2>4, DestroyRefines DEF Abstract!Next, Abstract!Leave, Ambient
  <2>5. ASSUME NEW d \in Devices, d \notin Scoped,
               \/ \E s \in Selections : set_current_stream(d, s) \/ ConstructGuard(d, s)
               \/ \E i \in 1 .. Len(guards[d]) : DestroyGuard(d, i)
        PROVE  UNCHANGED Ambient
    BY <2>5, OtherSteps
  <2> QED BY <2>1, <2>2, <2>3, <2>4, <2>5 DEF Next
<1> QED BY <1>1, <1>2, SpecIInv, PTL DEF Spec, ImplementsStack, Abstract!Spec, Ambient
=============================================================================
