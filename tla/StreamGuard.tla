---------------------------- MODULE StreamGuard ----------------------------
(***************************************************************************)
(* The ambient "current stream" of include/terminals/stream_guard.h, on    *)
(* one thread (g_current_streams is thread_local, so threads share         *)
(* nothing).  The state is the map from device index to stream_state, and  *)
(* the stream_guard objects that are alive, each by the prev_stream_ it    *)
(* will restore.                                                           *)
(***************************************************************************)
EXTENDS Naturals, Sequences

CONSTANTS Devices,    \* device indices
          Streams,    \* non-null gpu_stream_t handles
          Null,       \* nullptr: the default stream
          MaxGuards,  \* bound: guards alive at once on one device
          Scoped      \* devices whose guards end innermost first (scopes); the
                      \* guards of the others end in any order (owned by objects)

ASSUME NullAssumption == Null \notin Streams
ASSUME MaxGuardsAssumption == MaxGuards \in Nat
ASSUME ScopedAssumption == Scoped \subseteq Devices

Selections == Streams \cup {Null}
StreamState == [stream : Selections, guards : Nat]

VARIABLES
  streams,  \* g_current_streams: a function on the devices that have an entry
  guards    \* [Devices -> Seq(Selections)]: prev_stream_ of the live guards,
            \* oldest first
vars == <<streams, guards>>

TypeOK ==
  /\ DOMAIN streams \subseteq Devices
  /\ streams \in [DOMAIN streams -> StreamState]
  /\ guards \in [Devices -> Seq(Selections)]

Init ==
  /\ streams = [d \in {} |-> [stream |-> Null, guards |-> 0]]
  /\ guards = [d \in Devices |-> <<>>]

\* The map with d's entry set, created, or erased.
With(d, e) == [x \in DOMAIN streams \cup {d} |-> IF x = d THEN e ELSE streams[x]]
Erased(d) == [x \in DOMAIN streams \ {d} |-> streams[x]]

\* operator[] value-initialises the entry it creates.
Entry(d) == IF d \in DOMAIN streams THEN streams[d]
            ELSE [stream |-> Null, guards |-> 0]

current_stream(d) == IF d \in DOMAIN streams THEN streams[d].stream ELSE Null

\* Mutant: clearing erases the entry even while guards pin it.
EraseOnNull(d, s) ==
  /\ UNCHANGED guards
  /\ \/ s # Null /\ streams' = With(d, [Entry(d) EXCEPT !.stream = s])
     \/ s = Null /\ d \in DOMAIN streams /\ streams' = Erased(d)

set_current_stream(d, s) ==
  /\ UNCHANGED guards
  /\ \/ /\ s # Null
        /\ streams' = With(d, [Entry(d) EXCEPT !.stream = s])
     \/ /\ s = Null /\ d \in DOMAIN streams
        /\ streams' = IF streams[d].guards = 0 THEN Erased(d)
                      ELSE With(d, [streams[d] EXCEPT !.stream = Null])

ConstructGuard(d, s) ==
  /\ Len(guards[d]) < MaxGuards
  /\ guards' = [guards EXCEPT ![d] = Append(@, current_stream(d))]
  /\ streams' = With(d, [stream |-> s, guards |-> Entry(d).guards + 1])

Without(q, i) == [j \in 1 .. Len(q) - 1 |-> IF j < i THEN q[j] ELSE q[j + 1]]

\* Mutant: the destructor keeps the entry of the last guard.
KeepEntry(d, i) ==
  /\ d \in Scoped => i = Len(guards[d])
  /\ streams' = With(d, [stream |-> guards[d][i], guards |-> Entry(d).guards - 1])
  /\ guards' = [guards EXCEPT ![d] = Without(@, i)]

\* Mutant: the destructor restores the default stream, as if guards never nested.
RestoreDefault(d, i) ==
  /\ d \in Scoped => i = Len(guards[d])
  /\ streams' = IF Entry(d).guards = 1 THEN Erased(d)
                ELSE With(d, [stream |-> Null, guards |-> Entry(d).guards - 1])
  /\ guards' = [guards EXCEPT ![d] = Without(@, i)]

\* ~stream_guard of the i-th live guard of d.  The code dereferences find(d)
\* with no test; Entry stands for what it finds, GuardsPinned says it finds it.
DestroyGuard(d, i) ==
  /\ d \in Scoped => i = Len(guards[d])
  /\ LET prev == guards[d][i]
         left == Entry(d).guards - 1
     IN  streams' = IF left = 0 /\ prev = Null THEN Erased(d)
                    ELSE With(d, [stream |-> prev, guards |-> left])
  /\ guards' = [guards EXCEPT ![d] = Without(@, i)]

Next ==
  \E d \in Devices :
    \/ \E s \in Selections : set_current_stream(d, s) \/ ConstructGuard(d, s)
    \/ \E i \in 1 .. Len(guards[d]) : DestroyGuard(d, i)

Spec == Init /\ [][Next]_vars
----------------------------------------------------------------------------
(* The destructor is noexcept and never inserts: every live guard finds    *)
(* its device's entry, whatever setters and other guards did meanwhile,    *)
(* and the entry counts exactly the guards that are alive                  *)
(* (stream_guard.h: "A guard pins its entry").                             *)
GuardsPinned ==
  \A d \in Devices :
    /\ guards[d] # <<>> => d \in DOMAIN streams
    /\ d \in DOMAIN streams => streams[d].guards = Len(guards[d])

(* An entry nobody pins is there only to select a stream: clearing the     *)
(* selection or ending the last guard leaves no empty entry behind.        *)
NoIdleEntry ==
  \A d \in DOMAIN streams : streams[d].guards = 0 => streams[d].stream # Null

(* Refinement: the previous selections of a scoped device's guards         *)
(* followed by the current one are the abstract stack of selections.       *)
Abstract == INSTANCE AmbientStream WITH
  Devices <- Scoped,
  Default <- Null,
  ambient <- [d \in Scoped |-> Append(guards[d], current_stream(d))]

(* Guards that end innermost first implement the stack of selections:      *)
(* nested guards compose, and a direct set lasts until its guard ends,     *)
(* whatever the guards of the other devices do meanwhile.                  *)
ImplementsStack == Abstract!Spec

=============================================================================
