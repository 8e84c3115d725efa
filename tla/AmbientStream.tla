--------------------------- MODULE AmbientStream ---------------------------
(***************************************************************************)
(* What stream_guard.h promises its callers, with no map in sight: every   *)
(* device has a stack of stream selections.  The last one is ambient; a    *)
(* guard pushes a selection, its end brings the previous one back, and a   *)
(* direct set replaces only the innermost selection.                       *)
(***************************************************************************)
EXTENDS Naturals, Sequences

CONSTANTS Devices,    \* device indices
          Selections, \* streams, the default stream included
          Default     \* the default stream

VARIABLE ambient      \* [Devices -> non-empty Seq(Selections)]

Init == ambient = [d \in Devices |-> <<Default>>]

Enter(d, s) == ambient' = [ambient EXCEPT ![d] = Append(@, s)]

Leave(d) ==
  /\ Len(ambient[d]) > 1
  /\ ambient' = [ambient EXCEPT ![d] = SubSeq(@, 1, Len(@) - 1)]

Select(d, s) == ambient' = [ambient EXCEPT ![d][Len(ambient[d])] = s]

Next ==
  \E d \in Devices :
    \/ \E s \in Selections : Enter(d, s) \/ Select(d, s)
    \/ Leave(d)

Spec == Init /\ [][Next]_ambient
=============================================================================
