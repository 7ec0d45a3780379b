----------------------------- MODULE StateSync -----------------------------
(***************************************************************************)
(* What the State Synchronization Protocol promises in one direction: the  *)
(* user of the far end sees states the near end really had, and never goes *)
(* back to an older one.  States in between may be skipped.                *)
(***************************************************************************)
EXTENDS Naturals, Sequences

VARIABLES current, \* the stream of events at the end that makes them
          view     \* the stream as the far end's user has seen it

vars == <<current, view>>

\* Every stream that starts with s and that t starts with.
Between(s, t) == {SubSeq(t, 1, n) : n \in Len(s)..Len(t)}

Init == current = <<>> /\ view = <<>>

Happen ==
    /\ Len(current') = Len(current) + 1
    /\ SubSeq(current', 1, Len(current)) = current
    /\ view' = view

See ==
    /\ view' \in Between(view, current)
    /\ view = SubSeq(current, 1, Len(view))
    /\ current' = current

Next == Happen \/ See

Spec == Init /\ [][Next]_vars
=============================================================================
