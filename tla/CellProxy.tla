----------------------------- MODULE CellProxy -----------------------------
(***************************************************************************)
(* cellproxy.cc: every opportunity of the schedule carries one packet of   *)
(* any size, and an opportunity that has passed is gone.                   *)
(***************************************************************************)
EXTENDS DelayQueue

\* How many entries at the front of the schedule satisfy `_schedule.front() < t`.
Before(s, t) ==
    CHOOSE n \in 0..Len(s) :
        /\ \A i \in 1..n : s[i] < t
        /\ n < Len(s) => s[n + 1] >= t

\* Variant: an opportunity that has passed is used all the same.
PrunedLate(s) == s

\* prune_schedule
Pruned(s) == SubSeq(s, Before(s, now) + 1, Len(s))

\* tick: prune, release, and one packet for each opportunity of this
\* millisecond.
Tick ==
    /\ pc = "tick"
    /\ LET left == Pruned(schedule)
           n == Due(delay, now)
           ready == pdp \o SubSeq(delay, 1, n)
           k == Least(Len(ready), Before(left, now + 1))
       IN  /\ delay' = SubSeq(delay, n + 1, Len(delay))
           /\ delivered' = delivered \o SubSeq(ready, 1, k)
           /\ pdp' = SubSeq(ready, k + 1, Len(ready))
           /\ schedule' = SubSeq(left, k + 1, Len(left))
    /\ pc' = caller
    /\ UNCHANGED <<caller, now, wake, trace, forwarded, written>>

\* wait_time.  With packets waiting and no schedule left it reads the front of
\* an empty queue: the timeout is anything, or the assertion fails.
WaitTime ==
    /\ pc = "wait_time"
    /\ schedule' = Pruned(schedule)
    /\ \/ /\ pdp = <<>> \/ schedule' # <<>>
          /\ wake' = Least(DelayWake, IF pdp = <<>> THEN MaxTime ELSE schedule'[1])
          /\ pc' = "sleep"
       \/ /\ pdp # <<>> /\ schedule' = <<>>
          /\ \E any \in now..MaxTime : wake' = Least(DelayWake, any)
          /\ pc' \in {"sleep", "abort"}
    /\ UNCHANGED <<caller, now, trace, delay, pdp, delivered, forwarded, written>>

Next == WaitTime \/ Tick \/ Select \/ Recv \/ Read
=============================================================================
