----------------------------- MODULE DelayQueue -----------------------------
(***************************************************************************)
(* What the two link emulators of alfalfa/src/examples, cellsim and        *)
(* cellproxy, share: one direction of the link, a DelayQueue, and the main *)
(* loop around it.  The other direction only wakes the loop earlier, which *)
(* select may do at any time.                                              *)
(*                                                                         *)
(* The loop runs in one thread.  pc says where it is; every step but       *)
(* Select is taken at one frozen timestamp.  Statistics are left out.      *)
(***************************************************************************)
EXTENDS Naturals, Sequences

CONSTANTS
    Traces,     \* the delivery schedules the trace file may hold
    Sizes,      \* sizes of packets
    MsDelay,    \* _ms_delay
    MaxPackets, \* bound on the packets written
    MaxTime,    \* bound on the clock; also INT_MAX, no timeout
    MaxLate     \* how late select may wake the program

ASSUME QueueAssumption ==
    /\ MsDelay \in Nat /\ MaxPackets \in Nat /\ MaxTime \in Nat /\ MaxLate \in Nat
    /\ Sizes \subseteq Nat
    /\ \A t \in Traces : t \in Seq(Nat) /\ \A i \in 1..(Len(t) - 1) : t[i] <= t[i + 1]

VARIABLES
    pc,
    caller,    \* where tick returns to
    now,       \* the frozen timestamp
    wake,      \* when select times out
    trace,     \* the schedule as it was read
    schedule,  \* _schedule, what is left of it
    delay,     \* _delay
    pdp,       \* _pdp
    delivered, \* _delivered
    forwarded, \* packets sent on
    written    \* packets that came in

queueVars == <<pc, caller, now, wake, trace, schedule, delay, pdp, delivered,
               forwarded, written>>

QueueInit ==
    /\ pc = "wait_time" /\ caller = "sleep"
    /\ now = 0 /\ wake = 0
    /\ trace \in Traces /\ schedule = trace
    /\ delay = <<>> /\ pdp = <<>> /\ delivered = <<>>
    /\ forwarded = <<>> /\ written = <<>>

Least(a, b) == IF a < b THEN a ELSE b

\* A loop over the front of the delay queue: the packets whose release time has
\* come.  Release times never decrease along it.
Due(q, t) ==
    CHOOSE n \in 0..Len(q) :
        /\ \A i \in 1..n : q[i].release <= t
        /\ n < Len(q) => q[n + 1].release > t

\* Variant: a packet is released one millisecond early.
ReleaseEarly ==
    LET n == Due(delay, now + 1)
    IN  /\ pdp' = pdp \o SubSeq(delay, 1, n)
        /\ delay' = SubSeq(delay, n + 1, Len(delay))

\* tick: "move packets from end of delay to PDP".
Release ==
    LET n == Due(delay, now)
    IN  /\ pdp' = pdp \o SubSeq(delay, 1, n)
        /\ delay' = SubSeq(delay, n + 1, Len(delay))

DelayWake == IF delay = <<>> THEN MaxTime ELSE delay[1].release

\* Select::select sleeps until a packet comes or the timeout, and freezes the
\* timestamp.
Select ==
    /\ pc = "sleep"
    /\ now' \in now..Least(wake + MaxLate, MaxTime)
    /\ pc' = "recv"
    /\ UNCHANGED <<caller, wake, trace, schedule, delay, pdp, delivered,
                   forwarded, written>>

\* recv_raw and write, when the socket is readable; then read calls tick.
Recv ==
    /\ pc = "recv"
    /\ \/ UNCHANGED <<delay, written>>
       \/ /\ Len(written) < MaxPackets
          /\ \E n \in Sizes :
                LET p == [id |-> Len(written) + 1, size |-> n, release |-> now + MsDelay]
                IN  /\ delay' = Append(delay, p)
                    /\ written' = Append(written, p)
    /\ pc' = "tick" /\ caller' = "read"
    /\ UNCHANGED <<now, wake, trace, schedule, pdp, delivered, forwarded>>

\* Variant: the clock is not frozen and runs on.
ReadThawed ==
    /\ pc = "read"
    /\ forwarded' = forwarded \o delivered
    /\ delivered' = <<>>
    /\ pc' = "wait_time"
    /\ now' \in now..(now + 1)
    /\ UNCHANGED <<caller, wake, trace, schedule, delay, pdp, written>>

\* read returns and clears _delivered; main sends the packets on.
Read ==
    /\ pc = "read"
    /\ forwarded' = forwarded \o delivered
    /\ delivered' = <<>>
    /\ pc' = "wait_time"
    /\ UNCHANGED <<caller, now, wake, trace, schedule, delay, pdp, written>>
=============================================================================
