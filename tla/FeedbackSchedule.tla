-------------------------- MODULE FeedbackSchedule --------------------------
(***************************************************************************)
(* What NATCP's feedback promises, without threads, sleeps or sockets: the *)
(* records of the trace take effect in the order of the trace, each at     *)
(* most once, and none before the network has been running for the         *)
(* record's time plus the feedback lag.  Records may be passed over.       *)
(***************************************************************************)
EXTENDS Integers

CONSTANTS NumLines, Trace, Lag

VARIABLES
    clock,
    start,   \* when the network was started, fixed once it is known
    known,
    rec      \* the record in effect, -1 before the first

schedule == <<clock, start, known, rec>>

Init ==
    /\ clock \in Nat
    /\ start \in Int
    /\ known = FALSE
    /\ rec = -1

Learn ==
    /\ ~known
    /\ start' \in 0..clock
    /\ UNCHANGED <<clock, known, rec>>

Announce ==
    /\ known' = TRUE
    /\ UNCHANGED <<clock, start, rec>>

Advance ==
    /\ clock' = clock + 1
    /\ UNCHANGED <<start, known, rec>>

Apply(i) ==
    /\ known
    /\ i > rec
    /\ clock >= start + Lag + Trace[i]
    /\ rec' = i
    /\ UNCHANGED <<clock, start, known>>

Next == Learn \/ Announce \/ Advance \/ \E i \in 0..NumLines - 1 : Apply(i)

Spec == Init /\ [][Next]_schedule
=============================================================================
