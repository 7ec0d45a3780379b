----------------------------- MODULE CntValues -----------------------------
(***************************************************************************)
(* The arithmetic between a trace record and the socket options            *)
(* (src/src/server.cc, CntThread): bandwidth in kbps, delay in             *)
(* microseconds and the window clamp in bytes, computed on int.  The build *)
(* (g++ without optimisation) wraps a signed product that overflows.       *)
(***************************************************************************)
EXTENDS Integers

CONSTANTS
    IntMax,     \* the largest int
    Divisor,    \* 8000: kbps times microseconds, to bytes
    Rate,       \* 125: kbps to bytes per second
    Bandwidths, \* trace bandwidths, in kbps
    MinRtts,    \* trace minimum RTTs, in microseconds
    Delays,     \* the link delays 2*1000*delay_ms
    Gains       \* cwnd_scale

\* The int that has the low bits of x.
ToInt(x) == ((x + IntMax + 1) % (2 * IntMax + 2)) - (IntMax + 1)

\* The division of C truncates towards zero.
Quot(a, b) == IF a >= 0 THEN a \div b ELSE -((-a) \div b)

VARIABLES
    rec,   \* the record and the command line it is played with
    val1, val2, val3, val4

vars == <<rec, val1, val2, val3, val4>>

Records == [bw: Bandwidths, minRtt: MinRtts, delay: Delays, gain: Gains]

Init ==
    /\ rec \in Records
    /\ val1 = 0 /\ val2 = 0 /\ val3 = 1 /\ val4 = 0

Val1(r) == ToInt(r.bw)
Val2(r) == ToInt(r.minRtt + r.delay)
Val3(r) == ToInt(Val1(r) * Rate)
Tmp(r)  == Quot(ToInt(Val2(r) * Val1(r)), Divisor)
Val4(r) == ToInt(Tmp(r) * r.gain)

\* The values of one iteration of CntThread; the next record follows.
Compute ==
    /\ val1' = Val1(rec)
    /\ val2' = Val2(rec)
    /\ val3' = Val3(rec)
    /\ val4' = Val4(rec)
    /\ rec' \in {[rec EXCEPT !.bw = b, !.minRtt = m] :
                    b \in Bandwidths, m \in MinRtts}

Spec == Init /\ [][Compute]_vars

-----------------------------------------------------------------------------

\* The bandwidth-delay product in bytes, times the gain, without a width.
Bdp == rec.gain * ((val1 * val2) \div Divisor)

\* The clamp CntThread writes with TCP_CWND_CLAMP (server.cc:469-482) is the
\* bandwidth-delay product in bytes: "CWND_CLAMP: Bps*sec=Bytes".
ClampIsBdp == val4 = Bdp
=============================================================================
