----------------------------- MODULE Emulators -----------------------------
(***************************************************************************)
(* The two link emulators over one DelayQueue: the program that runs is    *)
(* cellsim or cellproxy.                                                   *)
(***************************************************************************)
EXTENDS CellSim

VARIABLE program

Proxy == INSTANCE CellProxy

emulatorVars == <<vars, program>>

EmulatorInit == Init /\ program \in {"cellsim", "cellproxy"}

SimStep == program = "cellsim" /\ Next
ProxyStep == program = "cellproxy" /\ Proxy!Next /\ UNCHANGED simVars

EmulatorSpec ==
    EmulatorInit /\ [][(SimStep \/ ProxyStep) /\ UNCHANGED program]_emulatorVars

\* wait_time is right: the program does not sleep past the end of the next
\* delay, nor past the next opportunity (cellproxy: one it has a packet for), by
\* more than select's own lateness.
WakesInTime ==
    pc = "recv" =>
        /\ delay # <<>> => now <= delay[1].release + MaxLate
        /\ schedule # <<>> /\ (program = "cellsim" \/ pdp # <<>>) =>
              now <= schedule[1] + MaxLate

\* cellproxy sends at most one packet per opportunity, and only in the very
\* millisecond of one: time the program slept through is not made up for.
OnePacketEach ==
    program = "cellproxy" =>
        /\ Len(forwarded) + Len(delivered) <= Len(trace) - Len(schedule)
        /\ delivered # <<>> => \E i \in 1..Len(trace) : trace[i] = now
=============================================================================
