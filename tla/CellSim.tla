------------------------------ MODULE CellSim ------------------------------
(***************************************************************************)
(* cellsim.cc: every opportunity of the schedule carries Service bytes. A  *)
(* packet larger than what is left of one waits in limbo for the next.     *)
(***************************************************************************)
EXTENDS DelayQueue

CONSTANT Service  \* SERVICE_PACKET_SIZE
ASSUME ServiceAssumption == Service \in Nat \ {0}

VARIABLES
    limbo,              \* _limbo: <<>> or <<[earned, packet]>>
    bytes_to_play_with, \* what is left of the opportunity being used
    carried             \* bytes of the packets delivered so far

simVars == <<limbo, bytes_to_play_with, carried>>
vars == <<queueVars, simVars>>

SimInit == limbo = <<>> /\ bytes_to_play_with = 0 /\ carried = 0

Init == QueueInit /\ SimInit

-----------------------------------------------------------------------------
(* tick                                                                    *)

TickRelease ==
    /\ pc = "tick"
    /\ Release
    /\ pc' = "schedule"
    /\ UNCHANGED <<simVars, caller, now, wake, trace, schedule, delivered,
                   forwarded, written>>

\* "grab a PDO"
GrabPdo ==
    /\ pc = "schedule"
    /\ schedule # <<>> /\ schedule[1] <= now
    /\ schedule' = Tail(schedule)
    /\ bytes_to_play_with' = Service
    /\ pc' = "limbo"
    /\ UNCHANGED <<limbo, carried, caller, now, wake, trace, delay, pdp,
                   delivered, forwarded, written>>

\* The loop over the schedule ends, and tick returns.
TickReturn ==
    /\ pc = "schedule"
    /\ schedule # <<>> => schedule[1] > now
    /\ pc' = caller
    /\ UNCHANGED <<simVars, caller, now, wake, trace, schedule, delay, pdp,
                   delivered, forwarded, written>>

\* Variant: the bytes earned before are forgotten.
LimboDeliverForget ==
    /\ pc = "limbo" /\ limbo # <<>>
    /\ LET x == limbo[1]
       IN  /\ x.earned + bytes_to_play_with >= x.packet.size
           /\ delivered' = Append(delivered, x.packet)
           /\ carried' = carried + x.packet.size
           /\ bytes_to_play_with' = bytes_to_play_with
    /\ limbo' = <<>>
    /\ pc' = "queue"
    /\ UNCHANGED <<caller, now, wake, trace, schedule, delay, pdp, forwarded,
                   written>>

\* Variant: the whole packet is charged again.
LimboDeliverAgain ==
    /\ pc = "limbo" /\ limbo # <<>>
    /\ LET x == limbo[1]
       IN  /\ x.earned + bytes_to_play_with >= x.packet.size
           /\ delivered' = Append(delivered, x.packet)
           /\ carried' = carried + x.packet.size
           /\ bytes_to_play_with' = bytes_to_play_with - x.packet.size
    /\ limbo' = <<>>
    /\ pc' = "queue"
    /\ UNCHANGED <<caller, now, wake, trace, schedule, delay, pdp, forwarded,
                   written>>

\* "execute limbo queue first": the packet's last bytes.
LimboDeliver ==
    /\ pc = "limbo" /\ limbo # <<>>
    /\ LET x == limbo[1]
       IN  /\ x.earned + bytes_to_play_with >= x.packet.size
           /\ delivered' = Append(delivered, x.packet)
           /\ carried' = carried + x.packet.size
           /\ bytes_to_play_with' = bytes_to_play_with - (x.packet.size - x.earned)
    /\ limbo' = <<>>
    /\ pc' = "queue"
    /\ UNCHANGED <<caller, now, wake, trace, schedule, delay, pdp, forwarded,
                   written>>

LimboEarn ==
    /\ pc = "limbo" /\ limbo # <<>>
    /\ limbo[1].earned + bytes_to_play_with < limbo[1].packet.size
    /\ limbo' = <<[limbo[1] EXCEPT !.earned = @ + bytes_to_play_with]>>
    /\ bytes_to_play_with' = 0
    /\ pc' = "queue"
    /\ UNCHANGED <<carried, caller, now, wake, trace, schedule, delay, pdp,
                   delivered, forwarded, written>>

LimboEmpty ==
    /\ pc = "limbo" /\ limbo = <<>>
    /\ pc' = "queue"
    /\ UNCHANGED <<simVars, caller, now, wake, trace, schedule, delay, pdp,
                   delivered, forwarded, written>>

\* "execute regular queue": one turn of the loop.
DeliverWhole ==
    /\ pc = "queue" /\ bytes_to_play_with > 0 /\ pdp # <<>>
    /\ bytes_to_play_with >= pdp[1].size
    /\ delivered' = Append(delivered, pdp[1])
    /\ carried' = carried + pdp[1].size
    /\ bytes_to_play_with' = bytes_to_play_with - pdp[1].size
    /\ pdp' = Tail(pdp)
    /\ UNCHANGED <<limbo, pc, caller, now, wake, trace, schedule, delay,
                   forwarded, written>>

\* Variant: the packet is not taken off the queue.
PutInLimboKept ==
    /\ pc = "queue" /\ bytes_to_play_with > 0 /\ pdp # <<>>
    /\ bytes_to_play_with < pdp[1].size
    /\ limbo' = Append(limbo, [earned |-> bytes_to_play_with, packet |-> pdp[1]])
    /\ bytes_to_play_with' = 0
    /\ pdp' = pdp
    /\ UNCHANGED <<carried, pc, caller, now, wake, trace, schedule, delay,
                   delivered, forwarded, written>>

PutInLimbo ==
    /\ pc = "queue" /\ bytes_to_play_with > 0 /\ pdp # <<>>
    /\ bytes_to_play_with < pdp[1].size
    /\ limbo' = Append(limbo, [earned |-> bytes_to_play_with, packet |-> pdp[1]])
    /\ bytes_to_play_with' = 0
    /\ pdp' = Tail(pdp)
    /\ UNCHANGED <<carried, pc, caller, now, wake, trace, schedule, delay,
                   delivered, forwarded, written>>

\* "underflow": the rest of the opportunity is wasted.
Underflow ==
    /\ pc = "queue" /\ bytes_to_play_with > 0 /\ pdp = <<>>
    /\ bytes_to_play_with' = 0
    /\ UNCHANGED <<limbo, carried, pc, caller, now, wake, trace, schedule,
                   delay, pdp, delivered, forwarded, written>>

PdoDone ==
    /\ pc = "queue" /\ bytes_to_play_with = 0
    /\ pc' = "schedule"
    /\ UNCHANGED <<simVars, caller, now, wake, trace, schedule, delay, pdp,
                   delivered, forwarded, written>>

Tick ==
    \/ TickRelease \/ GrabPdo \/ TickReturn
    \/ LimboDeliver \/ LimboEarn \/ LimboEmpty
    \/ DeliverWhole \/ PutInLimbo \/ Underflow \/ PdoDone

-----------------------------------------------------------------------------
(* wait_time calls tick, then computes the timeout.                        *)

WaitTimeTick ==
    /\ pc = "wait_time"
    /\ pc' = "tick" /\ caller' = "waits"
    /\ UNCHANGED <<simVars, now, wake, trace, schedule, delay, pdp, delivered,
                   forwarded, written>>

ScheduleWake == IF schedule = <<>> THEN MaxTime ELSE schedule[1]

\* Variant: the packets in the delay queue are not waited for.
WaitTimeScheduleOnly ==
    /\ pc = "waits"
    /\ wake' = ScheduleWake
    /\ pc' = "sleep"
    /\ UNCHANGED <<simVars, caller, now, trace, schedule, delay, pdp, delivered,
                   forwarded, written>>

WaitTime ==
    /\ pc = "waits"
    /\ wake' = Least(DelayWake, ScheduleWake)
    /\ pc' = "sleep"
    /\ UNCHANGED <<simVars, caller, now, trace, schedule, delay, pdp, delivered,
                   forwarded, written>>

Loop == (Select \/ Recv \/ Read) /\ UNCHANGED simVars

Next == WaitTimeTick \/ Tick \/ WaitTime \/ Loop

Spec == Init /\ [][Next]_vars

-----------------------------------------------------------------------------
(* Properties.                                                             *)

\* Types: limbo holds at most one packet (assertions of cellsim.cc:175-208);
\* only cellproxy may abort.
TypeOK ==
    /\ pc \in {"wait_time", "tick", "schedule", "limbo", "queue", "waits",
               "sleep", "recv", "read", "abort"}
    /\ caller \in {"sleep", "waits", "read"}
    /\ now \in Nat /\ wake \in Nat /\ carried \in Nat
    /\ bytes_to_play_with \in 0..Service
    /\ Len(limbo) <= 1

InLimbo == IF limbo = <<>> THEN <<>> ELSE <<limbo[1].packet>>
Earned == IF limbo = <<>> THEN 0 ELSE limbo[1].earned

\* The link keeps every packet and their order: what came in is what was sent
\* on, followed by what is delivered, in limbo, waiting for an opportunity and
\* delayed.
KeepsOrder ==
    written = forwarded \o delivered \o InLimbo \o pdp \o delay

\* The link is never ahead of the trace: the bytes of all packets delivered,
\* those earned by the packet in limbo and those still to be played with were
\* granted by opportunities whose time has come.
NeverAhead ==
    /\ carried + Earned + bytes_to_play_with
           <= Service * (Len(trace) - Len(schedule))
    /\ \A i \in 1..(Len(trace) - Len(schedule)) : trace[i] <= now

\* No packet is sent on before its delay is over.
DelayKept ==
    \A i \in 1..Len(forwarded) : forwarded[i].release <= now

\* The program never sleeps on a packet it could send: wait_time's own tick
\* delivers nothing, because read has called tick at the same frozen timestamp.
NothingHeldAsleep ==
    pc = "sleep" => delivered = <<>>
=============================================================================
