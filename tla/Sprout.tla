------------------------------- MODULE Sprout -------------------------------
(***************************************************************************)
(* sproutbt2 (examples/sproutbt2.cc): a client that sends as much as       *)
(* Sprout's window allows and a server that returns forecasts, with        *)
(* SproutConnection (network/sproutconn.cc), the sequence numbers of       *)
(* Connection and SendQueue (network/network.cc) and the Receiver          *)
(* (sprout/receiver.cc) that counts the bytes received or lost.            *)
(*                                                                         *)
(* Numbers of bytes count units of one packet header.  What the inference  *)
(* predicts is any of Forecasts.  The bytes from the server to the client  *)
(* are counted by the same code and left out, and so are the round-trip    *)
(* times and the ports.                                                    *)
(***************************************************************************)
EXTENDS Integers, Sequences, Functions

CONSTANTS
    Forecasts,      \* cumulative packets by tick, sequences of one length
    TargetTicks,    \* TARGET_DELAY_TICKS
    Quantum,        \* 1440, the largest packet
    Header,         \* length of ForecastPacket's header
    Overhead,       \* 50, bytes of a sequence number beyond the payload
    ReorderLimit,   \* REORDER_LIMIT
    WindowCap,      \* 65535, the most a throwaway window can say
    TickLength,     \* TICK_LENGTH
    ClientInterval, \* fallback_interval of the client
    ServerInterval, \* fallback_interval of the server
    Copies,         \* how often the network may deliver a packet
    MaxTime         \* bound on the clock

ASSUME SproutAssumption ==
    /\ {TargetTicks, Quantum, Header, Overhead, ReorderLimit, TickLength} \subseteq Nat \ {0}
    /\ {ClientInterval, ServerInterval, Copies} \subseteq Nat \ {0}
    /\ WindowCap \in Nat /\ MaxTime \in Nat
    /\ \A f, g \in Forecasts : f \in Seq(Nat) /\ f # <<>> /\ Len(f) = Len(g)

VARIABLES
    now,
    client,    \* where the client's loop is: "loop", "burst" or "wait"
    server,    \* "attach", "loop" or "wait"
    \* the client's Connection and SproutConnection
    next_seq, sent_packets, bytes_to_send, client_next,
    estimate,  \* current_queue_bytes_estimate
    forecast, forecast_time, forecast_tick,
    \* the server's Receiver and SproutConnection
    received,  \* received_sequence_numbers: how often each [seq, len] is in it
    throwaway_before,
    time,      \* _time
    cached,    \* _cached_forecast
    local_forecast_time, server_next,
    \* the network
    data,      \* packets on their way to the server, with copies delivered
    answers,   \* forecasts on their way to the client
    lost,      \* packets that never came
    newest,    \* when the latest packet that has come was sent
    overtaken  \* a packet overtook one sent more than ReorderLimit before it

clientVars == <<next_seq, sent_packets, bytes_to_send, client_next, estimate,
                forecast, forecast_time, forecast_tick>>
serverVars == <<received, throwaway_before, time, cached, local_forecast_time,
                server_next>>
netVars == <<data, answers, lost, newest, overtaken>>
vars == <<now, client, server, clientVars, serverVars, netVars>>

Ticks(f) == Len(f.counts)
Least(a, b) == IF a < b THEN a ELSE b
Most(a, b) == IF a > b THEN a ELSE b

\* The clock starts long after time 0, at which the forecasts are dated: the
\* first one has run out.
Init ==
    /\ now = 0 /\ client = "loop" /\ server = "attach"
    /\ next_seq = 0 /\ sent_packets = <<>> /\ bytes_to_send = 0
    /\ client_next = ClientInterval /\ estimate = 0
    /\ \E f \in Forecasts :
          /\ forecast = [count |-> 0, counts |-> f]
          /\ forecast_time = -(TickLength * Len(f))
          /\ cached = [time |-> 0, count |-> 0, counts |-> f]
    /\ forecast_tick = 0
    /\ received = [k \in {} |-> 0] /\ throwaway_before = 0 /\ time = 0
    /\ local_forecast_time = -(TickLength * Ticks(forecast)) /\ server_next = 0
    /\ data = {} /\ answers = {}
    /\ lost = {} /\ newest = 0 /\ overtaken = FALSE

-----------------------------------------------------------------------------
(* The client.                                                             *)

\* update_queue_estimate, as the new tick and the new estimate.
NewTick(f, t) == Least((now - t) \div TickLength, Ticks(f) - 1)

\* Variant: the estimate is not kept from going below 0.
DrainedBelow(e, f, from, to) ==
    LET left[i \in from..to] ==
            IF i = from THEN e ELSE left[i - 1] - Quantum * f.counts[i]
    IN  IF from < to THEN left[to] ELSE e

Drained(e, f, from, to) ==
    LET left[i \in from..to] ==
            IF i = from THEN e
            ELSE Most(0, left[i - 1] - Quantum * f.counts[i])
    IN  IF from < to THEN left[to] ELSE e

UpdateQueueEstimate(e, f, t, tick) ==
    /\ forecast_tick' = Most(tick, NewTick(f, t))
    /\ estimate' = Drained(e, f, tick, NewTick(f, t))

\* window_size once the estimate is up to date.
Window(e, tick) ==
    LET ahead == Least(tick + TargetTicks, Ticks(forecast) - 1)
    IN  Most(0, Quantum * (forecast.counts[ahead + 1] - forecast.counts[tick + 1]) - e)

\* The head of the loop: send if the window is open or it is time to.
ClientLoop ==
    /\ client = "loop"
    /\ UpdateQueueEstimate(estimate, forecast, forecast_time, forecast_tick)
    /\ bytes_to_send' = Window(estimate', forecast_tick')
    /\ client' = IF bytes_to_send' > 0 \/ client_next <= now THEN "burst" ELSE "wait"
    /\ UNCHANGED <<now, server, next_seq, sent_packets, client_next, forecast,
                   forecast_time, serverVars, netVars>>

\* Variant: nothing is ever popped.
RecentForever(q) == q

\* Variant: packets sent just at the limit go, too.
RecentStrict(q) ==
    LET front == CHOOSE i \in 1..Len(q) :
                    /\ q[i].time > now - ReorderLimit
                    /\ \A j \in 1..(i - 1) : q[j].time <= now - ReorderLimit
    IN  SubSeq(q, front, Len(q))

\* SendQueue::add: packets sent longer ago than the reordering limit are popped
\* from the front.  The packet just added is not, so the queue is not emptied.
Recent(q) ==
    LET front == CHOOSE i \in 1..Len(q) :
                    /\ q[i].time >= now - ReorderLimit
                    /\ \A j \in 1..(i - 1) : q[j].time < now - ReorderLimit
    IN  SubSeq(q, front, Len(q))

\* Variant: every packet is full.
PacketSizeFull(n) == Quantum

PacketSize(n) == Least(Quantum, n)

\* One packet of the burst: new_packet, and the estimate grows.
ClientSend ==
    /\ client = "burst"
    /\ LET size == PacketSize(bytes_to_send)
           len == size + Header
           recent == Recent(Append(sent_packets, [seq |-> next_seq, time |-> now]))
       IN  /\ data' = data \cup
                 {[seq |-> next_seq, len |-> len, sent |-> now, copies |-> 0,
                   throwaway |-> Least(WindowCap, next_seq - recent[1].seq)]}
           /\ sent_packets' = recent
           /\ next_seq' = next_seq + len + Overhead
           /\ bytes_to_send' = bytes_to_send - size
           /\ UpdateQueueEstimate(estimate + len, forecast, forecast_time, forecast_tick)
    /\ IF bytes_to_send' = 0
       THEN /\ client' = "wait"
            /\ client_next' = Most(now + ClientInterval, client_next)
       ELSE UNCHANGED <<client, client_next>>
    /\ UNCHANGED <<now, server, forecast, forecast_time, serverVars, answers, lost,
                   newest, overtaken>>

\* recv of a packet with a forecast, however old.
ClientRecv ==
    /\ client = "wait"
    /\ \E f \in answers :
          /\ answers' = answers \ {f}
          /\ forecast' = f
          /\ forecast_time' = now
          /\ UpdateQueueEstimate(next_seq - f.count, f, now, 0)
    /\ client' = "loop"
    /\ UNCHANGED <<now, server, next_seq, sent_packets, bytes_to_send,
                   client_next, serverVars, data, lost, newest, overtaken>>

-----------------------------------------------------------------------------
(* The server.                                                             *)

\* advance_to: whole ticks, up to less than one behind.
Advanced == IF now > time THEN time + TickLength * ((now - time - 1) \div TickLength)
            ELSE time

\* RecvQueue::recv: pushed once more for every time it comes.
Pushed(k) ==
    [x \in DOMAIN received \cup {k} |->
        (IF x \in DOMAIN received THEN received[x] ELSE 0) + (IF x = k THEN 1 ELSE 0)]

\* Variant: the packet that comes last says what is thrown away.
ServerReceiveLast(p) ==
    /\ received' = Pushed([seq |-> p.seq, len |-> p.len])
    /\ throwaway_before' = p.seq - p.throwaway
    /\ time' = IF server = "attach" THEN now ELSE Advanced
    /\ server_next' = IF server = "attach" THEN now + ServerInterval ELSE server_next
    /\ server' = "loop"
    /\ UNCHANGED <<now, client, clientVars, cached, local_forecast_time, answers>>

\* Connection::recv and Receiver::recv of the packet p.  The first packet
\* attaches the client and sets the receiver's clock.
ServerReceive(p) ==
    /\ received' = Pushed([seq |-> p.seq, len |-> p.len])
    /\ throwaway_before' = Most(throwaway_before, p.seq - p.throwaway)
    /\ time' = IF server = "attach" THEN now ELSE Advanced
    /\ server_next' = IF server = "attach" THEN now + ServerInterval ELSE server_next
    /\ server' = "loop"
    /\ UNCHANGED <<now, client, clientVars, cached, local_forecast_time, answers>>

\* packet_count: packets below throwaway_before are popped; what is before it
\* is received or lost, and the packets after it are received.
Kept == [p \in {q \in DOMAIN received : q.seq >= throwaway_before} |-> received[p]]

PacketCount ==
    throwaway_before + SumFunction([p \in DOMAIN Kept |-> p.len * Kept[p]])

\* The server's loop: when it is time, an empty packet with the forecast, if
\* there is a new one.
ServerLoop ==
    /\ server = "loop"
    /\ server' = "wait"
    /\ IF server_next <= now
       THEN /\ server_next' = Most(now + ServerInterval, server_next)
            /\ time' = Advanced
            /\ IF cached.time = time'
               THEN UNCHANGED <<cached, received>>
               ELSE /\ received' = Kept
                    /\ \E f \in Forecasts :
                          cached' = [time |-> time', count |-> PacketCount, counts |-> f]
            /\ local_forecast_time' = cached'.time
            /\ answers' = IF cached'.time # local_forecast_time
                          THEN answers \cup {[count |-> cached'.count, counts |-> cached'.counts]}
                          ELSE answers
       ELSE UNCHANGED <<server_next, time, cached, received, local_forecast_time, answers>>
    /\ UNCHANGED <<now, client, clientVars, throwaway_before, data, lost,
                   newest, overtaken>>

-----------------------------------------------------------------------------
(* The network loses, delays, reorders and, up to Copies, repeats.         *)

Deliver ==
    /\ server \in {"attach", "wait"}
    /\ \E p \in data :
          /\ data' = (data \ {p}) \cup
                (IF p.copies + 1 < Copies THEN {[p EXCEPT !.copies = @ + 1]} ELSE {})
          /\ overtaken' = (overtaken \/ \E q \in data :
                q.copies = 0 /\ q.seq < p.seq /\ q.sent < p.sent - ReorderLimit)
          /\ newest' = Most(newest, p.sent)
          /\ ServerReceive(p)
    /\ UNCHANGED lost

Lose ==
    /\ \/ \E p \in data :
             /\ data' = data \ {p}
             /\ lost' = IF p.copies = 0 THEN lost \cup {p} ELSE lost
             /\ UNCHANGED answers
       \/ \E f \in answers : answers' = answers \ {f} /\ UNCHANGED <<data, lost>>
    /\ UNCHANGED <<now, client, server, clientVars, serverVars, newest, overtaken>>

\* Both loops wait at most a unit of time for a packet.
Advance ==
    /\ client = "wait" /\ server \in {"attach", "wait"}
    /\ now < MaxTime
    /\ now' = now + 1
    /\ client' = "loop"
    /\ server' = IF server = "attach" THEN server ELSE "loop"
    /\ UNCHANGED <<clientVars, serverVars, netVars>>

Next ==
    \/ ClientLoop \/ ClientSend \/ ClientRecv
    \/ Deliver \/ ServerLoop
    \/ Lose \/ Advance

Spec == Init /\ [][Next]_vars

-----------------------------------------------------------------------------
(* Properties.                                                             *)

\* Types of the state.
TypeOK ==
    /\ client \in {"loop", "burst", "wait"} /\ server \in {"attach", "loop", "wait"}
    /\ forecast_tick \in 0..(Ticks(forecast) - 1)
    /\ bytes_to_send \in Nat /\ next_seq \in Nat
    /\ \A p \in data : p.throwaway \in 0..WindowCap
    /\ sent_packets # <<>> => sent_packets[1].time <= now

\* The assertion of sproutconn.cc:74: the receiver never counts more bytes
\* than were sent, so the estimate of the queue is not negative.
EstimateNotNegative == estimate >= 0

\* The estimate never hides bytes that are still on their way, as long as the
\* network reorders no more than REORDER_LIMIT: every count leaves at least the
\* packets in flight to the queue.
InFlight == SumFunction([p \in {q \in data : q.copies = 0} |-> p.len + Overhead])
CountsOnlyWhatLeft ==
    ~overtaken => PacketCount + InFlight <= next_seq

\* The bytes sent within the reordering limit fit into a throwaway window
\* (network.cc:548 cuts it at 65535): the condition under which no packet that
\* may still come is thrown away.
SpanFits ==
    sent_packets # <<>> =>
        sent_packets[Len(sent_packets)].seq - sent_packets[1].seq <= WindowCap

\* The receiver never takes back bytes it has counted, as received or as lost,
\* when packets come late, out of order or not at all.
CountNeverShrinks == [][PacketCount' >= PacketCount]_vars

\* A loss is not taken for queued bytes for ever: once a packet has come that
\* was sent more than REORDER_LIMIT after it, a lost packet is counted.
LossIsCounted ==
    \A q \in lost :
        q.sent < newest - ReorderLimit => q.seq + q.len + Overhead <= PacketCount
=============================================================================
