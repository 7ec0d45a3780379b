---------------------------- MODULE SproutProofs ----------------------------
(***************************************************************************)
(* The bytes Sprout counts, for every forecast, packet size, reordering    *)
(* limit and clock bound.                                                  *)
(***************************************************************************)
EXTENDS SproutLemmas

-----------------------------------------------------------------------------
(* Types, and losses: whatever the network repeats.                        *)

LEMMA InitIInv == Init => IInv
<1> SUFFICES ASSUME Init PROVE IInv
  OBVIOUS
<1>1. PICK f \in Forecasts :
         /\ forecast = [count |-> 0, counts |-> f]
         /\ forecast_time = -(TickLength * Len(f))
         /\ cached = [time |-> 0, count |-> 0, counts |-> f]
  BY DEF Init
<1>2. f \in Seq(Nat) /\ Len(f) \in Nat /\ Len(f) > 0 /\ TickLength * Len(f) \in Nat
  BY ForecastFacts, Constants, Products
<1>3. ClientInv
  <2>1. forecast \in Prediction /\ Ticks(forecast) = Len(f)
    BY <1>1 DEF Prediction, Ticks
  <2>2. forecast_time \in Int /\ forecast_time <= 0
    BY <1>1, <1>2
  <2> QED BY <1>2, <2>1, <2>2 DEF Init, ClientInv
<1>4. QueueInv
  BY DEF Init, QueueInv
<1>5. PacketInv
  BY FS_EmptySet DEF Init, PacketInv
<1>6. ServerInv
  <2>1. DOMAIN received = {}
    BY DEF Init
  <2> QED BY <1>1, <2>1, FS_EmptySet DEF Init, ServerInv
<1>7. LossInv
  BY DEF Init, LossInv
<1> QED BY <1>3, <1>4, <1>5, <1>6, <1>7 DEF IInv

LEMMA ClientLoopIInv ==
    ASSUME IInv, ClientLoop
    PROVE  IInv'
<1>1. /\ UpdateQueueEstimate(estimate, forecast, forecast_time, forecast_tick)
      /\ bytes_to_send' = Window(estimate', forecast_tick')
      /\ client' \in {"burst", "wait"}
      /\ UNCHANGED <<now, server, next_seq, sent_packets, client_next, forecast,
                     forecast_time, serverVars, netVars>>
  BY DEF ClientLoop
<1>2. /\ forecast_tick' \in 0..(Ticks(forecast) - 1) /\ estimate' \in Int
  <2>1. /\ ClientInv /\ estimate \in Int /\ forecast \in Prediction /\ forecast_time \in Int
        /\ forecast_tick \in 0..(Ticks(forecast) - 1)
    BY DEF IInv, ClientInv
  <2> QED BY <1>1, <2>1, UpdateFacts
<1>3. bytes_to_send' \in Nat
  <2>1. forecast \in Prediction
    BY DEF IInv, ClientInv
  <2> QED BY <1>1, <1>2, <2>1, WindowFacts
<1>4. ClientInv'
  BY <1>1, <1>2, <1>3 DEF IInv, ClientInv, Ticks, netVars
<1>5. QueueInv' /\ PacketInv' /\ ServerInv' /\ LossInv'
  BY <1>1 DEF IInv, QueueInv, PacketInv, ServerInv, LossInv, netVars, serverVars
<1> QED BY <1>4, <1>5 DEF IInv

LEMMA ClientRecvIInv ==
    ASSUME IInv, ClientRecv
    PROVE  IInv'
<1>1. PICK f \in answers :
         /\ answers' = answers \ {f}
         /\ forecast' = f
         /\ forecast_time' = now
         /\ UpdateQueueEstimate(next_seq - f.count, f, now, 0)
  BY DEF ClientRecv
<1>2. /\ client' = "loop"
      /\ UNCHANGED <<now, server, next_seq, sent_packets, bytes_to_send,
                     client_next, serverVars, data, lost, newest, overtaken>>
  BY DEF ClientRecv
<1>3. f \in Prediction /\ now \in Nat /\ next_seq \in Nat
  BY DEF IInv, ClientInv
<1>4. forecast_tick' \in 0..(Ticks(f) - 1) /\ estimate' \in Int
  <2>1. next_seq - f.count \in Int /\ now \in Int
    BY <1>3 DEF Prediction
  <2>2. 0 \in 0..(Ticks(f) - 1)
    BY <1>3, ForecastFacts DEF Prediction, Ticks
  <2>3. ClientInv
    BY DEF IInv
  <2> QED BY <1>1, <1>3, <2>1, <2>2, <2>3, UpdateFacts
<1>5. ClientInv'
  BY <1>1, <1>2, <1>3, <1>4 DEF IInv, ClientInv, Ticks
<1>6. QueueInv' /\ PacketInv' /\ ServerInv' /\ LossInv'
  BY <1>2 DEF IInv, QueueInv, PacketInv, ServerInv, LossInv, serverVars
<1> QED BY <1>5, <1>6 DEF IInv

LEMMA ServerLoopIInv ==
    ASSUME IInv, ServerLoop
    PROVE  IInv'
<1>1. /\ server' = "wait"
      /\ UNCHANGED <<now, client, clientVars, throwaway_before, data, lost,
                     newest, overtaken>>
  BY DEF ServerLoop
<1>2. \/ UNCHANGED <<received, cached>>
      \/ /\ received' = Kept
         /\ \E f \in Forecasts : cached' = [time |-> time', count |-> PacketCount, counts |-> f]
  BY DEF ServerLoop
<1>3. \/ answers' = answers
      \/ answers' = answers \cup {[count |-> cached'.count, counts |-> cached'.counts]}
  BY DEF ServerLoop
<1>4. ServerInv
  BY DEF IInv
<1>5. cached'.count \in Nat /\ cached'.counts \in Forecasts
  BY <1>2, <1>4, CountFacts DEF ServerInv
<1>6. /\ IsFiniteSet(DOMAIN received') /\ DOMAIN received' \subseteq Key
      /\ \A k \in DOMAIN received' : received'[k] \in Nat
  <2>1. CASE UNCHANGED <<received, cached>>
    BY <1>4, <2>1 DEF ServerInv
  <2>2. CASE received' = Kept
    <3>1. /\ DOMAIN Kept \subseteq DOMAIN received
          /\ \A k \in DOMAIN Kept : Kept[k] = received[k]
      BY DEF Kept
    <3>2. IsFiniteSet(DOMAIN Kept)
      BY <1>4, <3>1, FS_Subset DEF ServerInv
    <3> QED BY <1>4, <2>2, <3>1, <3>2 DEF ServerInv
  <2> QED BY <1>2, <2>1, <2>2
<1>7. ServerInv'
  BY <1>1, <1>4, <1>5, <1>6 DEF ServerInv, clientVars
<1>8. ClientInv'
  BY <1>1, <1>3, <1>5 DEF IInv, ClientInv, clientVars, Prediction, Ticks
<1>9. QueueInv' /\ PacketInv' /\ LossInv'
  BY <1>1 DEF IInv, QueueInv, PacketInv, LossInv, clientVars
<1> QED BY <1>7, <1>8, <1>9 DEF IInv

\* What new_packet does: the packet, and the queue behind its throwaway window.
LEMMA SendFacts ==
    ASSUME IInv, ClientSend
    PROVE  /\ \E p \in Packet :
                 /\ data' = data \cup {p} /\ p.seq = next_seq /\ p.sent = now
                 /\ p.copies = 0 /\ next_seq' = End(p)
                 /\ p.throwaway = Least(WindowCap, next_seq - sent_packets'[1].seq)
                 /\ p.throwaway <= p.seq /\ p.throwaway <= WindowCap
           /\ next_seq \in Nat /\ next_seq' \in Nat /\ next_seq <= next_seq'
           /\ bytes_to_send' \in Nat /\ client' \in {"burst", "wait"}
           /\ \E n \in Nat : UpdateQueueEstimate(estimate + n, forecast, forecast_time,
                                                 forecast_tick)
           /\ UNCHANGED <<now, server, forecast, forecast_time, serverVars, answers, lost,
                          newest, overtaken>>
<1> DEFINE size == PacketSize(bytes_to_send)
           len == size + Header
           r == Recent(Append(sent_packets, [seq |-> next_seq, time |-> now]))
           p == [seq |-> next_seq, len |-> len, sent |-> now, copies |-> 0,
                 throwaway |-> Least(WindowCap, next_seq - r[1].seq)]
<1>1. /\ client = "burst"
      /\ data' = data \cup {p} /\ sent_packets' = r
      /\ next_seq' = next_seq + len + Overhead
      /\ bytes_to_send' = bytes_to_send - size
      /\ UpdateQueueEstimate(estimate + len, forecast, forecast_time, forecast_tick)
      /\ client' \in {client, "wait"}
      /\ UNCHANGED <<now, server, forecast, forecast_time, serverVars, answers, lost,
                     newest, overtaken>>
  BY DEF ClientSend
<1>2. size \in Nat /\ size <= bytes_to_send /\ bytes_to_send \in Nat /\ len \in Nat
  BY Constants DEF IInv, ClientInv, PacketSize, Least
<1>3. next_seq \in Nat /\ now \in Nat
  BY DEF IInv, ClientInv
<1>4. r[1].seq \in Nat /\ r[1].seq <= next_seq
  <2> DEFINE x == [seq |-> next_seq, time |-> now]
  <2>1. /\ r \in Seq([seq: Nat, time: Nat]) /\ Len(r) \in Nat /\ Len(r) > 0
        /\ r[Len(r)] = x
        /\ \A i, j \in 1..Len(r) : i <= j => r[i].seq <= r[j].seq
    BY RecentFacts, Zenon DEF IInv
  <2> HIDE DEF r
  <2>2. 1 \in 1..Len(r) /\ Len(r) \in 1..Len(r) /\ 1 <= Len(r)
    BY <2>1
  <2>3. r[1].seq <= r[Len(r)].seq
    BY <2>1, <2>2
  <2>4. r[1] \in [seq: Nat, time: Nat]
    <3> DEFINE R == [seq: Nat, time: Nat]
    <3>1. r \in Seq(R)
      BY <2>1
    <3> HIDE DEF R
    <3>2. r[1] \in R
      BY <2>2, <3>1
    <3> QED BY <3>2 DEF R
  <2> QED BY <2>1, <2>3, <2>4
<1> HIDE DEF r, size
<1>5. /\ Least(WindowCap, next_seq - r[1].seq) \in Nat
      /\ Least(WindowCap, next_seq - r[1].seq) <= next_seq
      /\ Least(WindowCap, next_seq - r[1].seq) <= WindowCap
  BY <1>3, <1>4, Constants DEF Least
<1>6. p \in Packet
  <2> HIDE DEF len
  <2> QED BY <1>2, <1>3, <1>5 DEF Packet
<1>7. next_seq' = End(p) /\ next_seq' \in Nat /\ next_seq <= next_seq'
  BY <1>1, <1>2, <1>3, Constants DEF End
<1>8. bytes_to_send' \in Nat
  BY <1>1, <1>2
<1>9. /\ data' = data \cup {p} /\ p.seq = next_seq /\ p.sent = now
      /\ p.copies = 0 /\ next_seq' = End(p)
      /\ p.throwaway = Least(WindowCap, next_seq - sent_packets'[1].seq)
      /\ p.throwaway <= p.seq /\ p.throwaway <= WindowCap
  BY <1>1, <1>5, <1>7
<1> HIDE DEF p
<1>10. \E n \in Nat : UpdateQueueEstimate(estimate + n, forecast, forecast_time, forecast_tick)
  <2> HIDE DEF len
  <2> QED BY <1>1, <1>2
<1>11. client' \in {"burst", "wait"}
  BY <1>1
<1> QED BY <1>1, <1>3, <1>6, <1>7, <1>8, <1>9, <1>10, <1>11

\* The queue after new_packet.
LEMMA SendQueueFacts ==
    ASSUME IInv, ClientSend
    PROVE  /\ sent_packets' \in Seq([seq: Nat, time: Nat])
           /\ Len(sent_packets') \in Nat /\ Len(sent_packets') > 0
           /\ sent_packets'[Len(sent_packets')] = [seq |-> next_seq, time |-> now]
           /\ sent_packets'[1].time >= now - ReorderLimit
           /\ \A i, j \in 1..Len(sent_packets') :
                 i <= j => sent_packets'[i].seq <= sent_packets'[j].seq
           /\ \A i \in 1..Len(sent_packets') :
                 \/ sent_packets'[i] = [seq |-> next_seq, time |-> now]
                 \/ \E j \in 1..Len(sent_packets) : sent_packets'[i] = sent_packets[j]
           /\ \A j \in 1..Len(sent_packets) :
                 sent_packets[j].time >= now - ReorderLimit =>
                    \E i \in 1..Len(sent_packets') : sent_packets'[i] = sent_packets[j]
<1>1. sent_packets' = Recent(Append(sent_packets, [seq |-> next_seq, time |-> now]))
  BY DEF ClientSend
<1>2. ClientInv /\ QueueInv
  BY DEF IInv
<1> QED BY <1>1, <1>2, RecentFacts, Zenon

LEMMA SendQueueTypes ==
    ASSUME IInv, ClientSend
    PROVE  \A i \in 1..Len(sent_packets') :
              sent_packets'[i].seq \in Nat /\ sent_packets'[i].time \in Nat
<1> DEFINE R == [seq: Nat, time: Nat]
           t == sent_packets'
<1>1. t \in Seq(R)
  BY SendQueueFacts
<1>2. \A i \in 1..Len(t) : t[i] \in R
  <2> HIDE DEF R
  <2> QED BY <1>1
<1> QED BY <1>2

LEMMA ClientSendIInv ==
    ASSUME IInv, ClientSend
    PROVE  IInv'
<1> DEFINE t == sent_packets'
<1>1. /\ next_seq \in Nat /\ next_seq' \in Nat /\ next_seq <= next_seq'
      /\ bytes_to_send' \in Nat /\ client' \in {"burst", "wait"}
      /\ UNCHANGED <<now, server, forecast, forecast_time, serverVars, answers, lost,
                     newest, overtaken>>
  BY SendFacts
<1>2. PICK p \in Packet :
         /\ data' = data \cup {p} /\ p.seq = next_seq /\ p.sent = now
         /\ p.copies = 0 /\ next_seq' = End(p)
         /\ p.throwaway = Least(WindowCap, next_seq - sent_packets'[1].seq)
         /\ p.throwaway <= p.seq /\ p.throwaway <= WindowCap
  BY SendFacts
<1>3. now \in Nat
  BY DEF IInv, ClientInv
<1>4. ClientInv'
  <2>1. PICK n \in Nat : UpdateQueueEstimate(estimate + n, forecast, forecast_time,
                                             forecast_tick)
    BY SendFacts
  <2>2. /\ ClientInv /\ estimate + n \in Int /\ forecast \in Prediction
        /\ forecast_time \in Int /\ forecast_tick \in 0..(Ticks(forecast) - 1)
    BY DEF IInv, ClientInv
  <2>3. /\ forecast_tick' \in 0..(Ticks(forecast) - 1) /\ estimate' \in Int
    BY <2>1, <2>2, UpdateFacts
  <2> QED BY <1>1, <2>3 DEF IInv, ClientInv, Ticks
<1>5. QueueInv'
  <2>1. \A i \in 1..Len(t) : t[i].time <= now /\ t[i].seq <= next_seq
    <3> SUFFICES ASSUME NEW i \in 1..Len(t) PROVE t[i].time <= now /\ t[i].seq <= next_seq
      OBVIOUS
    <3>1. CASE t[i] = [seq |-> next_seq, time |-> now]
      BY <1>1, <1>3, <3>1
    <3>2. CASE \E j \in 1..Len(sent_packets) : t[i] = sent_packets[j]
      BY <3>2 DEF IInv, QueueInv
    <3> QED BY <3>1, <3>2, SendQueueFacts, Zenon
  <2>2. t \in Seq([seq: Nat, time: Nat])
    BY SendQueueFacts
  <2>3. \A i, j \in 1..Len(t) : i <= j => t[i].seq <= t[j].seq
    BY SendQueueFacts
  <2>4. \A i \in 1..Len(t) : t[i].time <= now' /\ t[i].seq <= next_seq'
    <3> SUFFICES ASSUME NEW i \in 1..Len(t) PROVE t[i].time <= now' /\ t[i].seq <= next_seq'
      OBVIOUS
    <3>1. t[i].time \in Nat /\ t[i].seq \in Nat
      BY SendQueueTypes
    <3> QED BY <1>1, <2>1, <3>1
  <2> QED BY <2>2, <2>3, <2>4 DEF QueueInv
<1>6. PacketInv'
  <2>1. IsFiniteSet(data')
    BY <1>2, FS_AddElement DEF IInv, PacketInv
  <2>2. data' \cup lost' \subseteq Packet
    BY <1>1, <1>2 DEF IInv, PacketInv
  <2>3. ASSUME NEW q \in data' \cup lost'
        PROVE  /\ q.sent <= now' /\ End(q) <= next_seq'
               /\ q.throwaway <= q.seq /\ q.throwaway <= WindowCap
    <3>1. CASE q = p
      BY <1>1, <1>2, <1>3, <3>1
    <3>2. CASE q \in data \cup lost
      <4>1. /\ q.sent <= now /\ End(q) <= next_seq
            /\ q.throwaway <= q.seq /\ q.throwaway <= WindowCap
        BY <3>2 DEF IInv, PacketInv
      <4>2. End(q) \in Nat
        BY <3>2, Constants DEF IInv, PacketInv, Packet, End
      <4> QED BY <1>1, <4>1, <4>2
    <3> QED BY <1>1, <1>2, <2>3, <3>1, <3>2
  <2>4. newest' \in Nat /\ newest' <= now'
    BY <1>1 DEF IInv, PacketInv
  <2> QED BY <2>1, <2>2, <2>3, <2>4 DEF PacketInv
<1>7. ServerInv'
  <2>1. throwaway_before' <= next_seq'
    BY <1>1 DEF IInv, ServerInv, serverVars
  <2>2. server' = server /\ throwaway_before' = throwaway_before /\ received' = received
        /\ cached' = cached
    BY <1>1 DEF serverVars
  <2>3. ServerInv
    BY DEF IInv
  <2> QED BY <2>1, <2>2, <2>3 DEF ServerInv
<1>8. \A q \in data \cup lost : /\ End(q) \in Nat /\ q.sent \in Nat /\ q.seq \in Nat
                                /\ End(q) <= next_seq /\ q.sent <= now
  BY Constants DEF IInv, PacketInv, Packet, End
<1>9. \A q \in data' \cup lost' : q = p \/ q \in data \cup lost
  BY <1>1, <1>2
<1>10. \A q \in data' \cup lost', i \in 1..Len(t) : q.sent < t[i].time => End(q) <= t[i].seq
  <2> SUFFICES ASSUME NEW q \in data' \cup lost', NEW i \in 1..Len(t), q.sent < t[i].time
               PROVE  End(q) <= t[i].seq
    OBVIOUS
  <2>1. t[i].time \in Nat /\ t[i].time <= now
    BY <1>1, <1>5, SendQueueTypes DEF QueueInv
  <2>2. q # p
    BY <1>2, <1>3, <2>1
  <2>3. q \in data \cup lost
    BY <1>9, <2>2
  <2>4. CASE t[i] = [seq |-> next_seq, time |-> now]
    BY <1>8, <2>3, <2>4
  <2>5. CASE \E j \in 1..Len(sent_packets) : t[i] = sent_packets[j]
    BY <2>3, <2>5 DEF IInv, LossInv
  <2> QED BY <2>4, <2>5, SendQueueFacts, Zenon
<1>11. \A s \in data', q \in data' \cup lost' :
          q.sent < s.sent - ReorderLimit => End(q) <= s.seq - s.throwaway
  <2> SUFFICES ASSUME NEW s \in data', NEW q \in data' \cup lost',
                      q.sent < s.sent - ReorderLimit
               PROVE  End(q) <= s.seq - s.throwaway
    OBVIOUS
  <2>1. s.sent \in Nat /\ s.sent <= now /\ (s = p \/ s \in data)
    BY <1>2, <1>3, <1>8
  <2>2. q # p
    BY <1>2, <1>3, <2>1, Constants
  <2>3. q \in data \cup lost
    BY <1>9, <2>2
  <2>4. CASE s = p
    <3>1. 1 \in 1..Len(t) /\ t[1].time \in Nat /\ t[1].seq \in Nat
          /\ t[1].time >= now - ReorderLimit
      BY SendQueueFacts, SendQueueTypes
    <3>2. q.sent < t[1].time
      BY <1>2, <1>3, <1>8, <2>3, <2>4, <3>1, Constants
    <3>3. End(q) <= t[1].seq
      BY <1>10, <3>1, <3>2
    <3>4. p.throwaway <= next_seq - t[1].seq /\ p.throwaway \in Nat
      <4>1. p.throwaway \in Nat
        BY <1>2 DEF Packet
      <4>2. p.throwaway = Least(WindowCap, next_seq - t[1].seq)
        BY <1>2
      <4> QED BY <1>1, <3>1, <4>1, <4>2, Constants DEF Least
    <3>5. End(q) \in Nat
      BY <1>8, <2>3
    <3> QED BY <1>1, <1>2, <2>4, <3>1, <3>3, <3>4, <3>5
  <2>5. CASE s \in data
    BY <2>3, <2>5 DEF IInv, LossInv
  <2> QED BY <2>1, <2>4, <2>5
<1>12. \A q \in data' \cup lost' :
          q.sent < newest' - ReorderLimit => End(q) <= throwaway_before'
  <2> SUFFICES ASSUME NEW q \in data' \cup lost', q.sent < newest' - ReorderLimit
               PROVE  End(q) <= throwaway_before'
    OBVIOUS
  <2>1. newest' = newest /\ newest \in Nat /\ newest <= now
        /\ throwaway_before' = throwaway_before
    BY <1>1 DEF IInv, PacketInv, serverVars
  <2>2. q # p
    BY <1>2, <1>3, <2>1, Constants
  <2>3. q \in data \cup lost
    BY <1>9, <2>2
  <2> QED BY <2>1, <2>3 DEF IInv, LossInv
<1>13. LossInv'
  BY <1>10, <1>11, <1>12 DEF LossInv
<1> QED BY <1>4, <1>5, <1>6, <1>7, <1>13 DEF IInv

\* What the arrival of a packet does to the server.
LEMMA DeliverFacts ==
    ASSUME IInv, Deliver
    PROVE  /\ \E p \in data :
                 /\ data' = (data \ {p}) \cup
                       (IF p.copies + 1 < Copies THEN {[p EXCEPT !.copies = @ + 1]} ELSE {})
                 /\ overtaken' = (overtaken \/ \E q \in data :
                       q.copies = 0 /\ q.seq < p.seq /\ q.sent < p.sent - ReorderLimit)
                 /\ newest' = Most(newest, p.sent)
                 /\ throwaway_before' = Most(throwaway_before, p.seq - p.throwaway)
                 /\ DOMAIN received' = DOMAIN received \cup {[seq |-> p.seq, len |-> p.len]}
                 /\ \A k \in DOMAIN received' :
                       received'[k] =
                          (IF k \in DOMAIN received THEN received[k] ELSE 0)
                          + (IF k = [seq |-> p.seq, len |-> p.len] THEN 1 ELSE 0)
           /\ server' = "loop" /\ lost' = lost
           /\ UNCHANGED <<now, client, clientVars, cached, local_forecast_time, answers>>
<1>1. PICK p \in data :
         /\ data' = (data \ {p}) \cup
               (IF p.copies + 1 < Copies THEN {[p EXCEPT !.copies = @ + 1]} ELSE {})
         /\ overtaken' = (overtaken \/ \E q \in data :
               q.copies = 0 /\ q.seq < p.seq /\ q.sent < p.sent - ReorderLimit)
         /\ newest' = Most(newest, p.sent)
         /\ ServerReceive(p)
  BY Zenon DEF Deliver
<1> DEFINE key == [seq |-> p.seq, len |-> p.len]
<1>3. received' = Pushed(key)
  BY <1>1 DEF ServerReceive
<1> HIDE DEF key
<1>6. /\ DOMAIN received' = DOMAIN received \cup {key}
      /\ \A k \in DOMAIN received' :
            received'[k] = (IF k \in DOMAIN received THEN received[k] ELSE 0)
                           + (IF k = key THEN 1 ELSE 0)
  BY <1>3 DEF Pushed
<1>7. /\ throwaway_before' = Most(throwaway_before, p.seq - p.throwaway)
      /\ server' = "loop"
      /\ UNCHANGED <<now, client, clientVars, cached, local_forecast_time, answers>>
  BY <1>1 DEF ServerReceive
<1>8. lost' = lost
  BY DEF Deliver
<1> QED BY <1>1, <1>6, <1>7, <1>8, Zenon DEF key

LEMMA DeliverIInv ==
    ASSUME IInv, Deliver
    PROVE  IInv'
<1>1. PICK p \in data :
         /\ data' = (data \ {p}) \cup
               (IF p.copies + 1 < Copies THEN {[p EXCEPT !.copies = @ + 1]} ELSE {})
         /\ newest' = Most(newest, p.sent)
         /\ throwaway_before' = Most(throwaway_before, p.seq - p.throwaway)
         /\ DOMAIN received' = DOMAIN received \cup {[seq |-> p.seq, len |-> p.len]}
         /\ \A k \in DOMAIN received' :
               received'[k] = (IF k \in DOMAIN received THEN received[k] ELSE 0)
                              + (IF k = [seq |-> p.seq, len |-> p.len] THEN 1 ELSE 0)
  BY DeliverFacts
<1>2. /\ server' = "loop" /\ lost' = lost
      /\ UNCHANGED <<now, client, clientVars, cached, answers>>
  BY DeliverFacts
<1>3. /\ now' = now /\ client' = client /\ cached' = cached /\ answers' = answers
      /\ next_seq' = next_seq /\ sent_packets' = sent_packets
      /\ bytes_to_send' = bytes_to_send /\ estimate' = estimate /\ forecast' = forecast
      /\ forecast_time' = forecast_time /\ forecast_tick' = forecast_tick
  BY <1>2 DEF clientVars
<1>4. ClientInv' /\ QueueInv'
  BY <1>3 DEF IInv, ClientInv, QueueInv, Ticks
<1>5. /\ p \in Packet /\ p.seq \in Nat /\ p.len \in Nat /\ p.sent \in Nat /\ p.throwaway \in Nat
      /\ p.copies \in Nat /\ p.sent <= now /\ p.throwaway <= p.seq /\ End(p) <= next_seq
      /\ p.seq <= next_seq /\ next_seq \in Nat
  BY Constants DEF IInv, PacketInv, Packet, ClientInv, End
<1>6. \A q \in data' : \E r \in data : /\ q \in Packet /\ q.seq = r.seq /\ q.len = r.len
                                      /\ q.sent = r.sent /\ q.throwaway = r.throwaway
  <2> SUFFICES ASSUME NEW q \in data'
               PROVE  \E r \in data : /\ q \in Packet /\ q.seq = r.seq /\ q.len = r.len
                                      /\ q.sent = r.sent /\ q.throwaway = r.throwaway
    OBVIOUS
  <2>1. CASE q \in data
    BY <2>1 DEF IInv, PacketInv
  <2>2. CASE q = [p EXCEPT !.copies = @ + 1]
    BY <1>5, <2>2 DEF Packet
  <2> QED BY <1>1, <2>1, <2>2
<1>7. PacketInv'
  <2>1. IsFiniteSet(data')
    <3>1. IsFiniteSet(data \ {p})
      BY FS_RemoveElement DEF IInv, PacketInv
    <3>2. IsFiniteSet((data \ {p}) \cup {[p EXCEPT !.copies = @ + 1]})
      BY <3>1, FS_AddElement
    <3> QED BY <1>1, <3>1, <3>2, Zenon
  <2>2. data' \cup lost' \subseteq Packet
    BY <1>2, <1>6 DEF IInv, PacketInv
  <2>3. ASSUME NEW q \in data' \cup lost'
        PROVE  /\ q.sent <= now /\ End(q) <= next_seq
               /\ q.throwaway <= q.seq /\ q.throwaway <= WindowCap
    BY <1>2, <1>6, <2>3 DEF IInv, PacketInv, End
  <2>4. newest' \in Nat /\ newest' <= now
    BY <1>1, <1>5 DEF IInv, PacketInv, Most
  <2> QED BY <1>3, <2>1, <2>2, <2>3, <2>4 DEF PacketInv
<1>8. throwaway_before' \in Nat /\ throwaway_before' <= next_seq
  BY <1>1, <1>5 DEF IInv, ServerInv, Most
<1>9. ServerInv'
  <2> DEFINE key == [seq |-> p.seq, len |-> p.len]
  <2>1. key \in Key
    BY <1>5 DEF Key
  <2> HIDE DEF key
  <2>2. DOMAIN received' \subseteq Key
    BY <1>1, <2>1 DEF IInv, ServerInv, key
  <2>3. IsFiniteSet(DOMAIN received')
    <3>1. IsFiniteSet(DOMAIN received)
      BY DEF IInv, ServerInv
    <3>2. DOMAIN received' = DOMAIN received \cup {key}
      BY <1>1 DEF key
    <3>3. IsFiniteSet(DOMAIN received \cup {key})
      BY <3>1, FS_AddElement
    <3> QED BY <3>2, <3>3
  <2>4. \A k \in DOMAIN received' : received'[k] \in Nat
    BY <1>1 DEF IInv, ServerInv
  <2>5. server' \in {"attach", "loop", "wait"}
    BY <1>2
  <2>6. cached'.count \in Nat /\ cached'.counts \in Forecasts
    BY <1>3 DEF IInv, ServerInv
  <2> QED BY <1>3, <1>8, <2>2, <2>3, <2>4, <2>5, <2>6 DEF ServerInv
<1>10. \A q \in data' \cup lost' : \E r \in data \cup lost :
          q.sent = r.sent /\ End(q) = End(r)
  BY <1>2, <1>6 DEF End
<1>11. \A q \in data \cup lost : End(q) \in Nat /\ q.sent \in Nat
  BY Constants DEF IInv, PacketInv, Packet, End
<1>12. LossInv'
  <2>1. ASSUME NEW q \in data' \cup lost', NEW i \in 1..Len(sent_packets')
        PROVE  q.sent < sent_packets'[i].time => End(q) <= sent_packets'[i].seq
    BY <1>3, <1>10, <2>1 DEF IInv, LossInv
  <2>2. ASSUME NEW s \in data', NEW q \in data' \cup lost'
        PROVE  q.sent < s.sent - ReorderLimit => End(q) <= s.seq - s.throwaway
    BY <1>6, <1>10, <2>2 DEF IInv, LossInv
  <2>3. ASSUME NEW q \in data' \cup lost', q.sent < newest' - ReorderLimit
        PROVE  End(q) <= throwaway_before'
    <3>1. PICK r \in data \cup lost : q.sent = r.sent /\ End(q) = End(r)
      BY <1>10, <2>3
    <3>2. CASE newest' = newest
      <4>1. End(r) <= throwaway_before
        BY <2>3, <3>1, <3>2 DEF IInv, LossInv
      <4> QED BY <1>1, <1>5, <1>8, <1>11, <3>1, <4>1 DEF Most, IInv, ServerInv
    <3>3. CASE newest' = p.sent
      <4>1. End(r) <= p.seq - p.throwaway
        BY <2>3, <3>1, <3>3 DEF IInv, LossInv
      <4> QED BY <1>1, <1>5, <1>8, <1>11, <3>1, <4>1 DEF Most, IInv, ServerInv
    <3> QED BY <1>1, <3>2, <3>3 DEF Most
  <2> QED BY <2>1, <2>2, <2>3 DEF LossInv
<1> QED BY <1>4, <1>7, <1>9, <1>12 DEF IInv

LEMMA LoseIInv ==
    ASSUME IInv, Lose
    PROVE  IInv'
<1>1. /\ now' = now /\ client' = client /\ server' = server
      /\ next_seq' = next_seq /\ sent_packets' = sent_packets
      /\ bytes_to_send' = bytes_to_send /\ estimate' = estimate /\ forecast' = forecast
      /\ forecast_time' = forecast_time /\ forecast_tick' = forecast_tick
      /\ throwaway_before' = throwaway_before /\ received' = received /\ cached' = cached
      /\ newest' = newest
  BY DEF Lose, clientVars, serverVars
<1>2. data' \subseteq data /\ lost' \subseteq data \cup lost /\ answers' \subseteq answers
  BY DEF Lose
<1>3. IsFiniteSet(data')
  BY <1>2, FS_Subset DEF IInv, PacketInv
<1>4. data' \cup lost' \subseteq data \cup lost
  BY <1>2
<1>5. ClientInv' /\ QueueInv'
  BY <1>1, <1>2, Zenon DEF IInv, ClientInv, QueueInv, Ticks
<1>6. PacketInv'
  BY <1>1, <1>3, <1>4 DEF IInv, PacketInv
<1>7. ServerInv'
  BY <1>1 DEF IInv, ServerInv
<1>8. LossInv'
  BY <1>1, <1>2, <1>4 DEF IInv, LossInv
<1> QED BY <1>5, <1>6, <1>7, <1>8 DEF IInv

LEMMA AdvanceIInv ==
    ASSUME IInv, Advance
    PROVE  IInv'
<1>1. /\ next_seq' = next_seq /\ sent_packets' = sent_packets
      /\ bytes_to_send' = bytes_to_send /\ estimate' = estimate /\ forecast' = forecast
      /\ forecast_time' = forecast_time /\ forecast_tick' = forecast_tick
      /\ throwaway_before' = throwaway_before /\ received' = received /\ cached' = cached
      /\ newest' = newest /\ data' = data /\ answers' = answers /\ lost' = lost
  BY DEF Advance, clientVars, serverVars, netVars
<1>2. /\ now \in Nat /\ now' = now + 1 /\ client' \in {"loop", "burst", "wait"}
      /\ server' \in {"attach", "loop", "wait"}
  BY DEF Advance, IInv, ClientInv
<1>3. ClientInv'
  BY <1>1, <1>2 DEF IInv, ClientInv, Ticks
<1>4. QueueInv'
  <2>1. \A i \in 1..Len(sent_packets) : sent_packets[i].time <= now + 1
    <3> DEFINE R == [seq: Nat, time: Nat]
    <3> SUFFICES ASSUME NEW i \in 1..Len(sent_packets) PROVE sent_packets[i].time <= now + 1
      OBVIOUS
    <3>1. sent_packets \in Seq(R)
      BY DEF IInv, QueueInv
    <3>2. sent_packets[i] \in R
      <4> HIDE DEF R
      <4> QED BY <3>1
    <3>3. sent_packets[i].time <= now
      BY DEF IInv, QueueInv
    <3> QED BY <1>2, <3>2, <3>3
  <2> QED BY <1>1, <1>2, <2>1 DEF IInv, QueueInv
<1>5. PacketInv'
  <2>1. \A p \in data \cup lost : p.sent \in Nat /\ p.sent <= now + 1
    BY <1>2 DEF IInv, PacketInv, Packet
  <2>2. newest <= now + 1
    BY <1>2 DEF IInv, PacketInv
  <2> QED BY <1>1, <1>2, <2>1, <2>2 DEF IInv, PacketInv
<1>6. ServerInv'
  BY <1>1, <1>2 DEF IInv, ServerInv
<1>7. LossInv'
  BY <1>1 DEF IInv, LossInv
<1> QED BY <1>3, <1>4, <1>5, <1>6, <1>7 DEF IInv

LEMMA NextIInv == IInv /\ [Next]_vars => IInv'
<1> SUFFICES ASSUME IInv, [Next]_vars PROVE IInv'
  OBVIOUS
<1>1. CASE ClientLoop
  BY <1>1, ClientLoopIInv
<1>2. CASE ClientSend
  BY <1>2, ClientSendIInv
<1>3. CASE ClientRecv
  BY <1>3, ClientRecvIInv
<1>4. CASE Deliver
  BY <1>4, DeliverIInv
<1>5. CASE ServerLoop
  BY <1>5, ServerLoopIInv
<1>6. CASE Lose
  BY <1>6, LoseIInv
<1>7. CASE Advance
  BY <1>7, AdvanceIInv
<1>8. CASE UNCHANGED vars
  BY <1>8 DEF vars, clientVars, serverVars, netVars, IInv, ClientInv, QueueInv, PacketInv,
              ServerInv, LossInv, Ticks
<1> QED BY <1>1, <1>2, <1>3, <1>4, <1>5, <1>6, <1>7, <1>8 DEF Next

LEMMA AlwaysIInv == Spec => []IInv
BY InitIInv, NextIInv, PTL DEF Spec

\* The state of client, server and network keeps its types: in particular the
\* tick update_queue_estimate moves to is one the forecast has, and a burst
\* does not send more than the window it was given.
THEOREM SproutTypes == Spec => []TypeOK
<1>1. IInv => TypeOK
  <2> SUFFICES ASSUME IInv PROVE TypeOK
    OBVIOUS
  <2>1. /\ client \in {"loop", "burst", "wait"} /\ server \in {"attach", "loop", "wait"}
        /\ forecast_tick \in 0..(Ticks(forecast) - 1)
        /\ bytes_to_send \in Nat /\ next_seq \in Nat
    BY DEF IInv, ClientInv, ServerInv
  <2>2. \A p \in data : p.throwaway \in 0..WindowCap
    BY Constants DEF IInv, PacketInv, Packet
  <2>3. sent_packets # <<>> => sent_packets[1].time <= now
    BY DEF IInv, QueueInv
  <2> QED BY <2>1, <2>2, <2>3 DEF TypeOK
<1> QED BY <1>1, AlwaysIInv, PTL

\* Every lost packet is counted by packet_count once a packet sent more than
\* REORDER_LIMIT after it has come, whatever else was lost, reordered or
\* repeated: the throwaway window the client writes reaches beyond it.
THEOREM LossesAreCounted == Spec => []LossIsCounted
<1>1. IInv => LossIsCounted
  <2> SUFFICES ASSUME IInv, NEW q \in lost, q.sent < newest - ReorderLimit
               PROVE  q.seq + q.len + Overhead <= PacketCount
    BY DEF LossIsCounted
  <2>1. End(q) <= throwaway_before
    BY DEF IInv, LossInv
  <2>2. PacketCount \in Nat /\ PacketCount >= throwaway_before /\ throwaway_before \in Nat
    BY CountFacts DEF IInv, ServerInv
  <2>3. End(q) \in Nat
    BY Constants DEF IInv, PacketInv, Packet, End
  <2>4. End(q) <= PacketCount
    BY <2>1, <2>2, <2>3
  <2> QED BY <2>4 DEF End
<1> QED BY <1>1, AlwaysIInv, PTL

-----------------------------------------------------------------------------
(* A network that does not repeat packets.                                 *)

\* Only two actions add packets, to the network and to the server.
LEMMA OtherSteps ==
    ASSUME IInv, [Next]_vars, ~ClientSend, ~Deliver
    PROVE  /\ data' \subseteq data /\ (received' = received \/ received' = Kept)
           /\ next_seq' = next_seq /\ throwaway_before' = throwaway_before
           /\ sent_packets' = sent_packets /\ overtaken' = overtaken
           /\ (now' = now \/ now' = now + 1)
<1>1. CASE ClientLoop
  BY <1>1 DEF ClientLoop, serverVars, netVars
<1>2. CASE ClientRecv
  BY <1>2 DEF ClientRecv, serverVars
<1>3. CASE ServerLoop
  BY <1>3 DEF ServerLoop, clientVars
<1>4. CASE Lose
  BY <1>4 DEF Lose, clientVars, serverVars
<1>5. CASE Advance
  BY <1>5 DEF Advance, clientVars, serverVars, netVars
<1>6. CASE UNCHANGED vars
  BY <1>6 DEF vars, clientVars, serverVars, netVars
<1> QED BY <1>1, <1>2, <1>3, <1>4, <1>5, <1>6 DEF Next

\* What is in received after such a step was in it before.
LEMMA KeptIsPart ==
    ASSUME received' = received \/ received' = Kept
    PROVE  /\ DOMAIN received' \subseteq DOMAIN received
           /\ \A k \in DOMAIN received' : received'[k] = received[k]
<1>1. /\ DOMAIN Kept = {q \in DOMAIN received : q.seq >= throwaway_before}
      /\ \A p \in DOMAIN Kept : Kept[p] = received[p]
  BY DEF Kept
<1>2. CASE received' = received
  BY <1>2
<1>3. CASE received' = Kept
  <2> HIDE DEF Kept
  <2> QED BY <1>1, <1>3
<1> QED BY <1>2, <1>3

\* The arrival of the only copy of a packet.
LEMMA DeliverOnce ==
    ASSUME Copies = 1, IInv, OnceInv, Deliver
    PROVE  \E p \in data, key \in Key :
              /\ data' = data \ {p}
              /\ key.seq = p.seq /\ key.len = p.len /\ key \notin DOMAIN received
              /\ overtaken' = (overtaken \/ \E q \in data :
                    q.copies = 0 /\ q.seq < p.seq /\ q.sent < p.sent - ReorderLimit)
              /\ throwaway_before' = Most(throwaway_before, p.seq - p.throwaway)
              /\ DOMAIN received' = DOMAIN received \cup {key}
              /\ received'[key] = 1
              /\ \A k \in DOMAIN received : received'[k] = received[k]
<1>1. PICK p \in data :
         /\ data' = (data \ {p}) \cup
               (IF p.copies + 1 < Copies THEN {[p EXCEPT !.copies = @ + 1]} ELSE {})
         /\ overtaken' = (overtaken \/ \E q \in data :
               q.copies = 0 /\ q.seq < p.seq /\ q.sent < p.sent - ReorderLimit)
         /\ throwaway_before' = Most(throwaway_before, p.seq - p.throwaway)
         /\ DOMAIN received' = DOMAIN received \cup {[seq |-> p.seq, len |-> p.len]}
         /\ \A k \in DOMAIN received' :
               received'[k] = (IF k \in DOMAIN received THEN received[k] ELSE 0)
                              + (IF k = [seq |-> p.seq, len |-> p.len] THEN 1 ELSE 0)
  BY DeliverFacts, Zenon
<1> DEFINE key == [seq |-> p.seq, len |-> p.len]
<1>2. p.seq \in Nat /\ p.len \in Nat /\ p.copies = 0
  BY DEF IInv, PacketInv, Packet, OnceInv
<1>3. key \in Key /\ key.seq = p.seq /\ key.len = p.len
  BY <1>2 DEF Key
<1>4. data' = data \ {p}
  BY <1>1, <1>2
<1>5. /\ DOMAIN received' = DOMAIN received \cup {key}
      /\ \A k \in DOMAIN received' :
            received'[k] = (IF k \in DOMAIN received THEN received[k] ELSE 0)
                           + (IF k = key THEN 1 ELSE 0)
  BY <1>1
<1> HIDE DEF key
<1>6. key \notin DOMAIN received
  <2> SUFFICES ASSUME key \in DOMAIN received PROVE FALSE
    OBVIOUS
  <2>1. Clear(p, key)
    BY DEF OnceInv
  <2> QED BY <1>2, <1>3, <2>1, Constants DEF Clear, End
<1>7. received'[key] = 1
  BY <1>5, <1>6
<1>8. \A k \in DOMAIN received : received'[k] = received[k]
  BY <1>5, <1>6 DEF IInv, ServerInv
<1> QED BY <1>1, <1>3, <1>4, <1>5, <1>6, <1>7, <1>8

LEMMA NextOnce ==
    ASSUME Copies = 1, IInv, OnceInv, [Next]_vars
    PROVE  OnceInv'
<1>0. \A p \in data : p.seq \in Nat /\ p.len \in Nat /\ End(p) \in Nat /\ End(p) <= next_seq
  BY Constants DEF IInv, PacketInv, Packet, End
<1>1. \A k \in DOMAIN received : /\ k.seq \in Nat /\ k.len \in Nat /\ End(k) \in Nat
                                 /\ End(k) <= next_seq
  BY Constants DEF IInv, ServerInv, OnceInv, Key, End
<1>2. CASE ClientSend
  <2>1. PICK p \in Packet : data' = data \cup {p} /\ p.seq = next_seq /\ p.copies = 0
    BY <1>2, SendFacts
  <2>2. received' = received /\ next_seq \in Nat /\ next_seq' \in Nat /\ next_seq <= next_seq'
    BY <1>2, SendFacts DEF serverVars
  <2>3. \A q \in data' : q.copies = 0
    BY <2>1 DEF OnceInv
  <2>4. \A k \in DOMAIN received' : received'[k] = 1 /\ End(k) <= next_seq'
    BY <1>1, <2>2 DEF OnceInv
  <2>5. \A q, r \in data' : q = r \/ Clear(q, r)
    BY <1>0, <2>1 DEF OnceInv, Clear
  <2>6. \A k, l \in DOMAIN received' : k = l \/ Clear(k, l)
    BY <2>2 DEF OnceInv
  <2>7. \A q \in data', k \in DOMAIN received' : Clear(q, k)
    BY <1>1, <2>1, <2>2 DEF OnceInv, Clear
  <2> QED BY <2>3, <2>4, <2>5, <2>6, <2>7 DEF OnceInv
<1>3. CASE Deliver
  <2>1. PICK p \in data, key \in Key :
           /\ data' = data \ {p} /\ key.seq = p.seq /\ key.len = p.len
           /\ DOMAIN received' = DOMAIN received \cup {key} /\ received'[key] = 1
           /\ \A k \in DOMAIN received : received'[k] = received[k]
    BY <1>3, DeliverOnce
  <2>2. next_seq' = next_seq
    BY <1>3, DeliverFacts DEF clientVars
  <2>3. End(key) = End(p)
    BY <2>1 DEF End
  <2>4. \A q \in data' : q.copies = 0
    BY <2>1 DEF OnceInv
  <2>5. \A k \in DOMAIN received' : received'[k] = 1 /\ End(k) <= next_seq'
    BY <1>0, <2>1, <2>2, <2>3 DEF OnceInv
  <2>6. \A q, r \in data' : q = r \/ Clear(q, r)
    BY <2>1 DEF OnceInv
  <2>7. \A k \in DOMAIN received : Clear(key, k) /\ Clear(k, key)
    BY <2>1, <2>3 DEF OnceInv, Clear
  <2>8. \A k, l \in DOMAIN received' : k = l \/ Clear(k, l)
    BY <2>1, <2>7 DEF OnceInv
  <2>9. \A q \in data', k \in DOMAIN received' : Clear(q, k)
    <3> SUFFICES ASSUME NEW q \in data', NEW k \in DOMAIN received' PROVE Clear(q, k)
      OBVIOUS
    <3>1. q \in data /\ q # p
      BY <2>1
    <3>2. CASE k = key
      <4>1. Clear(q, p)
        BY <3>1 DEF OnceInv
      <4> QED BY <2>1, <2>3, <3>2, <4>1 DEF Clear
    <3>3. CASE k \in DOMAIN received
      BY <3>1, <3>3 DEF OnceInv
    <3> QED BY <2>1, <3>2, <3>3
  <2> QED BY <2>4, <2>5, <2>6, <2>8, <2>9 DEF OnceInv
<1>4. CASE ~ClientSend /\ ~Deliver
  <2>1. /\ data' \subseteq data /\ (received' = received \/ received' = Kept)
        /\ next_seq' = next_seq
    BY <1>4, OtherSteps
  <2>2. /\ DOMAIN received' \subseteq DOMAIN received
        /\ \A k \in DOMAIN received' : received'[k] = received[k]
    BY <2>1, KeptIsPart
  <2> QED BY <2>1, <2>2 DEF OnceInv
<1> QED BY <1>2, <1>3, <1>4

LEMMA NextCount ==
    ASSUME IInv, OnceInv, CountInv, [Next]_vars
    PROVE  CountInv'
<1>0. /\ next_seq \in Nat /\ estimate \in Int /\ forecast \in Prediction
      /\ forecast_time \in Int /\ forecast_tick \in 0..(Ticks(forecast) - 1)
      /\ ClientInv /\ now \in Nat /\ answers \subseteq Prediction
      /\ cached.count \in Nat
  BY DEF IInv, ClientInv, ServerInv
<1>1. CASE ClientLoop
  <2>1. UpdateQueueEstimate(estimate, forecast, forecast_time, forecast_tick)
    BY <1>1 DEF ClientLoop
  <2>2. estimate' >= 0
    BY <1>0, <2>1, UpdateFacts DEF CountInv
  <2> QED BY <1>1, <2>2 DEF ClientLoop, CountInv, serverVars, netVars
<1>2. CASE ClientSend
  <2>1. PICK n \in Nat : UpdateQueueEstimate(estimate + n, forecast, forecast_time,
                                             forecast_tick)
    BY <1>2, SendFacts
  <2>2. estimate + n \in Int /\ estimate + n >= 0
    BY <1>0 DEF CountInv
  <2>3. estimate' >= 0
    BY <1>0, <2>1, <2>2, UpdateFacts
  <2>4. /\ next_seq' \in Nat /\ next_seq <= next_seq' /\ cached' = cached
        /\ answers' = answers
    BY <1>2, SendFacts DEF serverVars
  <2>5. cached'.count <= next_seq'
    BY <1>0, <2>4 DEF CountInv
  <2>6. \A f \in answers' : f.count <= next_seq'
    BY <1>0, <2>4 DEF CountInv, Prediction
  <2> QED BY <2>3, <2>5, <2>6 DEF CountInv
<1>3. CASE ClientRecv
  <2>1. PICK f \in answers : /\ answers' = answers \ {f}
                             /\ UpdateQueueEstimate(next_seq - f.count, f, now, 0)
    BY <1>3 DEF ClientRecv
  <2>2. f \in Prediction /\ f.count \in Nat /\ f.count <= next_seq
    BY <1>0 DEF CountInv, Prediction
  <2>3. next_seq - f.count \in Int /\ next_seq - f.count >= 0
    BY <1>0, <2>2
  <2>4. 0 \in 0..(Ticks(f) - 1)
    <3>1. f.counts \in Forecasts
      BY <2>2 DEF Prediction
    <3> QED BY <3>1, ForecastFacts DEF Ticks
  <2>5. estimate' >= 0
    BY <1>0, <2>1, <2>2, <2>3, <2>4, UpdateFacts
  <2> QED BY <1>3, <2>1, <2>5 DEF ClientRecv, CountInv, serverVars
<1>4. CASE Deliver
  BY <1>4, DeliverFacts DEF CountInv, clientVars
<1>5. CASE ServerLoop
  <2>1. next_seq' = next_seq /\ estimate' = estimate
    BY <1>5 DEF ServerLoop, clientVars
  <2>2. cached'.count \in {cached.count, PacketCount}
    BY <1>5 DEF ServerLoop
  <2>3. cached'.count <= next_seq
    BY <2>2, CountBound DEF CountInv
  <2>4. \A f \in answers' : f \in answers \/ f.count = cached'.count
    BY <1>5 DEF ServerLoop
  <2> QED BY <2>1, <2>3, <2>4 DEF CountInv
<1>6. CASE Lose
  BY <1>6 DEF Lose, CountInv, clientVars, serverVars
<1>7. CASE Advance
  BY <1>7 DEF Advance, CountInv, clientVars, serverVars, netVars
<1>8. CASE UNCHANGED vars
  BY <1>8 DEF vars, CountInv, clientVars, serverVars, netVars
<1> QED BY <1>1, <1>2, <1>3, <1>4, <1>5, <1>6, <1>7, <1>8 DEF Next

LEMMA InitOnce == Init => OnceInv /\ CountInv /\ WindowInv /\ AlignInv
<1> SUFFICES ASSUME Init PROVE OnceInv /\ CountInv /\ WindowInv /\ AlignInv
  OBVIOUS
<1>1. /\ data = {} /\ answers = {} /\ next_seq = 0 /\ estimate = 0 /\ overtaken = FALSE
      /\ cached.count = 0
  BY DEF Init
<1>2. DOMAIN received = {}
  BY DEF Init
<1>3. OnceInv
  BY <1>1, <1>2 DEF OnceInv
<1>4. CountInv
  BY <1>1 DEF CountInv
<1>5. WindowInv
  BY <1>1, Zenon DEF WindowInv
<1>6. AlignInv
  BY <1>1, <1>2 DEF AlignInv
<1> QED BY <1>3, <1>4, <1>5, <1>6

\* The assertion in update_queue_estimate holds for every forecast, packet
\* size and loss, as long as the network repeats no packet.
THEOREM EstimateHolds == Copies = 1 => (Spec => []EstimateNotNegative)
<1> SUFFICES ASSUME Copies = 1 PROVE Spec => []EstimateNotNegative
  OBVIOUS
<1> DEFINE Inv == IInv /\ OnceInv /\ CountInv
<1>1. Init => Inv
  BY InitIInv, InitOnce
<1>2. Inv /\ [Next]_vars => Inv'
  BY NextIInv, NextOnce, NextCount
<1>3. Inv => EstimateNotNegative
  BY DEF CountInv, EstimateNotNegative
<1> QED BY <1>1, <1>2, <1>3, PTL DEF Spec

-----------------------------------------------------------------------------
(* ... and the bytes within the reordering limit fit into a window.        *)

\* Then the throwaway window is the whole queue.
LEMMA WholeWindow ==
    ASSUME IInv, ClientSend, SpanFits'
    PROVE  \E p \in Packet :
              /\ data' = data \cup {p} /\ p.seq = next_seq /\ p.sent = now
              /\ p.copies = 0 /\ next_seq' = End(p)
              /\ p.seq - p.throwaway = sent_packets'[1].seq
              /\ 1 \in 1..Len(sent_packets') /\ sent_packets'[1].seq \in Nat
<1> DEFINE t == sent_packets'
<1>1. PICK p \in Packet :
         /\ data' = data \cup {p} /\ p.seq = next_seq /\ p.sent = now
         /\ p.copies = 0 /\ next_seq' = End(p)
         /\ p.throwaway = Least(WindowCap, next_seq - t[1].seq)
  BY SendFacts
<1>2. next_seq \in Nat
  BY SendFacts
<1>3. /\ Len(t) \in Nat /\ Len(t) > 0 /\ t[Len(t)] = [seq |-> next_seq, time |-> now]
      /\ t \in Seq([seq: Nat, time: Nat])
  BY SendQueueFacts
<1>4. 1 \in 1..Len(t) /\ t[1].seq \in Nat
  BY <1>3, SendQueueTypes
<1>5. t # <<>>
  BY <1>3
<1>6. t[Len(t)].seq - t[1].seq <= WindowCap
  BY <1>5 DEF SpanFits
<1>7. next_seq - t[1].seq <= WindowCap
  BY <1>3, <1>6
<1>8. p.throwaway = next_seq - t[1].seq
  BY <1>1, <1>2, <1>4, <1>7, Constants DEF Least
<1>9. p.seq - p.throwaway = t[1].seq
  BY <1>1, <1>2, <1>4, <1>8
<1> QED BY <1>1, <1>4, <1>9

LEMMA NextWindow ==
    ASSUME Copies = 1, IInv, OnceInv, WindowInv, [Next]_vars, SpanFits'
    PROVE  WindowInv'
<1>0. \A q \in data : q.sent \in Nat /\ q.seq \in Nat /\ q.seq <= next_seq /\ q.sent <= now
                      /\ q.throwaway \in Nat
  BY Constants DEF IInv, PacketInv, Packet, End, ClientInv
<1>1. /\ now \in Nat /\ next_seq \in Nat /\ throwaway_before \in Nat
      /\ throwaway_before <= next_seq
  BY DEF IInv, ClientInv, ServerInv
<1>2. CASE ClientSend
  <2> DEFINE t == sent_packets'
  <2>1. PICK p \in Packet :
           /\ data' = data \cup {p} /\ p.seq = next_seq /\ p.sent = now
           /\ p.seq - p.throwaway = t[1].seq
           /\ 1 \in 1..Len(t) /\ t[1].seq \in Nat
    BY <1>2, WholeWindow
  <2>2. now' = now /\ overtaken' = overtaken /\ throwaway_before' = throwaway_before
    BY <1>2, SendFacts DEF serverVars
  <2>3. \A q \in data' : q.sent >= now - ReorderLimit =>
           \E i \in 1..Len(t) : t[i].seq = q.seq /\ t[i].time = q.sent
    <3> SUFFICES ASSUME NEW q \in data', q.sent >= now - ReorderLimit
                 PROVE  \E i \in 1..Len(t) : t[i].seq = q.seq /\ t[i].time = q.sent
      OBVIOUS
    <3>1. CASE q = p
      <4>1. Len(t) \in 1..Len(t) /\ t[Len(t)] = [seq |-> next_seq, time |-> now]
        BY <1>2, SendQueueFacts
      <4> QED BY <2>1, <3>1, <4>1
    <3>2. CASE q \in data
      <4>1. PICK j \in 1..Len(sent_packets) :
               sent_packets[j].seq = q.seq /\ sent_packets[j].time = q.sent
        BY <3>2 DEF WindowInv
      <4>2. PICK i \in 1..Len(t) : t[i] = sent_packets[j]
        BY <1>2, <4>1, SendQueueFacts
      <4> QED BY <4>1, <4>2
    <3> QED BY <2>1, <3>1, <3>2
  <2>4. \A s, q \in data' : q.seq <= s.seq /\ q.sent >= s.sent - ReorderLimit
                               => q.seq >= s.seq - s.throwaway
    <3> SUFFICES ASSUME NEW s \in data', NEW q \in data', q.seq <= s.seq,
                        q.sent >= s.sent - ReorderLimit
                 PROVE  q.seq >= s.seq - s.throwaway
      OBVIOUS
    <3>1. CASE s = p
      <4>1. PICK i \in 1..Len(t) : t[i].seq = q.seq /\ t[i].time = q.sent
        BY <2>1, <2>3, <3>1
      <4>2. t[1].seq <= t[i].seq
        BY <1>2, <2>1, SendQueueFacts
      <4> QED BY <2>1, <3>1, <4>1, <4>2
    <3>2. CASE s \in data /\ q = p
      <4>1. s.seq = next_seq
        BY <1>0, <1>1, <2>1, <3>2
      <4> QED BY <1>0, <1>1, <2>1, <3>2, <4>1
    <3>3. CASE s \in data /\ q \in data
      BY <3>3 DEF WindowInv
    <3> QED BY <2>1, <3>1, <3>2, <3>3
  <2>5. ~overtaken => \A q \in data' : q.seq >= throwaway_before
    BY <1>1, <2>1 DEF WindowInv
  <2> QED BY <2>2, <2>3, <2>4, <2>5 DEF WindowInv
<1>3. CASE Deliver
  <2>1. PICK p \in data :
           /\ data' = data \ {p}
           /\ overtaken' = (overtaken \/ \E q \in data :
                 q.copies = 0 /\ q.seq < p.seq /\ q.sent < p.sent - ReorderLimit)
           /\ throwaway_before' = Most(throwaway_before, p.seq - p.throwaway)
    BY <1>3, DeliverOnce, Zenon
  <2>2. now' = now /\ sent_packets' = sent_packets
    BY <1>3, DeliverFacts DEF clientVars
  <2>3. overtaken' \in BOOLEAN
    BY <2>1 DEF WindowInv
  <2>4. ASSUME ~overtaken', NEW q \in data' PROVE q.seq >= throwaway_before'
    <3>1. ~overtaken /\ q \in data /\ q.copies = 0
          /\ ~(q.seq < p.seq /\ q.sent < p.sent - ReorderLimit)
      BY <2>1, <2>4, Zenon DEF OnceInv
    <3>2. q.seq >= throwaway_before
      BY <3>1 DEF WindowInv
    <3>3. q.seq >= p.seq - p.throwaway
      <4>1. CASE q.seq >= p.seq
        BY <1>0, <3>1, <4>1
      <4>2. CASE q.seq < p.seq
        <5>1. q.seq <= p.seq /\ q.sent >= p.sent - ReorderLimit
          BY <1>0, <3>1, <4>2, Constants
        <5> QED BY <3>1, <5>1 DEF WindowInv
      <4> QED BY <1>0, <3>1, <4>1, <4>2
    <3> QED BY <2>1, <3>2, <3>3 DEF Most
  <2>5. \A q \in data' : q \in data
    BY <2>1
  <2> QED BY <2>2, <2>3, <2>4, <2>5 DEF WindowInv
<1>4. CASE ~ClientSend /\ ~Deliver
  <2>1. /\ data' \subseteq data /\ throwaway_before' = throwaway_before
        /\ sent_packets' = sent_packets /\ overtaken' = overtaken
        /\ (now' = now \/ now' = now + 1)
    BY <1>4, OtherSteps
  <2>2. \A q \in data' : q.sent >= now' - ReorderLimit => q.sent >= now - ReorderLimit
    BY <1>0, <1>1, <2>1, Constants
  <2> QED BY <2>1, <2>2 DEF WindowInv
<1> QED BY <1>2, <1>3, <1>4

LEMMA NextAlign ==
    ASSUME Copies = 1, IInv, OnceInv, AlignInv, [Next]_vars, SpanFits'
    PROVE  AlignInv'
<1>0. \A k \in data \cup DOMAIN received : k.seq \in Nat /\ End(k) \in Nat /\ End(k) <= next_seq
  BY Constants DEF IInv, PacketInv, Packet, ServerInv, OnceInv, Key, End
<1>1. CASE ClientSend
  <2> DEFINE t == sent_packets'
  <2>1. PICK p \in Packet :
           /\ data' = data \cup {p} /\ p.seq = next_seq
           /\ p.seq - p.throwaway = t[1].seq /\ 1 \in 1..Len(t)
    BY <1>1, WholeWindow
  <2>2. received' = received /\ next_seq \in Nat
    BY <1>1, SendFacts DEF serverVars
  <2>3. \A i \in 1..Len(t) : t[i].seq \in Nat /\ t[i].seq <= next_seq
    <3> SUFFICES ASSUME NEW i \in 1..Len(t) PROVE t[i].seq \in Nat /\ t[i].seq <= next_seq
      OBVIOUS
    <3>1. CASE t[i] = [seq |-> next_seq, time |-> now]
      BY <2>2, <3>1
    <3>2. CASE \E j \in 1..Len(sent_packets) : t[i] = sent_packets[j]
      <4>1. t[i].seq <= next_seq
        BY <3>2 DEF IInv, QueueInv
      <4> QED BY <1>1, <4>1, SendQueueTypes
    <3> QED BY <1>1, <3>1, <3>2, SendQueueFacts, Zenon
  <2>4. \A k \in data' \cup DOMAIN received' : k = p \/ k \in data \cup DOMAIN received
    BY <2>1, <2>2
  <2>5. \A k \in data' \cup DOMAIN received', i \in 1..Len(t) :
           k.seq >= t[i].seq \/ End(k) <= t[i].seq
    <3> SUFFICES ASSUME NEW k \in data' \cup DOMAIN received', NEW i \in 1..Len(t)
                 PROVE  k.seq >= t[i].seq \/ End(k) <= t[i].seq
      OBVIOUS
    <3>1. CASE k = p
      BY <2>1, <2>2, <2>3, <3>1
    <3>2. CASE k \in data \cup DOMAIN received /\ t[i] = [seq |-> next_seq, time |-> now]
      BY <1>0, <3>2
    <3>3. CASE /\ k \in data \cup DOMAIN received
               /\ \E j \in 1..Len(sent_packets) : t[i] = sent_packets[j]
      BY <3>3 DEF AlignInv
    <3> QED BY <1>1, <2>4, <3>1, <3>2, <3>3, SendQueueFacts, Zenon
  <2>6. \A s \in data', k \in data' \cup DOMAIN received' :
           k.seq >= s.seq - s.throwaway \/ End(k) <= s.seq - s.throwaway
    <3> SUFFICES ASSUME NEW s \in data', NEW k \in data' \cup DOMAIN received'
                 PROVE  k.seq >= s.seq - s.throwaway \/ End(k) <= s.seq - s.throwaway
      OBVIOUS
    <3>1. CASE s = p
      BY <2>1, <2>5, <3>1
    <3>2. CASE s \in data /\ k = p
      <4>1. s.seq \in Nat /\ s.throwaway \in Nat /\ s.seq <= next_seq
        BY <3>2, Constants DEF IInv, PacketInv, Packet, End, ClientInv
      <4> QED BY <2>1, <2>2, <3>2, <4>1
    <3>3. CASE s \in data /\ k \in data \cup DOMAIN received
      BY <3>3, Zenon DEF AlignInv
    <3> QED BY <2>1, <2>4, <3>1, <3>2, <3>3
  <2> QED BY <2>5, <2>6 DEF AlignInv
<1>2. CASE Deliver
  <2>1. PICK p \in data, key \in Key :
           /\ data' = data \ {p} /\ key.seq = p.seq /\ key.len = p.len
           /\ DOMAIN received' = DOMAIN received \cup {key}
    BY <1>2, DeliverOnce, Zenon
  <2>2. sent_packets' = sent_packets
    BY <1>2, DeliverFacts DEF clientVars
  <2>3. \A k \in data' \cup DOMAIN received' : \E l \in data \cup DOMAIN received :
           k.seq = l.seq /\ End(k) = End(l)
    BY <2>1 DEF End
  <2>4. \A s \in data' : s \in data
    BY <2>1
  <2>5. ASSUME NEW k \in data' \cup DOMAIN received', NEW i \in 1..Len(sent_packets)
        PROVE  k.seq >= sent_packets[i].seq \/ End(k) <= sent_packets[i].seq
    BY <2>3, <2>5 DEF AlignInv
  <2>6. ASSUME NEW s \in data', NEW k \in data' \cup DOMAIN received'
        PROVE  k.seq >= s.seq - s.throwaway \/ End(k) <= s.seq - s.throwaway
    BY <2>3, <2>4, <2>6 DEF AlignInv
  <2> QED BY <2>2, <2>5, <2>6 DEF AlignInv
<1>3. CASE ~ClientSend /\ ~Deliver
  <2>1. /\ data' \subseteq data /\ (received' = received \/ received' = Kept)
        /\ sent_packets' = sent_packets
    BY <1>3, OtherSteps
  <2>2. DOMAIN received' \subseteq DOMAIN received
    BY <2>1, KeptIsPart
  <2> QED BY <2>1, <2>2 DEF AlignInv
<1> QED BY <1>1, <1>2, <1>3

\* A packet that comes adds to the count at least what it throws away.
LEMMA DeliverGrows ==
    ASSUME Copies = 1, IInv, OnceInv, AlignInv, Deliver
    PROVE  PacketCount' >= PacketCount
<1> DEFINE w == [p \in DOMAIN Kept |-> p.len * Kept[p]]
           B == throwaway_before'
           S == {q \in DOMAIN received' : q.seq >= B}
           u == [p \in S |-> p.len * received'[p]]
           C == {k \in DOMAIN w : k.seq < B}
           D == {k \in DOMAIN w : k.seq >= B}
           f == [k \in C |-> w[k]]
           g == [k \in D |-> w[k]]
           at == [k \in C |-> k.seq]
<1>1. /\ DOMAIN w = {q \in DOMAIN received : q.seq >= throwaway_before}
      /\ IsFiniteSet(DOMAIN w) /\ DOMAIN w \subseteq Key
      /\ \A p \in DOMAIN w : w[p] = p.len * received[p] /\ w[p] \in Nat
      /\ SumFunction(w) \in Nat /\ PacketCount = throwaway_before + SumFunction(w)
  BY KeptFacts DEF IInv
<1>2. PICK d \in data, key \in Key :
         /\ B = Most(throwaway_before, d.seq - d.throwaway)
         /\ DOMAIN received' = DOMAIN received \cup {key}
         /\ \A k \in DOMAIN received : received'[k] = received[k]
  BY DeliverOnce, Zenon
<1>3. ServerInv'
  BY DeliverIInv DEF IInv
<1>4. PacketCount' = B + SumFunction(u)
  <2>1. Kept' = [p \in S |-> received'[p]]
    BY DEF Kept
  <2>2. DOMAIN Kept' = S /\ \A p \in S : Kept'[p] = received'[p]
    BY <2>1
  <2>3. [p \in DOMAIN Kept' |-> p.len * Kept'[p]] = u
    BY <2>2
  <2>4. PacketCount' = B + SumFunction([p \in DOMAIN Kept' |-> p.len * Kept'[p]])
    BY DEF PacketCount
  <2> QED BY <2>3, <2>4
<1>5. /\ throwaway_before \in Nat /\ B \in Nat /\ throwaway_before <= B
      /\ d.seq \in Nat /\ d.throwaway \in Nat
      /\ B = throwaway_before \/ B = d.seq - d.throwaway
  <2>1. throwaway_before \in Nat
    BY DEF IInv, ServerInv
  <2>2. B \in Nat
    BY <1>3 DEF ServerInv
  <2>3. d \in Packet
    BY DEF IInv, PacketInv
  <2>4. d.seq \in Nat /\ d.throwaway \in Nat
    BY <2>3 DEF Packet
  <2> HIDE DEF B
  <2>5. B = throwaway_before \/ B = d.seq - d.throwaway
    BY <1>2 DEF Most
  <2>6. B >= throwaway_before
    BY <1>2, <2>1, <2>2, <2>4 DEF Most
  <2> QED BY <2>1, <2>2, <2>4, <2>5, <2>6
<1>6. IsFiniteSet(S) /\ \A k \in S : u[k] = k.len * received'[k] /\ u[k] \in Nat
  <2>1. IsFiniteSet(S)
    BY <1>3, FS_Subset DEF ServerInv
  <2>2. \A k \in S : k.len \in Nat /\ received'[k] \in Nat
    BY <1>3 DEF ServerInv, Key
  <2>3. \A k \in S : k.len * received'[k] \in Nat
    BY <2>2, Products
  <2> QED BY <2>1, <2>3
<1>7. DOMAIN u = S
  OBVIOUS
<1> HIDE DEF w, u, B
<1>8. /\ DOMAIN f = C /\ DOMAIN g = D /\ DOMAIN at = C
      /\ \A k \in C : f[k] = w[k] /\ at[k] = k.seq
      /\ \A k \in D : g[k] = w[k]
  OBVIOUS
<1> HIDE DEF f, g, at
<1>9. \A k \in DOMAIN w : k.seq \in Nat /\ k.len \in Nat /\ w[k] = k.len /\ k \in DOMAIN received
  <2> SUFFICES ASSUME NEW k \in DOMAIN w
               PROVE  /\ k.seq \in Nat /\ k.len \in Nat /\ w[k] = k.len
                      /\ k \in DOMAIN received
    OBVIOUS
  <2>1. k \in Key /\ k \in DOMAIN received
    BY <1>1
  <2>2. k.seq \in Nat /\ k.len \in Nat
    BY <2>1 DEF Key
  <2>3. received[k] = 1
    BY <2>1 DEF OnceInv
  <2>4. w[k] = k.len * received[k]
    BY <1>1
  <2>5. w[k] = k.len * 1
    BY <2>3, <2>4
  <2> QED BY <2>1, <2>2, <2>5
<1>10. SumFunction(w) = SumFunction(f) + SumFunction(g)
  <2>1. IsFiniteSet(C) /\ IsFiniteSet(D)
    BY <1>1, FS_Subset
  <2>2. C \cap D = {} /\ DOMAIN w = C \cup D
    BY <1>5, <1>9
  <2>3. (\A k \in C : f[k] \in Nat) /\ (\A k \in D : g[k] \in Nat)
    BY <1>1, <1>8
  <2> HIDE DEF C, D
  <2> QED BY <1>8, <2>1, <2>2, <2>3, SumOfTwo, Zenon
<1>11. \A k \in C : throwaway_before <= k.seq /\ End(k) <= B
  <2> SUFFICES ASSUME NEW k \in C PROVE throwaway_before <= k.seq /\ End(k) <= B
    OBVIOUS
  <2>1. k \in DOMAIN received /\ k.seq >= throwaway_before /\ k.seq < B /\ k.seq \in Nat
    BY <1>1, <1>9
  <2>2. B = d.seq - d.throwaway
    BY <1>5, <2>1
  <2>3. k.seq >= B \/ End(k) <= B
    BY <2>1, <2>2 DEF AlignInv
  <2> QED BY <1>5, <2>1, <2>3
<1>12. SumFunction(f) <= B - throwaway_before
  <2>1. IsFiniteSet(C)
    BY <1>1, FS_Subset
  <2>2. \A k \in C : f[k] \in Nat /\ at[k] \in Nat /\ f[k] = k.len /\ at[k] = k.seq
    BY <1>1, <1>8, <1>9
  <2>3. \A k \in C : throwaway_before <= at[k] /\ at[k] + f[k] <= B
    <3> SUFFICES ASSUME NEW k \in C
                 PROVE  throwaway_before <= k.seq /\ k.seq + k.len <= B
      BY <2>2, Zenon
    <3>1. k.seq + k.len + Overhead <= B
      BY <1>11 DEF End
    <3> QED BY <1>5, <1>9, <1>11, <3>1, Constants
  <2>4. \A k, l \in C : k # l => at[k] + f[k] <= at[l] \/ at[l] + f[l] <= at[k]
    <3> SUFFICES ASSUME NEW k \in C, NEW l \in C, k # l
                 PROVE  k.seq + k.len <= l.seq \/ l.seq + l.len <= k.seq
      BY <2>2
    <3>1. Clear(k, l)
      BY <1>9 DEF OnceInv
    <3>2. k.seq + k.len + Overhead <= l.seq \/ l.seq + l.len + Overhead <= k.seq
      BY <3>1 DEF Clear, End
    <3>3. k.seq \in Nat /\ k.len \in Nat /\ l.seq \in Nat /\ l.len \in Nat
      BY <1>9
    <3> HIDE DEF C
    <3> QED BY <3>2, <3>3, Constants
  <2> HIDE DEF C
  <2> QED BY <1>5, <1>8, <2>1, <2>2, <2>3, <2>4, Packing
<1>13. SumFunction(g) <= SumFunction(u)
  <2>1. D \subseteq S
    BY <1>2, <1>9
  <2>2. \A k \in D : g[k] = u[k]
    BY <1>1, <1>2, <1>6, <1>8, <1>9, <2>1, Zenon
  <2> HIDE DEF D, S
  <2> QED BY <1>6, <1>7, <1>8, <2>1, <2>2, SumMonotone
<1>14. SumFunction(f) \in Nat /\ SumFunction(g) \in Nat /\ SumFunction(u) \in Nat
  <2>1. IsFiniteSet(C) /\ IsFiniteSet(D)
    BY <1>1, FS_Subset
  <2>2. (\A k \in C : f[k] \in Nat) /\ (\A k \in D : g[k] \in Nat)
    BY <1>1, <1>8
  <2> HIDE DEF C, D, S
  <2>3. SumFunction(f) \in Nat
    BY <1>8, <2>1, <2>2, SumIsCount
  <2>4. SumFunction(g) \in Nat
    BY <1>8, <2>1, <2>2, SumIsCount
  <2>5. SumFunction(u) \in Nat
    BY <1>6, <1>7, SumIsCount
  <2> QED BY <2>3, <2>4, <2>5
<1> HIDE DEF C, D, S
<1> QED BY <1>1, <1>4, <1>5, <1>10, <1>12, <1>13, <1>14

LEMMA CountGrows ==
    ASSUME Copies = 1, IInv, OnceInv, AlignInv, [Next]_vars
    PROVE  PacketCount' >= PacketCount
<1>0. PacketCount \in Nat
  BY CountFacts DEF IInv
<1>1. CASE Deliver
  BY <1>1, DeliverGrows
<1>2. CASE ~Deliver
  <2>1. (received' = received \/ received' = Kept) /\ throwaway_before' = throwaway_before
    <3>1. CASE ClientSend
      BY <3>1, SendFacts DEF serverVars
    <3>2. CASE ~ClientSend
      BY <1>2, <3>2, OtherSteps
    <3> QED BY <3>1, <3>2
  <2>2. Kept' = Kept
    <3>1. CASE received' = received
      BY <2>1, <3>1 DEF Kept
    <3>2. CASE received' = Kept
      <4>1. /\ DOMAIN Kept = {q \in DOMAIN received : q.seq >= throwaway_before}
            /\ Kept = [k \in DOMAIN Kept |-> Kept[k]]
        BY DEF Kept
      <4>2. Kept' = [k \in {q \in DOMAIN received' : q.seq >= throwaway_before'} |-> received'[k]]
        BY DEF Kept
      <4> HIDE DEF Kept
      <4>3. {q \in DOMAIN Kept : q.seq >= throwaway_before} = DOMAIN Kept
        BY <4>1
      <4>4. Kept' = [k \in {q \in DOMAIN Kept : q.seq >= throwaway_before} |-> Kept[k]]
        BY <2>1, <3>2, <4>2
      <4> QED BY <4>1, <4>3, <4>4
    <3> QED BY <2>1, <3>1, <3>2
  <2>3. PacketCount' = PacketCount
    <3> HIDE DEF Kept
    <3> QED BY <2>1, <2>2 DEF PacketCount
  <2> QED BY <1>0, <2>3
<1> QED BY <1>1, <1>2

\* What packet_count counts and what is still in flight never exceed what was
\* sent, for every sequence of sends, losses and deliveries in which no packet
\* overtakes one sent more than REORDER_LIMIT before it and the throwaway
\* window is never cut at 65535.
THEOREM NothingInFlightIsCounted ==
    Copies = 1 => (Spec /\ []SpanFits => []CountsOnlyWhatLeft)
<1> SUFFICES ASSUME Copies = 1 PROVE Spec /\ []SpanFits => []CountsOnlyWhatLeft
  OBVIOUS
<1> DEFINE Inv == IInv /\ OnceInv /\ WindowInv
<1>1. Init => Inv
  BY InitIInv, InitOnce
<1>2. Inv /\ SpanFits' /\ [Next]_vars => Inv'
  BY NextIInv, NextOnce, NextWindow
<1>3. Inv => CountsOnlyWhatLeft
  BY CountedAndFlying DEF CountsOnlyWhatLeft
<1> QED BY <1>1, <1>2, <1>3, PTL DEF Spec

\* The receiver's count never goes back, under the same condition on the
\* throwaway window: what a packet throws away are whole packets, and their
\* sequence numbers count for at least as much as their bytes did.
THEOREM CountIsMonotone ==
    Copies = 1 => (Spec /\ []SpanFits => CountNeverShrinks)
<1> SUFFICES ASSUME Copies = 1 PROVE Spec /\ []SpanFits => CountNeverShrinks
  OBVIOUS
<1> DEFINE Inv == IInv /\ OnceInv /\ AlignInv
<1>1. Init => Inv
  BY InitIInv, InitOnce
<1>2. Inv /\ SpanFits' /\ [Next]_vars => Inv'
  BY NextIInv, NextOnce, NextAlign
<1>3. Inv /\ [Next]_vars => [PacketCount' >= PacketCount]_vars
  BY CountGrows
<1> QED BY <1>1, <1>2, <1>3, PTL DEF Spec, CountNeverShrinks

=============================================================================
