--------------------------- MODULE EmulatorProofs ---------------------------
(***************************************************************************)
(* The two link emulators keep to their trace, for every trace, every size *)
(* of packets, every delay and however late select wakes them.             *)
(***************************************************************************)
EXTENDS Emulators, SequenceTheorems, WellFoundedInduction, NaturalsInduction, TLAPS

-----------------------------------------------------------------------------
(* Packets and the loops over them.                                        *)

Packet == [id: Nat, size: Nat, release: Nat]

\* The packets whose delay is over at time t.
Ready(t) == {p \in Packet : p.release <= t}

LEMMA LeastMember ==
    ASSUME NEW T, T \subseteq Nat, T # {}
    PROVE  \E m \in T : \A k \in T : m <= k
<1> DEFINE R == {ss \in Nat \X Nat : ss[1] < ss[2]}
<1>1. IsWellFoundedOn(R, Nat)
  BY NatLessThanWellFounded DEF OpToRel
<1> HIDE DEF R
<1>2. PICK m \in T : \A k \in T : ~ (<<k, m>> \in R)
  BY <1>1, WFMin, Zenon
<1>3. \A k \in T : ~ (k < m)
  BY <1>2, Zenon DEF R
<1> QED BY <1>3

\* A loop that takes entries off the front as long as they are in A ends.
LEMMA FrontLoop ==
    ASSUME NEW S, NEW q \in Seq(S), NEW A
    PROVE  \E n \in 0..Len(q) :
              /\ \A i \in 1..n : q[i] \in A
              /\ n < Len(q) => q[n + 1] \notin A
<1> DEFINE T == {n \in 0..Len(q) : n < Len(q) => q[n + 1] \notin A}
<1>0. Len(q) \in Nat
  OBVIOUS
<1>1. T \subseteq Nat /\ Len(q) \in T
  BY <1>0
<1>2. PICK n \in T : \A k \in T : n <= k
  BY <1>1, LeastMember, Zenon
<1>3. ASSUME NEW i \in 1..n PROVE q[i] \in A
  <2>1. i - 1 \in 0..Len(q) /\ i - 1 < n /\ i - 1 < Len(q) /\ (i - 1) + 1 = i
    BY <1>0, <1>2
  <2>2. i - 1 \notin T
    BY <1>2, <2>1
  <2> QED BY <2>1, <2>2
<1> QED BY <1>2, <1>3

LEMMA DueFacts ==
    ASSUME NEW q \in Seq(Packet), NEW t \in Nat
    PROVE  /\ Due(q, t) \in 0..Len(q)
           /\ \A i \in 1..Due(q, t) : q[i] \in Ready(t)
           /\ Due(q, t) < Len(q) => q[Due(q, t) + 1].release > t
<1>0. \A i \in 1..Len(q) : q[i] \in Packet /\ q[i].release \in Nat
  <2>1. \A i \in 1..Len(q) : q[i] \in Packet
    OBVIOUS
  <2> QED BY <2>1 DEF Packet
<1>1. PICK n \in 0..Len(q) :
          /\ \A i \in 1..n : q[i] \in Ready(t)
          /\ n < Len(q) => q[n + 1] \notin Ready(t)
  BY FrontLoop
<1>2. \A i \in 1..n : q[i].release <= t
  BY <1>1 DEF Ready
<1>3. n < Len(q) => q[n + 1].release > t
  <2> SUFFICES ASSUME n < Len(q) PROVE q[n + 1].release > t
    OBVIOUS
  <2>1. n + 1 \in 1..Len(q)
    OBVIOUS
  <2>2. q[n + 1] \in Packet /\ q[n + 1].release \in Nat
    BY <1>0, <2>1
  <2>3. ~(q[n + 1].release <= t)
    BY <1>1, <2>2 DEF Ready
  <2> QED BY <2>2, <2>3
<1>4. /\ Due(q, t) \in 0..Len(q)
      /\ \A i \in 1..Due(q, t) : q[i].release <= t
      /\ Due(q, t) < Len(q) => q[Due(q, t) + 1].release > t
  BY <1>2, <1>3, Zenon DEF Due
<1> DEFINE d == Due(q, t)
<1>5. d \in 0..Len(q) /\ (\A i \in 1..d : q[i].release <= t) /\ (d < Len(q) => q[d + 1].release > t)
  BY <1>4
<1> HIDE DEF d
<1>6. \A i \in 1..d : q[i] \in Ready(t)
  <2>1. \A i \in 1..d : i \in 1..Len(q)
    BY <1>5
  <2> QED BY <1>0, <1>5, <2>1 DEF Ready
<1> QED BY <1>5, <1>6 DEF d

LEMMA BeforeFacts ==
    ASSUME NEW s \in Seq(Nat), NEW t \in Nat
    PROVE  LET b == Proxy!Before(s, t)
           IN  /\ b \in 0..Len(s)
               /\ \A i \in 1..b : s[i] < t
               /\ b < Len(s) => s[b + 1] >= t
<1> DEFINE A == {x \in Nat : x < t}
<1>1. PICK n \in 0..Len(s) :
          /\ \A i \in 1..n : s[i] \in A
          /\ n < Len(s) => s[n + 1] \notin A
  <2> HIDE DEF A
  <2> QED BY FrontLoop
<1>2. \A i \in 1..n : s[i] < t
  BY <1>1
<1>3. n < Len(s) => s[n + 1] >= t
  <2> SUFFICES ASSUME n < Len(s) PROVE s[n + 1] >= t
    OBVIOUS
  <2>1. s[n + 1] \in Nat
    OBVIOUS
  <2> QED BY <1>1, <2>1
<1> QED BY <1>2, <1>3, Zenon DEF Proxy!Before

LEMMA ReadyFacts ==
    ASSUME NEW t \in Nat
    PROVE  /\ Ready(t) \subseteq Packet
           /\ \A u \in Nat : t <= u => Ready(t) \subseteq Ready(u)
           /\ \A p \in Packet : p.release \in Nat /\ p.size \in Nat
BY DEF Ready, Packet

\* Sequences of packets.
LEMMA Assoc ==
    \A a, b, c \in Seq(Packet) : (a \o b) \o c = a \o (b \o c)
BY ConcatAssociative

LEMMA AppendLast ==
    ASSUME NEW S, NEW a \in Seq(S), NEW x \in S
    PROVE  Append(a, x) \in Seq(S) /\ Append(a, x) = a \o <<x>> /\ <<x>> \in Seq(S)
<1>1. <<x>> \in Seq(S)
  OBVIOUS
<1>2. Append(a, x) \in Seq(S)
  BY AppendProperties, Zenon
<1>3. Append(a, x) = a \o <<x>>
  BY AppendIsConcat, Zenon
<1> QED BY <1>1, <1>2, <1>3

LEMMA Unit ==
    \A a \in Seq(Packet) : a \o <<>> = a /\ <<>> \o a = a
BY ConcatEmptySeq

LEMMA FirstRest ==
    ASSUME NEW S, NEW a \in Seq(S), a # <<>>
    PROVE  a[1] \in S /\ Tail(a) \in Seq(S) /\ a = <<a[1]>> \o Tail(a)
<1>1. a[1] \in S /\ Tail(a) \in Seq(S) /\ <<a[1]>> \in Seq(S)
  OBVIOUS
<1>2. <<a[1]>> \o Tail(a) \in Seq(S) /\ Len(<<a[1]>> \o Tail(a)) = Len(a)
  BY <1>1
<1>3. \A i \in 1..Len(a) : (<<a[1]>> \o Tail(a))[i] = a[i]
  BY <1>1
<1> QED BY <1>1, <1>2, <1>3, SeqEqual

\* The loop of tick over the delay queue.
LEMMA ReleaseFacts ==
    ASSUME NEW t \in Nat, NEW q \in Seq(Packet), NEW d \in Seq(Ready(t))
    PROVE  LET n == Due(q, t)
               ready == d \o SubSeq(q, 1, n)
               left == SubSeq(q, n + 1, Len(q))
           IN  /\ ready \in Seq(Ready(t)) /\ left \in Seq(Packet)
               /\ ready \o left = d \o q
               /\ left # <<>> => left[1].release > t
<1> DEFINE n == Due(q, t)
           front == SubSeq(q, 1, n)
           left == SubSeq(q, n + 1, Len(q))
<1>1. /\ n \in 0..Len(q) /\ Len(q) \in Nat
      /\ \A i \in 1..n : q[i] \in Ready(t)
      /\ n < Len(q) => q[n + 1].release > t
  <2>1. Len(q) \in Nat
    OBVIOUS
  <2> QED BY <2>1, DueFacts, Zenon
<1> HIDE DEF n
<1>2. front \in Seq(Ready(t))
  BY <1>1, SubSeqProperties
<1>3. \A i \in (n + 1)..Len(q) : q[i] \in Packet
  BY <1>1
<1>4. /\ left \in Seq(Packet)
      /\ Len(left) = IF n + 1 <= Len(q) THEN Len(q) - (n + 1) + 1 ELSE 0
      /\ \A i \in 1..(Len(q) - (n + 1) + 1) : left[i] = q[(n + 1) + i - 1]
  BY <1>1, <1>3, SubSeqProperties
<1>5. front \o left = q
  <2>1. SubSeq(q, 1, n) \o SubSeq(q, n + 1, Len(q)) = SubSeq(q, 1, Len(q))
    <3>1. 1 \in 1..(Len(q) + 1) /\ n \in (1 - 1)..Len(q) /\ Len(q) \in n..Len(q)
      BY <1>1
    <3> QED BY <3>1, ConcatAdjacentSubSeq, Zenon
  <2> QED BY <2>1, SubSeqFull, Zenon
<1>6. left # <<>> => left[1].release > t
  <2> SUFFICES ASSUME left # <<>> PROVE left[1].release > t
    BY Zenon
  <2> HIDE DEF left
  <2>1. Len(left) > 0
    BY <1>4
  <2>2. n < Len(q) /\ 1 \in 1..(Len(q) - (n + 1) + 1) /\ (n + 1) + 1 - 1 = n + 1
    BY <1>1, <1>4, <2>1
  <2>3. left[1] = q[n + 1]
    BY <1>4, <2>2
  <2> QED BY <1>1, <2>2, <2>3
<1> HIDE DEF front, left
<1>7. d \in Seq(Packet) /\ front \in Seq(Packet)
  BY <1>2, ReadyFacts, SeqMonotonic
<1>8. (d \o front) \o left = d \o q
  <2>1. (d \o front) \o left = d \o (front \o left)
    <3>1. d \in Seq(Packet) /\ front \in Seq(Packet) /\ left \in Seq(Packet)
      BY <1>4, <1>7
    <3> QED BY <3>1, Assoc, ZenonT(30)
  <2> QED BY <1>5, <2>1
<1>9. d \o front \in Seq(Ready(t))
  BY <1>2
<1> QED BY <1>4, <1>6, <1>8, <1>9, Zenon DEF front, left, n

-----------------------------------------------------------------------------
(* The inductive invariant.                                                *)

SimPcs == {"wait_time", "tick", "schedule", "limbo", "queue", "waits", "sleep",
           "recv", "read"}
ProxyPcs == {"wait_time", "tick", "sleep", "recv", "read", "abort"}

\* Opportunities of the trace that are gone.
Used == Len(trace) - Len(schedule)

LimboType ==
    \/ limbo = <<>>
    \/ \E x \in [earned: Nat, packet: Ready(now)] :
          limbo = <<x>> /\ x.earned <= x.packet.size

Types ==
    /\ program \in {"cellsim", "cellproxy"}
    /\ now \in Nat /\ wake \in Nat /\ carried \in Nat
    /\ bytes_to_play_with \in 0..Service
    /\ delay \in Seq(Packet) /\ written \in Seq(Packet)
    /\ pdp \in Seq(Ready(now))
    /\ delivered \in Seq(Ready(now)) /\ forwarded \in Seq(Ready(now))
    /\ LimboType

\* What is left of the schedule is the end of the trace.
Schedules ==
    /\ trace \in Seq(Nat) /\ schedule \in Seq(Nat)
    /\ Len(schedule) <= Len(trace)
    /\ \A i \in 1..Len(schedule) : schedule[i] = trace[Used + i]

\* Nothing is due any more at this timestamp.
NothingDue == schedule # <<>> => schedule[1] > now

\* Where cellsim is in its loop.  A packet is put in limbo only when there is
\* none; wait_time comes after read at the same timestamp, or before the first
\* packet, and so delivers nothing.
SimControl ==
    /\ pc \in SimPcs /\ caller \in {"sleep", "waits", "read"}
    /\ bytes_to_play_with > 0 => pc \in {"limbo", "queue"}
    /\ pc = "queue" /\ bytes_to_play_with > 0 => limbo = <<>>
    /\ pc \in {"tick", "schedule", "limbo", "queue"} => caller \in {"waits", "read"}
    /\ pc = "waits" => caller = "waits"
    /\ delivered # <<>> => /\ pc \in {"schedule", "limbo", "queue", "read"}
                           /\ pc # "read" => caller = "read"
    /\ pc = "read" => NothingDue
    /\ pc = "wait_time" \/ (pc \in {"tick", "schedule"} /\ caller = "waits") =>
           written = <<>> \/ NothingDue
    /\ pc \in {"limbo", "queue"} /\ caller = "waits" => written = <<>>

ProxyControl ==
    /\ pc \in ProxyPcs /\ caller \in {"sleep", "read"}
    /\ pc = "tick" => caller = "read"
    /\ limbo = <<>> /\ carried = 0 /\ bytes_to_play_with = 0
    /\ delivered # <<>> => pc = "read"

Control == IF program = "cellsim" THEN SimControl ELSE ProxyControl

\* Asleep, the program has set select's timeout right.
Timeout ==
    pc = "sleep" =>
        /\ delay # <<>> => wake <= delay[1].release
        /\ schedule # <<>> /\ (program = "cellsim" \/ pdp # <<>>) =>
              wake <= schedule[1]

IInv ==
    /\ Types /\ Schedules /\ KeepsOrder /\ NeverAhead /\ Control
    /\ Timeout /\ WakesInTime /\ OnePacketEach

LEMMA InitIInv == EmulatorInit => IInv
<1> SUFFICES ASSUME EmulatorInit PROVE IInv
  OBVIOUS
<1> USE QueueAssumption, ServiceAssumption DEF EmulatorInit, Init, QueueInit, SimInit
<1>1. Types
  BY DEF Types, LimboType
<1>2. Schedules
  <2>1. trace \in Seq(Nat) /\ schedule = trace
    OBVIOUS
  <2> QED BY <2>1 DEF Schedules, Used
<1>3. KeepsOrder
  <2>1. <<>> \o <<>> = <<>>
    OBVIOUS
  <2> QED BY <2>1 DEF KeepsOrder, InLimbo
<1>4. NeverAhead
  <2>1. trace \in Seq(Nat) /\ schedule = trace
    OBVIOUS
  <2>2. Len(trace) - Len(schedule) = 0
    BY <2>1
  <2> QED BY <2>2 DEF NeverAhead, Earned
<1>5. Control
  BY DEF Control, SimControl, ProxyControl, SimPcs, ProxyPcs
<1>6. Timeout /\ WakesInTime
  BY DEF Timeout, WakesInTime
<1>7. OnePacketEach
  <2>1. trace \in Seq(Nat) /\ schedule = trace
    OBVIOUS
  <2>2. Len(trace) - Len(schedule) = 0
    BY <2>1
  <2> QED BY <2>2 DEF OnePacketEach
<1> QED BY <1>1, <1>2, <1>3, <1>4, <1>5, <1>6, <1>7 DEF IInv

-----------------------------------------------------------------------------
(* The loop of both programs.                                              *)

\* Time passes only in select.
LEMMA SelectStep ==
    ASSUME IInv, Select, UNCHANGED <<simVars, program>>
    PROVE  IInv'
<1>1. /\ pc = "sleep" /\ pc' = "recv"
      /\ now' \in now..Least(wake + MaxLate, MaxTime)
      /\ UNCHANGED <<caller, wake, trace, schedule, delay, pdp, delivered,
                     forwarded, written, limbo, bytes_to_play_with, carried, program>>
  BY DEF Select, simVars
<1>2. now \in Nat /\ wake \in Nat
  BY DEF IInv, Types
<1>3. now' \in Nat /\ now <= now' /\ now' <= wake + MaxLate
  BY <1>1, <1>2, QueueAssumption DEF Least
<1>4. Ready(now) \subseteq Ready(now')
  BY <1>2, <1>3, ReadyFacts
<1>5. Types'
  <2>1. pdp' \in Seq(Ready(now)') /\ delivered' \in Seq(Ready(now)')
        /\ forwarded' \in Seq(Ready(now)')
    BY <1>1, <1>4, SeqMonotonic DEF IInv, Types, Ready
  <2>2. LimboType'
    BY <1>1, <1>4 DEF IInv, Types, LimboType, Ready
  <2> QED BY <1>1, <1>3, <2>1, <2>2 DEF IInv, Types
<1>6. Schedules' /\ KeepsOrder'
  BY <1>1 DEF IInv, Schedules, KeepsOrder, Used, InLimbo
<1>7. NeverAhead'
  <2>1. \A i \in 1..(Len(trace) - Len(schedule)) : trace[i] <= now'
    <3> SUFFICES ASSUME NEW i \in 1..(Len(trace) - Len(schedule)) PROVE trace[i] <= now'
      OBVIOUS
    <3>1. trace[i] <= now
      BY DEF IInv, NeverAhead
    <3>2. trace[i] \in Nat
      BY DEF IInv, Schedules
    <3> QED BY <1>2, <1>3, <3>1, <3>2
  <2> QED BY <1>1, <2>1 DEF IInv, NeverAhead, Earned
<1>8. Control'
  BY <1>1 DEF IInv, Control, SimControl, ProxyControl, SimPcs, ProxyPcs, NothingDue
<1>9. Timeout'
  BY <1>1 DEF Timeout
<1>10. WakesInTime'
  <2>1. delay # <<>> => now' <= delay[1].release + MaxLate
    <3> SUFFICES ASSUME delay # <<>> PROVE now' <= delay[1].release + MaxLate
      OBVIOUS
    <3>1. delay[1] \in Packet
      BY DEF IInv, Types
    <3>2. delay[1].release \in Nat /\ wake <= delay[1].release
      BY <1>1, <3>1 DEF IInv, Timeout, Packet
    <3> QED BY <1>2, <1>3, <3>2, QueueAssumption
  <2>2. schedule # <<>> /\ (program = "cellsim" \/ pdp # <<>>) => now' <= schedule[1] + MaxLate
    <3> SUFFICES ASSUME schedule # <<>>, program = "cellsim" \/ pdp # <<>>
                 PROVE  now' <= schedule[1] + MaxLate
      OBVIOUS
    <3>1. schedule[1] \in Nat /\ wake <= schedule[1]
      BY <1>1 DEF IInv, Schedules, Timeout
    <3> QED BY <1>2, <1>3, <3>1, QueueAssumption
  <2> QED BY <1>1, <2>1, <2>2 DEF WakesInTime
<1>11. OnePacketEach'
  <2>1. program = "cellproxy" => delivered = <<>>
    BY <1>1 DEF IInv, Types, Control, ProxyControl
  <2> QED BY <1>1, <2>1 DEF IInv, OnePacketEach
<1> QED BY <1>5, <1>6, <1>7, <1>8, <1>9, <1>10, <1>11 DEF IInv

\* A packet comes in.
LEMMA RecvStep ==
    ASSUME IInv, Recv, UNCHANGED <<simVars, program>>
    PROVE  IInv'
<1>1. /\ pc = "recv" /\ pc' = "tick" /\ caller' = "read"
      /\ UNCHANGED <<now, wake, trace, schedule, pdp, delivered, forwarded,
                     limbo, bytes_to_play_with, carried, program>>
  BY DEF Recv, simVars
<1>2. \/ UNCHANGED <<delay, written>>
      \/ \E x \in Packet : delay' = Append(delay, x) /\ written' = Append(written, x)
  <2>1. now + MsDelay \in Nat /\ Len(written) + 1 \in Nat /\ \A n \in Sizes : n \in Nat
    BY QueueAssumption DEF IInv, Types
  <2> QED BY <2>1, Zenon DEF Recv, Packet
<1>3. delivered = <<>>
  BY <1>1 DEF IInv, Types, Control, SimControl, ProxyControl
<1>4. Types'
  <2>1. delay' \in Seq(Packet) /\ written' \in Seq(Packet)
    <3>1. delay \in Seq(Packet) /\ written \in Seq(Packet)
      BY DEF IInv, Types
    <3> QED BY <1>2, <3>1, AppendLast, Zenon
  <2>2. LimboType'
    BY <1>1 DEF IInv, Types, LimboType, Ready
  <2> QED BY <1>1, <2>1, <2>2 DEF IInv, Types, Ready
<1>5. KeepsOrder'
  <2> DEFINE a == forwarded \o delivered \o InLimbo \o pdp
  <2>1. a' = a
    BY <1>1 DEF InLimbo
  <2>2. a \in Seq(Packet)
    <3>1. /\ forwarded \in Seq(Packet) /\ delivered \in Seq(Packet) /\ pdp \in Seq(Packet)
      BY ReadyFacts, SeqMonotonic DEF IInv, Types
    <3>2. InLimbo \in Seq(Packet)
      BY ReadyFacts DEF IInv, Types, LimboType, InLimbo
    <3> QED BY <3>1, <3>2
  <2>3. written = a \o delay /\ delay \in Seq(Packet) /\ written \in Seq(Packet)
    BY DEF IInv, KeepsOrder, Types
  <2> HIDE DEF a
  <2>4. written' = a \o delay'
    <3>1. CASE UNCHANGED <<delay, written>>
      BY <2>3, <3>1
    <3>2. ASSUME NEW x \in Packet, delay' = Append(delay, x), written' = Append(written, x)
          PROVE  written' = a \o delay'
      <4>1. delay' = delay \o <<x>> /\ written' = written \o <<x>> /\ <<x>> \in Seq(Packet)
        BY <2>3, <3>2, AppendLast, Zenon
      <4>2. (a \o delay) \o <<x>> = a \o (delay \o <<x>>)
        BY <2>2, <2>3, <4>1, ConcatAssociative
      <4> QED BY <2>3, <4>1, <4>2
    <3> QED BY <1>2, <3>1, <3>2
  <2>5. KeepsOrder' <=> written' = a' \o delay'
    BY DEF KeepsOrder, a
  <2> QED BY <2>1, <2>4, <2>5
<1>6. Schedules' /\ NeverAhead'
  BY <1>1 DEF IInv, Schedules, NeverAhead, Earned, Used
<1>7. Control'
  BY <1>1, <1>3 DEF IInv, Types, Control, SimControl, ProxyControl, SimPcs, ProxyPcs, NothingDue
<1>8. Timeout' /\ WakesInTime' /\ OnePacketEach'
  BY <1>1 DEF IInv, Timeout, WakesInTime, OnePacketEach
<1> QED BY <1>4, <1>5, <1>6, <1>7, <1>8 DEF IInv

\* The packets delivered are sent on.
LEMMA ReadStep ==
    ASSUME IInv, Read, UNCHANGED <<simVars, program>>
    PROVE  IInv'
<1>1. /\ pc = "read" /\ pc' = "wait_time"
      /\ forwarded' = forwarded \o delivered /\ delivered' = <<>>
      /\ UNCHANGED <<caller, now, wake, trace, schedule, delay, pdp, written,
                     limbo, bytes_to_play_with, carried, program>>
  BY DEF Read, simVars
<1>2. forwarded \in Seq(Ready(now)) /\ delivered \in Seq(Ready(now))
  BY DEF IInv, Types
<1>3. forwarded' \in Seq(Ready(now)) /\ forwarded' \o <<>> = forwarded'
      /\ Len(forwarded') = Len(forwarded) + Len(delivered)
  BY <1>1, <1>2
<1>4. Types'
  BY <1>1, <1>3 DEF IInv, Types, LimboType, Ready
<1>5. KeepsOrder'
  <2>1. forwarded' \o delivered' = forwarded \o delivered
    BY <1>1, <1>3
  <2> QED BY <1>1, <2>1 DEF IInv, KeepsOrder, InLimbo
<1>6. Schedules' /\ NeverAhead'
  BY <1>1 DEF IInv, Schedules, NeverAhead, Earned, Used
<1>7. Control'
  BY <1>1 DEF IInv, Types, Control, SimControl, ProxyControl, SimPcs, ProxyPcs, NothingDue
<1>8. Timeout' /\ WakesInTime'
  BY <1>1 DEF Timeout, WakesInTime
<1>9. OnePacketEach'
  <2>1. Len(<<>>) = 0 /\ Len(forwarded) \in Nat /\ Len(delivered) \in Nat
    BY <1>2
  <2>2. program = "cellproxy" => Len(forwarded) + Len(delivered) <= Len(trace) - Len(schedule)
    BY DEF IInv, OnePacketEach
  <2> QED BY <1>1, <1>3, <2>1, <2>2 DEF OnePacketEach
<1> QED BY <1>4, <1>5, <1>6, <1>7, <1>8, <1>9 DEF IInv

-----------------------------------------------------------------------------
(* cellsim.                                                                *)

\* The types of what the link holds.
LEMMA HeldTypes ==
    ASSUME IInv
    PROVE  /\ forwarded \in Seq(Packet) /\ delivered \in Seq(Packet)
           /\ InLimbo \in Seq(Packet) /\ pdp \in Seq(Packet) /\ delay \in Seq(Packet)
           /\ written = (((forwarded \o delivered) \o InLimbo) \o pdp) \o delay
<1>1. forwarded \in Seq(Packet) /\ delivered \in Seq(Packet) /\ pdp \in Seq(Packet)
  BY ReadyFacts, SeqMonotonic DEF IInv, Types
<1>2. InLimbo \in Seq(Packet)
  BY ReadyFacts DEF IInv, Types, LimboType, InLimbo
<1> QED BY <1>1, <1>2 DEF IInv, Types, KeepsOrder

LEMMA WrittenLen ==
    ASSUME IInv
    PROVE  /\ Len(InLimbo) # 0 => Len(written) # 0
           /\ Len(pdp) # 0 => Len(written) # 0
<1> DEFINE a == forwarded \o delivered
           l == InLimbo
<1>1. /\ a \in Seq(Packet) /\ l \in Seq(Packet)
      /\ pdp \in Seq(Packet) /\ delay \in Seq(Packet)
      /\ written = ((a \o l) \o pdp) \o delay
  BY HeldTypes
<1> HIDE DEF a, l
<1>2. a \o l \in Seq(Packet) /\ Len(a \o l) = Len(a) + Len(l)
  BY <1>1
<1>3. (a \o l) \o pdp \in Seq(Packet) /\ Len((a \o l) \o pdp) = Len(a \o l) + Len(pdp)
  BY <1>1, <1>2
<1>4. Len(written) = Len((a \o l) \o pdp) + Len(delay)
  BY <1>1, <1>3
<1>5. Len(a) \in Nat /\ Len(l) \in Nat /\ Len(pdp) \in Nat /\ Len(delay) \in Nat
  BY <1>1
<1> QED BY <1>2, <1>3, <1>4, <1>5 DEF l

\* A step of cellsim that moves no packet and uses no opportunity.
LEMMA ControlStep ==
    ASSUME IInv, wake' \in Nat, Control', Timeout', pc' # "recv", program = "cellsim",
           UNCHANGED <<now, trace, schedule, delay, pdp, delivered, forwarded,
                       written, limbo, bytes_to_play_with, carried, program>>
    PROVE  IInv'
<1>1. Types'
  BY DEF IInv, Types, LimboType, Ready
<1>2. Schedules' /\ NeverAhead' /\ KeepsOrder'
  BY DEF IInv, Schedules, NeverAhead, KeepsOrder, Earned, InLimbo, Used
<1>3. WakesInTime' /\ OnePacketEach'
  BY DEF WakesInTime, OnePacketEach
<1> QED BY <1>1, <1>2, <1>3 DEF IInv

LEMMA SimControlSteps ==
    ASSUME IInv, program = "cellsim", UNCHANGED program,
           WaitTimeTick \/ TickReturn \/ LimboEmpty \/ PdoDone \/ WaitTime
    PROVE  IInv'
<1>0. SimControl /\ wake \in Nat
  BY DEF IInv, Control, Types
<1>1. CASE WaitTimeTick
  <2>1. Control' /\ Timeout' /\ wake' = wake /\ pc' # "recv"
    BY <1>0, <1>1 DEF WaitTimeTick, Control, SimControl, Timeout, NothingDue, simVars, SimPcs
  <2> QED BY <1>0, <1>1, <2>1, ControlStep DEF WaitTimeTick, simVars
<1>2. CASE TickReturn
  <2>1. Control' /\ Timeout' /\ wake' = wake /\ pc' # "recv"
    BY <1>0, <1>2 DEF TickReturn, Control, SimControl, Timeout, NothingDue, simVars, SimPcs
  <2> QED BY <1>0, <1>2, <2>1, ControlStep DEF TickReturn, simVars
<1>3. CASE LimboEmpty
  <2>1. Control' /\ Timeout' /\ wake' = wake /\ pc' # "recv"
    BY <1>0, <1>3 DEF LimboEmpty, Control, SimControl, Timeout, NothingDue, simVars, SimPcs
  <2> QED BY <1>0, <1>3, <2>1, ControlStep DEF LimboEmpty, simVars
<1>4. CASE PdoDone
  <2>1. Control' /\ Timeout' /\ wake' = wake /\ pc' # "recv"
    BY <1>0, <1>4 DEF PdoDone, Control, SimControl, Timeout, NothingDue, simVars, SimPcs
  <2> QED BY <1>0, <1>4, <2>1, ControlStep DEF PdoDone, simVars
<1>5. CASE WaitTime
  <2>1. Control' /\ pc' # "recv"
    BY <1>0, <1>5 DEF WaitTime, Control, SimControl, NothingDue, simVars, SimPcs
  <2>2. DelayWake \in Nat /\ ScheduleWake \in Nat
    <3>1. delay # <<>> => delay[1] \in Packet
      BY DEF IInv, Types
    <3>2. DelayWake \in Nat
      BY <3>1, QueueAssumption DEF DelayWake, Packet
    <3>3. ScheduleWake \in Nat
      BY QueueAssumption DEF ScheduleWake, IInv, Schedules
    <3> QED BY <3>2, <3>3
  <2>3. wake' \in Nat /\ wake' <= DelayWake /\ wake' <= ScheduleWake
    BY <1>5, <2>2 DEF WaitTime, Least
  <2>4. Timeout'
    BY <1>5, <2>3 DEF WaitTime, Timeout, DelayWake, ScheduleWake
  <2> QED BY <1>0, <1>5, <2>1, <2>3, <2>4, ControlStep DEF WaitTime, simVars
<1> QED BY <1>1, <1>2, <1>3, <1>4, <1>5

\* A step inside tick: what is left to show.
LEMMA InsideTick ==
    ASSUME program' = "cellsim", pc' \in {"schedule", "limbo", "queue"},
           Types', Schedules', KeepsOrder', NeverAhead', SimControl'
    PROVE  IInv'
BY DEF IInv, Control, Timeout, WakesInTime, OnePacketEach

LEMMA TickReleaseStep ==
    ASSUME IInv, program = "cellsim", UNCHANGED program, TickRelease
    PROVE  IInv'
<1>1. /\ pc = "tick" /\ pc' = "schedule"
      /\ UNCHANGED <<limbo, bytes_to_play_with, carried, caller, now, wake, trace,
                     schedule, delivered, forwarded, written, program>>
  BY DEF TickRelease, simVars
<1>2. /\ pdp' \in Seq(Ready(now)) /\ delay' \in Seq(Packet)
      /\ pdp' \o delay' = pdp \o delay
  BY ReleaseFacts, Zenon DEF IInv, Types, TickRelease, Release
<1>3. Types'
  BY <1>1, <1>2 DEF IInv, Types, LimboType, Ready
<1>4. KeepsOrder'
  <2> DEFINE a == (forwarded \o delivered) \o InLimbo
  <2>1. /\ a \in Seq(Packet) /\ pdp \in Seq(Packet) /\ delay \in Seq(Packet)
        /\ written = (a \o pdp) \o delay
    BY HeldTypes
  <2>2. pdp' \in Seq(Packet)
    BY <1>2, ReadyFacts, SeqMonotonic DEF IInv, Types
  <2>3. KeepsOrder' <=> written' = (a \o pdp') \o delay'
    BY <1>1 DEF KeepsOrder, InLimbo
  <2> HIDE DEF a
  <2>4. (a \o pdp) \o delay = a \o (pdp \o delay)
    BY <2>1, Assoc, ZenonT(30)
  <2>5. (a \o pdp') \o delay' = a \o (pdp' \o delay')
    <3>1. delay' \in Seq(Packet)
      BY <1>2
    <3>2. a \in Seq(Packet)
      BY <2>1
    <3> QED BY <2>2, <3>1, <3>2, Assoc, ZenonT(30)
  <2> QED BY <1>1, <1>2, <2>1, <2>3, <2>4, <2>5
<1>5. Schedules' /\ NeverAhead'
  BY <1>1 DEF IInv, Schedules, NeverAhead, Earned, Used
<1>6. SimControl'
  BY <1>1 DEF IInv, Control, SimControl, SimPcs, NothingDue
<1> QED BY <1>1, <1>3, <1>4, <1>5, <1>6, InsideTick

\* One more opportunity: Service more bytes.
LEMMA GrabPdoStep ==
    ASSUME IInv, program = "cellsim", UNCHANGED program, GrabPdo
    PROVE  IInv'
<1>1. /\ pc = "schedule" /\ pc' = "limbo"
      /\ schedule # <<>> /\ schedule[1] <= now /\ schedule' = Tail(schedule)
      /\ bytes_to_play_with' = Service
      /\ UNCHANGED <<limbo, carried, caller, now, wake, trace, delay, pdp,
                     delivered, forwarded, written, program>>
  BY DEF GrabPdo
<1>2. Types'
  <2>1. LimboType'
    BY <1>1 DEF IInv, Types, LimboType, Ready
  <2> QED BY <1>1, <2>1, ServiceAssumption DEF IInv, Types, Ready
<1>3. /\ trace \in Seq(Nat) /\ schedule \in Seq(Nat) /\ Len(schedule) <= Len(trace)
      /\ \A i \in 1..Len(schedule) : schedule[i] = trace[Used + i]
  BY DEF IInv, Schedules
<1>4. /\ schedule' \in Seq(Nat) /\ Len(schedule') = Len(schedule) - 1
      /\ \A i \in 1..Len(schedule') : schedule'[i] = schedule[i + 1]
      /\ Len(schedule) \in Nat \ {0} /\ Len(trace) \in Nat
  BY <1>1, <1>3
<1>5. Used \in Nat /\ Used' = Used + 1
  BY <1>1, <1>3, <1>4 DEF Used
<1>6. Schedules'
  <2>1. \A i \in 1..Len(schedule') : schedule'[i] = trace[Used + (i + 1)]
    <3>1. \A i \in 1..Len(schedule') : i + 1 \in 1..Len(schedule)
      BY <1>4
    <3> QED BY <1>3, <1>4, <3>1
  <2>2. \A i \in 1..Len(schedule') : Used + (i + 1) = (Used + 1) + i
    BY <1>4, <1>5
  <2>3. Len(schedule') <= Len(trace)
    BY <1>3, <1>4
  <2> QED BY <1>1, <1>3, <1>4, <1>5, <2>1, <2>2, <2>3 DEF Schedules
<1>7. KeepsOrder'
  BY <1>1 DEF IInv, KeepsOrder, InLimbo
<1>8. NeverAhead'
  <2>0. Service \in Nat /\ carried \in Nat /\ Earned \in Nat
    BY ServiceAssumption DEF IInv, Types, LimboType, Earned
  <2>1. bytes_to_play_with \in Nat /\ carried + Earned + bytes_to_play_with <= Service * Used
    BY ServiceAssumption DEF IInv, Types, NeverAhead, Used
  <2>2. Service * (Used + 1) = Service * Used + Service /\ Service * Used \in Nat
    BY <1>5, <2>0
  <2>3. carried + Earned + Service <= Service * (Used + 1)
    BY <2>0, <2>1, <2>2
  <2>4. \A i \in 1..(Used + 1) : trace[i] <= now
    <3>1. trace[Used + 1] <= now
      <4>1. 1 \in 1..Len(schedule)
        BY <1>4
      <4> QED BY <1>1, <1>3, <4>1
    <3>2. \A i \in 1..Used : trace[i] <= now
      BY DEF IInv, NeverAhead, Used
    <3> QED BY <1>5, <3>1, <3>2
  <2>5. Earned' = Earned
    BY <1>1 DEF Earned
  <2> QED BY <1>1, <1>5, <2>3, <2>4, <2>5 DEF NeverAhead, Used
<1>9. SimControl'
  <2>1. caller = "waits" => written = <<>>
    <3>1. now \in Nat /\ schedule[1] \in Nat
      <4>1. now \in Nat /\ schedule \in Seq(Nat)
        BY DEF IInv, Types, Schedules
      <4>2. 1 \in 1..Len(schedule)
        BY <1>4
      <4> QED BY <4>1, <4>2
    <3>2. ~NothingDue
      BY <1>1, <3>1 DEF NothingDue
    <3> QED BY <1>1, <3>2 DEF IInv, Control, SimControl
  <2> QED BY <1>1, <2>1 DEF IInv, Control, SimControl, SimPcs
<1> QED BY <1>1, <1>2, <1>6, <1>7, <1>8, <1>9, InsideTick

\* The packet in limbo gets its last bytes.
LEMMA LimboDeliverStep ==
    ASSUME IInv, program = "cellsim", UNCHANGED program, LimboDeliver
    PROVE  IInv'
<1> DEFINE x == limbo[1]
           b == bytes_to_play_with
<1>1. /\ pc = "limbo" /\ limbo # <<>> /\ pc' = "queue" /\ limbo' = <<>>
      /\ x.earned + b >= x.packet.size
      /\ delivered' = Append(delivered, x.packet)
      /\ carried' = carried + x.packet.size
      /\ bytes_to_play_with' = b - (x.packet.size - x.earned)
      /\ UNCHANGED <<caller, now, wake, trace, schedule, delay, pdp, forwarded,
                     written, program>>
  BY DEF LimboDeliver
<1>2. /\ x.earned \in Nat /\ x.packet \in Ready(now) /\ x.earned <= x.packet.size
      /\ x.packet.size \in Nat /\ b \in 0..Service /\ carried \in Nat
      /\ now \in Nat /\ Service \in Nat
  <2>1. x \in [earned: Nat, packet: Ready(now)] /\ x.earned <= x.packet.size
    BY <1>1 DEF IInv, Types, LimboType
  <2>2. x.packet \in Packet
    BY <2>1 DEF Ready
  <2> QED BY <2>1, <2>2, ServiceAssumption DEF IInv, Types, Packet
<1>3. InLimbo = <<x.packet>> /\ Earned = x.earned /\ InLimbo' = <<>> /\ Earned' = 0
  BY <1>1 DEF InLimbo, Earned
<1> HIDE DEF x
<1>4. Types'
  <2>1. delivered' \in Seq(Ready(now))
    BY <1>1, <1>2, AppendLast DEF IInv, Types
  <2>2. bytes_to_play_with' \in 0..Service /\ carried' \in Nat
    <3> DEFINE n == x.earned
               z == x.packet.size
    <3>1. n \in Nat /\ z \in Nat /\ n <= z /\ n + b >= z /\ b \in 0..Service
      BY <1>1, <1>2
    <3>2. bytes_to_play_with' = b - (z - n) /\ carried' = carried + z
      BY <1>1
    <3> HIDE DEF n, z
    <3> QED BY <1>2, <3>1, <3>2
  <2> QED BY <1>1, <2>1, <2>2 DEF IInv, Types, LimboType, Ready
<1>5. KeepsOrder'
  <2>1. forwarded \in Seq(Packet) /\ delivered \in Seq(Packet) /\ x.packet \in Packet
    BY <1>2, HeldTypes DEF Ready
  <2>2. delivered' = delivered \o <<x.packet>> /\ <<x.packet>> \in Seq(Packet)
        /\ delivered' \in Seq(Packet)
    BY <1>1, <2>1, AppendLast
  <2>3. (forwarded \o delivered) \o <<x.packet>> = forwarded \o (delivered \o <<x.packet>>)
    <3>1. /\ forwarded \in Seq(Packet) /\ delivered \in Seq(Packet)
          /\ <<x.packet>> \in Seq(Packet)
      BY <2>1, <2>2
    <3> QED BY <3>1, Assoc, ZenonT(30)
  <2>4. forwarded \o delivered' \in Seq(Packet)
    BY <2>1, <2>2
  <2>5. (forwarded \o delivered') \o <<>> = forwarded \o delivered'
    BY <2>4, Unit, Zenon
  <2> QED BY <1>1, <1>3, <2>2, <2>3, <2>5 DEF IInv, KeepsOrder
<1>6. Schedules'
  BY <1>1 DEF IInv, Schedules, Used
<1>7. NeverAhead'
  <2>1. carried + Earned + b = carried' + Earned' + bytes_to_play_with'
    <3> DEFINE n == x.earned
               z == x.packet.size
    <3>1. n \in Nat /\ z \in Nat /\ b \in Nat /\ carried \in Nat
      BY <1>2
    <3>2. /\ bytes_to_play_with' = b - (z - n) /\ carried' = carried + z
          /\ Earned = n /\ Earned' = 0
      BY <1>1, <1>3
    <3> HIDE DEF n, z
    <3> QED BY <3>1, <3>2
  <2> QED BY <1>1, <2>1 DEF IInv, NeverAhead
<1>8. SimControl'
  <2>1. caller = "read"
    <3>1. caller = "waits" => written = <<>>
      BY <1>1 DEF IInv, Control, SimControl
    <3>2. written # <<>>
      <4>1. Len(written) # 0
        <5>1. Len(InLimbo) = 1
          BY <1>3
        <5> QED BY <5>1, WrittenLen
      <4> QED BY <4>1
    <3> QED BY <1>1, <3>1, <3>2 DEF IInv, Control, SimControl
  <2> QED BY <1>1, <2>1 DEF IInv, Control, SimControl, SimPcs, NothingDue
<1> QED BY <1>1, <1>4, <1>5, <1>6, <1>7, <1>8, InsideTick

\* The packet in limbo earns a whole opportunity and waits on.
LEMMA LimboEarnStep ==
    ASSUME IInv, program = "cellsim", UNCHANGED program, LimboEarn
    PROVE  IInv'
<1> DEFINE x == limbo[1]
           b == bytes_to_play_with
           y == [x EXCEPT !.earned = x.earned + b]
<1>1. /\ pc = "limbo" /\ limbo # <<>> /\ pc' = "queue" /\ limbo' = <<y>>
      /\ x.earned + b < x.packet.size
      /\ bytes_to_play_with' = 0
      /\ UNCHANGED <<carried, caller, now, wake, trace, schedule, delay, pdp,
                     delivered, forwarded, written, program>>
  BY DEF LimboEarn
<1>2. /\ x \in [earned: Nat, packet: Ready(now)] /\ b \in Nat
      /\ x.earned \in Nat /\ x.packet.size \in Nat /\ carried \in Nat
  <2>1. x \in [earned: Nat, packet: Ready(now)]
    BY <1>1 DEF IInv, Types, LimboType
  <2>2. x.packet \in Packet
    BY <2>1 DEF Ready
  <2> QED BY <2>1, <2>2, ServiceAssumption DEF IInv, Types, Packet
<1> HIDE DEF x
<1>3. /\ y \in [earned: Nat, packet: Ready(now)]
      /\ y.packet = x.packet /\ y.earned = x.earned + b /\ y.earned <= y.packet.size
  BY <1>1, <1>2
<1> HIDE DEF y
<1>4. InLimbo' = InLimbo /\ Earned = x.earned /\ Earned' = x.earned + b
  BY <1>1, <1>3 DEF InLimbo, Earned, x
<1>5. Types'
  <2>1. LimboType'
    BY <1>1, <1>3 DEF LimboType, Ready
  <2> QED BY <1>1, <2>1, ServiceAssumption DEF IInv, Types, Ready
<1>6. KeepsOrder' /\ Schedules'
  BY <1>1, <1>4 DEF IInv, KeepsOrder, Schedules, Used
<1>7. NeverAhead'
  <2>1. carried + Earned + b = carried' + Earned' + bytes_to_play_with'
    BY <1>1, <1>2, <1>4
  <2> QED BY <1>1, <2>1 DEF IInv, NeverAhead
<1>8. SimControl'
  BY <1>1 DEF IInv, Control, SimControl, SimPcs, NothingDue
<1> QED BY <1>1, <1>5, <1>6, <1>7, <1>8, InsideTick

\* Bytes left over: nothing is in limbo, and before the first packet nothing
\* is on the queue.
LEMMA QueueFacts ==
    ASSUME IInv, program = "cellsim", pc = "queue", bytes_to_play_with > 0, pdp # <<>>
    PROVE  /\ limbo = <<>> /\ caller = "read"
           /\ pdp[1] \in Ready(now) /\ pdp[1] \in Packet /\ pdp[1].size \in Nat
           /\ Tail(pdp) \in Seq(Ready(now)) /\ Tail(pdp) \in Seq(Packet)
           /\ pdp = <<pdp[1]>> \o Tail(pdp) /\ <<pdp[1]>> \in Seq(Packet)
<1>1. limbo = <<>>
  BY DEF IInv, Control, SimControl
<1>2. pdp \in Seq(Ready(now)) /\ now \in Nat
  BY DEF IInv, Types
<1>3. pdp[1] \in Ready(now) /\ Tail(pdp) \in Seq(Ready(now)) /\ pdp = <<pdp[1]>> \o Tail(pdp)
  BY <1>2, FirstRest
<1>4. pdp[1] \in Packet /\ Tail(pdp) \in Seq(Packet)
  BY <1>2, <1>3, ReadyFacts, SeqMonotonic
<1>5. written # <<>>
  <2>1. Len(pdp) # 0
    BY <1>2
  <2>2. Len(written) # 0
    BY <2>1, WrittenLen
  <2> QED BY <2>2
<1>6. caller = "read"
  BY <1>5 DEF IInv, Control, SimControl
<1> QED BY <1>1, <1>3, <1>4, <1>6 DEF Packet

LEMMA DeliverWholeStep ==
    ASSUME IInv, program = "cellsim", UNCHANGED program, DeliverWhole
    PROVE  IInv'
<1> DEFINE b == bytes_to_play_with
           x == pdp[1]
<1>1. /\ pc = "queue" /\ pc' = "queue" /\ b > 0 /\ pdp # <<>> /\ b >= x.size
      /\ delivered' = Append(delivered, x)
      /\ carried' = carried + x.size
      /\ bytes_to_play_with' = b - x.size
      /\ pdp' = Tail(pdp)
      /\ UNCHANGED <<limbo, caller, now, wake, trace, schedule, delay,
                     forwarded, written, program>>
  BY DEF DeliverWhole
<1>2. /\ limbo = <<>> /\ caller = "read"
      /\ x \in Ready(now) /\ x \in Packet /\ x.size \in Nat
      /\ Tail(pdp) \in Seq(Ready(now)) /\ Tail(pdp) \in Seq(Packet)
      /\ pdp = <<x>> \o Tail(pdp) /\ <<x>> \in Seq(Packet)
  BY <1>1, QueueFacts
<1>3. b \in 0..Service /\ Service \in Nat /\ carried \in Nat
  BY ServiceAssumption DEF IInv, Types
<1> HIDE DEF x
<1>4. Types'
  <2>1. delivered' \in Seq(Ready(now))
    BY <1>1, <1>2, AppendLast DEF IInv, Types
  <2>2. bytes_to_play_with' \in 0..Service /\ carried' \in Nat
    <3>1. x.size \in Nat /\ b >= x.size
      BY <1>1, <1>2
    <3>2. bytes_to_play_with' = b - x.size /\ carried' = carried + x.size
      BY <1>1
    <3> HIDE DEF b
    <3> QED BY <1>3, <3>1, <3>2
  <2> QED BY <1>1, <1>2, <2>1, <2>2 DEF IInv, Types, LimboType, Ready
<1>5. KeepsOrder'
  <2> DEFINE f == forwarded
             d == delivered
             r == Tail(pdp)
  <2>1. f \in Seq(Packet) /\ d \in Seq(Packet) /\ delay \in Seq(Packet)
    BY HeldTypes
  <2>2. InLimbo = <<>> /\ InLimbo' = <<>>
    BY <1>1, <1>2 DEF InLimbo
  <2>3. d' = d \o <<x>> /\ d' \in Seq(Packet)
    BY <1>1, <1>2, <2>1, AppendLast
  <2>4. written = (((f \o d) \o <<>>) \o pdp) \o delay
    BY <2>2 DEF IInv, KeepsOrder
  <2>5. f \o d \in Seq(Packet) /\ f \o d' \in Seq(Packet)
    BY <2>1, <2>3
  <2>6. (f \o d) \o <<>> = f \o d /\ (f \o d') \o <<>> = f \o d'
    BY <2>5, Unit, Zenon
  <2>7. (f \o d) \o (<<x>> \o r) = ((f \o d) \o <<x>>) \o r
    BY <1>2, <2>5, Assoc, ZenonT(30)
  <2>8. (f \o d) \o <<x>> = f \o (d \o <<x>>)
    <3>1. f \in Seq(Packet) /\ d \in Seq(Packet) /\ <<x>> \in Seq(Packet)
      BY <1>2, <2>1
    <3> QED BY <3>1, Assoc, ZenonT(30)
  <2>9. (f \o d) \o pdp = (f \o d') \o r
    BY <1>2, <2>3, <2>7, <2>8
  <2>10. KeepsOrder' <=> written = (((f \o d') \o <<>>) \o r) \o delay
    BY <1>1, <2>2 DEF KeepsOrder
  <2> QED BY <2>4, <2>6, <2>9, <2>10, Zenon
<1>6. Schedules'
  BY <1>1 DEF IInv, Schedules, Used
<1>7. NeverAhead'
  <2>1. Earned = 0 /\ Earned' = 0
    BY <1>1, <1>2 DEF Earned
  <2>2. carried + 0 + b = carried' + 0 + bytes_to_play_with'
    BY <1>1, <1>2, <1>3
  <2> QED BY <1>1, <2>1, <2>2 DEF IInv, NeverAhead
<1>8. SimControl'
  BY <1>1, <1>2 DEF IInv, Control, SimControl, SimPcs, NothingDue
<1> QED BY <1>1, <1>4, <1>5, <1>6, <1>7, <1>8, InsideTick

LEMMA PutInLimboStep ==
    ASSUME IInv, program = "cellsim", UNCHANGED program, PutInLimbo
    PROVE  IInv'
<1> DEFINE b == bytes_to_play_with
           x == pdp[1]
           y == [earned |-> b, packet |-> x]
<1>1. /\ pc = "queue" /\ pc' = "queue" /\ b > 0 /\ pdp # <<>> /\ b < x.size
      /\ limbo' = Append(limbo, y)
      /\ bytes_to_play_with' = 0
      /\ pdp' = Tail(pdp)
      /\ UNCHANGED <<carried, caller, now, wake, trace, schedule, delay,
                     delivered, forwarded, written, program>>
  BY DEF PutInLimbo
<1>2. /\ limbo = <<>> /\ caller = "read"
      /\ x \in Ready(now) /\ x \in Packet /\ x.size \in Nat
      /\ Tail(pdp) \in Seq(Ready(now)) /\ Tail(pdp) \in Seq(Packet)
      /\ pdp = <<x>> \o Tail(pdp) /\ <<x>> \in Seq(Packet)
  BY <1>1, QueueFacts
<1>3. b \in 0..Service /\ b \in Nat /\ Service \in Nat /\ carried \in Nat
  BY ServiceAssumption DEF IInv, Types
<1> HIDE DEF x
<1>4. limbo' = <<y>>
  BY <1>1, <1>2
<1>5. /\ y \in [earned: Nat, packet: Ready(now)] /\ y.earned = b /\ y.packet = x
      /\ y.earned <= y.packet.size
  BY <1>1, <1>2, <1>3
<1> HIDE DEF y
<1>6. InLimbo = <<>> /\ InLimbo' = <<x>> /\ Earned = 0 /\ Earned' = b
  BY <1>2, <1>4, <1>5 DEF InLimbo, Earned
<1>7. Types'
  <2>1. LimboType'
    BY <1>1, <1>4, <1>5 DEF LimboType, Ready
  <2> QED BY <1>1, <1>2, <1>3, <2>1 DEF IInv, Types, Ready
<1>8. KeepsOrder'
  <2> DEFINE a == forwarded \o delivered
             r == Tail(pdp)
  <2>1. a \in Seq(Packet)
    BY HeldTypes
  <2>2. written = ((a \o <<>>) \o pdp) \o delay
    BY <1>6 DEF IInv, KeepsOrder
  <2>3. a \o <<>> = a
    BY <2>1, Unit, Zenon
  <2>4. a \o (<<x>> \o r) = (a \o <<x>>) \o r
    BY <1>2, <2>1, Assoc, ZenonT(30)
  <2>5. KeepsOrder' <=> written = ((a \o <<x>>) \o r) \o delay
    BY <1>1, <1>6 DEF KeepsOrder
  <2> QED BY <1>2, <2>2, <2>3, <2>4, <2>5
<1>9. Schedules'
  BY <1>1 DEF IInv, Schedules, Used
<1>10. NeverAhead'
  <2>1. carried + 0 + b = carried' + b + 0
    BY <1>1, <1>3
  <2> QED BY <1>1, <1>6, <2>1 DEF IInv, NeverAhead
<1>11. SimControl'
  BY <1>1, <1>2 DEF IInv, Control, SimControl, SimPcs, NothingDue
<1> QED BY <1>1, <1>7, <1>8, <1>9, <1>10, <1>11, InsideTick

LEMMA UnderflowStep ==
    ASSUME IInv, program = "cellsim", UNCHANGED program, Underflow
    PROVE  IInv'
<1>1. /\ pc = "queue" /\ pc' = "queue" /\ bytes_to_play_with' = 0
      /\ UNCHANGED <<limbo, carried, caller, now, wake, trace, schedule, delay,
                     pdp, delivered, forwarded, written, program>>
  BY DEF Underflow
<1>2. Types'
  BY <1>1, ServiceAssumption DEF IInv, Types, LimboType, Ready
<1>3. KeepsOrder' /\ Schedules'
  BY <1>1 DEF IInv, KeepsOrder, InLimbo, Schedules, Used
<1>4. NeverAhead'
  <2>1. carried \in Nat /\ Earned \in Nat /\ bytes_to_play_with \in Nat
    BY DEF IInv, Types, LimboType, Earned
  <2>2. /\ carried + Earned + bytes_to_play_with <= Service * (Len(trace) - Len(schedule))
        /\ Service * (Len(trace) - Len(schedule)) \in Int
    <3>1. Len(trace) - Len(schedule) \in Int /\ Service \in Int
      BY ServiceAssumption DEF IInv, Schedules
    <3> QED BY <3>1 DEF IInv, NeverAhead
  <2>3. carried + Earned + 0 <= Service * (Len(trace) - Len(schedule))
    BY <2>1, <2>2
  <2>4. Earned' = Earned
    BY <1>1 DEF Earned
  <2> QED BY <1>1, <2>3, <2>4 DEF IInv, NeverAhead
<1>5. SimControl'
  BY <1>1 DEF IInv, Control, SimControl, SimPcs, NothingDue
<1> QED BY <1>1, <1>2, <1>3, <1>4, <1>5, InsideTick

-----------------------------------------------------------------------------
(* cellproxy.                                                              *)

\* t is the end of the trace, and what comes before it is past.
EndOfTrace(t) ==
    /\ t \in Seq(Nat) /\ Len(t) <= Len(trace)
    /\ \A i \in 1..Len(t) : t[i] = trace[(Len(trace) - Len(t)) + i]
    /\ \A i \in 1..(Len(trace) - Len(t)) : trace[i] <= now

LEMMA DropFront ==
    ASSUME trace \in Seq(Nat), NEW t, EndOfTrace(t),
           NEW k \in 0..Len(t), \A i \in 1..k : t[i] <= now
    PROVE  LET u == SubSeq(t, k + 1, Len(t))
           IN  /\ EndOfTrace(u) /\ Len(u) = Len(t) - k
               /\ \A i \in 1..Len(u) : u[i] = t[k + i]
<1> DEFINE u == SubSeq(t, k + 1, Len(t))
           m == Len(trace) - Len(t)
<1>1. /\ t \in Seq(Nat) /\ Len(t) \in Nat /\ Len(trace) \in Nat /\ Len(t) <= Len(trace)
      /\ \A i \in 1..Len(t) : t[i] = trace[m + i]
      /\ \A i \in 1..m : trace[i] <= now
  BY DEF EndOfTrace
<1>2. u \in Seq(Nat) /\ Len(u) = Len(t) - k /\ \A i \in 1..Len(u) : u[i] = t[k + i]
  <2>1. t \in Seq(Nat) /\ Len(t) \in Nat
    BY <1>1
  <2> QED BY <2>1
<1> HIDE DEF u
<1>3. m \in Nat /\ Len(trace) - Len(u) = m + k /\ Len(u) <= Len(trace)
  BY <1>1, <1>2
<1>4. \A i \in 1..Len(u) : u[i] = trace[(m + k) + i]
  <2> SUFFICES ASSUME NEW i \in 1..Len(u) PROVE u[i] = trace[(m + k) + i]
    BY Zenon
  <2>1. k + i \in 1..Len(t) /\ m + (k + i) = (m + k) + i
    BY <1>1, <1>2, <1>3
  <2> HIDE DEF m
  <2>2. t[k + i] = trace[m + (k + i)]
    BY <1>1, <2>1
  <2> QED BY <1>2, <2>1, <2>2
<1>5. \A i \in 1..(m + k) : trace[i] <= now
  <2> SUFFICES ASSUME NEW i \in 1..(m + k) PROVE trace[i] <= now
    OBVIOUS
  <2>1. CASE i <= m
    BY <1>1, <1>3, <2>1
  <2>2. CASE i > m
    <3>1. i - m \in 1..k /\ i - m \in 1..Len(t) /\ m + (i - m) = i
      <4>1. m \in Nat /\ Len(t) \in Nat
        BY <1>1, <1>3
      <4> HIDE DEF m
      <4> QED BY <2>2, <4>1
    <3>2. t[i - m] <= now /\ t[i - m] = trace[m + (i - m)]
      BY <1>1, <3>1
    <3> QED BY <3>1, <3>2
  <2> QED BY <1>3, <2>1, <2>2
<1>6. EndOfTrace(u)
  <2> HIDE DEF m
  <2> QED BY <1>2, <1>3, <1>4, <1>5, Zenon DEF EndOfTrace
<1> QED BY <1>2, <1>6 DEF u

\* prune_schedule: what is left is not past.
LEMMA PrunedFacts ==
    ASSUME IInv
    PROVE  LET u == Proxy!Pruned(schedule)
           IN  /\ EndOfTrace(u) /\ Len(u) <= Len(schedule)
               /\ u # <<>> => u[1] >= now
<1> DEFINE b == Proxy!Before(schedule, now)
           u == SubSeq(schedule, b + 1, Len(schedule))
<1>1. trace \in Seq(Nat) /\ schedule \in Seq(Nat) /\ now \in Nat /\ EndOfTrace(schedule)
  BY DEF IInv, Schedules, Types, NeverAhead, EndOfTrace, Used
<1>2. /\ b \in 0..Len(schedule) /\ \A i \in 1..b : schedule[i] < now
      /\ b < Len(schedule) => schedule[b + 1] >= now
  BY <1>1, BeforeFacts, Zenon
<1> HIDE DEF b
<1>3. \A i \in 1..b : schedule[i] <= now
  <2> SUFFICES ASSUME NEW i \in 1..b PROVE schedule[i] <= now
    OBVIOUS
  <2>1. schedule[i] \in Nat
    BY <1>1, <1>2
  <2> QED BY <1>1, <1>2, <2>1
<1>4. /\ EndOfTrace(u) /\ Len(u) = Len(schedule) - b
      /\ \A i \in 1..Len(u) : u[i] = schedule[b + i]
  BY <1>1, <1>2, <1>3, DropFront
<1> HIDE DEF u
<1>5. u # <<>> => u[1] >= now
  <2> SUFFICES ASSUME u # <<>> PROVE u[1] >= now
    OBVIOUS
  <2>1. u \in Seq(Nat)
    BY <1>4 DEF EndOfTrace
  <2>2. Len(u) \in Nat \ {0}
    BY <2>1
  <2>3. b < Len(schedule) /\ 1 \in 1..Len(u)
    BY <1>1, <1>2, <1>4, <2>2
  <2> QED BY <1>2, <1>4, <2>3
<1>6. Len(u) <= Len(schedule)
  BY <1>1, <1>2, <1>4
<1>7. u = Proxy!Pruned(schedule)
  BY DEF u, b, Proxy!Pruned
<1> QED BY <1>4, <1>5, <1>6, <1>7

LEMMA ProxyTickStep ==
    ASSUME IInv, program = "cellproxy", Proxy!Tick, UNCHANGED <<simVars, program>>
    PROVE  IInv'
<1> DEFINE left == Proxy!Pruned(schedule)
           n == Due(delay, now)
           ready == pdp \o SubSeq(delay, 1, n)
           y == SubSeq(delay, n + 1, Len(delay))
           h == Proxy!Before(left, now + 1)
           k == Least(Len(ready), h)
           go == SubSeq(ready, 1, k)
           stay == SubSeq(ready, k + 1, Len(ready))
           rest == SubSeq(left, k + 1, Len(left))
<1>1. /\ pc = "tick" /\ pc' = caller
      /\ delay' = y /\ delivered' = delivered \o go /\ pdp' = stay
      /\ schedule' = rest
      /\ UNCHANGED <<caller, now, wake, trace, forwarded, written, limbo,
                     bytes_to_play_with, carried, program>>
  BY Zenon DEF Proxy!Tick, Proxy!Due, Due, Proxy!Least, Least, simVars
<1>2. /\ ProxyControl /\ delivered = <<>> /\ limbo = <<>> /\ caller = "read"
      /\ carried = 0 /\ bytes_to_play_with = 0
      /\ now \in Nat /\ now + 1 \in Nat /\ trace \in Seq(Nat) /\ schedule \in Seq(Nat)
  <2>1. ProxyControl /\ caller = "read" /\ Types
    BY <1>1 DEF IInv, Control, ProxyControl
  <2>2. /\ delivered = <<>> /\ limbo = <<>> /\ carried = 0 /\ bytes_to_play_with = 0
    BY <1>1, <2>1 DEF ProxyControl
  <2>3. now \in Nat /\ trace \in Seq(Nat) /\ schedule \in Seq(Nat)
    BY <2>1 DEF IInv, Types, Schedules
  <2> QED BY <2>1, <2>2, <2>3
<1>3. /\ ready \in Seq(Ready(now)) /\ y \in Seq(Packet)
      /\ ready \o y = pdp \o delay
  BY ReleaseFacts, Zenon DEF IInv, Types
<1>4. EndOfTrace(left) /\ Len(left) <= Len(schedule) /\ (left # <<>> => left[1] >= now)
  BY PrunedFacts
<1>5. left \in Seq(Nat) /\ Len(left) \in Nat /\ Len(ready) \in Nat
  <2>1. left \in Seq(Nat)
    BY <1>4 DEF EndOfTrace
  <2> HIDE DEF left, ready
  <2> QED BY <1>3, <2>1
<1>6. h \in 0..Len(left) /\ \A i \in 1..h : left[i] < now + 1
  BY <1>2, <1>5, BeforeFacts, Zenon
<1> HIDE DEF left, ready, y, h, n
<1>7. k \in 0..Len(left) /\ k \in 0..Len(ready) /\ k \in 0..h
  BY <1>5, <1>6 DEF Least
<1> HIDE DEF k
<1>8. \A i \in 1..k : left[i] <= now
  <2> SUFFICES ASSUME NEW i \in 1..k PROVE left[i] <= now
    OBVIOUS
  <2>1. i \in 1..h /\ left[i] \in Nat
    BY <1>5, <1>6, <1>7
  <2> QED BY <1>2, <1>6, <2>1
<1>9. EndOfTrace(rest) /\ Len(rest) = Len(left) - k
  BY <1>2, <1>4, <1>7, <1>8, DropFront
<1>10. /\ go \in Seq(Ready(now)) /\ stay \in Seq(Ready(now)) /\ Len(go) = k
       /\ go \o stay = ready
  <2>1. go \in Seq(Ready(now)) /\ stay \in Seq(Ready(now)) /\ Len(go) = k
    BY <1>3, <1>5, <1>7
  <2>2. SubSeq(ready, 1, k) \o SubSeq(ready, k + 1, Len(ready)) = SubSeq(ready, 1, Len(ready))
    <3>1. 1 \in 1..(Len(ready) + 1) /\ k \in (1 - 1)..Len(ready) /\ Len(ready) \in k..Len(ready)
      BY <1>5, <1>7
    <3> QED BY <1>3, <3>1, ConcatAdjacentSubSeq, Zenon
  <2> QED BY <1>3, <2>1, <2>2, SubSeqFull, Zenon
<1> HIDE DEF go, stay, rest
<1>11. delivered' = go
  BY <1>1, <1>2, <1>10, ConcatEmptySeq
<1>12. Types'
  BY <1>1, <1>2, <1>3, <1>10, <1>11 DEF IInv, Types, LimboType, Ready
<1>13. Schedules' /\ NeverAhead'
  <2>1. Schedules'
    BY <1>1, <1>2, <1>9 DEF Schedules, EndOfTrace, Used
  <2>2. Earned' = 0
    BY <1>1, <1>2 DEF Earned
  <2>3. Len(trace) - Len(rest) \in Nat
    BY <1>2, <1>9 DEF EndOfTrace
  <2>4. 0 <= Service * (Len(trace) - Len(rest))
    <3> DEFINE m == Len(trace) - Len(rest)
    <3>1. m \in Nat /\ Service \in Nat
      BY <2>3, ServiceAssumption
    <3> HIDE DEF m
    <3>2. Service * m \in Nat
      BY <3>1
    <3> QED BY <3>2 DEF m
  <2>5. 0 + 0 + 0 = 0
    OBVIOUS
  <2> QED BY <1>1, <1>2, <1>9, <2>1, <2>2, <2>4, <2>5 DEF NeverAhead, EndOfTrace
<1>14. KeepsOrder'
  <2> DEFINE f == forwarded
  <2>1. f \in Seq(Packet) /\ pdp \in Seq(Packet) /\ delay \in Seq(Packet)
    BY HeldTypes
  <2>2. go \in Seq(Packet) /\ stay \in Seq(Packet)
    BY <1>2, <1>10, ReadyFacts, SeqMonotonic
  <2>3. InLimbo = <<>> /\ InLimbo' = <<>>
    BY <1>1, <1>2 DEF InLimbo
  <2>4. written = (((f \o <<>>) \o <<>>) \o pdp) \o delay
    BY <1>2, <2>3 DEF IInv, KeepsOrder
  <2>5. f \o <<>> = f
    BY <2>1, Unit, Zenon
  <2>6. (f \o pdp) \o delay = f \o (pdp \o delay)
    BY <2>1, Assoc, ZenonT(30)
  <2>7. f \o go \in Seq(Packet) /\ ready \in Seq(Packet) /\ y \in Seq(Packet)
    <3>1. ready \in Seq(Packet)
      BY <1>2, <1>3, ReadyFacts, SeqMonotonic
    <3> QED BY <1>3, <2>1, <2>2, <3>1
  <2>8. (f \o go) \o <<>> = f \o go
    BY <2>7, Unit, Zenon
  <2>9. (f \o go) \o stay = f \o (go \o stay)
    <3>1. f \in Seq(Packet) /\ go \in Seq(Packet) /\ stay \in Seq(Packet)
      BY <2>1, <2>2
    <3> HIDE DEF f, go, stay
    <3> QED BY <3>1, Assoc, ZenonT(30)
  <2>10. (f \o ready) \o y = f \o (ready \o y)
    <3>1. f \in Seq(Packet) /\ ready \in Seq(Packet) /\ y \in Seq(Packet)
      BY <2>1, <2>7
    <3> HIDE DEF f, ready, y
    <3> QED BY <3>1, Assoc, ZenonT(30)
  <2>11. KeepsOrder' <=> written = (((f \o go) \o <<>>) \o stay) \o y
    BY <1>1, <1>11, <2>3 DEF KeepsOrder
  <2> QED BY <1>3, <1>10, <2>4, <2>5, <2>6, <2>8, <2>9, <2>10, <2>11, Zenon
<1>15. Control'
  BY <1>1, <1>2 DEF Control, ProxyControl, ProxyPcs
<1>16. Timeout' /\ WakesInTime'
  BY <1>1, <1>2 DEF Timeout, WakesInTime
<1>17. OnePacketEach'
  <2>1. Len(forwarded) + 0 <= Len(trace) - Len(schedule)
    <3>1. Len(delivered) = 0
      BY <1>2
    <3> QED BY <3>1 DEF IInv, OnePacketEach
  <2>2. Len(forwarded) \in Nat /\ Len(trace) \in Nat /\ Len(schedule) \in Nat
    BY <1>2, HeldTypes
  <2>3. Len(forwarded) + k <= Len(trace) - Len(rest)
    BY <1>4, <1>5, <1>7, <1>9, <2>1, <2>2
  <2>4. ASSUME go # <<>> PROVE \E i \in 1..Len(trace) : trace[i] = now
    <3>1. k > 0
      <4>1. Len(go) \in Nat \ {0}
        BY <1>10, <2>4
      <4> QED BY <1>10, <4>1
    <3>2. left # <<>> /\ 1 \in 1..k /\ 1 \in 1..Len(left) /\ left[1] \in Nat
      BY <1>5, <1>7, <3>1
    <3>3. left[1] = now
      <4>1. left[1] <= now /\ left[1] >= now
        BY <1>4, <1>8, <3>2
      <4> QED BY <1>2, <3>2, <4>1
    <3>4. left[1] = trace[(Len(trace) - Len(left)) + 1]
      BY <1>4, <3>2 DEF EndOfTrace
    <3>5. (Len(trace) - Len(left)) + 1 \in 1..Len(trace)
      <4>1. Len(left) <= Len(trace) /\ Len(left) >= 1
        BY <1>4, <1>5, <3>2 DEF EndOfTrace
      <4> QED BY <1>5, <2>2, <4>1
    <3> QED BY <3>3, <3>4, <3>5
  <2> QED BY <1>1, <1>10, <1>11, <2>3, <2>4 DEF OnePacketEach
<1> QED BY <1>12, <1>13, <1>14, <1>15, <1>16, <1>17 DEF IInv

LEMMA ProxyWaitStep ==
    ASSUME IInv, program = "cellproxy", Proxy!WaitTime, UNCHANGED <<simVars, program>>
    PROVE  IInv'
<1> DEFINE left == Proxy!Pruned(schedule)
<1>1. /\ pc = "wait_time" /\ pc' \in {"sleep", "abort"} /\ schedule' = left
      /\ \/ /\ pdp = <<>> \/ left # <<>>
            /\ wake' = Least(DelayWake, IF pdp = <<>> THEN MaxTime ELSE left[1])
         \/ /\ left = <<>>
            /\ \E any \in now..MaxTime : wake' = Least(DelayWake, any)
      /\ UNCHANGED <<caller, now, trace, delay, pdp, delivered, forwarded, written,
                     limbo, bytes_to_play_with, carried, program>>
  BY DEF Proxy!WaitTime, Proxy!DelayWake, DelayWake, Proxy!Least, Least, simVars
<1>2. /\ ProxyControl /\ delivered = <<>> /\ limbo = <<>> /\ carried = 0
      /\ bytes_to_play_with = 0
      /\ now \in Nat /\ trace \in Seq(Nat) /\ schedule \in Seq(Nat)
  BY <1>1 DEF IInv, Control, ProxyControl, Types, Schedules
<1>3. EndOfTrace(left) /\ Len(left) <= Len(schedule)
  BY PrunedFacts
<1> HIDE DEF left
<1>4. DelayWake \in Nat /\ MaxTime \in Nat
  <2>1. delay # <<>> => delay[1] \in Packet
    BY DEF IInv, Types
  <2> QED BY <2>1, QueueAssumption DEF DelayWake, Packet
<1>5. wake' \in Nat /\ wake' <= DelayWake
      /\ (left # <<>> /\ pdp # <<>> => wake' <= left[1])
  <2>0. left # <<>> => left[1] \in Nat
    BY <1>3 DEF EndOfTrace
  <2>1. \A a, b \in Nat : Least(a, b) \in Nat /\ Least(a, b) <= a /\ Least(a, b) <= b
    BY DEF Least
  <2>2. CASE /\ pdp = <<>> \/ left # <<>>
             /\ wake' = Least(DelayWake, IF pdp = <<>> THEN MaxTime ELSE left[1])
    <3>1. (IF pdp = <<>> THEN MaxTime ELSE left[1]) \in Nat
      BY <1>4, <2>0, <2>2
    <3> QED BY <1>4, <2>1, <2>2, <3>1, Zenon
  <2>3. CASE /\ left = <<>>
             /\ \E any \in now..MaxTime : wake' = Least(DelayWake, any)
    <3>1. \A any \in now..MaxTime : any \in Nat
      BY <1>2, <1>4
    <3> QED BY <1>4, <2>1, <2>3, <3>1
  <2> QED BY <1>1, <2>2, <2>3
<1>6. Types'
  BY <1>1, <1>5 DEF IInv, Types, LimboType, Ready
<1>7. Schedules'
  BY <1>1, <1>2, <1>3 DEF Schedules, EndOfTrace, Used
<1>8. NeverAhead'
  <2>1. Earned' = 0
    BY <1>1, <1>2 DEF Earned
  <2>2. 0 <= Service * (Len(trace) - Len(left))
    <3> DEFINE m == Len(trace) - Len(left)
    <3>1. m \in Nat /\ Service \in Nat
      BY <1>2, <1>3, ServiceAssumption DEF EndOfTrace
    <3> HIDE DEF m
    <3>2. Service * m \in Nat
      BY <3>1
    <3> QED BY <3>2 DEF m
  <2>3. 0 + 0 + 0 = 0
    OBVIOUS
  <2> QED BY <1>1, <1>2, <1>3, <2>1, <2>2, <2>3 DEF NeverAhead, EndOfTrace
<1>9. KeepsOrder'
  BY <1>1 DEF IInv, KeepsOrder, InLimbo
<1>10. Control'
  BY <1>1, <1>2 DEF Control, ProxyControl, ProxyPcs
<1>11. Timeout'
  BY <1>1, <1>5 DEF Timeout, DelayWake
<1>12. WakesInTime'
  BY <1>1 DEF WakesInTime
<1>13. OnePacketEach'
  <2>1. Len(forwarded) + Len(delivered) <= Len(trace) - Len(schedule)
    BY DEF IInv, OnePacketEach
  <2>2. /\ Len(forwarded) \in Nat /\ Len(delivered) \in Nat /\ Len(trace) \in Nat
        /\ Len(schedule) \in Nat /\ Len(left) \in Nat
    BY <1>2, <1>3, HeldTypes DEF EndOfTrace
  <2>3. Len(forwarded) + Len(delivered) <= Len(trace) - Len(left)
    BY <1>3, <2>1, <2>2
  <2> QED BY <1>1, <1>2, <2>3 DEF OnePacketEach
<1> QED BY <1>6, <1>7, <1>8, <1>9, <1>10, <1>11, <1>12, <1>13 DEF IInv

-----------------------------------------------------------------------------
(* The theorems.                                                           *)

EmulatorNext == (SimStep \/ ProxyStep) /\ UNCHANGED program

LEMMA NextIInv == IInv /\ [EmulatorNext]_emulatorVars => IInv'
<1> SUFFICES ASSUME IInv, [EmulatorNext]_emulatorVars PROVE IInv'
  OBVIOUS
<1>1. CASE UNCHANGED emulatorVars
  <2>1. UNCHANGED <<pc, caller, now, wake, trace, schedule, delay, pdp, delivered,
                    forwarded, written, limbo, bytes_to_play_with, carried, program>>
    BY <1>1 DEF emulatorVars, vars, queueVars, simVars
  <2>2. Types' /\ Schedules' /\ KeepsOrder' /\ NeverAhead'
    BY <2>1 DEF IInv, Types, LimboType, Ready, Schedules, Used, KeepsOrder, InLimbo,
                NeverAhead, Earned
  <2>3. Control' /\ Timeout' /\ WakesInTime' /\ OnePacketEach'
    BY <2>1 DEF IInv, Control, SimControl, ProxyControl, NothingDue, Timeout,
                WakesInTime, OnePacketEach
  <2> QED BY <2>2, <2>3 DEF IInv
<1>2. CASE SimStep /\ UNCHANGED program
  <2>1. program = "cellsim" /\ UNCHANGED program
    BY <1>2 DEF SimStep
  <2>2. CASE (Select \/ Recv \/ Read) /\ UNCHANGED simVars
    BY <2>1, <2>2, SelectStep, RecvStep, ReadStep
  <2>3. CASE WaitTimeTick \/ TickReturn \/ LimboEmpty \/ PdoDone \/ WaitTime
    BY <2>1, <2>3, SimControlSteps
  <2>4. CASE TickRelease \/ GrabPdo
    BY <2>1, <2>4, TickReleaseStep, GrabPdoStep
  <2>5. CASE LimboDeliver \/ LimboEarn
    BY <2>1, <2>5, LimboDeliverStep, LimboEarnStep
  <2>6. CASE DeliverWhole \/ PutInLimbo \/ Underflow
    BY <2>1, <2>6, DeliverWholeStep, PutInLimboStep, UnderflowStep
  <2> QED BY <1>2, <2>2, <2>3, <2>4, <2>5, <2>6 DEF SimStep, Next, Tick, Loop
<1>3. CASE ProxyStep /\ UNCHANGED program
  <2>1. program = "cellproxy" /\ UNCHANGED <<simVars, program>>
    BY <1>3 DEF ProxyStep
  <2>2. CASE Proxy!Select
    BY <2>1, <2>2, SelectStep DEF Proxy!Select, Select, Proxy!Least, Least
  <2>3. CASE Proxy!Recv
    BY <2>1, <2>3, RecvStep, Zenon DEF Proxy!Recv, Recv
  <2>4. CASE Proxy!Read
    BY <2>1, <2>4, ReadStep DEF Proxy!Read, Read
  <2>5. CASE Proxy!Tick \/ Proxy!WaitTime
    BY <2>1, <2>5, ProxyTickStep, ProxyWaitStep
  <2> QED BY <1>3, <2>2, <2>3, <2>4, <2>5 DEF ProxyStep, Proxy!Next
<1> QED BY <1>1, <1>2, <1>3 DEF EmulatorNext

LEMMA Invariance == EmulatorSpec => []IInv
<1>1. EmulatorSpec => EmulatorInit /\ [][EmulatorNext]_emulatorVars
  BY DEF EmulatorSpec, EmulatorNext
<1> QED BY <1>1, InitIInv, NextIInv, PTL

\* Types of both programs; limbo never holds two packets, as the assertions of
\* cellsim.cc:175-208 say.
THEOREM EmulatorTypes == EmulatorSpec => []TypeOK
<1>1. IInv => TypeOK
  <2> SUFFICES ASSUME IInv PROVE TypeOK
    OBVIOUS
  <2>1. Len(limbo) <= 1
    <3>1. CASE limbo = <<>>
      BY <3>1
    <3>2. ASSUME NEW x, limbo = <<x>> PROVE Len(limbo) <= 1
      BY <3>2
    <3> QED BY <3>1, <3>2 DEF IInv, Types, LimboType
  <2>2. /\ pc \in SimPcs \cup ProxyPcs /\ caller \in {"sleep", "waits", "read"}
    BY DEF IInv, Control, SimControl, ProxyControl
  <2> QED BY <2>1, <2>2 DEF IInv, Types, TypeOK, SimPcs, ProxyPcs
<1> QED BY <1>1, Invariance, PTL

\* Neither emulator loses, repeats or reorders a packet.
THEOREM LinkKeepsOrder == EmulatorSpec => []KeepsOrder
<1>1. IInv => KeepsOrder
  BY DEF IInv
<1> QED BY <1>1, Invariance, PTL

\* The link is never ahead of the trace, in bytes or in time.
THEOREM LinkNeverAhead == EmulatorSpec => []NeverAhead
<1>1. IInv => NeverAhead
  BY DEF IInv
<1> QED BY <1>1, Invariance, PTL

\* No packet is sent on before its delay is over.
THEOREM LinkKeepsDelay == EmulatorSpec => []DelayKept
<1>1. IInv => DelayKept
  <2> SUFFICES ASSUME IInv, NEW i \in 1..Len(forwarded) PROVE forwarded[i].release <= now
    BY DEF DelayKept
  <2>1. forwarded \in Seq(Ready(now))
    BY DEF IInv, Types
  <2>2. forwarded[i] \in Ready(now)
    BY <2>1
  <2> QED BY <2>2 DEF Ready
<1> QED BY <1>1, Invariance, PTL

\* wait_time's own tick delivers nothing, so nothing is held while asleep.
THEOREM NothingIsHeldAsleep == EmulatorSpec => []NothingHeldAsleep
<1>1. IInv => NothingHeldAsleep
  BY DEF IInv, Types, Control, SimControl, ProxyControl, NothingHeldAsleep
<1> QED BY <1>1, Invariance, PTL

\* The program is late by no more than select is.
THEOREM LinkWakesInTime == EmulatorSpec => []WakesInTime
<1>1. IInv => WakesInTime
  BY DEF IInv
<1> QED BY <1>1, Invariance, PTL

\* cellproxy sends at most one packet per opportunity, in its millisecond.
THEOREM ProxyOnePacketEach == EmulatorSpec => []OnePacketEach
<1>1. IInv => OnePacketEach
  BY DEF IInv
<1> QED BY <1>1, Invariance, PTL
=============================================================================
