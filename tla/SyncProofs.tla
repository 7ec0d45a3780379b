----------------------------- MODULE SyncProofs -----------------------------
(***************************************************************************)
(* That the transport synchronizes states: proofs, for every limit and     *)
(* every number of events and whatever the network does, for a window that *)
(* never closes (MayClose = FALSE; see EmptyAck).                          *)
(*                                                                         *)
(* The user's events are numbered, so a state is known by its length.  The *)
(* invariant says that there is a function from the numbers of states to   *)
(* their lengths by which the sender's list, the receiver's states and all *)
(* instructions on their way go.                                           *)
(***************************************************************************)
EXTENDS SspProofs

-----------------------------------------------------------------------------
(* Streams of events.                                                      *)

\* The first k events.
Events(k) == [i \in 1..k |-> i]

\* Those after the first k, up to c.
Later(k, c) == SubSeq(Events(c), k + 1, c)

\* The order of numbers is transitive.
LEMMA Chain ==
    \A i, j, k \in Nat : i <= j /\ j <= k => i <= k
OBVIOUS

\* The first k events are a sequence of length k.
LEMMA EventsSeq ==
    ASSUME NEW k \in Nat
    PROVE  Events(k) \in Seq(Nat) /\ Len(Events(k)) = k
BY DEF Events

LEMMA EventsAppend ==
    ASSUME NEW k \in Nat
    PROVE  Append(Events(k), k + 1) = Events(k + 1)
<1>1. Events(k) \in Seq(Nat) /\ Len(Events(k)) = k
  BY EventsSeq
<1>2. DOMAIN Append(Events(k), k + 1) = 1..(k + 1)
  BY <1>1
<1>3. \A i \in 1..(k + 1) : Append(Events(k), k + 1)[i] = i
  BY <1>1 DEF Events
<1>4. Append(Events(k), k + 1) = [i \in 1..(k + 1) |-> Append(Events(k), k + 1)[i]]
  BY <1>1, <1>2
<1> QED BY <1>3, <1>4 DEF Events

LEMMA EventsLater ==
    ASSUME NEW k \in Nat, NEW c \in Nat, k <= c
    PROVE  /\ Later(k, c) \in Seq(Nat) /\ Len(Later(k, c)) = c - k
           /\ Events(k) \o Later(k, c) = Events(c)
<1>1. /\ Events(k) \in Seq(Nat) /\ Len(Events(k)) = k
      /\ Events(c) \in Seq(Nat) /\ Len(Events(c)) = c
  BY EventsSeq
<1>2. Later(k, c) \in Seq(Nat) /\ Len(Later(k, c)) = c - k
  BY <1>1 DEF Later
<1>3. \A i \in 1..(c - k) : Later(k, c)[i] = k + i
  BY <1>1 DEF Later, Events
<1> DEFINE a == Events(k)
           b == Later(k, c)
           s == a \o b
<1>4. a \in Seq(Nat) /\ b \in Seq(Nat) /\ Len(a) = k /\ Len(b) = c - k
  BY <1>1, <1>2
<1>5. ASSUME NEW i \in 1..c PROVE s[i] = i
  <2>1. CASE i <= k
    <3>1. a[i] = i
      BY <2>1 DEF Events
    <3> HIDE DEF a, b
    <3> QED BY <1>4, <2>1, <3>1
  <2>2. CASE i > k
    <3>1. i - k \in 1..(c - k)
      BY <2>2
    <3>2. b[i - k] = k + (i - k)
      BY <1>3, <3>1
    <3> HIDE DEF a, b
    <3>3. i \in 1..(Len(a) + Len(b)) /\ i > Len(a) /\ i - Len(a) = i - k
      BY <1>4, <2>2
    <3>4. s[i] = b[i - k]
      BY <1>4, <3>3, SMTT(20)
    <3> HIDE DEF s
    <3>5. k + (i - k) = i
      OBVIOUS
    <3> QED BY <3>2, <3>4, <3>5
  <2>3. i <= k \/ i > k
    OBVIOUS
  <2> HIDE DEF s
  <2> QED BY <2>1, <2>2, <2>3
<1>6. s = [i \in 1..c |-> s[i]]
  <2> HIDE DEF a, b
  <2>1. s \in Seq(Nat) /\ Len(s) = k + (c - k)
    BY <1>4, SMTT(20)
  <2>2. k + (c - k) = c
    OBVIOUS
  <2> HIDE DEF s
  <2>3. s \in [1..c -> Nat]
    BY <2>1, <2>2
  <2> QED BY <2>3
<1>7. s = Events(c)
  <2> HIDE DEF s
  <2> QED BY <1>5, <1>6 DEF Events
<1> QED BY <1>2, <1>7

LEMMA EventsPrefix ==
    ASSUME NEW k \in Nat, NEW c \in Nat, k <= c
    PROVE  SubSeq(Events(c), 1, k) = Events(k)
<1> DEFINE s == SubSeq(Events(c), 1, k)
<1>1. Events(c) \in Seq(Nat) /\ Len(Events(c)) = c
  BY EventsSeq
<1>2. s \in Seq(Nat) /\ Len(s) = k
  BY <1>1
<1>3. \A i \in 1..k : s[i] = i
  BY <1>1 DEF Events
<1>4. s = [i \in 1..k |-> s[i]]
  BY <1>2
<1> HIDE DEF s
<1>5. s = Events(k)
  BY <1>3, <1>4 DEF Events
<1> QED BY <1>5 DEF s

-----------------------------------------------------------------------------
(* What stays in the list of sent states.                                  *)

LEMMA AddRange ==
    ASSUME NEW s, SentList(s), NEW x \in Entry
    PROVE  LET t == AddSentState(s, x)
           IN  /\ t[Len(t)] = x
               /\ \A i \in 1..Len(t) : t[i] = x \/ \E j \in 1..Len(s) : t[i] = s[j]
<1> DEFINE u == Append(s, x)
           t == AddSentState(s, x)
<1>1. /\ s \in Seq(Entry) /\ Len(s) \in Nat \ {0}
      /\ u \in Seq(Entry) /\ Len(u) = Len(s) + 1 /\ u[Len(s) + 1] = x
      /\ \A i \in 1..Len(s) : u[i] = s[i]
  BY SenderAssumption DEF SentList
<1> HIDE DEF u
<1>2. CASE Len(u) > SentMax
  <2> DEFINE p == Position(Len(u))
  <2>1. p \in 2..(Len(s) - 1)
    BY <1>1, <1>2, PositionInside
  <2> HIDE DEF p
  <2>2. t = [i \in 1..Len(s) |-> IF i < p THEN u[i] ELSE u[i + 1]]
    BY <1>1, <1>2 DEF AddSentState, Erase, u, p
  <2>3. Len(t) = Len(s)
    BY <1>1, <2>2
  <2> HIDE DEF t
  <2>4. t[Len(t)] = x
    BY <1>1, <2>1, <2>2, <2>3
  <2>5. ASSUME NEW i \in 1..Len(s)
        PROVE  t[i] = x \/ \E j \in 1..Len(s) : t[i] = s[j]
    <3>1. t[i] = IF i < p THEN u[i] ELSE u[i + 1]
      BY <2>2
    <3>2. CASE i < p
      BY <1>1, <3>1, <3>2
    <3>3. CASE ~(i < p) /\ i = Len(s)
      BY <1>1, <3>1, <3>3
    <3>4. CASE ~(i < p) /\ i # Len(s)
      <4>1. i + 1 \in 1..Len(s)
        BY <1>1, <3>4
      <4> QED BY <1>1, <3>1, <3>4, <4>1
    <3> QED BY <3>2, <3>3, <3>4
  <2> QED BY <2>3, <2>4, <2>5 DEF t
<1>3. CASE ~(Len(u) > SentMax)
  <2>1. t = u
    BY <1>3 DEF AddSentState, u
  <2> HIDE DEF t
  <2>2. \A i \in 1..Len(t) : i = Len(s) + 1 \/ i \in 1..Len(s)
    BY <1>1, <2>1
  <2> QED BY <1>1, <2>1, <2>2 DEF t
<1> QED BY <1>2, <1>3

LEMMA AckRange ==
    ASSUME NEW s, SentList(s), NEW n \in Nat
    PROVE  LET t == ProcessAck(s, n)
           IN  /\ t[Len(t)] = s[Len(s)]
               /\ \A i \in 1..Len(t) : \E j \in 1..Len(s) : t[i] = s[j]
<1> DEFINE t == ProcessAck(s, n)
<1>1. SentList(t)
  BY AckKeeps
<1>2. s \in Seq(Entry) /\ Len(s) \in Nat \ {0} /\ Len(t) \in Nat \ {0}
  BY <1>1, SenderAssumption DEF SentList
<1>3. CASE t = s
  BY <1>2, <1>3
<1>4. CASE t # s
  <2> DEFINE m == FirstNotBelow(s, n)
  <2>1. t = SubSeq(s, m, Len(s)) /\ \E i \in 1..Len(s) : s[i].num = n
    BY <1>4, Zenon DEF ProcessAck
  <2>2. m \in 1..Len(s)
    <3> DEFINE I == {i \in 1..Len(s) : s[i].num >= n}
    <3>1. I \subseteq Nat /\ I # {}
      BY <2>1
    <3>2. PICK k \in I : \A j \in I : k <= j
      BY <3>1, LeastMember, Zenon
    <3>3. \A j \in 1..(k - 1) : s[j].num < n
      <4> SUFFICES ASSUME NEW j \in 1..(k - 1) PROVE s[j].num < n
        OBVIOUS
      <4>1. j \in 1..Len(s) /\ j < k
        BY <1>2, <3>2
      <4>2. s[j] \in Entry
        BY <1>2, <4>1
      <4>3. s[j].num \in Nat
        BY <4>2, SenderAssumption DEF Entry
      <4>4. j \notin I
        BY <3>2, <4>1
      <4> QED BY <4>1, <4>3, <4>4
    <3>4. k \in 1..Len(s) /\ s[k].num >= n
      BY <3>2
    <3> QED BY <3>3, <3>4, Zenon DEF FirstNotBelow
  <2> HIDE DEF m, t
  <2>3. Len(t) = Len(s) - m + 1 /\ \A i \in 1..Len(t) : t[i] = s[m + i - 1]
    BY <1>2, <2>1, <2>2
  <2>4. \A i \in 1..Len(t) : m + i - 1 \in 1..Len(s)
    BY <1>2, <2>2, <2>3
  <2>5. m + Len(t) - 1 = Len(s)
    BY <1>2, <2>2, <2>3
  <2>6. t[Len(t)] = s[m + Len(t) - 1]
    BY <1>2, <2>3
  <2> QED BY <2>3, <2>4, <2>5, <2>6 DEF t
<1> QED BY <1>3, <1>4

\* The highest number of a set of states.
LEMMA HighestMember ==
    ASSUME NEW r, DOMAIN r \subseteq 0..LastNum, DOMAIN r # {}
    PROVE  Highest(r) \in DOMAIN r /\ \A k \in DOMAIN r : k <= Highest(r)
<1> DEFINE T == {LastNum - k : k \in DOMAIN r}
<1>1. T \subseteq Nat /\ T # {}
  BY SenderAssumption
<1>2. PICK m \in T : \A k \in T : m <= k
  BY <1>1, LeastMember, Zenon
<1>3. PICK n \in DOMAIN r : m = LastNum - n
  BY <1>2
<1>4. \A k \in DOMAIN r : k <= n
  <2> SUFFICES ASSUME NEW k \in DOMAIN r PROVE k <= n
    OBVIOUS
  <2>1. LastNum - n <= LastNum - k
    BY <1>2, <1>3
  <2> QED BY <1>3, <2>1, SenderAssumption
<1> QED BY <1>3, <1>4, Zenon DEF Highest

-----------------------------------------------------------------------------
(* The inductive invariant.                                                *)

Num == 0..LastNum

\* The number of the state sent last.
Last(e) == sent_states[e][Len(sent_states[e])].num

\* By g, the state of e with number n has the first g[n] events; numbers not
\* used yet stand for the current state, and so does LastNum, since the
\* current state does not change in a shutdown.
Made(e, g) ==
    /\ g \in [Num -> Nat]
    /\ \A m, n \in Num : m <= n => g[m] <= g[n]
    /\ current_state[e] = Events(g[LastNum])
    /\ \A n \in Num : n > Last(e) => g[n] = g[LastNum]
    /\ ~shutdown_in_progress[e] => Last(e) < LastNum
    /\ \A i \in 1..Len(sent_states[e]) :
          sent_states[e][i].state = Events(g[sent_states[e][i].num])

\* The receiver's states go by it, and so do the instructions.
Held(e, g) ==
    \A n \in DOMAIN received_states[Peer(e)] :
        n <= Last(e) /\ received_states[Peer(e)][n] = Events(g[n])

OnWay(e, g) ==
    \A inst \in sent[e] :
        /\ inst.old <= Last(e) /\ inst.new <= Last(e)
        /\ g[inst.old] <= g[inst.new]
        /\ inst.diff = Later(g[inst.old], g[inst.new])

\* What the far end's user has seen is not ahead of the states received.
Seen(e, g) ==
    \E v \in Nat : \E n \in DOMAIN received_states[Peer(e)] :
        last_receiver_state[Peer(e)] = Events(v) /\ v <= g[n]

Track(e, g) == Made(e, g) /\ Held(e, g) /\ OnWay(e, g) /\ Seen(e, g)

SyncInv ==
    /\ DOMAIN last_receiver_state = End
    /\ \A e \in End : \E g : Track(e, g)

\* Numbers are numbers.
LEMMA NumFacts ==
    ASSUME Inv, NEW e \in End
    PROVE  /\ Num \subseteq Nat /\ LastNum \in Num /\ Last(e) \in Num
           /\ \A i \in 1..Len(sent_states[e]) :
                 sent_states[e][i].num \in Num /\ sent_states[e][i].num <= Last(e)
           /\ \A inst \in sent[e] : inst.old \in Num /\ inst.new \in Num
           /\ \A p \in End : DOMAIN received_states[p] \subseteq Num
<1>1. Num \subseteq Nat /\ LastNum \in Num
  BY SenderAssumption DEF Num
<1> DEFINE s == sent_states[e]
<1>2. SentList(s)
  BY DEF Inv, Relied
<1>3. Len(s) \in Nat \ {0}
  BY <1>2, SenderAssumption DEF SentList
<1>4. \A i \in 1..Len(s) : s[i].num \in Num /\ s[i].num <= Last(e)
  <2> SUFFICES ASSUME NEW i \in 1..Len(s)
               PROVE  s[i].num \in Num /\ s[i].num <= Last(e)
    OBVIOUS
  <2>1. s[i] \in Entry
    BY <1>2 DEF SentList
  <2>2. s[i].num \in Num
    BY <2>1 DEF Entry, Num
  <2>3. i \in 1..Len(s) /\ Len(s) \in 1..Len(s) /\ i <= Len(s)
    BY <1>3
  <2>4. s[i].num <= s[Len(s)].num
    BY <1>2, <2>3 DEF SentList
  <2> QED BY <2>2, <2>4 DEF Last
<1>5. Len(s) \in 1..Len(s)
  BY <1>3
<1>6. Last(e) \in Num
  BY <1>4, <1>5 DEF Last
<1>7. \A inst \in sent[e] : inst.old \in Num /\ inst.new \in Num
  <2>1. \A inst \in sent[e] : inst \in Instr
    BY DEF Inv, TypeInv
  <2> QED BY <2>1 DEF Instr, Num
<1>8. \A p \in End : DOMAIN received_states[p] \subseteq Num
  BY DEF Inv, TypeInv, States, Num
<1> QED BY <1>1, <1>4, <1>6, <1>7, <1>8

LEMMA InitSync == Init => SyncInv
<1> SUFFICES ASSUME Init, NEW e \in End PROVE \E g : Track(e, g)
  BY DEF SyncInv, Init
<1> DEFINE g == [n \in Num |-> 0]
<1>0. LastNum \in Nat /\ LastNum > 0 /\ Num \subseteq Nat /\ LastNum \in Num /\ 0 \in Num
  <2>1. MaxNum[e] \in 0..(LastNum - 1)
    BY SenderAssumption
  <2> QED BY <2>1, SenderAssumption DEF Num
<1>1. Events(0) = << >>
  <2>1. Events(0) \in Seq(Nat) /\ Len(Events(0)) = 0
    BY EventsSeq
  <2> QED BY <2>1
<1>2. /\ sent_states[e] = <<[num |-> 0, state |-> <<>>]>>
      /\ current_state[e] = <<>> /\ sent[e] = {}
      /\ received_states[Peer(e)] = [n \in {0} |-> <<>>]
      /\ last_receiver_state[Peer(e)] = <<>>
  BY EndPeer DEF Init, SenderInit
<1>3. Last(e) = 0 /\ Len(sent_states[e]) = 1 /\ sent_states[e][1].num = 0
      /\ sent_states[e][1].state = <<>>
  BY <1>2 DEF Last
<1>4. g \in [Num -> Nat] /\ \A n \in Num : g[n] = 0
  OBVIOUS
<1> HIDE DEF g
<1>5. Made(e, g)
  BY <1>0, <1>1, <1>2, <1>3, <1>4 DEF Made
<1>6. Held(e, g) /\ OnWay(e, g)
  BY <1>0, <1>1, <1>2, <1>3, <1>4 DEF Held, OnWay
<1>7. Seen(e, g)
  <2>1. 0 \in Nat /\ 0 \in DOMAIN received_states[Peer(e)] /\ g[0] = 0 /\ 0 <= g[0]
    BY <1>0, <1>2, <1>4
  <2> QED BY <1>1, <1>2, <2>1 DEF Seen
<1> QED BY <1>5, <1>6, <1>7 DEF Track

\* A step that leaves one direction alone.
LEMMA KeepTrack ==
    ASSUME NEW e \in End, NEW g, Track(e, g),
           current_state'[e] = current_state[e],
           sent_states'[e] = sent_states[e],
           shutdown_in_progress'[e] = shutdown_in_progress[e],
           sent'[e] = sent[e],
           received_states'[Peer(e)] = received_states[Peer(e)],
           last_receiver_state'[Peer(e)] = last_receiver_state[Peer(e)]
    PROVE  Track(e, g)'
BY DEF Track, Made, Held, OnWay, Seen, Last

-----------------------------------------------------------------------------
(* The steps.                                                              *)

\* An event: the numbers not used yet stand for the longer state.
LEMMA ChangeTrack ==
    ASSUME Inv, NEW e \in End, NEW g, Track(e, g), Change(e), UNCHANGED recvVars
    PROVE  \E h : Track(e, h)'
<1> DEFINE c == g[LastNum]
<1>0. /\ Num \subseteq Nat /\ LastNum \in Num /\ Last(e) \in Num
      /\ \A i \in 1..Len(sent_states[e]) :
            sent_states[e][i].num \in Num /\ sent_states[e][i].num <= Last(e)
      /\ \A inst \in sent[e] : inst.old \in Num /\ inst.new \in Num
      /\ DOMAIN received_states[Peer(e)] \subseteq Num
  BY NumFacts, EndPeer
<1>1. /\ ~shutdown_in_progress[e]
      /\ current_state'[e] = Append(current_state[e], Len(current_state[e]) + 1)
      /\ UNCHANGED <<sent_states, ack_num, shutdown_in_progress, sent>>
      /\ UNCHANGED <<received_states, last_receiver_state>>
  BY DEF Change, recvVars, Inv, TypeInv
<1>2. /\ g \in [Num -> Nat] /\ c \in Nat
      /\ \A m, n \in Num : m <= n => g[m] <= g[n]
      /\ current_state[e] = Events(c)
      /\ Last(e) < LastNum
  BY <1>0, <1>1 DEF Track, Made
<1>3. current_state'[e] = Events(c + 1)
  BY <1>1, <1>2, EventsSeq, EventsAppend, Zenon
<1>4. Last(e)' = Last(e)
  BY <1>1 DEF Last
<1>5. PICK h :
          /\ h \in [Num -> Nat] /\ h[LastNum] = c + 1
          /\ \A n \in Num : n <= Last(e) => h[n] = g[n]
          /\ \A n \in Num : n > Last(e) => h[n] = c + 1
          /\ \A n \in Num : g[n] <= c
  <2> DEFINE f == [n \in Num |-> IF n > Last(e) THEN c + 1 ELSE g[n]]
  <2>1. f \in [Num -> Nat] /\ f[LastNum] = c + 1
    BY <1>0, <1>2
  <2>2. /\ \A n \in Num : n <= Last(e) => f[n] = g[n]
        /\ \A n \in Num : n > Last(e) => f[n] = c + 1
    <3>1. \A n \in Num : n <= Last(e) => ~(n > Last(e))
      <4>1. Last(e) \in Nat /\ \A n \in Num : n \in Nat
        BY <1>0, Zenon
      <4> QED BY <4>1
    <3> QED BY <3>1, Zenon
  <2>3. \A n \in Num : g[n] <= c
    <3>1. \A n \in Num : n <= LastNum
      BY SenderAssumption DEF Num
    <3> QED BY <1>0, <1>2, <3>1
  <2> HIDE DEF f
  <2> QED BY <2>1, <2>2, <2>3
<1>6. \A n \in Num : g[n] <= h[n]
  <2> SUFFICES ASSUME NEW n \in Num PROVE g[n] <= h[n]
    OBVIOUS
  <2>1. CASE n <= Last(e)
    BY <1>2, <1>5, <2>1
  <2>2. CASE n > Last(e)
    <3>1. h[n] = c + 1 /\ g[n] <= c /\ g[n] \in Nat
      BY <1>2, <1>5, <2>2
    <3> QED BY <1>2, <3>1
  <2> QED BY <1>0, <2>1, <2>2
<1>7. \A m, n \in Num : m <= n => h[m] <= h[n]
  <2> SUFFICES ASSUME NEW m \in Num, NEW n \in Num, m <= n PROVE h[m] <= h[n]
    OBVIOUS
  <2>0. g[m] \in Nat /\ g[n] \in Nat /\ g[m] <= g[n] /\ g[m] <= c /\ m \in Nat /\ n \in Nat /\ Last(e) \in Nat
    BY <1>0, <1>2, <1>5, Zenon
  <2>1. CASE n <= Last(e)
    <3>1. m <= Last(e)
      BY <2>0, <2>1
    <3> QED BY <1>5, <2>0, <2>1, <3>1
  <2>2. CASE n > Last(e)
    <3>1. h[n] = c + 1 /\ h[m] \in {g[m], c + 1}
      BY <1>5, <2>0, <2>2
    <3> QED BY <1>2, <2>0, <3>1
  <2> QED BY <2>0, <2>1, <2>2
<1>8. Made(e, h)'
  <2>1. \A i \in 1..Len(sent_states[e]) :
           sent_states[e][i].state = Events(h[sent_states[e][i].num])
    BY <1>0, <1>5, Zenon DEF Track, Made
  <2> QED BY <1>1, <1>2, <1>3, <1>4, <1>5, <1>7, <2>1 DEF Made
<1>9. Held(e, h)'
  <2>1. \A n \in DOMAIN received_states[Peer(e)] :
           n <= Last(e) /\ received_states[Peer(e)][n] = Events(h[n])
    BY <1>0, <1>5, Zenon DEF Track, Held
  <2> QED BY <1>1, <1>4, <2>1 DEF Held
<1>10. OnWay(e, h)'
  <2>1. \A inst \in sent[e] :
           /\ inst.old <= Last(e) /\ inst.new <= Last(e)
           /\ h[inst.old] = g[inst.old] /\ h[inst.new] = g[inst.new]
    BY <1>0, <1>5, Zenon DEF Track, OnWay
  <2>2. \A inst \in sent[e] :
           /\ inst.old <= Last(e) /\ inst.new <= Last(e)
           /\ h[inst.old] <= h[inst.new]
           /\ inst.diff = Later(h[inst.old], h[inst.new])
    BY <2>1 DEF Track, OnWay
  <2> QED BY <1>1, <1>4, <2>2 DEF OnWay
<1>11. Seen(e, h)'
  <2>1. PICK v \in Nat, n \in DOMAIN received_states[Peer(e)] :
           last_receiver_state[Peer(e)] = Events(v) /\ v <= g[n]
    BY DEF Track, Seen
  <2>2. v <= h[n]
    <3>1. g[n] \in Nat /\ h[n] \in Nat /\ g[n] <= h[n]
      BY <1>0, <1>2, <1>5, <1>6, Zenon
    <3> QED BY <2>1, <3>1
  <2> QED BY <1>1, <2>1, <2>2 DEF Seen
<1> QED BY <1>8, <1>9, <1>10, <1>11 DEF Track

\* send_empty_ack and send_to_receiver: the state sent is the current one.
LEMMA SendTrack ==
    ASSUME Inv, Inv', NEW e \in End, NEW g, Track(e, g),
           NEW a \in {1, Len(sent_states[e])}, NEW diff, NEW state,
           SendState(e, a, diff, state), UNCHANGED recvVars,
           state = current_state[e],
           diff = Later(g[sent_states[e][a].num], g[LastNum])
    PROVE  Track(e, g)'
<1> DEFINE s == sent_states[e]
           num == NewNum(e)
           c == g[LastNum]
           x == [num |-> num, state |-> state]
           t == AddSentState(s, x)
<1>0. /\ Num \subseteq Nat /\ LastNum \in Num /\ Last(e) \in Num
      /\ \A i \in 1..Len(s) : s[i].num \in Num /\ s[i].num <= Last(e)
      /\ \A inst \in sent[e] : inst.old \in Num /\ inst.new \in Num
      /\ DOMAIN received_states[Peer(e)] \subseteq Num
  BY NumFacts, EndPeer
<1>1. /\ num <= MaxNum[e] \/ shutdown_in_progress[e]
      /\ sent_states'[e] = t
      /\ \A i \in sent'[e] : \/ i \in sent[e]
                             \/ i.old = NumAt(s, a) /\ i.new = num /\ i.diff = diff
      /\ UNCHANGED <<current_state, shutdown_in_progress>>
      /\ UNCHANGED <<received_states, last_receiver_state>>
  <2>1. sent_states \in [End -> Seq(Entry)] /\ sent \in [End -> SUBSET Instr]
    BY DEF Inv, TypeInv
  <2>2. /\ num <= MaxNum[e] \/ shutdown_in_progress[e]
        /\ UNCHANGED <<current_state, shutdown_in_progress>>
        /\ sent_states' = [sent_states EXCEPT ![e] = AddSentState(@, x)]
    BY Zenon DEF SendState
  <2>3. sent_states'[e] = t
    BY <2>1, <2>2
  <2>4. PICK i : /\ i.old = NumAt(s, a) /\ i.new = num /\ i.diff = diff
                 /\ sent' = [sent EXCEPT ![e] = @ \cup {i}]
    BY Zenon DEF SendState
  <2>5. sent'[e] = sent[e] \cup {i}
    BY <2>1, <2>4
  <2>6. UNCHANGED <<received_states, last_receiver_state>>
    BY DEF recvVars
  <2> QED BY <2>2, <2>3, <2>4, <2>5, <2>6
<1>2. /\ num \in Num /\ Last(e) <= num
      /\ num = LastNum => shutdown_in_progress[e]
      /\ ~shutdown_in_progress[e] => Last(e) < num
      /\ shutdown_in_progress[e] => num = LastNum
  BY <1>1, NewNumFacts DEF Last, Num, NewNum
<1>3. /\ g \in [Num -> Nat] /\ c \in Nat
      /\ \A m, n \in Num : m <= n => g[m] <= g[n]
      /\ current_state[e] = Events(c)
      /\ \A n \in Num : n > Last(e) => g[n] = c
      /\ \A i \in 1..Len(s) : s[i].state = Events(g[s[i].num])
  BY <1>0, Zenon DEF Track, Made
<1>4. x \in Entry
  <2>1. Events(c) \in Seq(Nat)
    BY <1>3, EventsSeq
  <2> QED BY <1>2, <1>3, <2>1 DEF Entry, Num
<1>5. SentList(s)
  BY DEF Inv, Relied
<1>6. /\ t[Len(t)] = x
      /\ \A i \in 1..Len(t) : t[i] = x \/ \E j \in 1..Len(s) : t[i] = s[j]
  <2> HIDE DEF s, x
  <2> QED BY <1>4, <1>5, AddRange, Zenon
<1>7. x.num = num /\ x.state = Events(c)
  BY <1>3
<1> HIDE DEF x, t, num
<1>n. /\ num \in Nat /\ Last(e) \in Nat /\ Last(e) <= num
      /\ LastNum \in Nat /\ num <= LastNum
  <2>1. num \in Num /\ Last(e) \in Num /\ LastNum \in Num /\ Num \subseteq Nat
    BY <1>0, <1>2
  <2>2. Last(e) <= num
    BY <1>2
  <2> QED BY <2>1, <2>2 DEF Num
<1>8. Last(e)' = num
  BY <1>1, <1>6, <1>7 DEF Last
<1>9. g[num] = c
  <2>1. CASE shutdown_in_progress[e]
    BY <1>2, <2>1
  <2>2. CASE ~shutdown_in_progress[e]
    <3>1. num > Last(e)
      BY <1>0, <1>2, <2>2
    <3> QED BY <1>2, <1>3, <3>1
  <2> QED BY <2>1, <2>2
<1>10. NumAt(s, a) = s[a].num /\ a \in 1..Len(s)
  <2>0. a \in 1..Len(s) /\ Len(s) \in Nat
    BY <1>5, SenderAssumption DEF SentList
  <2>1. CASE Len(s) + 1 > SentMax
    <3>1. Position(Len(s) + 1) \in 2..(Len(s) - 1)
      BY <2>0, <2>1, PositionInside
    <3> QED BY <2>0, <3>1 DEF NumAt
  <2>2. CASE ~(Len(s) + 1 > SentMax)
    BY <2>0, <2>2 DEF NumAt
  <2> QED BY <2>1, <2>2
<1>11. Made(e, g)'
  <2>1. \A n \in Num : n > num => g[n] = c
    <3> SUFFICES ASSUME NEW n \in Num, n > num PROVE g[n] = c
      OBVIOUS
    <3>1. n > Last(e)
      <4>1. n \in Nat /\ num \in Nat /\ Last(e) \in Nat
        BY <1>0, <1>2, Zenon
      <4> QED BY <1>2, <4>1
    <3> QED BY <1>3, <3>1
  <2>2. ~shutdown_in_progress[e] => num < LastNum
    <3>1. ~shutdown_in_progress[e] => num # LastNum
      BY <1>2
    <3> QED BY <1>n, <3>1
  <2>3. \A i \in 1..Len(t) : t[i].state = Events(g[t[i].num])
    BY <1>3, <1>6, <1>7, <1>9
  <2> QED BY <1>1, <1>3, <1>8, <2>1, <2>2, <2>3 DEF Made
<1>12. Held(e, g)'
  <2> SUFFICES ASSUME NEW n \in DOMAIN received_states[Peer(e)]
               PROVE  n <= num /\ received_states[Peer(e)][n] = Events(g[n])
    BY <1>1, <1>8 DEF Held
  <2>1. n <= Last(e) /\ received_states[Peer(e)][n] = Events(g[n])
    BY DEF Track, Held
  <2>2. n \in Nat /\ num \in Nat /\ Last(e) \in Nat
    BY <1>0, <1>2, Zenon
  <2>3. n <= num
    BY <1>n, <2>1, <2>2, Chain
  <2> QED BY <2>1, <2>3
<1>13. OnWay(e, g)'
  <2> SUFFICES ASSUME NEW i \in sent'[e]
               PROVE  /\ i.old <= num /\ i.new <= num
                      /\ g[i.old] <= g[i.new]
                      /\ i.diff = Later(g[i.old], g[i.new])
    BY <1>8 DEF OnWay
  <2>1. CASE i \in sent[e]
    <3>1. /\ i.old <= Last(e) /\ i.new <= Last(e)
          /\ g[i.old] <= g[i.new]
          /\ i.diff = Later(g[i.old], g[i.new])
      BY <2>1 DEF Track, OnWay
    <3>2. i.old \in Nat /\ i.new \in Nat /\ num \in Nat /\ Last(e) \in Nat
      BY <1>0, <1>n, <2>1, Zenon
    <3>3. i.old <= num /\ i.new <= num
      <4>1. i.old <= Last(e) /\ i.new <= Last(e)
        BY <3>1
      <4> QED BY <1>n, <3>2, <4>1, Chain
    <3> QED BY <3>1, <3>3
  <2>2. CASE i.old = NumAt(s, a) /\ i.new = num /\ i.diff = diff
    <3>1. i.old = s[a].num /\ s[a].num \in Num /\ s[a].num <= Last(e)
      BY <1>0, <1>10, <2>2
    <3>2. s[a].num <= num
      <4>1. s[a].num \in Nat /\ Last(e) \in Nat /\ num \in Nat
        BY <1>0, <1>n, <3>1, Zenon
      <4> QED BY <1>n, <3>1, <4>1, Chain
    <3>3. g[s[a].num] <= g[num]
      BY <1>2, <1>3, <3>1, <3>2
    <3>4. num <= num
      BY <1>n
    <3> QED BY <1>9, <2>2, <3>1, <3>2, <3>3, <3>4
  <2> QED BY <1>1, <2>1, <2>2
<1>14. Seen(e, g)'
  BY <1>1 DEF Track, Seen
<1> QED BY <1>11, <1>12, <1>13, <1>14 DEF Track

\* A tick, as long as the window leaves room for a diff.
LEMMA TickTrack ==
    ASSUME Inv, Inv', MayClose = FALSE, NEW e \in End, NEW g, Track(e, g), TickStep(e)
    PROVE  Track(e, g)'
<1>1. PICK old \in 1..Len(sent_states[e]) :
          LET a == Assumed(sent_states[e], old)
              diff == DiffFrom(current_state[e], sent_states[e][a].state)
          IN  \/ diff = <<>> /\ EmptyAck(e, a)
              \/ SendToReceiver(e, a, diff)
  BY DEF TickStep, Tick
<1> DEFINE s == sent_states[e]
           a == Assumed(s, old)
           diff == DiffFrom(current_state[e], s[a].state)
           c == g[LastNum]
           k == g[s[a].num]
<1>2. a \in {1, Len(s)} /\ a \in 1..Len(s)
  <2>1. Len(s) \in Nat \ {0}
    <3>1. Len(s) \in 1..SentMax
      BY DEF Inv, Relied, SentList
    <3> HIDE DEF s
    <3> QED BY <3>1, SenderAssumption
  <2>2. a \in {1, Len(s)}
    BY <2>1, AssumedEnds
  <2> QED BY <2>1, <2>2
<1> HIDE DEF a
<1>3. s[a].num \in Num /\ s[a].num <= LastNum /\ LastNum \in Num
  BY <1>2, NumFacts, SenderAssumption DEF Num
<1>4. /\ c \in Nat /\ k \in Nat /\ k <= c
      /\ current_state[e] = Events(c) /\ s[a].state = Events(k)
  BY <1>2, <1>3 DEF Track, Made
<1>5. diff = Later(k, c)
  BY <1>4, EventsSeq, Zenon DEF DiffFrom, Later
<1>6. UNCHANGED recvVars
  BY DEF TickStep
<1> HIDE DEF diff
<1>7. CASE diff = <<>> /\ EmptyAck(e, a)
  BY <1>2, <1>5, <1>6, <1>7, SendTrack, Zenon DEF EmptyAck
<1>8. CASE SendToReceiver(e, a, diff)
  <2>1. s[a].state \o diff = current_state[e]
    BY <1>4, <1>5, EventsLater, Zenon
  <2> QED BY <1>2, <1>5, <1>6, <1>8, <2>1, SendTrack DEF SendToReceiver
<1> QED BY <1>1, <1>7, <1>8 DEF a, diff

\* The end that receives: acknowledged states leave its own list.
LEMMA AckTrack ==
    ASSUME Inv, NEW e \in End, NEW g, Track(e, g), NEW n \in Nat,
           sent_states'[e] = ProcessAck(sent_states[e], n),
           UNCHANGED <<current_state, shutdown_in_progress, sent, last_receiver_state>>,
           received_states'[Peer(e)] = received_states[Peer(e)]
    PROVE  Track(e, g)'
<1> DEFINE s == sent_states[e]
           t == ProcessAck(s, n)
<1>1. SentList(s)
  BY DEF Inv, Relied
<1>2. /\ t[Len(t)] = s[Len(s)]
      /\ \A i \in 1..Len(t) : \E j \in 1..Len(s) : t[i] = s[j]
  BY <1>1, AckRange
<1>3. sent_states'[e] = t
  OBVIOUS
<1> HIDE DEF t
<1>4. Last(e)' = Last(e)
  BY <1>2, <1>3 DEF Last
<1>5. \A i \in 1..Len(t) : t[i].state = Events(g[t[i].num])
  BY <1>2 DEF Track, Made
<1>6. Made(e, g)'
  BY <1>3, <1>4, <1>5 DEF Track, Made
<1>7. Held(e, g)' /\ OnWay(e, g)' /\ Seen(e, g)'
  BY <1>4 DEF Track, Held, OnWay, Seen
<1> QED BY <1>6, <1>7 DEF Track

LEMMA AcceptedRange ==
    ASSUME NEW r, NEW inst, NEW q,
           \/ Accepts(r, inst) /\ q = Accepted(r, inst)
           \/ q = ThrowawayUntil(r, inst.throw)
           \/ q = r
    PROVE  \A n \in DOMAIN q :
              \/ n \in DOMAIN r /\ q[n] = r[n]
              \/ n = inst.new /\ inst.old \in DOMAIN r /\ q[n] = r[inst.old] \o inst.diff
<1> SUFFICES ASSUME NEW n \in DOMAIN q
             PROVE  \/ n \in DOMAIN r /\ q[n] = r[n]
                    \/ /\ n = inst.new /\ inst.old \in DOMAIN r
                       /\ q[n] = r[inst.old] \o inst.diff
  BY Zenon
<1> DEFINE kept == ThrowawayUntil(r, inst.throw)
<1>1. DOMAIN kept \subseteq DOMAIN r /\ \A k \in DOMAIN kept : kept[k] = r[k]
  BY DEF ThrowawayUntil
<1> HIDE DEF kept
<1>2. CASE Accepts(r, inst) /\ q = Accepted(r, inst)
  <2>1. inst.old \in DOMAIN r
    BY <1>2 DEF Accepts
  <2>2. q = [k \in DOMAIN kept \cup {inst.new} |->
                IF k = inst.new THEN r[inst.old] \o inst.diff ELSE kept[k]]
    BY <1>2 DEF Accepted, kept
  <2>3. CASE n = inst.new
    BY <2>1, <2>2, <2>3, Zenon
  <2>4. CASE n # inst.new
    <3>1. n \in DOMAIN kept /\ q[n] = kept[n]
      BY <2>2, <2>4
    <3> QED BY <1>1, <3>1, Zenon
  <2> QED BY <2>3, <2>4, Zenon
<1>3. CASE q = kept
  BY <1>1, <1>3, Zenon
<1>4. CASE q = r
  BY <1>4, Zenon
<1> QED BY <1>2, <1>3, <1>4, Zenon DEF kept

\* The states received: a diff is applied to the state it was made from, and
\* what is thrown away is not ahead of what is kept.
LEMMA ReceivedTrack ==
    ASSUME Inv, Inv', NEW e \in End, NEW g, Track(e, g),
           NEW inst \in sent[e], Received(Peer(e), inst),
           sent_states'[e] = sent_states[e],
           UNCHANGED <<current_state, shutdown_in_progress, sent, last_receiver_state>>
    PROVE  Track(e, g)'
<1> DEFINE p == Peer(e)
           r == received_states[p]
           q == received_states'[p]
<1>0. /\ Num \subseteq Nat /\ LastNum \in Num /\ Last(e) \in Num
      /\ inst.old \in Num /\ inst.new \in Num
      /\ DOMAIN r \subseteq Num /\ p \in End
  BY NumFacts, EndPeer
<1>1. Last(e)' = Last(e)
  BY DEF Last
<1>2. /\ inst.old <= Last(e) /\ inst.new <= Last(e)
      /\ g[inst.old] <= g[inst.new]
      /\ inst.diff = Later(g[inst.old], g[inst.new])
      /\ \A n \in DOMAIN r : n <= Last(e) /\ r[n] = Events(g[n])
      /\ g \in [Num -> Nat]
      /\ \A m, n \in Num : m <= n => g[m] <= g[n]
  BY DEF Track, OnWay, Held, Made
<1>3. \A n \in DOMAIN q :
          \/ n \in DOMAIN r /\ q[n] = r[n]
          \/ n = inst.new /\ inst.old \in DOMAIN r /\ q[n] = r[inst.old] \o inst.diff
  <2>1. \/ Accepts(r, inst) /\ q = Accepted(r, inst)
        \/ q = ThrowawayUntil(r, inst.throw)
        \/ q = r
    BY <1>0 DEF Received, Inv, TypeInv
  <2> HIDE DEF q, r
  <2>2. \A u, v :
           \/ Accepts(u, inst) /\ v = Accepted(u, inst)
           \/ v = ThrowawayUntil(u, inst.throw)
           \/ v = u
           => \A n \in DOMAIN v :
                 \/ n \in DOMAIN u /\ v[n] = u[n]
                 \/ n = inst.new /\ inst.old \in DOMAIN u /\ v[n] = u[inst.old] \o inst.diff
    BY AcceptedRange, Zenon
  <2> QED BY <2>1, <2>2, Zenon
<1>4. ASSUME inst.old \in DOMAIN r
      PROVE  r[inst.old] \o inst.diff = Events(g[inst.new])
  <2>1. g[inst.old] \in Nat /\ g[inst.new] \in Nat
    BY <1>0, <1>2
  <2>2. r[inst.old] = Events(g[inst.old]) /\ inst.diff = Later(g[inst.old], g[inst.new])
    BY <1>2, <1>4
  <2>3. g[inst.old] <= g[inst.new]
    BY <1>2
  <2>4. Events(g[inst.old]) \o Later(g[inst.old], g[inst.new]) = Events(g[inst.new])
    BY <2>1, <2>3, EventsLater, Zenon
  <2> HIDE DEF r
  <2> QED BY <2>2, <2>4, Zenon
<1> HIDE DEF q
<1>5. \A n \in DOMAIN q : n <= Last(e) /\ q[n] = Events(g[n])
  BY <1>2, <1>3, <1>4, Zenon
<1>6. Held(e, g)'
  BY <1>1, <1>5 DEF Held, q
<1>7. Made(e, g)' /\ OnWay(e, g)'
  BY <1>1 DEF Track, Made, OnWay
<1>8. Seen(e, g)'
  <2>1. PICK v \in Nat, n \in DOMAIN r :
           last_receiver_state[p] = Events(v) /\ v <= g[n]
    BY Zenon DEF Track, Seen
  <2>2. inst \in Instr /\ inst.throw \in Nat
    <3>1. inst \in Instr
      BY DEF Inv, TypeInv
    <3>2. inst.throw \in 0..LastNum
      BY <3>1 DEF Instr
    <3> QED BY <3>1, <3>2, SenderAssumption
  <2>3. \A m \in DOMAIN r : m >= inst.throw => m \in DOMAIN q
    BY <1>0, <2>2, ReceivedFacts DEF q
  <2>4. CASE n >= inst.throw
    BY <2>1, <2>3, <2>4 DEF Seen, q
  <2>5. CASE n < inst.throw
    <3>1. Front(e) \in DOMAIN r /\ inst.throw <= Front(e)
      BY DEF Inv, Relied
    <3>2. Front(e) \in Nat /\ n \in Nat /\ Front(e) \in Num /\ n \in Num
      BY <1>0, <2>1, <3>1, Zenon
    <3>3. Front(e) \in DOMAIN q /\ n <= Front(e)
      <4>1. Front(e) >= inst.throw /\ n <= Front(e)
        BY <2>2, <2>5, <3>1, <3>2
      <4> QED BY <2>3, <3>1, <4>1
    <3>4. g[n] <= g[Front(e)] /\ g[n] \in Nat /\ g[Front(e)] \in Nat
      BY <1>2, <3>2, <3>3
    <3>5. v <= g[Front(e)]
      BY <2>1, <3>4
    <3> QED BY <2>1, <3>3, <3>5 DEF Seen, q
  <2>6. n \in Nat
    BY <1>0, <2>1, Zenon
  <2>7. n >= inst.throw \/ n < inst.throw
    BY <2>2, <2>6
  <2> QED BY <2>4, <2>5, <2>7
<1> QED BY <1>6, <1>7, <1>8 DEF Track

\* The user reads the latest state.
LEMMA ReadTrack ==
    ASSUME Inv, NEW e \in End, NEW g, Track(e, g), GetRemoteDiff(Peer(e)),
           DOMAIN last_receiver_state = End
    PROVE  /\ Track(e, g)'
           /\ \E v, w \in Nat :
                 /\ last_receiver_state[Peer(e)] = Events(v)
                 /\ last_receiver_state'[Peer(e)] = Events(w)
                 /\ v <= w /\ w <= g[LastNum]
<1> DEFINE p == Peer(e)
           r == received_states[p]
           n == Highest(r)
<1>0. /\ Num \subseteq Nat /\ LastNum \in Num /\ DOMAIN r \subseteq Num /\ p \in End
      /\ g \in [Num -> Nat] /\ \A m, k \in Num : m <= k => g[m] <= g[k]
  BY NumFacts, EndPeer DEF Track, Made
<1>1. PICK v \in Nat, m \in DOMAIN r :
         last_receiver_state[p] = Events(v) /\ v <= g[m]
  BY DEF Track, Seen
<1>2. n \in DOMAIN r /\ \A k \in DOMAIN r : k <= n
  BY <1>0, <1>1, HighestMember DEF Num
<1> HIDE DEF n
<1>3. n \in Num /\ m \in Num /\ m <= n /\ n <= LastNum
  <2>1. n \in Num /\ m \in Num /\ m <= n
    BY <1>0, <1>1, <1>2
  <2> QED BY <2>1, SenderAssumption DEF Num
<1>4. g[m] <= g[n] /\ g[n] <= g[LastNum] /\ g[m] \in Nat /\ g[n] \in Nat
  BY <1>0, <1>3
<1>5. v <= g[n]
  BY <1>1, <1>4
<1>6. UNCHANGED <<senderVars, received_states>>
  BY DEF GetRemoteDiff
<1>7. last_receiver_state'[p] = Events(g[n])
  <2>1. last_receiver_state'[p] = r[n]
    BY <1>0 DEF GetRemoteDiff, Latest, n
  <2> QED BY <1>2, <2>1 DEF Track, Held
<1>8. Last(e)' = Last(e)
  BY <1>6 DEF Last, senderVars
<1>9. Made(e, g)' /\ Held(e, g)' /\ OnWay(e, g)'
  BY <1>6, <1>8 DEF Track, Made, Held, OnWay, senderVars
<1>10. Seen(e, g)'
  <2>1. g[n] <= g[n]
    BY <1>4
  <2>2. n \in DOMAIN received_states'[p]
    BY <1>2, <1>6
  <2> QED BY <1>4, <1>7, <2>1, <2>2 DEF Seen
<1> QED BY <1>1, <1>4, <1>5, <1>7, <1>9, <1>10 DEF Track

-----------------------------------------------------------------------------
(* The theorems.                                                           *)

\* What a step is to one direction: an event, a read or nothing.
Happens(e) ==
    /\ Len(current_state'[e]) = Len(current_state[e]) + 1
    /\ SubSeq(current_state'[e], 1, Len(current_state[e])) = current_state[e]
    /\ last_receiver_state'[Peer(e)] = last_receiver_state[Peer(e)]

Sees(e) ==
    LET c == current_state[e]
        view == last_receiver_state[Peer(e)]
    IN  /\ last_receiver_state'[Peer(e)] \in
              {SubSeq(c, 1, n) : n \in Len(view)..Len(c)}
        /\ view = SubSeq(c, 1, Len(view))
        /\ current_state'[e] = c

Rests(e) ==
    /\ current_state'[e] = current_state[e]
    /\ last_receiver_state'[Peer(e)] = last_receiver_state[Peer(e)]

\* Every step keeps the invariant and is a step of StateSync in the direction
\* from e.
LEMMA StepSync ==
    ASSUME MayClose = FALSE, Inv, Inv', SyncInv, [Next]_vars, NEW e \in End
    PROVE  (\E g : Track(e, g)') /\ (Happens(e) \/ Sees(e) \/ Rests(e))
<1>1. PICK g : Track(e, g)
  BY DEF SyncInv
<1>2. Peer(e) \in End /\ Peer(Peer(e)) = e /\ Peer(e) # e
      /\ \A f \in End : f = e \/ f = Peer(e)
  BY EndPeer, TransportAssumption DEF Peer, Client, Server
<1>3. /\ current_state \in [End -> Seq(Nat)] /\ sent_states \in [End -> Seq(Entry)]
      /\ shutdown_in_progress \in [End -> BOOLEAN]
      /\ sent \in [End -> SUBSET Instr] /\ received_states \in [End -> States]
      /\ DOMAIN last_receiver_state = End
  BY DEF Inv, TypeInv, SyncInv
<1>4. CASE UNCHANGED vars
  <2>1. Rests(e)
    BY <1>4 DEF Rests, vars, senderVars, recvVars
  <2> QED BY <1>1, <1>4, <2>1, KeepTrack DEF vars, senderVars, recvVars
<1>5. ASSUME NEW f \in End, Change(f), UNCHANGED recvVars
      PROVE  (\E h : Track(e, h)') /\ (Happens(e) \/ Rests(e))
  <2>1. CASE f = e
    <3>1. \E h : Track(e, h)'
      BY <1>1, <1>5, <2>1, ChangeTrack
    <3> DEFINE c == current_state[e]
    <3>2. c \in Seq(Nat) /\ current_state'[e] = Append(c, Len(c) + 1)
      BY <1>3, <1>5, <2>1 DEF Change
    <3> HIDE DEF c
    <3>3. Len(Append(c, Len(c) + 1)) = Len(c) + 1 /\ SubSeq(Append(c, Len(c) + 1), 1, Len(c)) = c
      BY <3>2
    <3>4. Happens(e)
      BY <1>5, <3>2, <3>3 DEF Happens, recvVars, c
    <3> QED BY <3>1, <3>4
  <2>2. CASE f # e
    <3>1. current_state'[e] = current_state[e] /\ sent_states' = sent_states
          /\ shutdown_in_progress' = shutdown_in_progress /\ sent' = sent
      BY <1>3, <1>5, <2>2 DEF Change
    <3>2. Track(e, g)' /\ Rests(e)
      BY <1>1, <1>5, <3>1, KeepTrack DEF Rests, recvVars
    <3> QED BY <3>2
  <2> QED BY <2>1, <2>2
<1>6. ASSUME NEW f \in End, StartShutdown(f), UNCHANGED recvVars
      PROVE  Track(e, g)' /\ Rests(e)
  <2>1. UNCHANGED <<current_state, sent_states, sent, received_states, last_receiver_state>>
    BY <1>6 DEF StartShutdown, recvVars
  <2>2. ~shutdown_in_progress'[e] => ~shutdown_in_progress[e]
    BY <1>3, <1>6 DEF StartShutdown
  <2>3. Last(e)' = Last(e)
    BY <2>1 DEF Last
  <2>4. Made(e, g)'
    BY <1>1, <2>1, <2>2, <2>3 DEF Track, Made
  <2>5. Held(e, g)' /\ OnWay(e, g)' /\ Seen(e, g)'
    BY <1>1, <2>1, <2>3 DEF Track, Held, OnWay, Seen
  <2> QED BY <2>1, <2>4, <2>5 DEF Track, Rests
<1>7. ASSUME NEW f \in End, TickStep(f)
      PROVE  Track(e, g)' /\ Rests(e)
  <2>1. UNCHANGED <<current_state, shutdown_in_progress, received_states, last_receiver_state>>
    BY <1>7, Zenon DEF TickStep, Tick, EmptyAck, SendToReceiver, SendState, recvVars
  <2>2. Track(e, g)'
    <3>1. CASE f = e
      BY <1>1, <1>7, <3>1, TickTrack, Zenon
    <3>2. CASE f # e
      <4>1. sent_states'[e] = sent_states[e] /\ sent'[e] = sent[e]
        BY <1>3, <1>7, <3>2, Zenon DEF TickStep, Tick, EmptyAck, SendToReceiver, SendState
      <4> QED BY <1>1, <2>1, <4>1, KeepTrack
    <3> QED BY <3>1, <3>2
  <2> QED BY <2>1, <2>2 DEF Rests
<1>8. ASSUME NEW f \in End, Recv(f)
      PROVE  Track(e, g)' /\ Rests(e)
  <2>1. PICK inst \in sent[Peer(f)] :
            /\ \/ /\ sent_states' = [sent_states EXCEPT ![f] = ProcessAck(@, inst.ack)]
                  /\ Received(f, inst)
               \/ UNCHANGED <<sent_states, received_states>>
            /\ UNCHANGED <<current_state, shutdown_in_progress, sent, last_receiver_state>>
    BY <1>8 DEF Recv
  <2>2. inst \in Instr /\ inst.ack \in Nat
    <3>1. inst \in Instr
      BY <1>3, EndPeer
    <3>2. inst.ack \in 0..LastNum
      BY <3>1 DEF Instr
    <3> QED BY <3>1, <3>2, SenderAssumption
  <2>3. CASE UNCHANGED <<sent_states, received_states>>
    BY <1>1, <2>1, <2>3, KeepTrack DEF Rests
  <2>4. CASE /\ sent_states' = [sent_states EXCEPT ![f] = ProcessAck(@, inst.ack)]
             /\ Received(f, inst)
    <3>1. CASE f = e
      <4>1. sent_states'[e] = ProcessAck(sent_states[e], inst.ack)
        BY <1>3, <2>4, <3>1
      <4>2. received_states'[Peer(e)] = received_states[Peer(e)]
        BY <1>2, <2>2, <2>4, <3>1, ReceivedFacts
      <4>3. Track(e, g)'
        BY <1>1, <2>1, <2>2, <4>1, <4>2, AckTrack
      <4> QED BY <2>1, <4>3 DEF Rests
    <3>2. CASE f = Peer(e)
      <4>1. sent_states'[e] = sent_states[e]
        BY <1>2, <1>3, <2>4, <3>2
      <4>2. inst \in sent[e] /\ Received(Peer(e), inst)
        BY <1>2, <2>4, <3>2
      <4>3. Track(e, g)'
        BY <1>1, <2>1, <4>1, <4>2, ReceivedTrack
      <4> QED BY <2>1, <4>3 DEF Rests
    <3> QED BY <1>2, <3>1, <3>2
  <2> QED BY <2>1, <2>3, <2>4, Zenon
<1>9. ASSUME NEW f \in End, GetRemoteDiff(f)
      PROVE  Track(e, g)' /\ (Sees(e) \/ Rests(e))
  <2>1. CASE f = e
    <3>1. UNCHANGED <<senderVars, received_states>>
          /\ last_receiver_state'[Peer(e)] = last_receiver_state[Peer(e)]
      BY <1>2, <1>3, <1>9, <2>1 DEF GetRemoteDiff
    <3> QED BY <1>1, <3>1, KeepTrack DEF Rests, senderVars
  <2>2. CASE f = Peer(e)
    <3>1. Track(e, g)'
      BY <1>1, <1>3, <1>9, <2>2, ReadTrack
    <3>2. PICK v \in Nat, w \in Nat :
             /\ last_receiver_state[Peer(e)] = Events(v)
             /\ last_receiver_state'[Peer(e)] = Events(w)
             /\ v <= w /\ w <= g[LastNum]
      BY <1>1, <1>3, <1>9, <2>2, ReadTrack, Zenon
    <3> DEFINE c == g[LastNum]
    <3>3. c \in Nat /\ current_state[e] = Events(c) /\ current_state'[e] = current_state[e]
      <4>1. LastNum \in Num
        BY NumFacts
      <4> QED BY <1>1, <1>9, <4>1 DEF Track, Made, GetRemoteDiff, senderVars
    <3> HIDE DEF c
    <3>4. v <= c /\ w <= c /\ w \in v..c
      BY <3>2, <3>3 DEF c
    <3>5. SubSeq(Events(c), 1, v) = Events(v) /\ SubSeq(Events(c), 1, w) = Events(w)
      BY <3>3, <3>4, EventsPrefix
    <3>6. Len(Events(v)) = v /\ Len(Events(c)) = c
      BY <3>3, EventsSeq
    <3>7. Sees(e)
      BY <3>2, <3>3, <3>4, <3>5, <3>6 DEF Sees
    <3> QED BY <3>1, <3>7
  <2> QED BY <1>2, <2>1, <2>2
<1> QED BY <1>1, <1>4, <1>5, <1>6, <1>7, <1>8, <1>9 DEF Next, UserStep

LEMMA NextSync ==
    MayClose = FALSE => (Inv /\ Inv' /\ SyncInv /\ [Next]_vars => SyncInv')
<1> SUFFICES ASSUME MayClose = FALSE, Inv, Inv', SyncInv, [Next]_vars PROVE SyncInv'
  BY Zenon
<1>1. DOMAIN last_receiver_state' = End
  BY Zenon DEF SyncInv, Next, vars, recvVars, UserStep, TickStep, Recv, GetRemoteDiff
<1>2. \A e \in End : \E g : Track(e, g)'
  BY StepSync, Zenon
<1> QED BY <1>1, <1>2 DEF SyncInv

\* Both invariants hold in every reachable state.
THEOREM SyncInvHolds == MayClose = FALSE => (Spec => [](Inv /\ SyncInv))
<1> SUFFICES ASSUME MayClose = FALSE PROVE Spec => [](Inv /\ SyncInv)
  BY Zenon
<1>1. Init => SyncInv
  BY InitSync
<1>2. Inv /\ Inv' /\ SyncInv /\ [Next]_vars => SyncInv'
  BY NextSync
<1> QED BY <1>1, <1>2, InvHolds, PTL DEF Spec

\* Sender and receiver mean the same state by the same number
\* (transportsender.cc:285, networktransport.cc:130), for every limit on the
\* lists, every number of events and every loss, delay, repetition and
\* reordering of fragments.
THEOREM StatesAgree == MayClose = FALSE => (Spec => []SameState)
<1> SUFFICES ASSUME MayClose = FALSE PROVE Spec => []SameState
  BY Zenon
<1>1. Inv /\ SyncInv => SameState
  <2> SUFFICES ASSUME Inv, SyncInv, NEW e \in End, NEW i \in 1..Len(sent_states[e]),
                      sent_states[e][i].num \in DOMAIN received_states[Peer(e)]
               PROVE  received_states[Peer(e)][sent_states[e][i].num] = sent_states[e][i].state
    BY DEF SameState
  <2>1. PICK g : Track(e, g)
    BY DEF SyncInv
  <2> QED BY <2>1 DEF Track, Made, Held
<1> QED BY <1>1, SyncInvHolds, PTL

\* The protocol implements StateSync in both directions: what a user sees of
\* the other end is a state that end had, and never an older one than before.
THEOREM TransportSynchronizes == MayClose = FALSE => (Spec => Synchronized)
<1> SUFFICES ASSUME MayClose = FALSE PROVE Spec => Synchronized
  BY Zenon
<1>0. Client \in End /\ Server \in End /\ Peer(Client) = Server /\ Peer(Server) = Client
  BY TransportAssumption DEF Client, Server, Peer
<1>1. Init => UserInput!Init /\ HostOutput!Init
  BY <1>0 DEF Init, SenderInit, UserInput!Init, HostOutput!Init
<1>2. Inv /\ Inv' /\ SyncInv /\ [Next]_vars => [UserInput!Next]_(UserInput!vars)
  <2> SUFFICES ASSUME Inv, Inv', SyncInv, [Next]_vars
               PROVE  [UserInput!Next]_(UserInput!vars)
    OBVIOUS
  <2>1. Happens(Client) \/ Sees(Client) \/ Rests(Client)
    BY <1>0, StepSync, Zenon
  <2> QED BY <1>0, <2>1 DEF Happens, Sees, Rests, UserInput!Next, UserInput!vars,
             UserInput!Happen, UserInput!See, UserInput!Between
<1>3. Inv /\ Inv' /\ SyncInv /\ [Next]_vars => [HostOutput!Next]_(HostOutput!vars)
  <2> SUFFICES ASSUME Inv, Inv', SyncInv, [Next]_vars
               PROVE  [HostOutput!Next]_(HostOutput!vars)
    OBVIOUS
  <2>1. Happens(Server) \/ Sees(Server) \/ Rests(Server)
    BY <1>0, StepSync, Zenon
  <2> QED BY <1>0, <2>1 DEF Happens, Sees, Rests, HostOutput!Next, HostOutput!vars,
             HostOutput!Happen, HostOutput!See, HostOutput!Between
<1> QED BY <1>1, <1>2, <1>3, SyncInvHolds, PTL
        DEF Spec, Synchronized, UserInput!Spec, HostOutput!Spec
=============================================================================
