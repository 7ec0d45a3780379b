----------------------------- MODULE SspProofs -----------------------------
(***************************************************************************)
(* The list of sent states, the received states and the numbers on their   *)
(* way between them: proofs for every limit and every number of events,    *)
(* whether or not Sprout's window closes.                                  *)
(***************************************************************************)
EXTENDS Transport, FiniteSetTheorems, WellFoundedInduction, NaturalsInduction, TLAPS

-----------------------------------------------------------------------------
(* Least and greatest numbers.                                             *)

LEMMA LeastMember ==
    ASSUME NEW T, T \subseteq Nat, T # {}
    PROVE  \E m \in T : \A k \in T : m <= k
<1> DEFINE R == {ss \in Nat \X Nat : ss[1] < ss[2]}
<1>1. IsWellFoundedOn(R, Nat)
  BY NatLessThanWellFounded DEF OpToRel
<1> HIDE DEF R
<1>2. PICK m \in T : \A k \in T : ~ (<<k, m>> \in R)
  BY <1>1, WFMin, Zenon
<1>3. \A k \in T : ~ (k < m)
  BY <1>2, Zenon DEF R
<1> QED BY <1>3

-----------------------------------------------------------------------------
(* The list of sent states.                                                *)

Entry == [num: 0..LastNum, state: Seq(Nat)]

\* A list of sent states: not empty, and numbers never decrease along it.
SentList(s) ==
    /\ s \in Seq(Entry)
    /\ Len(s) \in 1..SentMax
    /\ \A i, j \in 1..Len(s) : i <= j => s[i].num <= s[j].num

\* The assumed receiver state is the known one or the last one sent: states
\* sent recently are at the end of the list.
LEMMA AssumedEnds ==
    ASSUME NEW s, Len(s) \in Nat \ {0}, NEW old \in 1..Len(s)
    PROVE  Assumed(s, old) \in {1, Len(s)}
<1> DEFINE P(i) == /\ \A j \in 2..i : j > old
                   /\ i < Len(s) => i + 1 <= old
           first == IF old = 1 THEN Len(s) ELSE 1
<1>1. first \in 1..Len(s) /\ P(first)
  OBVIOUS
<1>2. Assumed(s, old) \in 1..Len(s) /\ P(Assumed(s, old))
  <2>1. \E i \in 1..Len(s) : P(i)
    BY <1>1
  <2> QED BY <2>1, Zenon DEF Assumed
<1>3. ASSUME NEW i \in 1..Len(s), P(i)
      PROVE  i \in {1, Len(s)}
  BY <1>3
<1> QED BY <1>2, <1>3

\* The state erased beyond the limit is neither the first nor one of the last
\* two.
LEMMA PositionInside ==
    ASSUME NEW n \in Nat, n + 1 > SentMax
    PROVE  Position(n + 1) \in 2..(n - 1)
BY SenderAssumption DEF Position

\* add_sent_state keeps the first state, the order and the limit, and the new
\* state is the last.
LEMMA AddKeeps ==
    ASSUME NEW s, SentList(s), NEW x \in Entry, s[Len(s)].num <= x.num
    PROVE  /\ SentList(AddSentState(s, x))
           /\ AddSentState(s, x)[1] = s[1]
           /\ Back(AddSentState(s, x)) = x
<1> DEFINE t == Append(s, x)
<1>1. /\ t \in Seq(Entry) /\ Len(t) = Len(s) + 1 /\ Len(s) \in 1..SentMax
      /\ \A i \in 1..Len(s) : t[i] = s[i]
      /\ t[Len(s) + 1] = x
  BY DEF SentList
<1>2. \A i, j \in 1..Len(t) : i <= j => t[i].num <= t[j].num
  <2> SUFFICES ASSUME NEW i \in 1..Len(t), NEW j \in 1..Len(t), i <= j
               PROVE  t[i].num <= t[j].num
    OBVIOUS
  <2>0. \A k \in 1..Len(t) : t[k].num \in Nat
    <3>1. \A k \in 1..Len(t) : t[k] \in Entry
      BY <1>1
    <3> QED BY <3>1, SenderAssumption DEF Entry
  <2>1. CASE j <= Len(s)
    BY <1>1, <2>1 DEF SentList
  <2>2. CASE i <= Len(s) /\ j = Len(s) + 1
    <3>1. s[i].num <= s[Len(s)].num
      BY <1>1, <2>2 DEF SentList
    <3> QED BY <1>1, <2>0, <2>2, <3>1
  <2>3. CASE i = Len(s) + 1 /\ j = Len(s) + 1
    BY <2>0, <2>3
  <2> QED BY <1>1, <2>1, <2>2, <2>3
<1> HIDE DEF t
<1>3. CASE Len(t) > SentMax
  <2> DEFINE p == Position(Len(t))
             u == Erase(t, p)
  <2>1. p \in 2..(Len(s) - 1)
    BY <1>1, <1>3, PositionInside
  <2>2. AddSentState(s, x) = u
    BY <1>3 DEF AddSentState, t
  <2> HIDE DEF p
  <2>3. /\ u \in Seq(Entry) /\ Len(u) = Len(s)
        /\ \A i \in 1..Len(s) : u[i] = IF i < p THEN t[i] ELSE t[i + 1]
    BY <1>1, <2>1 DEF Erase
  <2> HIDE DEF u
  <2>4. \A i, j \in 1..Len(u) : i <= j => u[i].num <= u[j].num
    <3> DEFINE at(i) == IF i < p THEN i ELSE i + 1
    <3>1. \A i \in 1..Len(s) : at(i) \in 1..Len(t) /\ u[i] = t[at(i)]
      BY <1>1, <2>1, <2>3
    <3>2. \A i, j \in 1..Len(s) : i <= j => at(i) <= at(j)
      BY <2>1
    <3> HIDE DEF at
    <3> QED BY <1>2, <2>3, <3>1, <3>2
  <2>5. u[1] = s[1] /\ u[Len(u)] = x
    BY <1>1, <2>1, <2>3
  <2> QED BY <1>1, <2>2, <2>3, <2>4, <2>5 DEF SentList, Back
<1>4. CASE ~(Len(t) > SentMax)
  <2>1. AddSentState(s, x) = t
    BY <1>4 DEF AddSentState, t
  <2> QED BY <1>1, <1>2, <1>4, <2>1, SenderAssumption DEF SentList, Back
<1> QED BY <1>3, <1>4

\* An acknowledgement leaves a list whose first state is the one before, or the
\* one acknowledged, which was not below it.
LEMMA AckKeeps ==
    ASSUME NEW s, SentList(s), NEW n \in Nat
    PROVE  /\ SentList(ProcessAck(s, n))
           /\ \/ ProcessAck(s, n) = s
              \/ ProcessAck(s, n)[1].num = n /\ s[1].num <= n
<1>1. CASE \E i \in 1..Len(s) : s[i].num = n
  <2> DEFINE P(i) == s[i].num >= n /\ \A j \in 1..(i - 1) : s[j].num < n
             f == FirstNotBelow(s, n)
  <2>0. \A i \in 1..Len(s) : s[i].num \in Nat
    <3>1. \A i \in 1..Len(s) : s[i] \in Entry
      BY DEF SentList
    <3> QED BY <3>1, SenderAssumption DEF Entry
  <2>1. \E i \in 1..Len(s) : P(i)
    <3> DEFINE Q == {i \in 1..Len(s) : s[i].num >= n}
    <3>1. PICK k \in 1..Len(s) : s[k].num = n
      BY <1>1
    <3>2. k \in Q /\ Q \subseteq Nat
      BY <3>1, <2>0 DEF SentList
    <3>3. PICK m \in Q : \A q \in Q : m <= q
      BY <3>2, LeastMember, Zenon
    <3>4. m \in 1..Len(s) /\ s[m].num >= n
      OBVIOUS
    <3>5. \A q \in 1..Len(s) : s[q].num >= n => m <= q
      BY <3>3
    <3> HIDE DEF Q
    <3>6. ASSUME NEW j \in 1..(m - 1) PROVE s[j].num < n
      <4>1. j \in 1..Len(s) /\ ~ (m <= j)
        BY <3>4
      <4>2. s[j].num \in Nat /\ ~ (s[j].num >= n)
        BY <2>0, <3>5, <4>1
      <4> QED BY <4>2
    <3> QED BY <3>4, <3>6
  <2>2. f \in 1..Len(s) /\ P(f)
    BY <2>1, Zenon DEF FirstNotBelow
  <2> HIDE DEF f
  <2>3. ProcessAck(s, n) = SubSeq(s, f, Len(s))
    BY <1>1, Zenon DEF ProcessAck, f
  <2>4. s[f].num = n
    <3>1. PICK k \in 1..Len(s) : s[k].num = n
      BY <1>1
    <3>2. f <= k
      BY <2>2, <3>1, <2>0
    <3>3. s[f].num <= s[k].num
      BY <2>2, <3>2 DEF SentList
    <3> QED BY <3>1, <3>3, <2>2, <2>0
  <2> DEFINE u == SubSeq(s, f, Len(s))
  <2>5. /\ u \in Seq(Entry) /\ Len(u) = Len(s) - f + 1
        /\ \A i \in 1..Len(u) : u[i] = s[f + i - 1]
    BY <2>2 DEF SentList
  <2> HIDE DEF u
  <2>6. \A i, j \in 1..Len(u) : i <= j => u[i].num <= u[j].num
    <3> SUFFICES ASSUME NEW i \in 1..Len(u), NEW j \in 1..Len(u), i <= j
                 PROVE  u[i].num <= u[j].num
      OBVIOUS
    <3>1. f + i - 1 \in 1..Len(s) /\ f + j - 1 \in 1..Len(s) /\ f + i - 1 <= f + j - 1
      BY <2>2, <2>5 DEF SentList
    <3>2. s[f + i - 1].num <= s[f + j - 1].num
      BY <3>1 DEF SentList
    <3> QED BY <2>5, <3>2
  <2>7. Len(u) \in 1..SentMax /\ u[1].num = n
    <3>1. Len(s) \in 1..SentMax /\ SentMax \in Nat
      BY SenderAssumption DEF SentList
    <3>2. Len(u) \in 1..SentMax /\ 1 \in 1..Len(u) /\ f + 1 - 1 = f
      BY <2>2, <2>5, <3>1
    <3> QED BY <2>4, <2>5, <3>2
  <2>8. s[1].num <= n
    BY <2>2, <2>4 DEF SentList
  <2> QED BY <2>3, <2>5, <2>6, <2>7, <2>8, Zenon DEF SentList, u
<1>2. CASE ~ \E i \in 1..Len(s) : s[i].num = n
  BY <1>2 DEF ProcessAck
<1> QED BY <1>1, <1>2

-----------------------------------------------------------------------------
(* The inductive invariant.                                                *)

Instr == [id: Nat, old: 0..LastNum, new: 0..LastNum, ack: 0..LastNum,
          throw: 0..LastNum, diff: Seq(Nat)]

States == UNION {[D -> Seq(Nat)] : D \in SUBSET (0..LastNum)}

TypeInv ==
    /\ current_state \in [End -> Seq(Nat)]
    /\ sent_states \in [End -> Seq(Entry)]
    /\ ack_num \in [End -> 0..LastNum]
    /\ shutdown_in_progress \in [End -> BOOLEAN]
    /\ shutdown_tries \in [End -> 0..Retries]
    /\ sent \in [End -> SUBSET Instr]
    /\ \A e \in End : IsFiniteSet(sent[e])
    /\ received_states \in [End -> States]

\* The numbers by which the end p acknowledges or has acknowledged.
Acks(p) == {ack_num[p]} \cup {inst.ack : inst \in sent[p]}

Front(e) == sent_states[e][1].num

\* What the sender of e may rely on: its first state is held by the receiver;
\* no instruction throws away that state, nor its own reference; and whatever
\* number the receiver acknowledges it still holds, unless it is superseded.
Relied(e) ==
    /\ SentList(sent_states[e])
    /\ Front(e) \in DOMAIN received_states[Peer(e)]
    /\ \A inst \in sent[e] : inst.throw <= Front(e) /\ inst.throw <= inst.old
    /\ \A n \in Acks(Peer(e)) : n \in DOMAIN received_states[Peer(e)] \/ n < Front(e)

Bounded(e) == Cardinality(DOMAIN received_states[e]) <= RecvMax + 1

Inv == TypeInv /\ \A e \in End : Relied(e) /\ Bounded(e)

LEMMA EndPeer ==
    \A e \in End : Peer(e) \in End /\ Peer(Peer(e)) = e /\ Peer(e) # e
BY TransportAssumption DEF Peer, Client, Server

LEMMA InitInv == Init => Inv
<1> SUFFICES ASSUME Init PROVE Inv
  OBVIOUS
<1> USE SenderAssumption, TransportAssumption DEF Init, SenderInit
<1>1. <<[num |-> 0, state |-> <<>>]>> \in Seq(Entry)
  BY DEF Entry
<1>2. [n \in {0} |-> <<>>] \in States
  <2>1. [n \in {0} |-> <<>>] \in [{0} -> Seq(Nat)] /\ {0} \in SUBSET (0..LastNum)
    OBVIOUS
  <2> QED BY <2>1, Zenon DEF States
<1>3. TypeInv
  <2>1. IsFiniteSet({})
    BY FS_EmptySet
  <2> QED BY <1>1, <1>2, <2>1 DEF TypeInv
<1>4. ASSUME NEW e \in End PROVE Relied(e)
  <2>1. SentList(sent_states[e])
    BY <1>1 DEF SentList
  <2>2. DOMAIN received_states[Peer(e)] = {0}
    BY EndPeer
  <2>3. Front(e) = 0 /\ Acks(Peer(e)) = {0}
    BY EndPeer DEF Front, Acks
  <2> QED BY <2>1, <2>2, <2>3 DEF Relied
<1>5. ASSUME NEW e \in End PROVE Bounded(e)
  <2>1. DOMAIN received_states[e] = {0} /\ Cardinality({0}) = 1
    BY FS_Singleton, Zenon
  <2> QED BY <2>1 DEF Bounded
<1> QED BY <1>3, <1>4, <1>5 DEF Inv

\* A step that leaves alone what the invariant speaks of.
LEMMA KeepInv ==
    ASSUME Inv, TypeInv',
           UNCHANGED <<sent_states, ack_num, sent, received_states>>
    PROVE  Inv'
BY DEF Inv, Relied, Bounded, Front, Acks

\* The steps of the user.
LEMMA UserInv ==
    ASSUME Inv, NEW e \in End, UserStep(e) \/ GetRemoteDiff(e)
    PROVE  Inv'
<1>1. CASE Change(e) /\ UNCHANGED recvVars
  <2>1. current_state' \in [End -> Seq(Nat)]
    BY <1>1 DEF Change, Inv, TypeInv
  <2>2. TypeInv'
    BY <1>1, <2>1 DEF Change, Inv, TypeInv, recvVars
  <2> QED BY <1>1, <2>2, KeepInv DEF Change, recvVars
<1>2. CASE StartShutdown(e) /\ UNCHANGED recvVars
  <2>1. TypeInv'
    BY <1>2 DEF StartShutdown, Inv, TypeInv, recvVars
  <2> QED BY <1>2, <2>1, KeepInv DEF StartShutdown, recvVars
<1>3. CASE GetRemoteDiff(e)
  <2>1. TypeInv'
    BY <1>3 DEF GetRemoteDiff, Inv, TypeInv, senderVars
  <2> QED BY <1>3, <2>1, KeepInv DEF GetRemoteDiff, senderVars
<1> QED BY <1>1, <1>2, <1>3 DEF UserStep

\* A new number is not below the last one, and is LastNum only in a shutdown.
LEMMA NewNumFacts ==
    ASSUME Inv, NEW e \in End,
           NewNum(e) <= MaxNum[e] \/ shutdown_in_progress[e]
    PROVE  /\ NewNum(e) \in 0..LastNum
           /\ sent_states[e][Len(sent_states[e])].num <= NewNum(e)
           /\ NewNum(e) = LastNum => shutdown_in_progress[e]
           /\ ~shutdown_in_progress[e] =>
                 sent_states[e][Len(sent_states[e])].num < NewNum(e)
<1> DEFINE last == sent_states[e][Len(sent_states[e])].num
<1>1. last \in 0..LastNum
  <2>1. sent_states[e][Len(sent_states[e])] \in Entry
    BY DEF Inv, Relied, SentList
  <2> QED BY <2>1 DEF Entry
<1>2. MaxNum[e] \in 0..(LastNum - 1) /\ LastNum \in Nat
  BY SenderAssumption
<1>3. shutdown_in_progress[e] \in BOOLEAN
  BY DEF Inv, TypeInv
<1>4. NewNum(e) = IF shutdown_in_progress[e] THEN LastNum ELSE last + 1
  BY DEF NewNum, Back
<1> HIDE DEF last
<1>5. CASE shutdown_in_progress[e]
  BY <1>1, <1>2, <1>4, <1>5 DEF last
<1>6. CASE ~shutdown_in_progress[e]
  <2>1. NewNum(e) = last + 1 /\ NewNum(e) <= MaxNum[e]
    BY <1>4, <1>6
  <2>2. NewNum(e) \in 0..LastNum /\ last < NewNum(e) /\ last <= NewNum(e) /\ NewNum(e) # LastNum
    BY <1>1, <1>2, <2>1
  <2> QED BY <2>2, <1>6 DEF last
<1> QED BY <1>3, <1>5, <1>6

\* send_empty_ack and send_to_receiver keep the invariant, made from the known
\* state or from the last one sent.
LEMMA SendInv ==
    ASSUME Inv, NEW e \in End, NEW a \in {1, Len(sent_states[e])},
           NEW diff \in Seq(Nat), NEW state \in Seq(Nat),
           SendState(e, a, diff, state), UNCHANGED recvVars,
           ~(shutdown_in_progress[e] /\ ShutdownTimedOut(e))
    PROVE  Inv'
<1> DEFINE s == sent_states[e]
           num == NewNum(e)
           x == [num |-> num, state |-> state]
           inst == [id    |-> Cardinality(sent[e]) + 1,
                    old   |-> NumAt(s, a),
                    new   |-> num,
                    ack   |-> ack_num[e],
                    throw |-> sent_states'[e][1].num,
                    diff  |-> diff]
<1>1. /\ num <= MaxNum[e] \/ shutdown_in_progress[e]
      /\ sent_states' = [sent_states EXCEPT ![e] = AddSentState(s, x)]
      /\ sent' = [sent EXCEPT ![e] = sent[e] \cup {inst}]
      /\ shutdown_tries' = [shutdown_tries EXCEPT
            ![e] = IF num = LastNum THEN @ + 1 ELSE @]
      /\ UNCHANGED <<current_state, ack_num, shutdown_in_progress, received_states>>
  BY DEF SendState, recvVars
<1>2. /\ num \in 0..LastNum /\ s[Len(s)].num <= num
      /\ num = LastNum => shutdown_in_progress[e]
  BY <1>1, NewNumFacts
<1>3. x \in Entry
  BY <1>2 DEF Entry
<1>4. SentList(s) /\ sent_states \in [End -> Seq(Entry)]
  BY DEF Inv, Relied, TypeInv
<1>5. /\ SentList(AddSentState(s, x)) /\ AddSentState(s, x)[1] = s[1]
  BY <1>2, <1>3, <1>4, AddKeeps
<1>6. /\ sent_states'[e] = AddSentState(s, x)
      /\ \A f \in End : f # e => sent_states'[f] = sent_states[f]
  BY <1>1, <1>4
<1>7. NumAt(s, a) = s[a].num
  <2>1. CASE Len(s) + 1 > SentMax
    <3>1. Position(Len(s) + 1) \in 2..(Len(s) - 1)
      BY <1>4, <2>1, PositionInside DEF SentList
    <3> QED BY <1>4, <3>1 DEF NumAt, SentList
  <2>2. CASE ~(Len(s) + 1 > SentMax)
    BY <2>2 DEF NumAt
  <2> QED BY <2>1, <2>2
<1>8. a \in 1..Len(s) /\ s[1] \in Entry /\ s[a] \in Entry /\ s[1].num <= s[a].num
  <2>1. a \in 1..Len(s) /\ 1 \in 1..Len(s) /\ 1 <= a
    BY <1>4 DEF SentList
  <2> QED BY <1>4, <2>1 DEF SentList
<1>9. inst.throw = s[1].num /\ inst.old = s[a].num /\ inst.ack = ack_num[e]
  BY <1>5, <1>6, <1>7
<1>10. inst \in Instr
  <2>1. Cardinality(sent[e]) \in Nat
    BY FS_CardinalityType DEF Inv, TypeInv
  <2>2. s[1].num \in 0..LastNum /\ s[a].num \in 0..LastNum
    BY <1>8 DEF Entry
  <2>3. ack_num[e] \in 0..LastNum
    BY DEF Inv, TypeInv
  <2>4. sent_states'[e][1].num \in 0..LastNum /\ NumAt(s, a) \in 0..LastNum
    BY <1>5, <1>6, <1>7, <2>2
  <2>5. Cardinality(sent[e]) + 1 \in Nat /\ num \in 0..LastNum
    BY <1>2, <2>1
  <2> HIDE DEF num, s
  <2> QED BY <2>3, <2>4, <2>5 DEF Instr
<1> HIDE DEF inst, x, num
<1>11. TypeInv'
  <2>1. sent_states' \in [End -> Seq(Entry)]
    BY <1>1, <1>4, <1>5 DEF SentList
  <2>2. sent' \in [End -> SUBSET Instr]
    BY <1>1, <1>10 DEF Inv, TypeInv
  <2>3. \A f \in End : IsFiniteSet(sent'[f])
    <3>1. IsFiniteSet(sent[e] \cup {inst})
      BY FS_AddElement, Zenon DEF Inv, TypeInv
    <3> QED BY <1>1, <3>1 DEF Inv, TypeInv
  <2>4. shutdown_tries' \in [End -> 0..Retries]
    <3>1. num = LastNum => shutdown_tries[e] < Retries
      <4>1. shutdown_tries[e] \in 0..Retries
        BY DEF Inv, TypeInv
      <4> QED BY <1>2, <4>1, SenderAssumption DEF ShutdownTimedOut
    <3>2. shutdown_tries[e] \in 0..Retries /\ shutdown_tries \in [End -> 0..Retries]
      BY DEF Inv, TypeInv
    <3> QED BY <1>1, <3>1, <3>2, SenderAssumption
  <2> QED BY <1>1, <2>1, <2>2, <2>3, <2>4, Zenon DEF Inv, TypeInv
<1>12. \A f \in End : sent_states'[f][1] = sent_states[f][1] /\ SentList(sent_states'[f])
  BY <1>5, <1>6 DEF Inv, Relied
<1>13. \A f \in End : Front(f)' = Front(f)
  BY <1>12 DEF Front
<1>14. \A f \in End : Acks(f)' = Acks(f)
  <2>1. sent'[e] = sent[e] \cup {inst} /\ \A f \in End : f # e => sent'[f] = sent[f]
    BY <1>1 DEF Inv, TypeInv
  <2> QED BY <1>1, <1>9, <2>1 DEF Acks
<1>15. ASSUME NEW f \in End, NEW i \in sent'[f]
       PROVE  i.throw <= Front(f) /\ i.throw <= i.old
  <2>1. CASE i \in sent[f]
    BY <2>1 DEF Inv, Relied
  <2>2. CASE i = inst /\ f = e
    <3>1. s[1].num \in Nat
      <4>1. s[1].num \in 0..LastNum
        BY <1>8 DEF Entry
      <4> QED BY <4>1, SenderAssumption
    <3> QED BY <1>8, <1>9, <2>2, <3>1 DEF Front
  <2> QED BY <1>1, <2>1, <2>2 DEF Inv, TypeInv
<1>16. ASSUME NEW f \in End PROVE Relied(f)' /\ Bounded(f)'
  <2>1. Bounded(f)'
    BY <1>1 DEF Inv, Bounded
  <2>2. Front(f)' \in DOMAIN received_states'[Peer(f)]
    BY <1>1, <1>13 DEF Inv, Relied
  <2>3. \A n \in Acks(Peer(f))' : n \in DOMAIN received_states'[Peer(f)] \/ n < Front(f)'
    BY <1>1, <1>13, <1>14, EndPeer DEF Inv, Relied
  <2> QED BY <1>12, <1>13, <1>15, <2>1, <2>2, <2>3 DEF Relied
<1> QED BY <1>11, <1>16 DEF Inv

\* A tick keeps the invariant.
LEMMA TickInv ==
    ASSUME Inv, NEW e \in End, TickStep(e)
    PROVE  Inv'
<1>1. PICK old \in 1..Len(sent_states[e]) :
          LET a == Assumed(sent_states[e], old)
              diff == DiffFrom(current_state[e], sent_states[e][a].state)
          IN  EmptyAck(e, a) \/ SendToReceiver(e, a, diff)
  BY DEF TickStep, Tick
<1> DEFINE a == Assumed(sent_states[e], old)
           diff == DiffFrom(current_state[e], sent_states[e][a].state)
<1>2. a \in {1, Len(sent_states[e])} /\ a \in 1..Len(sent_states[e])
  <2>1. Len(sent_states[e]) \in Nat \ {0}
    BY SenderAssumption DEF Inv, Relied, SentList
  <2>2. a \in {1, Len(sent_states[e])}
    BY <2>1, AssumedEnds
  <2> QED BY <2>1, <2>2
<1> HIDE DEF a
<1>3. sent_states[e][a].state \in Seq(Nat) /\ current_state[e] \in Seq(Nat)
  <2>1. sent_states[e][a] \in Entry
    BY <1>2 DEF Inv, Relied, SentList
  <2> QED BY <2>1 DEF Entry, Inv, TypeInv
<1>4. diff \in Seq(Nat)
  <2> DEFINE u == current_state[e]
             k == Len(sent_states[e][a].state)
  <2>1. u \in Seq(Nat) /\ k \in Nat
    BY <1>3
  <2>2. diff = SubSeq(u, k + 1, Len(u))
    BY DEF DiffFrom
  <2> HIDE DEF u, k, diff
  <2>3. \A i \in (k + 1)..Len(u) : u[i] \in Nat
    BY <2>1
  <2> QED BY <2>1, <2>2, <2>3
<1> HIDE DEF diff
<1>5. sent_states[e][a].state \o diff \in Seq(Nat)
  BY <1>3, <1>4
<1>6. UNCHANGED recvVars /\ ~(shutdown_in_progress[e] /\ ShutdownTimedOut(e))
  BY DEF TickStep, Tick
<1>7. \/ SendState(e, a, <<>>, current_state[e])
      \/ SendState(e, a, diff, sent_states[e][a].state \o diff)
  BY <1>1 DEF EmptyAck, SendToReceiver, a, diff
<1>8. CASE SendState(e, a, <<>>, current_state[e])
  <2>1. <<>> \in Seq(Nat)
    OBVIOUS
  <2> QED BY <1>2, <1>3, <1>6, <1>8, <2>1, SendInv, Zenon
<1>9. CASE SendState(e, a, diff, sent_states[e][a].state \o diff)
  BY <1>2, <1>4, <1>5, <1>6, <1>9, SendInv, Zenon
<1> QED BY <1>7, <1>8, <1>9

\* What recv does to the received states: those the instruction does not throw
\* away stay, the limit holds, and only a state that is there is acknowledged.
LEMMA ReceivedFacts ==
    ASSUME Inv, NEW e \in End, NEW inst \in Instr, Received(e, inst)
    PROVE  /\ received_states' \in [End -> States]
           /\ \A f \in End : f # e => received_states'[f] = received_states[f]
           /\ \A n \in DOMAIN received_states[e] :
                 n >= inst.throw => n \in DOMAIN received_states'[e]
           /\ Bounded(e)'
           /\ ack_num' \in [End -> 0..LastNum]
           /\ \A f \in End : f # e => ack_num'[f] = ack_num[f]
           /\ \/ ack_num'[e] = ack_num[e]
              \/ ack_num'[e] = inst.new /\ inst.new \in DOMAIN received_states'[e]
<1> DEFINE r == received_states[e]
           kept == ThrowawayUntil(r, inst.throw)
           q == CASE Accepts(r, inst) -> Accepted(r, inst)
                  [] /\ inst.new \notin DOMAIN r /\ inst.old \in DOMAIN r
                     /\ ~Accepts(r, inst) -> kept
                  [] OTHER -> r
<1>1. /\ received_states' = [received_states EXCEPT ![e] = q]
      /\ ack_num' = [ack_num EXCEPT ![e] =
            IF Accepts(r, inst) /\ \A n \in DOMAIN received_states'[e] : n <= inst.new
            THEN inst.new ELSE @]
  BY DEF Received
<1>2. /\ received_states \in [End -> States] /\ r \in States
      /\ ack_num \in [End -> 0..LastNum]
      /\ Cardinality(DOMAIN r) <= RecvMax + 1
  BY DEF Inv, TypeInv, Bounded
<1>3. /\ inst.new \in 0..LastNum /\ inst.throw \in 0..LastNum /\ inst.diff \in Seq(Nat)
  BY DEF Instr
<1>4. /\ r \in [DOMAIN r -> Seq(Nat)] /\ DOMAIN r \subseteq 0..LastNum
      /\ IsFiniteSet(DOMAIN r)
  <2>1. PICK D \in SUBSET (0..LastNum) : r \in [D -> Seq(Nat)]
    BY <1>2 DEF States
  <2>2. IsFiniteSet(0..LastNum)
    BY FS_Interval, SenderAssumption
  <2> QED BY <2>1, <2>2, FS_Subset, Zenon
<1>5. /\ DOMAIN kept = {j \in DOMAIN r : j >= inst.throw}
      /\ kept \in [DOMAIN kept -> Seq(Nat)]
  BY <1>4 DEF ThrowawayUntil
<1>6. kept \in States
  <2>1. DOMAIN kept \in SUBSET (0..LastNum)
    BY <1>4, <1>5
  <2> QED BY <1>5, <2>1 DEF States
<1>7. IsFiniteSet(DOMAIN kept) /\ Cardinality(DOMAIN kept) <= Cardinality(DOMAIN r)
      /\ Cardinality(DOMAIN r) \in Nat /\ Cardinality(DOMAIN kept) \in Nat
  <2>1. DOMAIN kept \subseteq DOMAIN r
    BY <1>5
  <2> QED BY <1>4, <2>1, FS_Subset, FS_CardinalityType
<1> HIDE DEF kept
<1>8. CASE Accepts(r, inst)
  <2> DEFINE D == DOMAIN kept \cup {inst.new}
             g == [n \in D |-> IF n = inst.new THEN r[inst.old] \o inst.diff ELSE kept[n]]
  <2>1. q = g
    BY <1>8 DEF Accepted, kept
  <2>2. g \in [D -> Seq(Nat)] /\ D \in SUBSET (0..LastNum)
    <3>1. r[inst.old] \in Seq(Nat)
      BY <1>4, <1>8 DEF Accepts
    <3>2. r[inst.old] \o inst.diff \in Seq(Nat)
      BY <1>3, <3>1
    <3> QED BY <1>3, <1>4, <1>5, <3>2
  <2>3. g \in States /\ DOMAIN g = D
    BY <2>2, Zenon DEF States
  <2>4. Cardinality(D) <= RecvMax + 1
    <3>1. Cardinality(D) <= Cardinality(DOMAIN kept) + 1
      <4>1. \/ Cardinality(D) = Cardinality(DOMAIN kept)
            \/ Cardinality(D) = Cardinality(DOMAIN kept) + 1
        BY <1>7, FS_AddElement, Zenon
      <4> HIDE DEF D
      <4> QED BY <1>7, <4>1
    <3>2. Cardinality(DOMAIN kept) <= RecvMax
      BY <1>8 DEF Accepts, kept
    <3>3. IsFiniteSet(D) /\ Cardinality(D) \in Nat
      BY <1>7, FS_AddElement, FS_CardinalityType
    <3> QED BY <1>7, <3>1, <3>2, <3>3, TransportAssumption
  <2> HIDE DEF g, q
  <2>5. received_states'[e] = g /\ DOMAIN received_states'[e] = D
    BY <1>1, <1>2, <2>1, <2>3
  <2>6. ack_num'[e] \in {ack_num[e], inst.new}
    BY <1>1, <1>2
  <2>7. \A n \in DOMAIN r : n >= inst.throw => n \in D
    BY <1>5
  <2>8. received_states' \in [End -> States]
    BY <1>1, <1>2, <2>1, <2>3
  <2> QED BY <1>1, <1>2, <1>3, <2>4, <2>5, <2>6, <2>7, <2>8, Zenon DEF Bounded
<1>9. CASE ~Accepts(r, inst)
  <2>1. q \in {kept, r}
    BY <1>9
  <2> HIDE DEF q
  <2>2. q \in States
    BY <1>2, <1>6, <2>1
  <2>3. received_states'[e] = q
    BY <1>1, <1>2
  <2>4. ack_num' = ack_num
    BY <1>1, <1>2, <1>9
  <2>5. Cardinality(DOMAIN q) <= RecvMax + 1
    BY <1>2, <1>7, <2>1, TransportAssumption
  <2>6. \A n \in DOMAIN r : n >= inst.throw => n \in DOMAIN q
    BY <1>5, <2>1
  <2> QED BY <1>1, <1>2, <2>2, <2>3, <2>4, <2>5, <2>6 DEF Bounded
<1> QED BY <1>8, <1>9

\* A fragment keeps the invariant.
LEMMA RecvInv ==
    ASSUME Inv, NEW e \in End, Recv(e)
    PROVE  Inv'
<1> DEFINE p == Peer(e)
<1>0. p \in End /\ p # e /\ Peer(p) = e /\ \A f \in End : f = e \/ f = p
  BY EndPeer, TransportAssumption DEF Peer, Client, Server
<1>1. PICK inst \in sent[p] :
          /\ \/ /\ sent_states' = [sent_states EXCEPT ![e] = ProcessAck(@, inst.ack)]
                /\ Received(e, inst)
             \/ UNCHANGED <<sent_states, received_states, ack_num>>
          /\ UNCHANGED <<current_state, shutdown_in_progress, shutdown_tries, sent>>
  BY DEF Recv
<1>2. inst \in Instr
  BY <1>0 DEF Inv, TypeInv
<1> HIDE DEF p
<1>3. CASE UNCHANGED <<sent_states, received_states, ack_num>>
  <2>1. TypeInv'
    BY <1>1, <1>3 DEF Inv, TypeInv
  <2> QED BY <1>1, <1>3, <2>1, KeepInv
<1>4. CASE /\ sent_states' = [sent_states EXCEPT ![e] = ProcessAck(@, inst.ack)]
           /\ Received(e, inst)
  <2> DEFINE s == sent_states[e]
             t == ProcessAck(s, inst.ack)
  <2>1. inst.ack \in Nat /\ inst.throw \in Nat /\ inst.new \in Nat
    BY <1>2, SenderAssumption DEF Instr
  <2>2. SentList(s) /\ SentList(sent_states[p])
    BY <1>0 DEF Inv, Relied
  <2>3. /\ SentList(t)
        /\ t = s \/ (t[1].num = inst.ack /\ s[1].num <= inst.ack)
    BY <2>1, <2>2, AckKeeps
  <2> HIDE DEF t
  <2>4. sent_states'[e] = t /\ sent_states'[p] = sent_states[p]
    BY <1>0, <1>4 DEF Inv, TypeInv, t
  <2>5. /\ received_states' \in [End -> States]
        /\ received_states'[p] = received_states[p]
        /\ \A n \in DOMAIN received_states[e] :
              n >= inst.throw => n \in DOMAIN received_states'[e]
        /\ Bounded(e)'
        /\ ack_num' \in [End -> 0..LastNum]
        /\ ack_num'[p] = ack_num[p]
        /\ \/ ack_num'[e] = ack_num[e]
           \/ ack_num'[e] = inst.new /\ inst.new \in DOMAIN received_states'[e]
    BY <1>0, <1>2, <1>4, ReceivedFacts
  <2>6. TypeInv'
    <3>1. sent_states' \in [End -> Seq(Entry)]
      BY <1>4, <2>3 DEF Inv, TypeInv, SentList, t
    <3> QED BY <1>1, <2>5, <3>1, Zenon DEF Inv, TypeInv
  <2>7. s[1].num \in Nat /\ t[1].num \in Nat /\ sent_states[p][1].num \in Nat
    <3>1. s[1] \in Entry /\ t[1] \in Entry /\ sent_states[p][1] \in Entry
      BY <2>2, <2>3 DEF SentList
    <3> QED BY <3>1, SenderAssumption DEF Entry
  <2>8. Relied(e)'
    <3>1. Front(e)' = t[1].num /\ Front(e) = s[1].num /\ s[1].num <= t[1].num
      BY <2>1, <2>3, <2>4, <2>7 DEF Front
    <3>2. Acks(p)' = Acks(p) /\ inst.ack \in Acks(p)
      BY <1>1, <2>5 DEF Acks
    <3>3. Front(e)' \in DOMAIN received_states'[p]
      <4>1. /\ Front(e) \in DOMAIN received_states[p]
            /\ \A n \in Acks(p) : n \in DOMAIN received_states[p] \/ n < Front(e)
        BY DEF Inv, Relied, p
      <4>2. inst.ack \in DOMAIN received_states[p] \/ inst.ack < s[1].num
        BY <3>1, <3>2, <4>1
      <4>3. t[1].num \in DOMAIN received_states[p]
        <5>1. CASE t = s
          BY <3>1, <4>1, <5>1
        <5>2. CASE t[1].num = inst.ack /\ s[1].num <= inst.ack
          <6>1. ~ (inst.ack < s[1].num)
            BY <2>1, <2>7, <5>2
          <6> QED BY <4>2, <5>2, <6>1
        <5> QED BY <2>3, <5>1, <5>2
      <4> QED BY <2>5, <3>1, <4>3
    <3>4. \A i \in sent'[e] : i.throw <= Front(e)' /\ i.throw <= i.old
      <4> SUFFICES ASSUME NEW i \in sent[e]
                   PROVE  i.throw <= t[1].num /\ i.throw <= i.old
        BY <1>1, <3>1
      <4>1. i.throw \in Nat
        BY SenderAssumption DEF Inv, TypeInv, Instr
      <4>2. i.throw <= s[1].num /\ i.throw <= i.old
        BY <3>1 DEF Inv, Relied
      <4> QED BY <2>7, <3>1, <4>1, <4>2
    <3>5. \A n \in Acks(p)' : n \in DOMAIN received_states'[p] \/ n < Front(e)'
      <4> SUFFICES ASSUME NEW n \in Acks(p), n \notin DOMAIN received_states[p]
                   PROVE  n < t[1].num
        BY <2>5, <3>1, <3>2
      <4>1. n \in Nat
        <5>1. n \in 0..LastNum
          <6>1. CASE n = ack_num[p]
            BY <1>0, <6>1 DEF Inv, TypeInv
          <6>2. ASSUME NEW i \in sent[p], n = i.ack PROVE n \in 0..LastNum
            <7>1. i \in Instr
              BY <1>0, <6>2 DEF Inv, TypeInv
            <7> QED BY <6>2, <7>1 DEF Instr
          <6> QED BY <6>1, <6>2 DEF Acks
        <5> QED BY <5>1, SenderAssumption
      <4>2. n < s[1].num
        BY <3>1 DEF Inv, Relied, p
      <4>3. s[1].num \in Nat /\ t[1].num \in Nat /\ s[1].num <= t[1].num
        BY <2>7, <3>1
      <4> HIDE DEF s
      <4> QED BY <4>1, <4>2, <4>3
    <3> QED BY <2>3, <2>4, <3>3, <3>4, <3>5 DEF Relied, p
  <2>9. Relied(p)'
    <3>1. Front(p)' = Front(p) /\ Front(p) \in Nat /\ SentList(sent_states'[p])
      BY <2>2, <2>4, <2>7 DEF Front
    <3>2. inst.throw <= Front(p)
      BY <1>0 DEF Inv, Relied
    <3>3. Front(p) \in DOMAIN received_states'[e]
      <4>1. Front(p) \in DOMAIN received_states[e]
        BY <1>0 DEF Inv, Relied
      <4> QED BY <2>1, <2>5, <3>1, <3>2, <4>1
    <3>4. \A n \in Acks(e)' : n \in DOMAIN received_states'[e] \/ n < Front(p)
      <4> SUFFICES ASSUME NEW n \in Acks(e)'
                   PROVE  n \in DOMAIN received_states'[e] \/ n < Front(p)
        OBVIOUS
      <4>1. CASE n = inst.new /\ inst.new \in DOMAIN received_states'[e]
        BY <4>1
      <4>2. CASE n \in Acks(e)
        <5>1. n \in Nat
          <6>1. ASSUME NEW i \in sent[e] PROVE i.ack \in 0..LastNum
            <7>1. i \in Instr
              BY <1>0, <6>1 DEF Inv, TypeInv
            <7> QED BY <7>1 DEF Instr
          <6>2. ack_num[e] \in 0..LastNum
            BY <1>0 DEF Inv, TypeInv
          <6>3. n \in 0..LastNum
            BY <4>2, <6>1, <6>2 DEF Acks
          <6> QED BY <6>3, SenderAssumption
        <5>2. n \in DOMAIN received_states[e] \/ n < Front(p)
          BY <1>0, <4>2 DEF Inv, Relied
        <5>3. n >= inst.throw \/ n < Front(p)
          BY <2>1, <3>1, <3>2, <5>1
        <5> QED BY <2>5, <5>2, <5>3
      <4> QED BY <1>1, <2>5, <4>1, <4>2 DEF Acks
    <3>5. \A i \in sent'[p] : i.throw <= Front(p) /\ i.throw <= i.old
      BY <1>0, <1>1 DEF Inv, Relied
    <3> QED BY <1>0, <3>1, <3>3, <3>4, <3>5 DEF Relied
  <2>10. Bounded(p)'
    BY <1>0, <2>5 DEF Inv, Bounded
  <2> QED BY <1>0, <2>5, <2>6, <2>8, <2>9, <2>10 DEF Inv
<1> QED BY <1>1, <1>3, <1>4

-----------------------------------------------------------------------------
(* The theorems.                                                           *)

LEMMA NextInv == Inv /\ [Next]_vars => Inv'
<1> SUFFICES ASSUME Inv, [Next]_vars PROVE Inv'
  OBVIOUS
<1>1. CASE UNCHANGED vars
  <2>1. TypeInv'
    BY <1>1 DEF Inv, TypeInv, vars, senderVars, recvVars
  <2> QED BY <1>1, <2>1, KeepInv DEF vars, senderVars, recvVars
<1>2. CASE Next
  BY <1>2, UserInv, TickInv, RecvInv DEF Next
<1> QED BY <1>1, <1>2

\* The invariant holds in every reachable state.
THEOREM InvHolds == Spec => []Inv
BY InitInv, NextInv, PTL DEF Spec

\* Types and limits of the transport (transportsender.cc:227,
\* networktransport.cc:112): no list is empty or beyond its limit, and the
\* shutdown is not tried more often than SHUTDOWN_RETRIES.
THEOREM TransportTypes == Spec => []TypeOK
<1>1. Inv => TypeOK
  BY EndPeer DEF Inv, TypeInv, Relied, SentList, Bounded, TypeOK
<1> QED BY <1>1, InvHolds, PTL

\* The known state is held by the receiver (transportsender.h:78,
\* networktransport.cc:170), whatever the network does.
THEOREM KnownStateIsHeld == Spec => []KnownStateHeld
<1>1. Inv => KnownStateHeld
  BY DEF Inv, Relied, Front, KnownStateHeld
<1> QED BY <1>1, InvHolds, PTL

\* No instruction throws away its own reference, or names a state that was
\* erased from the list (transportsender.cc:304, networktransport.cc:110).
THEOREM ReferencesAreKept == Spec => []ReferenceKept
<1>1. Inv => ReferenceKept
  <2> SUFFICES ASSUME Inv, NEW e \in End, NEW inst \in sent[e]
               PROVE  inst.old >= inst.throw
    BY DEF ReferenceKept
  <2>1. inst \in Instr /\ inst.throw <= inst.old
    BY DEF Inv, TypeInv, Relied
  <2>2. inst.old \in Nat /\ inst.throw \in Nat
    BY <2>1, SenderAssumption DEF Instr
  <2> QED BY <2>1, <2>2
<1> QED BY <1>1, InvHolds, PTL
=============================================================================
