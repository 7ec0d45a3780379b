----------------------------- MODULE VerusProofs -----------------------------
(***************************************************************************)
(* What the locks and the guards of the Verus sender keep, for every bound *)
(* on packets, restarts, windows, credit and requests.                     *)
(***************************************************************************)
EXTENDS Verus, WellFoundedInduction, NaturalsInduction, TLAPS

ProfPcs == {"none", "loop", "fit", "restart", "done"}

Types ==
    /\ wCrt \in Int
    /\ ssId \in Int /\ ssId >= -1
    /\ restarts \in 0..MaxRestarts
    /\ tid \in Profs
    /\ prof \in [Profs -> ProfPcs]
    /\ \A p \in net \cup acks : p.ss \in Int /\ p.ss >= -1
    /\ ack.ss \in Int /\ ack.ss >= -1

\* Until the first request only main runs.
Waiting ==
    main = "wait" => /\ tid = 0 /\ rst = "none" /\ tmo = "off"
                     /\ \A k \in Profs : prof[k] = "none"

\* Who holds restartLock: the receiver while it works on an ACK, its caller
\* while restartSlowStart is under way.  rst is in use only after a call.
Locks ==
    /\ rcv \notin {"off", "recv"} => restartLock = Rcv /\ ack.ss >= ssId
    /\ rst # "none" => restartLock \in Profs \cup {Main, Tmo} /\ restarts > 0

\* A decrement that has passed its test counts as done.
Owed == (IF rcv = "decrement" THEN 1 ELSE 0) + (IF main = "decrement" THEN 1 ELSE 0)
Floor == wCrt - Owed >= -2

IInv == Types /\ Waiting /\ Locks /\ Floor /\ OneProfile

\* The receiver is none of the callers of restartSlowStart.
LEMMA ReceiverIsNoCaller ==
    /\ Rcv \notin Profs \cup {Main, Tmo}
    /\ Free \notin Profs \cup {Rcv, Main, Tmo}
BY VerusAssumption DEF Rcv, Main, Tmo, Free, Profs

\* The first profile thread has a number.
LEMMA FirstProfile == 0 \in Profs /\ Profs \subseteq Int
BY VerusAssumption DEF Profs

\* Before the first request nothing runs and nothing is locked.
LEMMA InitIInv == Init => IInv
<1> SUFFICES ASSUME Init PROVE IInv
  OBVIOUS
<1>1. Types
  <2>1. wCrt \in Int /\ ssId \in Int /\ ssId >= -1
        /\ restarts \in 0..MaxRestarts /\ tid \in Profs
    BY VerusAssumption, FirstProfile DEF Init, ServerInit
  <2>2. prof \in [Profs -> ProfPcs]
    BY DEF Init, ServerInit, ProfPcs
  <2>3. net \cup acks = {Hallo(0)}
    BY DEF Init, ClientInit
  <2>4. Hallo(0).ss \in Int /\ Hallo(0).ss >= -1
    BY VerusAssumption DEF Hallo
  <2>5. ack.ss \in Int /\ ack.ss >= -1
    BY DEF Init, ServerInit, NoPdu
  <2> QED
    BY <2>1, <2>2, <2>3, <2>4, <2>5 DEF Types
<1>2. Waiting /\ OneProfile
  BY DEF Init, ServerInit, Waiting, OneProfile
<1>3. Locks /\ Floor
  BY DEF Init, ServerInit, Locks, Floor, Owed
<1> QED
  BY <1>1, <1>2, <1>3 DEF IInv

\* The steps of restartSlowStart.
LEMMA RestartStep == IInv /\ RestartNext => IInv'
<1> SUFFICES ASSUME IInv, RestartNext PROVE IInv'
  OBVIOUS
<1> USE DEF IInv, Types, ProfPcs, Waiting, Locks, Floor, Owed, OneProfile,
            RestartNext, windowVars, phaseVars, listVars, lockVars, mainVars,
            profVars, sndVars, rcvVars, netVars
<1>0. rst # "none" => rcv \in {"off", "recv"}
  BY ReceiverIsNoCaller
<1>1. CASE RestartReset
  BY <1>1, <1>0 DEF RestartReset
<1>2. CASE RestartProfile
  <2> USE <1>2, <1>0 DEF RestartProfile
  <2>1. restarts \in Profs /\ tid \in Profs
    BY DEF Profs
  <2>2. main # "wait"
    OBVIOUS
  <2>3. prof' \in [Profs -> ProfPcs]
    BY <2>1
  <2>4. OneProfile'
    BY <2>1
  <2>5. Types'
    BY <2>1, <2>3
  <2> QED
    BY <2>2, <2>4, <2>5
<1>3. CASE RestartSession
  BY <1>3, <1>0 DEF RestartSession
<1>4. CASE RestartClearSending
  BY <1>4, <1>0 DEF RestartClearSending
<1>5. CASE RestartClearMissing
  BY <1>5, <1>0 DEF RestartClearMissing
<1>6. CASE RestartFirst
  <2> USE <1>6, <1>0 DEF RestartFirst
  <2>1. main # "wait" /\ main' # "wait"
    OBVIOUS
  <2>2. prof' \in [Profs -> ProfPcs]
    OBVIOUS
  <2>3. OneProfile'
    OBVIOUS
  <2>4. Floor'
    OBVIOUS
  <2>5. Locks'
    OBVIOUS
  <2> QED
    BY <2>1, <2>2, <2>3, <2>4, <2>5
<1> QED
  BY <1>1, <1>2, <1>3, <1>4, <1>5, <1>6

\* The sending thread adds to the packets in flight and to those on their way.
LEMMA SenderStep == IInv /\ SndThread => IInv'
<1> SUFFICES ASSUME IInv, SndThread PROVE IInv'
  OBVIOUS
<1> USE DEF IInv, Types, ProfPcs, Waiting, Locks, Floor, Owed, OneProfile,
            SndThread, lockVars, mainVars, profVars, rcvVars, rstVars
<1>1. CASE SndTake
  BY <1>1 DEF SndTake
<1>2. CASE SndClear
  BY <1>2 DEF SndClear
<1>3. CASE SndRead
  BY <1>3 DEF SndRead
<1>4. CASE SndWrite
  BY <1>4 DEF SndWrite
<1>5. CASE SndSend
  BY <1>5 DEF SndSend
<1>6. CASE SndFull
  BY <1>6 DEF SndFull
<1>7. CASE SndInsert
  BY <1>7 DEF SndInsert
<1> QED
  BY <1>1, <1>2, <1>3, <1>4, <1>5, <1>6, <1>7

\* The receiver takes restartLock before it keeps an ACK, and gives it back
\* when it is done with it.
LEMMA ReceiverStep == IInv /\ RcvThread => IInv'
<1> SUFFICES ASSUME IInv, RcvThread PROVE IInv'
  OBVIOUS
<1> USE DEF IInv, Types, ProfPcs, Waiting, Locks, Floor, Owed, OneProfile, RcvThread,
            lockVars, listVars, mainVars, profVars, rstVars, rcvVars, Branch,
            AfterUpdate
<1>1. CASE \E p \in acks : RcvTake(p)
  BY <1>1, ReceiverIsNoCaller DEF RcvTake
<1>2. CASE RcvEarlier
  BY <1>2 DEF RcvEarlier
<1>3. CASE RcvLookup
  BY <1>3 DEF RcvLookup
<1>4. CASE RcvCreate
  BY <1>4 DEF RcvCreate
<1>5. CASE RcvUpdate
  BY <1>5 DEF RcvUpdate
<1>6. CASE RcvDecrement
  BY <1>6 DEF RcvDecrement
<1>7. CASE RcvLearn
  BY <1>7 DEF RcvLearn
<1>8. CASE RcvLast
  BY <1>8 DEF RcvLast
<1>9. CASE RcvErase
  BY <1>9, ReceiverIsNoCaller DEF RcvErase, NoPdu
<1> QED
  BY <1>1, <1>2, <1>3, <1>4, <1>5, <1>6, <1>7, <1>8, <1>9

\* main starts the threads, decrements after its test, and ends the session
\* with a number below every other.
LEMMA MainStep == IInv /\ MainThread => IInv'
<1> SUFFICES ASSUME IInv, MainThread PROVE IInv'
  OBVIOUS
<1> USE DEF IInv, Types, ProfPcs, Waiting, Locks, Floor, Owed, OneProfile, windowVars,
            lockVars, listVars, phaseVars, profVars, rstVars, rcvVars, netVars,
            mainVars
<1>1. CASE \E p \in acks : MainStart(p)
  <2> PICK p \in acks : MainStart(p)
    BY <1>1
  <2> USE FirstProfile DEF MainStart
  <2>1. Types'
    OBVIOUS
  <2>2. OneProfile'
    OBVIOUS
  <2> QED
    BY <2>1, <2>2
<1>a. CASE /\ \/ MainLoss \/ MainLost \/ MainSettle \/ MainDecrement \/ MainMore
              \/ MainEpoch \/ MainOffCurve \/ MainRestart \/ MainEnd \/ MainExit
           /\ UNCHANGED <<haveSpline, armed, sndVars, rcvVars, tmo, profVars,
                          netVars>>
  <2> USE <1>a
  <2>2. CASE MainLoss
    BY <2>2 DEF MainLoss
  <2>3. CASE MainLost
    <3>1. /\ main # "wait" /\ main' \in {"settle", "exit"} /\ wCrt' \in {wCrt, 0}
          /\ main # "decrement"
          /\ UNCHANGED <<ssId, restartLock, rst, restarts>>
      BY <2>3 DEF MainLost
    <3>2. CASE wCrt' = wCrt
      BY <3>1, <3>2
    <3>3. CASE wCrt' = 0
      BY <3>1, <3>3
    <3> QED
      BY <3>1, <3>2, <3>3, Zenon
  <2>4. CASE MainSettle
    <3>1. /\ main = "settle"
          /\ main' = IF wCrt > 0 THEN "decrement" ELSE "more"
          /\ UNCHANGED <<wCrt, ssId, restartLock, rst, restarts>>
      BY <2>4 DEF MainSettle
    <3>2. Floor'
      BY <3>1
    <3> QED
      BY <3>1, <3>2
  <2>5. CASE MainDecrement
    BY <2>5 DEF MainDecrement
  <2>6. CASE MainMore
    BY <2>6 DEF MainMore
  <2>7. CASE MainEpoch
    BY <2>7 DEF MainEpoch, AtEpoch
  <2>8. CASE MainOffCurve
    BY <2>8 DEF MainOffCurve, AtEpoch
  <2>9. CASE MainRestart
    BY <2>9, ReceiverIsNoCaller, VerusAssumption DEF MainRestart, RestartLock
  <2>10. CASE MainEnd
    BY <2>10 DEF MainEnd
  <2>11. CASE MainExit
    BY <2>11 DEF MainExit
  <2> QED
    BY <2>2, <2>3, <2>4, <2>5, <2>6, <2>7, <2>8, <2>9, <2>10, <2>11, Zenon
<1> QED
  BY <1>1, <1>a DEF MainThread

\* The timeout handler resets the packets in flight and may restart.
LEMMA TimeoutStep == IInv /\ TmoThread => IInv'
<1> SUFFICES ASSUME IInv, TmoThread PROVE IInv'
  OBVIOUS
<1> USE DEF IInv, Types, ProfPcs, Waiting, Locks, Floor, Owed, OneProfile, TmoThread,
            profVars, rstVars, rcvVars, netVars, mainVars
<1>1. CASE TimeoutHandler
  <2>1. wCrt' \in {wCrt, 0} /\ main # "wait"
    BY <1>1, Zenon DEF TimeoutHandler
  <2>2. UNCHANGED <<ssId, restarts, tid, prof, net, acks, ack, rcv, rst,
                    restartLock, main, cancelled>>
    BY <1>1 DEF TimeoutHandler
  <2>3. Floor'
    <3>1. Owed' = Owed /\ Owed \in 0..2
      BY <2>2
    <3>2. wCrt \in Int /\ wCrt - Owed >= -2
      BY DEF Floor
    <3> HIDE DEF Owed, IInv, Types, Waiting, Locks, OneProfile, TmoThread
    <3>3. CASE wCrt' = wCrt
      BY <3>1, <3>2, <3>3
    <3>4. CASE wCrt' = 0
      BY <3>1, <3>4
    <3> QED
      BY <2>1, <3>3, <3>4
  <2>4. Types' /\ Locks' /\ OneProfile'
    BY <2>1, <2>2
  <2>5. Waiting'
    BY <2>1, <2>2
  <2> QED
    BY <2>3, <2>4, <2>5, Zenon
<1>2. CASE TmoRestart
  BY <1>2, ReceiverIsNoCaller, VerusAssumption, SMTT(30) DEF TmoRestart, RestartLock
<1>3. CASE TmoLast
  BY <1>3 DEF TmoLast
<1>4. CASE TmoMissing
  BY <1>4 DEF TmoMissing
<1> QED
  BY <1>1, <1>2, <1>3, <1>4

\* A delay profile thread ends, goes on, or restarts.
LEMMA ProfileStep == IInv /\ ProfThread => IInv'
<1> SUFFICES ASSUME IInv, ProfThread PROVE IInv'
  OBVIOUS
<1> PICK k \in Profs : ProfLoop(k) \/ ProfFit(k) \/ ProfRestart(k)
  BY DEF ProfThread
<1> UNCHANGED <<windowVars, slowStart, lossPhase, listVars, missingQueue,
                armed, sndVars, rcvVars, mainVars, tmo, tid, cancelled, netVars>>
  BY DEF ProfThread
<1> USE DEF IInv, Types, ProfPcs, Waiting, Locks, Floor, Owed, OneProfile, windowVars,
            rstVars, rcvVars, netVars, mainVars
<1>1. CASE ProfLoop(k)
  BY <1>1 DEF ProfLoop
<1>2. CASE ProfFit(k)
  BY <1>2 DEF ProfFit
<1>3. CASE ProfRestart(k)
  BY <1>3, ReceiverIsNoCaller, VerusAssumption, SMTT(30) DEF ProfRestart, RestartLock
<1> QED
  BY <1>1, <1>2, <1>3

\* The client returns what it was sent, and its requests look like ACKs of a
\* later session.
LEMMA ClientStep ==
    IInv /\ (ClientHallo \/ \E p \in net : ClientEcho(p)) => IInv'
<1> SUFFICES ASSUME IInv, ClientHallo \/ \E p \in net : ClientEcho(p) PROVE IInv'
  OBVIOUS
<1> USE DEF IInv, Types, ProfPcs, Waiting, Locks, Floor, Owed, OneProfile, serverVars,
            windowVars, lockVars, profVars, rstVars, rcvVars, mainVars
<1>1. CASE ClientHallo
  <2> PICK w \in 0..MaxW : acks' = acks \cup {Hallo(w)}
    BY <1>1 DEF ClientHallo
  <2>1. Hallo(w).ss \in Int /\ Hallo(w).ss >= -1
    BY VerusAssumption DEF Hallo
  <2> QED
    BY <1>1, <2>1 DEF ClientHallo
<1>2. CASE \E p \in net : ClientEcho(p)
  BY <1>2 DEF ClientEcho, ClientRecv, ClientSend
<1> QED
  BY <1>1, <1>2

\* The invariant is inductive: every step is one of those above.
LEMMA Inductive == IInv /\ [Next]_vars => IInv'
<1> SUFFICES ASSUME IInv, [Next]_vars PROVE IInv'
  OBVIOUS
<1>1. CASE Next
  BY <1>1, RestartStep, SenderStep, ReceiverStep, MainStep, TimeoutStep,
     ProfileStep, ClientStep DEF Next, ServerNext
<1>2. CASE UNCHANGED vars
  BY <1>2 DEF IInv, Types, Waiting, Locks, Floor, Owed, OneProfile, vars,
     serverVars, windowVars, lockVars, profVars, rstVars, rcvVars, mainVars,
     netVars
<1> QED
  BY <1>1, <1>2

\* Whatever the threads and the network do, the receiver works on an ACK only
\* while no restart is under way, and only on one of a session not given up.
THEOREM AcksKeepToTheirSession == Spec => []AckOfSession
<1>1. IInv => AckOfSession
  BY ReceiverIsNoCaller DEF IInv, Locks, AckOfSession
<1> QED
  BY InitIInv, Inductive, <1>1, PTL DEF Spec

\* However the tests, decrements and resets of wCrt interleave, it stays at
\* or above minus two.
THEOREM InFlightHasFloor == Spec => []InFlightFloor
<1>1. IInv => InFlightFloor
  BY DEF IInv, Types, Floor, Owed, InFlightFloor
<1> QED
  BY InitIInv, Inductive, <1>1, PTL DEF Spec

\* However often and by whomever slow start is restarted, one delay profile
\* thread at most is neither ended nor cancelled.
THEOREM ProfilesAreReplaced == Spec => []OneProfile
<1>1. IInv => OneProfile
  BY DEF IInv
<1> QED
  BY InitIInv, Inductive, <1>1, PTL DEF Spec

-----------------------------------------------------------------------------
(* The lock of the missing packets, and the timer.                         *)

\* main waits for the restart it asked for; the receiver starts with main.
MainWaits ==
    /\ restartLock = Main => main = "restart"
    /\ main = "wait" => rcv = "off" /\ restartLock = Free

QInv == QueueHeldInside /\ TimerPending /\ MainWaits

LEMMA LockNames ==
    /\ Main \notin Profs \cup {Rcv, Tmo, Free} /\ Rcv \notin {Main, Free}
BY VerusAssumption DEF Rcv, Main, Tmo, Free, Profs

LEMMA InitQInv == Init => QInv
BY LockNames DEF Init, ServerInit, QInv, QueueHeldInside, TimerPending, Running, MainWaits

LEMMA ServerQInv == IInv /\ QInv /\ ServerNext => QInv'
<1> SUFFICES ASSUME IInv, QInv, ServerNext PROVE QInv'
  OBVIOUS
<1> USE LockNames DEF QInv, QueueHeldInside, TimerPending, Running, MainWaits, lockVars,
        mainVars, rcvVars, windowVars, listVars
<1>1. CASE RestartNext
  BY <1>1 DEF RestartNext, RestartReset, RestartProfile, RestartSession,
     RestartClearSending, RestartClearMissing, RestartFirst
<1>2. CASE SndThread
  BY <1>2 DEF SndThread
<1>3. CASE RcvThread
  <2> USE DEF RcvThread
  <2>1. CASE \E p \in acks : RcvTake(p)
    <3>1. /\ rcv = "recv" /\ missingQueue' = missingQueue
          /\ armed' = armed \/ armed' = TRUE
          /\ restartLock' = restartLock \/ restartLock' = Rcv
      BY <2>1, Zenon DEF RcvTake
    <3>2. main' = main /\ tmo' = tmo
      BY <1>3
    <3> QED
      BY <3>1, <3>2
  <2>2. CASE RcvEarlier \/ RcvLookup \/ RcvCreate
    BY <1>3, <2>2 DEF RcvEarlier, RcvLookup, RcvCreate, AfterUpdate
  <2>3. CASE RcvUpdate \/ RcvDecrement \/ RcvLearn
    BY <1>3, <2>3 DEF RcvUpdate, RcvDecrement, RcvLearn, AfterUpdate
  <2>4. CASE RcvLast \/ RcvErase
    BY <1>3, <2>4 DEF RcvLast, RcvErase
  <2> QED
    BY <1>3, <2>1, <2>2, <2>3, <2>4
<1>4. CASE MainThread
  <2>1. CASE \E p \in acks : MainStart(p)
    BY <2>1 DEF MainStart
  <2>2. CASE /\ MainLoss \/ MainLost \/ MainSettle \/ MainDecrement \/ MainMore
             /\ UNCHANGED <<haveSpline, armed, sndVars, rcvVars, tmo, profVars, netVars>>
    BY <2>2 DEF MainLoss, MainLost, MainSettle, MainDecrement, MainMore
  <2>3. CASE /\ MainEpoch \/ MainOffCurve \/ MainRestart \/ MainEnd \/ MainExit
             /\ UNCHANGED <<haveSpline, armed, sndVars, rcvVars, tmo, profVars, netVars>>
    BY <2>3 DEF MainEpoch, MainOffCurve, MainRestart, MainEnd, MainExit, AtEpoch, RestartLock
  <2> QED
    BY <1>4, <2>1, <2>2, <2>3 DEF MainThread
<1>5. CASE TmoThread
  <2>1. CASE TmoRestart
    BY <1>5, <2>1, Zenon DEF TmoThread, TmoRestart, RestartLock, IInv, Waiting
  <2>2. CASE TimeoutHandler \/ TmoLast \/ TmoMissing
    BY <1>5, <2>2 DEF TmoThread, TimeoutHandler, TmoLast, TmoMissing
  <2> QED
    BY <1>5, <2>1, <2>2 DEF TmoThread
<1>6. CASE ProfThread
  <2> PICK k \in Profs : ProfLoop(k) \/ ProfFit(k) \/ ProfRestart(k)
    BY <1>6 DEF ProfThread
  <2>1. UNCHANGED <<missingQueue, armed, rcv, main, tmo>>
    BY <1>6 DEF ProfThread
  <2>2. restartLock' = restartLock \/ (restartLock' = k /\ prof[k] = "restart")
    BY DEF ProfLoop, ProfFit, ProfRestart, RestartLock
  <2> QED
    BY <2>1, <2>2 DEF IInv, Waiting
<1> QED
  BY <1>1, <1>2, <1>3, <1>4, <1>5, <1>6 DEF ServerNext

LEMMA NextQInv == IInv /\ QInv /\ [Next]_vars => QInv'
<1> SUFFICES ASSUME IInv, QInv, [Next]_vars PROVE QInv'
  OBVIOUS
<1>1. CASE ServerNext
  BY <1>1, ServerQInv
<1>2. CASE ~ServerNext
  <2>1. UNCHANGED serverVars
    BY <1>2 DEF Next, ClientHallo, ClientEcho, vars
  <2> QED
    BY <2>1 DEF QInv, QueueHeldInside, TimerPending, Running, MainWaits, serverVars,
       lockVars, rcvVars, mainVars
<1> QED
  BY <1>1, <1>2

LEMMA QInvHolds == Spec => []QInv
BY InitIInv, Inductive, InitQInv, NextQInv, PTL DEF Spec

\* While the server runs something is always set to revive a silent session:
\* the timer, or its handler at work (verus_server.cpp:187 and 240).
THEOREM TimerIsPending == Spec => []TimerPending
<1>1. QInv => TimerPending
  BY DEF QInv
<1> QED
  BY <1>1, QInvHolds, PTL

\* No thread keeps the lock of the missing packets outside its sections
\* (verus_server.cpp:668-675 and 829-832).
THEOREM QueueIsHeldInside == Spec => []QueueHeldInside
<1>1. QInv => QueueHeldInside
  BY DEF QInv
<1> QED
  BY <1>1, QInvHolds, PTL

-----------------------------------------------------------------------------
(* The numbers of the sender stay in their ranges, whatever races with     *)
(* pktSeq++, with the credit and with restartSlowStart.  First, least and  *)
(* greatest numbers.                                                       *)

LEMMA LeastOf ==
    ASSUME NEW T, T \subseteq Nat, T # {}
    PROVE  Min(T) \in T
<1> DEFINE R == {ss \in Nat \X Nat : ss[1] < ss[2]}
<1>1. IsWellFoundedOn(R, Nat)
  BY NatLessThanWellFounded DEF OpToRel
<1> HIDE DEF R
<1>2. PICK m \in T : \A k \in T : ~ (<<k, m>> \in R)
  BY <1>1, WFMin, Zenon
<1>3. \A k \in T : ~ (k < m)
  BY <1>2, Zenon DEF R
<1>4. \A k \in T : m <= k
  BY <1>3
<1> QED
  BY <1>4, Zenon DEF Min

LEMMA GreatestOf ==
    ASSUME NEW N \in Nat, NEW T, T \subseteq 0..N, T # {}
    PROVE  Max(T) \in T
<1> DEFINE U == {N - k : k \in T}
<1>1. U \subseteq Nat /\ U # {}
  <2>1. \A k \in T : N - k \in Nat
    OBVIOUS
  <2>2. PICK k \in T : TRUE
    BY Zenon
  <2>3. N - k \in U
    OBVIOUS
  <2> QED
    BY <2>1, <2>3
<1>2. PICK u \in U : \A k \in U : u <= k
  <2> HIDE DEF U
  <2> DEFINE R == {ss \in Nat \X Nat : ss[1] < ss[2]}
  <2>1. IsWellFoundedOn(R, Nat)
    BY NatLessThanWellFounded DEF OpToRel
  <2> HIDE DEF R
  <2>2. PICK m \in U : \A k \in U : ~ (<<k, m>> \in R)
    BY <1>1, <2>1, WFMin, Zenon
  <2>3. \A k \in U : ~ (k < m)
    BY <1>1, <2>2, Zenon DEF R
  <2> QED
    BY <1>1, <2>3
<1>3. PICK m \in T : u = N - m
  OBVIOUS
<1>4. \A k \in T : m >= k
  BY <1>2, <1>3
<1> QED
  BY <1>4, Zenon DEF Max

-----------------------------------------------------------------------------
(* The invariant.                                                          *)

\* pktSeq++ has read a number below the bound; what it writes is no longer -1.
Numbers ==
    /\ pktSeq \in -1..MaxSeq /\ inc \in -1..MaxSeq
    /\ snd = "write" => inc < MaxSeq
    /\ snd = "send" => pktSeq >= 0

\* A batch under way is not used up.
Credit ==
    /\ tempS \in 0..MaxCredit /\ sPkts \in 0..MaxCredit
    /\ snd \in {"clear", "next", "write", "send", "insert"} => sPkts >= 1

\* No more sessions than calls of restartSlowStart.
SessionCount ==
    /\ ssId \in -1..restarts
    /\ rst \in {"reset", "profile", "session"} => ssId < restarts

\* The packets, the lists and what the receiver and main carry between them.
Packets ==
    /\ net \subseteq Pdus /\ acks \subseteq Pdus /\ ack \in Pdus
    /\ pdu \in Pdus /\ pdu.seq <= MaxSeq

Windows == wBar \in 0..MaxW

Sending ==
    /\ DOMAIN sendingList \subseteq 0..MaxSeq
    /\ sendingList \in [DOMAIN sendingList -> 0..MaxW]
    /\ seqLast \in 0..(MaxSeq + 1)

Missing ==
    /\ DOMAIN missing \subseteq 1..MaxSeq
    /\ \A s \in DOMAIN missing : missing[s] \in 0..MaxW \cup {Garbage}
    /\ rcv = "gap" => gap \in Nat \ {0}
    /\ rcv = "create" => gap \in 1..MaxSeq /\ gapW \in 0..MaxW \cup {Garbage}
    /\ main = "lost" => missingQueue = Main /\ lost \in DOMAIN missing

Flags ==
    /\ slowStart \in BOOLEAN /\ lossPhase \in BOOLEAN /\ haveSpline \in BOOLEAN
    /\ armed \in BOOLEAN /\ receivedPkt \in BOOLEAN

Holders ==
    /\ restartLock \in Profs \cup {Rcv, Main, Tmo, Free}
    /\ missingQueue \in {Rcv, Main, Free}
    /\ cancelled \subseteq Profs

TInv ==
    /\ Numbers /\ Credit /\ SessionCount /\ Packets /\ Windows /\ Sending
    /\ Missing /\ Flags /\ Holders

LEMMA Bounds ==
    /\ MaxSeq \in Nat /\ MaxSeq >= 1 /\ MaxRestarts \in Nat
    /\ MaxW \in Nat /\ MaxW >= 1 /\ MaxCredit \in Nat /\ MaxCredit >= 1
BY VerusAssumption

LEMMA TInvTypes == IInv /\ TInv => TypeOK
BY Bounds DEF IInv, Types, TInv, Numbers, Credit, SessionCount, Packets, Windows,
   Sending, Missing, Flags, Holders, TypeOK, Sessions

LEMMA NoPduType == NoPdu \in Pdus /\ NoPdu.seq = 0
BY Bounds DEF NoPdu, Pdus, Sessions

LEMMA HalloType == \A w \in 0..MaxW : Hallo(w) \in Pdus
BY Bounds DEF Hallo, Pdus, Sessions

LEMMA InitTInv == Init => TInv
<1> SUFFICES ASSUME Init PROVE TInv
  OBVIOUS
<1> USE Bounds DEF Init, ServerInit, ClientInit
<1>1. Numbers /\ Credit /\ SessionCount /\ Windows
  BY DEF Numbers, Credit, SessionCount, Windows
<1>2. Packets
  BY NoPduType, HalloType DEF Packets
<1>3. Sending /\ Missing
  BY DEF Sending, Missing, Empty
<1>4. Flags /\ Holders
  BY Zenon DEF Flags, Holders
<1> QED
  BY <1>1, <1>2, <1>3, <1>4 DEF TInv

-----------------------------------------------------------------------------
(* The steps of the server.                                                *)

LEMMA NumbersStep == TInv /\ ServerNext => Numbers'
<1> SUFFICES ASSUME Numbers, ServerNext PROVE Numbers'
  BY DEF TInv
<1> USE Bounds DEF Numbers, windowVars, sndVars
<1>1. CASE RestartNext
  <2>0. UNCHANGED <<restarts, sndVars, rcvVars, netVars>>
    BY <1>1 DEF RestartNext
  <2>1. CASE RestartReset \/ RestartProfile
    BY <2>0, <2>1 DEF RestartReset, RestartProfile
  <2>2. CASE RestartSession \/ RestartClearSending
    BY <2>0, <2>2 DEF RestartSession, RestartClearSending
  <2>3. CASE RestartClearMissing \/ RestartFirst
    BY <2>0, <2>3 DEF RestartClearMissing, RestartFirst
  <2> QED
    BY <1>1, <2>1, <2>2, <2>3 DEF RestartNext
<1>2. CASE SndThread
  <2>0. UNCHANGED <<seqLast, ssId, haveSpline, missing, lockVars, armed,
                    rcvVars, mainVars, tmo, profVars, rstVars, acks>>
    BY <1>2 DEF SndThread
  <2>1. CASE SndTake \/ SndClear \/ SndRead
    BY <2>0, <2>1 DEF SndTake, SndClear, SndRead
  <2>2. CASE SndWrite \/ SndSend
    BY <2>0, <2>2 DEF SndWrite, SndSend
  <2>3. CASE SndFull \/ SndInsert
    BY <2>0, <2>3 DEF SndFull, SndInsert
  <2> QED
    BY <1>2, <2>1, <2>2, <2>3 DEF SndThread
<1>3. CASE RcvThread
  BY <1>3 DEF RcvThread
<1>4. CASE MainThread
  BY <1>4, Zenon DEF MainThread, MainStart, MainLoss, MainLost, MainSettle, MainDecrement,
     MainMore, MainEpoch, MainOffCurve, MainRestart, MainEnd, MainExit
<1>5. CASE TmoThread \/ ProfThread
  BY <1>5 DEF TmoThread, ProfThread
<1> QED
  BY <1>1, <1>2, <1>3, <1>4, <1>5 DEF ServerNext

LEMMA Positive == \A n \in Int : Most(0, n) \in Nat
BY DEF Most

LEMMA Between == \A m, n \in Nat : Least(m, n) \in Nat /\ Most(m, n) \in Nat
BY DEF Least, Most

LEMMA CreditStep == IInv /\ TInv /\ ServerNext => Credit'
<1> SUFFICES ASSUME Credit, Windows, wCrt \in Int, ServerNext PROVE Credit'
  BY DEF TInv, IInv, Types
<1> USE Bounds DEF Credit, windowVars, sndVars
<1>1. CASE RestartNext
  <2>0. UNCHANGED <<restarts, sndVars, rcvVars, netVars>>
    BY <1>1 DEF RestartNext
  <2>1. CASE RestartReset \/ RestartProfile
    BY <2>0, <2>1 DEF RestartReset, RestartProfile
  <2>2. CASE RestartSession \/ RestartClearSending
    BY <2>0, <2>2 DEF RestartSession, RestartClearSending
  <2>3. CASE RestartClearMissing \/ RestartFirst
    BY <2>0, <2>3 DEF RestartClearMissing, RestartFirst
  <2> QED
    BY <1>1, <2>1, <2>2, <2>3 DEF RestartNext
<1>2. CASE SndThread
  <2>0. UNCHANGED <<seqLast, ssId, haveSpline, missing, lockVars, armed,
                    rcvVars, mainVars, tmo, profVars, rstVars, acks>>
    BY <1>2 DEF SndThread
  <2>1. CASE SndTake \/ SndClear \/ SndRead
    BY <2>0, <2>1 DEF SndTake, SndClear, SndRead
  <2>2. CASE SndWrite \/ SndSend
    BY <2>0, <2>2 DEF SndWrite, SndSend
  <2>3. CASE SndFull \/ SndInsert
    BY <2>0, <2>3 DEF SndFull, SndInsert
  <2> QED
    BY <1>2, <2>1, <2>2, <2>3 DEF SndThread
<1>3. CASE RcvThread
  <2>1. snd' = snd /\ sPkts' = sPkts
    BY <1>3 DEF RcvThread
  <2>2. CASE RcvErase
    <3>1. wBar' \in Int
      BY <2>2 DEF RcvErase, Windows, Least
    <3>2. Most(0, wBar' - wCrt) \in Nat
      <4>1. wBar' - wCrt \in Int
        BY <3>1
      <4> QED
        BY <4>1, Positive
    <3>3. tempS' \in 0..MaxCredit
      BY <2>2, <3>2 DEF RcvErase, Least
    <3> QED
      BY <2>1, <3>3
  <2>3. CASE ~RcvErase
    BY <1>3, <2>1, <2>3, Zenon DEF RcvThread, RcvTake, RcvEarlier, RcvLookup, RcvCreate,
       RcvUpdate, RcvDecrement, RcvLearn, RcvLast
  <2> QED
    BY <2>2, <2>3
<1>4. CASE MainThread
  <2>1. CASE \E p \in acks : MainStart(p)
    BY <2>1 DEF MainStart
  <2>2. CASE /\ MainEpoch
             /\ UNCHANGED <<haveSpline, armed, sndVars, rcvVars, tmo, profVars, netVars>>
    <3>1. ASSUME NEW S \in CalcSi(wBar'), wBar' \in 1..MaxW,
                 tempS' = Least(tempS + S, MaxCredit)
          PROVE  tempS' \in 0..MaxCredit
      <4>1. S \in Nat
        <5> DEFINE rest == Most(0, wBar' - wCrt)
        <5>1. wBar' - wCrt \in Int /\ wBar' \in Nat
          BY <3>1
        <5>2. rest \in Nat
          BY <5>1, Positive
        <5>3. S \in Least(rest, wBar')..Most(rest, wBar')
          BY <3>1 DEF CalcSi
        <5> HIDE DEF rest
        <5>4. Least(rest, wBar') \in Nat /\ Most(rest, wBar') \in Nat
          BY <5>1, <5>2, Between, Zenon
        <5> QED
          BY <5>3, <5>4
      <4> QED
        BY <3>1, <4>1 DEF Least
    <3>2. tempS' \in 0..MaxCredit
      BY <2>2, <3>1 DEF MainEpoch
    <3> QED
      BY <2>2, <3>2
  <2>3. CASE /\ MainLoss \/ MainLost \/ MainSettle \/ MainDecrement \/ MainMore
             /\ UNCHANGED <<haveSpline, armed, sndVars, rcvVars, tmo, profVars, netVars>>
    <3>1. UNCHANGED <<tempS, sPkts, snd>>
      BY <2>3 DEF MainLoss, MainLost, MainSettle, MainDecrement, MainMore
    <3> QED
      BY <3>1
  <2>4. CASE /\ MainOffCurve \/ MainRestart \/ MainEnd \/ MainExit
             /\ UNCHANGED <<haveSpline, armed, sndVars, rcvVars, tmo, profVars, netVars>>
    <3>1. UNCHANGED <<sPkts, snd>> /\ tempS' \in {tempS, 1}
      BY <2>4 DEF MainOffCurve, MainRestart, MainEnd, MainExit
    <3> QED
      BY <3>1
  <2> QED
    BY <1>4, <2>1, <2>2, <2>3, <2>4 DEF MainThread
<1>5. CASE TmoThread \/ ProfThread
  BY <1>5 DEF TmoThread, ProfThread
<1> QED
  BY <1>1, <1>2, <1>3, <1>4, <1>5 DEF ServerNext

LEMMA SessionStep == IInv /\ TInv /\ ServerNext => SessionCount'
<1> SUFFICES ASSUME SessionCount, restarts \in Nat, ServerNext PROVE SessionCount'
  BY Bounds DEF TInv, IInv, Types
<1> USE DEF SessionCount, windowVars, rstVars, RestartLock
<1>1. CASE RestartNext
  <2>0. UNCHANGED <<restarts, sndVars, rcvVars, netVars>>
    BY <1>1 DEF RestartNext
  <2>1. CASE RestartReset \/ RestartProfile
    BY <2>0, <2>1 DEF RestartReset, RestartProfile
  <2>2. CASE RestartSession \/ RestartClearSending
    BY <2>0, <2>2 DEF RestartSession, RestartClearSending
  <2>3. CASE RestartClearMissing \/ RestartFirst
    BY <2>0, <2>3 DEF RestartClearMissing, RestartFirst
  <2> QED
    BY <1>1, <2>1, <2>2, <2>3 DEF RestartNext
<1>2. CASE SndThread \/ RcvThread
  BY <1>2 DEF SndThread, RcvThread
<1>3. CASE MainThread
  <2>1. CASE (\E p \in acks : MainStart(p)) \/ MainLoss \/ MainLost \/ MainSettle \/ MainDecrement
    <3>1. UNCHANGED <<ssId, rst, restarts>>
      BY <2>1, Zenon DEF MainStart, MainLoss, MainLost, MainSettle, MainDecrement
    <3> QED
      BY <3>1
  <2>2. CASE MainMore \/ MainEpoch \/ MainOffCurve \/ MainExit
    <3>1. UNCHANGED <<ssId, rst, restarts>>
      BY <2>2 DEF MainMore, MainEpoch, MainOffCurve, MainExit
    <3> QED
      BY <3>1
  <2>3. CASE MainRestart \/ MainEnd
    BY <2>3 DEF MainRestart, MainEnd
  <2> QED
    BY <1>3, <2>1, <2>2, <2>3 DEF MainThread
<1>4. CASE TmoThread
  BY <1>4 DEF TmoThread, TimeoutHandler, TmoRestart, TmoLast, TmoMissing
<1>5. CASE ProfThread
  BY <1>5 DEF ProfThread, ProfLoop, ProfFit, ProfRestart
<1> QED
  BY <1>1, <1>2, <1>3, <1>4, <1>5 DEF ServerNext

LEMMA PacketsStep == IInv /\ TInv /\ ServerNext => Packets'
<1> SUFFICES ASSUME IInv, TInv, ServerNext PROVE Packets'
  OBVIOUS
<1> USE Bounds, NoPduType DEF TInv, Packets, sndVars, rcvVars, netVars
<1>1. CASE RestartNext
  BY <1>1 DEF RestartNext
<1>2. CASE SndThread
  <2>0. acks' = acks /\ ack' = ack
    BY <1>2 DEF SndThread
  <2>1. CASE SndSend
    <3>1. ssId \in Sessions
      BY DEF SessionCount, IInv, Types, Sessions
    <3>2. pktSeq \in 0..MaxSeq /\ wBar \in 0..MaxW
      BY <2>1 DEF SndSend, Numbers, Windows
    <3>3. pdu' = [ss |-> ssId, seq |-> pktSeq, w |-> wBar] /\ net' = net \cup {pdu'}
      BY <2>1 DEF SndSend
    <3>4. pdu' \in Pdus /\ pdu'.seq <= MaxSeq
      BY <3>1, <3>2, <3>3 DEF Pdus
    <3> QED
      BY <2>0, <3>3, <3>4
  <2>2. CASE ~SndSend
    <3>1. net' = net /\ pdu' \in {pdu, NoPdu}
      BY <1>2, <2>2, Zenon DEF SndThread, SndTake, SndClear, SndRead, SndWrite, SndFull, SndInsert
    <3> QED
      BY <2>0, <3>1
  <2> QED
    BY <2>1, <2>2
<1>3. CASE RcvThread
  <2>1. net' = net /\ pdu' = pdu
    BY <1>3 DEF RcvThread
  <2>2. acks' \subseteq acks
    BY <1>3, Zenon DEF RcvThread, RcvTake, RcvEarlier, RcvLookup, RcvCreate, RcvUpdate,
       RcvDecrement, RcvLearn, RcvLast, RcvErase
  <2>3. ack' \in Pdus
    BY <1>3, Zenon DEF RcvThread, RcvTake, RcvEarlier, RcvLookup, RcvCreate, RcvUpdate,
       RcvDecrement, RcvLearn, RcvLast, RcvErase
  <2> QED
    BY <2>1, <2>2, <2>3
<1>4. CASE MainThread
  BY <1>4 DEF MainThread, MainStart
<1>5. CASE TmoThread \/ ProfThread
  BY <1>5 DEF TmoThread, ProfThread
<1> QED
  BY <1>1, <1>2, <1>3, <1>4, <1>5 DEF ServerNext

\* The scaled windows.
LEMMA Scaled ==
    \A w \in 0..MaxW : /\ (7 * w) \div 10 \in 0..MaxW /\ (49 * w) \div 100 \in 0..MaxW
                       /\ Most(1, (7 * w) \div 10) \in 0..MaxW
                       /\ Least(w + 1, MaxW) \in 0..MaxW
BY Bounds DEF Most, Least

LEMMA WindowsStep == TInv /\ ServerNext => Windows'
<1> SUFFICES ASSUME TInv, ServerNext PROVE Windows'
  OBVIOUS
<1> USE Bounds DEF TInv, Windows, windowVars
<1>1. CASE RestartNext
  <2>1. wBar' \in {wBar, 1}
    BY <1>1, Zenon DEF RestartNext, RestartReset, RestartProfile, RestartSession,
       RestartClearSending, RestartClearMissing, RestartFirst
  <2> QED
    BY <2>1
<1>2. CASE SndThread
  BY <1>2, Scaled, Zenon DEF SndThread, SndTake, SndClear, SndRead, SndWrite, SndSend, SndFull, SndInsert
<1>3. CASE RcvThread
  <2>1. CASE \E p \in acks : RcvTake(p)
    <3> PICK p \in acks : RcvTake(p)
      BY <2>1
    <3>1. p.w \in 0..MaxW
      BY DEF Packets, Pdus
    <3>2. wBar' = wBar \/ wBar' = (7 * p.w) \div 10
      BY DEF RcvTake
    <3> QED
      BY <3>1, <3>2, Scaled
  <2>2. CASE RcvLearn
    <3>1. Least(2, MaxW) \in 0..MaxW
      BY DEF Least
    <3> QED
      BY <2>2, <3>1, Scaled DEF RcvLearn
  <2>3. CASE RcvErase
    BY <2>3, Scaled DEF RcvErase
  <2>4. CASE \/ RcvEarlier \/ RcvLookup \/ RcvCreate \/ RcvUpdate \/ RcvDecrement \/ RcvLast
    BY <2>4 DEF RcvEarlier, RcvLookup, RcvCreate, RcvUpdate, RcvDecrement, RcvLast
  <2> QED
    BY <1>3, <2>1, <2>2, <2>3, <2>4 DEF RcvThread
<1>4. CASE MainThread
  <2>1. CASE MainLost
    <3>1. lost \in DOMAIN missing /\ missing[lost] \in 0..MaxW \cup {Garbage}
      BY <2>1 DEF MainLost, Missing
    <3> PICK w \in 0..MaxW \cup {Garbage} : wBar' \in Decreased(w)
      BY <2>1, <3>1, Zenon DEF MainLost
    <3>2. CASE lossPhase
      BY <3>2 DEF Decreased
    <3>3. CASE ~lossPhase /\ w = Garbage
      BY <3>3 DEF Decreased
    <3>4. CASE ~lossPhase /\ w # Garbage
      <4>1. (7 * w) \div 10 \in 0..MaxW
        BY <3>4, Scaled
      <4> HIDE DEF Windows
      <4>2. wBar' = Least(wBar, (7 * w) \div 10)
        BY <3>4 DEF Decreased
      <4> QED
        BY <4>1, <4>2 DEF Least, Windows
    <3> QED
      BY <3>2, <3>3, <3>4
  <2>2. CASE (\E p \in acks : MainStart(p)) \/ MainLoss \/ MainSettle \/ MainDecrement \/ MainMore
    BY <2>2, Zenon DEF MainStart, MainLoss, MainSettle, MainDecrement, MainMore
  <2>3. CASE MainEpoch
    BY <2>3 DEF MainEpoch
  <2>4. CASE MainOffCurve \/ MainRestart \/ MainEnd \/ MainExit
    BY <2>4 DEF MainOffCurve, MainRestart, MainEnd, MainExit
  <2> QED
    BY <1>4, <2>1, <2>2, <2>3, <2>4 DEF MainThread
<1>5. CASE TmoThread \/ ProfThread
  BY <1>5 DEF TmoThread, ProfThread
<1> QED
  BY <1>1, <1>2, <1>3, <1>4, <1>5 DEF ServerNext

\* The last packet of a sending list that is not empty.
LEMMA LastSent ==
    ASSUME Sending, sendingList # Empty
    PROVE  Max(DOMAIN sendingList) \in 0..(MaxSeq + 1)
<1>0. DOMAIN sendingList # {}
  BY DEF Sending, Empty
<1>1. Max(DOMAIN sendingList) \in DOMAIN sendingList
  BY <1>0, Bounds, GreatestOf DEF Sending
<1> QED
  BY <1>1, Bounds DEF Sending

LEMMA HoldersStep == IInv /\ TInv /\ ServerNext => Holders'
<1> SUFFICES ASSUME Holders, tid \in Profs, ServerNext PROVE Holders'
  BY DEF TInv, IInv, Types
<1> USE DEF Holders, lockVars, profVars, RestartLock
<1>1. CASE RestartNext
  <2>0. UNCHANGED <<restarts, sndVars, rcvVars, netVars>>
    BY <1>1 DEF RestartNext
  <2>1. CASE RestartReset \/ RestartProfile
    BY <2>0, <2>1 DEF RestartReset, RestartProfile
  <2>2. CASE RestartSession \/ RestartClearSending
    BY <2>0, <2>2 DEF RestartSession, RestartClearSending
  <2>3. CASE RestartClearMissing \/ RestartFirst
    BY <2>0, <2>3 DEF RestartClearMissing, RestartFirst
  <2> QED
    BY <1>1, <2>1, <2>2, <2>3 DEF RestartNext
<1>2. CASE SndThread
  BY <1>2 DEF SndThread
<1>3. CASE RcvThread
  <2>1. restartLock' \in {restartLock, Rcv, Free} /\ missingQueue' \in {missingQueue, Rcv, Free}
    BY <1>3, Zenon DEF RcvThread, RcvTake, RcvEarlier, RcvLookup, RcvCreate, RcvUpdate,
       RcvDecrement, RcvLearn, RcvLast, RcvErase
  <2> QED
    BY <1>3, <2>1 DEF RcvThread
<1>4. CASE MainThread
  BY <1>4, Zenon DEF MainThread, MainStart, MainLoss, MainLost, MainSettle, MainDecrement,
     MainMore, MainEpoch, MainOffCurve, MainRestart, MainEnd, MainExit
<1>5. CASE TmoThread
  BY <1>5 DEF TmoThread, TimeoutHandler, TmoRestart, TmoLast, TmoMissing
<1>6. CASE ProfThread
  BY <1>6 DEF ProfThread, ProfLoop, ProfFit, ProfRestart
<1> QED
  BY <1>1, <1>2, <1>3, <1>4, <1>5, <1>6 DEF ServerNext

LEMMA SendingStep == TInv /\ ServerNext => Sending'
<1> SUFFICES ASSUME TInv, ServerNext PROVE Sending'
  OBVIOUS
<1>0. /\ Sending
      /\ UNCHANGED <<sendingList, seqLast>> => Sending'
      /\ sendingList' = Empty /\ seqLast' \in 0..(MaxSeq + 1) => Sending'
      /\ \A s : sendingList' = Without(sendingList, s) /\ seqLast' = seqLast => Sending'
  <2>1. Sending
    BY DEF TInv
  <2>2. UNCHANGED <<sendingList, seqLast>> => Sending'
    BY <2>1 DEF Sending
  <2>3. sendingList' = Empty /\ seqLast' \in 0..(MaxSeq + 1) => Sending'
    BY DEF Sending, Empty
  <2>4. ASSUME NEW s, sendingList' = Without(sendingList, s), seqLast' = seqLast
        PROVE  Sending'
    BY <2>1, <2>4 DEF Sending, Without
  <2> QED
    BY <2>1, <2>2, <2>3, <2>4
<1>n. 0 \in 0..(MaxSeq + 1)
  BY Bounds
<1> USE <1>0 DEF windowVars, listVars
<1>1. CASE RestartNext
  <2>1. CASE RestartReset
    <3>1. sendingList' = sendingList /\ seqLast' = 0
      BY <2>1 DEF RestartReset
    <3> QED
      BY <1>n, <3>1 DEF Sending
  <2>2. CASE RestartClearSending
    BY <2>2 DEF RestartClearSending, Sending
  <2>3. CASE RestartProfile \/ RestartSession \/ RestartClearMissing \/ RestartFirst
    BY <2>3 DEF RestartProfile, RestartSession, RestartClearMissing, RestartFirst
  <2> QED
    BY <1>1, <2>1, <2>2, <2>3 DEF RestartNext
<1>2. CASE SndThread
  <2>0. seqLast' = seqLast
    BY <1>2 DEF SndThread
  <2>1. CASE SndInsert
    <3>1. sendingList' = With(sendingList, pdu.seq, pdu.w)
      BY <2>1 DEF SndInsert
    <3>2. pdu.seq \in 0..MaxSeq /\ pdu.w \in 0..MaxW
      BY Bounds DEF TInv, Packets, Pdus
    <3> QED
      BY <2>0, <3>1, <3>2 DEF With, Sending
  <2>2. CASE SndTake \/ SndClear \/ SndRead \/ SndWrite \/ SndSend \/ SndFull
    BY <2>0, <2>2, Zenon DEF SndTake, SndClear, SndRead, SndWrite, SndSend, SndFull
  <2> QED
    BY <1>2, <2>1, <2>2 DEF SndThread
<1>3. CASE RcvThread
  <2>1. CASE RcvLast
    <3>1. ack.seq \in 0..(MaxSeq + 1)
      BY DEF TInv, Packets, Pdus
    <3>2. sendingList' = sendingList /\ seqLast' = ack.seq
      BY <2>1 DEF RcvLast
    <3> QED
      BY <3>1, <3>2 DEF Sending
  <2>2. CASE RcvErase
    BY <2>2 DEF RcvErase
  <2>3. CASE (\E p \in acks : RcvTake(p)) \/ RcvEarlier \/ RcvLookup \/ RcvCreate
    BY <2>3, Zenon DEF RcvTake, RcvEarlier, RcvLookup, RcvCreate
  <2>4. CASE RcvUpdate \/ RcvDecrement \/ RcvLearn
    BY <2>4 DEF RcvUpdate, RcvDecrement, RcvLearn
  <2> QED
    BY <1>3, <2>1, <2>2, <2>3, <2>4 DEF RcvThread
<1>4. CASE MainThread
  <2>1. CASE MainLost
    <3>1. sendingList' = sendingList
      BY <2>1 DEF MainLost
    <3>2. \/ seqLast' = seqLast
          \/ sendingList # Empty /\ seqLast' = Max(DOMAIN sendingList)
      BY <2>1, Zenon DEF MainLost
    <3>3. seqLast' \in 0..(MaxSeq + 1)
      BY <3>2, LastSent DEF Sending
    <3> QED
      BY <3>1, <3>3 DEF Sending
  <2>2. CASE MainSettle
    BY <2>2 DEF MainSettle
  <2>3. CASE (\E p \in acks : MainStart(p)) \/ MainLoss \/ MainDecrement \/ MainMore
    BY <2>3 DEF MainStart, MainLoss, MainDecrement, MainMore
  <2>4. CASE MainEpoch \/ MainOffCurve \/ MainRestart \/ MainEnd \/ MainExit
    BY <2>4 DEF MainEpoch, MainOffCurve, MainRestart, MainEnd, MainExit
  <2> QED
    BY <1>4, <2>1, <2>2, <2>3, <2>4 DEF MainThread
<1>5. CASE TmoThread
  <2>1. CASE TmoLast
    <3>1. seqLast' \in 0..(MaxSeq + 1)
      BY <2>1, LastSent DEF TmoLast, Sending
    <3> QED
      BY <2>1, <3>1 DEF TmoLast
  <2>2. CASE TimeoutHandler \/ TmoRestart \/ TmoMissing
    BY <2>2 DEF TimeoutHandler, TmoRestart, TmoMissing
  <2> QED
    BY <1>5, <2>1, <2>2 DEF TmoThread
<1>6. CASE ProfThread
  BY <1>6 DEF ProfThread
<1> QED
  BY <1>1, <1>2, <1>3, <1>4, <1>5, <1>6 DEF ServerNext

\* The first missing packet.
LEMMA FirstMissing ==
    ASSUME Missing, DOMAIN missing # {} PROVE Min(DOMAIN missing) \in DOMAIN missing
<1>1. DOMAIN missing \subseteq Nat
  BY Bounds DEF Missing
<1> QED
  BY <1>1, LeastOf

LEMMA MissingStep == TInv /\ ServerNext => Missing'
<1> SUFFICES ASSUME TInv, ServerNext PROVE Missing'
  OBVIOUS
<1>0. Missing /\ Main # Free /\ Main # Rcv
  BY LockNames DEF TInv
<1> DEFINE Queue == /\ DOMAIN missing \subseteq 1..MaxSeq
                    /\ \A s \in DOMAIN missing : missing[s] \in 0..MaxW \cup {Garbage}
           Gap == /\ rcv = "gap" => gap \in Nat \ {0}
                  /\ rcv = "create" => gap \in 1..MaxSeq /\ gapW \in 0..MaxW \cup {Garbage}
           Lost == main = "lost" => missingQueue = Main /\ lost \in DOMAIN missing
<1>q. Queue /\ (UNCHANGED missing \/ missing' = Empty => Queue')
      /\ \A s : missing' = Without(missing, s) => Queue'
  BY <1>0 DEF Missing, Empty, Without
<1>g. Gap /\ (UNCHANGED <<rcv, gap, gapW>> \/ rcv' \notin {"gap", "create"} => Gap')
  BY <1>0 DEF Missing
<1>l. Lost /\ (UNCHANGED <<main, lost, missing, missingQueue>> \/ main' # "lost" => Lost')
  BY <1>0 DEF Missing
<1>e. missingQueue = Free /\ main' = main => Lost'
  BY <1>0, <1>l
<1>a. Queue' /\ Gap' /\ Lost' => Missing'
  BY DEF Missing
<1> HIDE DEF Queue, Gap, Lost
<1> USE DEF listVars, lockVars, mainVars, rcvVars
<1>1. CASE RestartNext
  <2>0. Gap'
    BY <1>1, <1>g DEF RestartNext
  <2>1. CASE RestartClearMissing
    BY <2>0, <2>1, <1>q, <1>e, <1>a DEF RestartClearMissing
  <2>2. CASE RestartFirst
    <3>1. /\ UNCHANGED <<missing, missingQueue, lost>>
          /\ main' = main \/ main' # "lost"
      BY <2>2 DEF RestartFirst
    <3> QED
      BY <2>0, <3>1, <1>q, <1>l, <1>a
  <2>3. CASE RestartReset \/ RestartProfile \/ RestartSession \/ RestartClearSending
    <3>1. UNCHANGED <<main, lost, missing, missingQueue>>
      BY <2>3 DEF RestartReset, RestartProfile, RestartSession, RestartClearSending
    <3> QED
      BY <2>0, <3>1, <1>q, <1>l, <1>a
  <2> QED
    BY <1>1, <2>1, <2>2, <2>3 DEF RestartNext
<1>2. CASE SndThread
  BY <1>2, <1>q, <1>g, <1>l, <1>a DEF SndThread
<1>3. CASE RcvThread
  <2>0. main' = main /\ lost' = lost
    BY <1>3 DEF RcvThread
  <2>1. CASE \E p \in acks : RcvTake(p)
    <3> PICK p \in acks : RcvTake(p)
      BY <2>1
    <3>1. UNCHANGED <<missing, missingQueue>>
      BY DEF RcvTake
    <3>2. Gap'
      <4>1. CASE UNCHANGED rcvVars
        BY <4>1, <1>g
      <4>2. CASE rcv' = Branch(p) /\ gap' = IF Branch(p) = "gap" THEN seqLast + 1 ELSE 0
        <5>1. seqLast + 1 \in Nat \ {0}
          BY Bounds DEF TInv, Sending
        <5>2. Branch(p) \in {"update", "earlier", "gap"}
          BY DEF Branch
        <5> HIDE DEF rcvVars
        <5> QED
          BY <4>2, <5>1, <5>2 DEF Gap
      <4> QED
        BY <4>1, <4>2 DEF RcvTake
    <3> QED
      BY <2>0, <3>1, <3>2, <1>q, <1>l, <1>a
  <2>2. CASE RcvEarlier
    <3>1. rcv' \notin {"gap", "create"}
      BY <2>2 DEF RcvEarlier, AfterUpdate
    <3>2. missing' = missing \/ missing' = Without(missing, ack.seq)
      BY <2>2, Zenon DEF RcvEarlier
    <3>3. missingQueue = Free
      BY <2>2 DEF RcvEarlier
    <3> QED
      BY <2>0, <3>1, <3>2, <3>3, <1>q, <1>g, <1>e, <1>a
  <2>3. CASE RcvLookup
    <3>1. UNCHANGED <<missing, missingQueue>>
      BY <2>3 DEF RcvLookup
    <3>2. CASE gap >= ack.seq /\ rcv' = "update"
      BY <2>0, <3>1, <3>2, <1>q, <1>g, <1>l, <1>a
    <3>3. CASE /\ gap < ack.seq /\ rcv' = "create"
               /\ gapW' = IF gap \in DOMAIN sendingList THEN sendingList[gap] ELSE Garbage
      <4>1. gap \in Nat \ {0} /\ gap' = gap
        BY <2>3, <1>g DEF RcvLookup, Gap
      <4>2. ack.seq \in 0..(MaxSeq + 1)
        BY DEF TInv, Packets, Pdus
      <4>3. gap' \in 1..MaxSeq
        BY <3>3, <4>1, <4>2, Bounds
      <4>4. gapW' \in 0..MaxW \cup {Garbage}
        BY <3>3 DEF TInv, Sending
      <4>5. Gap'
        BY <3>3, <4>3, <4>4 DEF Gap
      <4> QED
        BY <2>0, <3>1, <4>5, <1>q, <1>l, <1>a
    <3> QED
      BY <2>3, <3>2, <3>3 DEF RcvLookup
  <2>4. CASE RcvCreate
    <3>1. gap \in 1..MaxSeq /\ gapW \in 0..MaxW \cup {Garbage}
      BY <2>4, <1>g DEF RcvCreate, Gap
    <3>2. missing' = With(missing, gap, gapW) /\ missingQueue = Free
      BY <2>4 DEF RcvCreate
    <3>3. Queue'
      BY <3>1, <3>2, <1>q DEF Queue, With
    <3>4. Gap'
      BY <2>4, <3>1, Bounds DEF RcvCreate, Gap
    <3> QED
      BY <2>0, <3>2, <3>3, <3>4, <1>e, <1>a
  <2>5. CASE RcvUpdate \/ RcvDecrement \/ RcvLast \/ RcvErase
    <3>1. UNCHANGED <<missing, missingQueue>> /\ rcv' \notin {"gap", "create"}
      BY <2>5 DEF RcvUpdate, RcvDecrement, RcvLast, RcvErase
    <3> QED
      BY <2>0, <3>1, <1>q, <1>g, <1>l, <1>a
  <2>6. CASE RcvLearn
    <3>1. missing' = missing /\ rcv' \notin {"gap", "create"}
      BY <2>6 DEF RcvLearn, AfterUpdate
    <3>2. missingQueue = Main => missingQueue' = Main
      BY <2>6, <1>0 DEF RcvLearn
    <3>3. Lost'
      BY <2>0, <3>1, <3>2, <1>l DEF Lost
    <3> QED
      BY <3>1, <3>3, <1>q, <1>g, <1>a
  <2> QED
    BY <1>3, <2>1, <2>2, <2>3, <2>4, <2>5, <2>6 DEF RcvThread
<1>4. CASE MainThread
  <2>1. CASE \E p \in acks : MainStart(p)
    <3>1. missing' = missing /\ main' = "loop" /\ rcv' = "recv"
      BY <2>1 DEF MainStart
    <3> QED
      BY <3>1, <1>q, <1>g, <1>l, <1>a
  <2>2. CASE ~ \E p \in acks : MainStart(p)
    <3>0. Gap'
      BY <1>4, <2>2, <1>g DEF MainThread
    <3>1. CASE MainLoss
      <4>1. /\ missing' = missing /\ missingQueue' = Main /\ DOMAIN missing # {}
            /\ lost' = Min(DOMAIN missing)
        BY <3>1 DEF MainLoss
      <4>2. lost' \in DOMAIN missing'
        BY <4>1, <1>0, FirstMissing
      <4> QED
        BY <3>0, <4>1, <4>2, <1>q, <1>a DEF Lost
    <3>2. CASE MainLost
      <4>1. main' # "lost" /\ (missing' = missing \/ missing' = Empty)
        BY <3>2, Zenon DEF MainLost
      <4> QED
        BY <3>0, <4>1, <1>q, <1>l, <1>a
    <3>3. CASE MainSettle \/ MainDecrement \/ MainMore
      <4>1. main' # "lost" /\ (missing' = missing \/ missing' = Without(missing, lost))
        BY <3>3 DEF MainSettle, MainDecrement, MainMore
      <4> QED
        BY <3>0, <4>1, <1>q, <1>l, <1>a
    <3>4. CASE MainEpoch \/ MainOffCurve \/ MainRestart \/ MainEnd \/ MainExit
      <4>1. main' # "lost" /\ missing' = missing
        BY <3>4 DEF MainEpoch, MainOffCurve, MainRestart, MainEnd, MainExit
      <4> QED
        BY <3>0, <4>1, <1>q, <1>l, <1>a
    <3> QED
      BY <1>4, <2>2, <3>1, <3>2, <3>3, <3>4 DEF MainThread
  <2> QED
    BY <2>1, <2>2
<1>5. CASE TmoThread
  <2>1. Gap' /\ main' = main /\ lost' = lost /\ missingQueue' = missingQueue
    BY <1>5, <1>g DEF TmoThread
  <2>2. missing' = missing \/ (missing' = Empty /\ missingQueue = Free)
    BY <1>5 DEF TmoThread, TimeoutHandler, TmoRestart, TmoLast, TmoMissing
  <2> QED
    BY <2>1, <2>2, <1>q, <1>e, <1>l, <1>a
<1>6. CASE ProfThread
  BY <1>6, <1>q, <1>g, <1>l, <1>a DEF ProfThread
<1> QED
  BY <1>1, <1>2, <1>3, <1>4, <1>5, <1>6 DEF ServerNext

LEMMA FlagsStep == TInv /\ ServerNext /\ UNCHANGED clientVars => Flags'
<1> SUFFICES ASSUME TInv, ServerNext, UNCHANGED clientVars PROVE Flags'
  OBVIOUS
<1>0. Flags /\ receivedPkt' = receivedPkt
  BY DEF TInv, clientVars
<1> DEFINE Phase == /\ slowStart' \in {slowStart, TRUE, FALSE}
                    /\ lossPhase' \in {lossPhase, TRUE, FALSE}
                    /\ haveSpline' \in {haveSpline, TRUE, FALSE}
                    /\ armed' \in {armed, TRUE, FALSE}
<1>a. Phase => Flags'
  BY <1>0, Zenon DEF Flags
<1> USE DEF phaseVars
<1>1. CASE RestartNext
  <2>1. Phase
    BY <1>1, Zenon DEF RestartNext, RestartReset, RestartProfile, RestartSession,
       RestartClearSending, RestartClearMissing, RestartFirst
  <2> QED
    BY <2>1, <1>a, Zenon
<1>2. CASE SndThread
  <2>1. Phase
    BY <1>2, Zenon DEF SndThread, SndTake, SndClear, SndRead, SndWrite, SndSend, SndFull, SndInsert
  <2> QED
    BY <2>1, <1>a, Zenon
<1>3. CASE RcvThread
  <2>0. haveSpline' = haveSpline
    BY <1>3 DEF RcvThread
  <2>1. CASE \E p \in acks : RcvTake(p)
    <3> PICK p \in acks : RcvTake(p)
      BY <2>1
    <3>1. armed' \in {armed, TRUE}
      BY Zenon DEF RcvTake
    <3>2. slowStart' \in BOOLEAN /\ lossPhase' \in BOOLEAN
      <4>1. CASE UNCHANGED <<slowStart, lossPhase>>
        BY <4>1, <1>0 DEF Flags
      <4>2. CASE \E exit \in {FALSE, slowStart} :
                   /\ slowStart' = (slowStart /\ ~exit)
                   /\ lossPhase' = ((lossPhase \/ exit) /\ p.w > wBar')
        BY <4>2, Zenon
      <4> QED
        BY <4>1, <4>2, Zenon DEF RcvTake
    <3> QED
      BY <2>0, <3>1, <3>2, <1>0, Zenon DEF Flags
  <2>2. CASE \/ RcvEarlier \/ RcvLookup \/ RcvCreate \/ RcvUpdate \/ RcvDecrement
             \/ RcvLearn \/ RcvLast \/ RcvErase
    <3>1. Phase
      BY <2>0, <2>2, Zenon DEF RcvEarlier, RcvLookup, RcvCreate, RcvUpdate, RcvDecrement,
         RcvLearn, RcvLast, RcvErase
    <3> QED
      BY <3>1, <1>a, Zenon
  <2> QED
    BY <1>3, <2>1, <2>2 DEF RcvThread
<1>4. CASE MainThread
  <2>1. Phase
    BY <1>4, Zenon DEF MainThread, MainStart, MainLoss, MainLost, MainSettle, MainDecrement,
       MainMore, MainEpoch, MainOffCurve, MainRestart, MainEnd, MainExit
  <2> QED
    BY <2>1, <1>a, Zenon
<1>5. CASE TmoThread
  <2>1. Phase
    BY <1>5, Zenon DEF TmoThread, TimeoutHandler, TmoRestart, TmoLast, TmoMissing
  <2> QED
    BY <2>1, <1>a, Zenon
<1>6. CASE ProfThread
  <2>1. Phase
    BY <1>6, Zenon DEF ProfThread, ProfLoop, ProfFit, ProfRestart
  <2> QED
    BY <2>1, <1>a, Zenon
<1> QED
  BY <1>1, <1>2, <1>3, <1>4, <1>5, <1>6 DEF ServerNext

-----------------------------------------------------------------------------
(* The steps of the client, and the theorem.                               *)

\* A step that changes nothing of the server.
LEMMA ServerRests ==
    ASSUME TInv, UNCHANGED serverVars
    PROVE  (Numbers /\ Credit /\ SessionCount /\ Windows /\ Sending /\ Missing /\ Holders)'
<1>1. UNCHANGED <<windowVars, listVars, lockVars, sndVars, rcvVars, mainVars, profVars, rstVars>>
  BY DEF serverVars
<1>2. (Numbers /\ Credit)'
  BY <1>1 DEF TInv, Numbers, Credit, windowVars, sndVars
<1>3. (SessionCount /\ Windows)'
  BY <1>1 DEF TInv, SessionCount, Windows, windowVars, rstVars
<1>4. Sending'
  BY <1>1 DEF TInv, Sending, windowVars, listVars
<1>5. Missing'
  BY <1>1 DEF TInv, Missing, listVars, rcvVars, mainVars, lockVars
<1>6. Holders'
  BY <1>1 DEF TInv, Holders, lockVars, profVars
<1> QED
  BY <1>2, <1>3, <1>4, <1>5, <1>6

LEMMA ClientTInv ==
    TInv /\ (ClientHallo \/ \E p \in net : ClientEcho(p)) => TInv'
<1> SUFFICES ASSUME TInv, ClientHallo \/ \E p \in net : ClientEcho(p) PROVE TInv'
  OBVIOUS
<1>1. UNCHANGED serverVars
  BY DEF ClientHallo, ClientEcho
<1>2. (Numbers /\ Credit /\ SessionCount /\ Windows /\ Sending /\ Missing /\ Holders)'
  BY <1>1, ServerRests
<1>3. UNCHANGED <<slowStart, lossPhase, haveSpline, armed, pdu, ack>>
  BY <1>1 DEF serverVars, phaseVars, sndVars, rcvVars
<1>4. receivedPkt' \in {receivedPkt, TRUE}
  BY Zenon DEF ClientHallo, ClientEcho, ClientRecv
<1>5. Flags'
  BY <1>3, <1>4, Zenon DEF TInv, Flags
<1>6. net' \subseteq Pdus /\ acks' \subseteq Pdus
  BY HalloType DEF TInv, Packets, ClientHallo, ClientEcho, ClientRecv, ClientSend
<1>7. Packets'
  BY <1>3, <1>6 DEF TInv, Packets
<1> QED
  BY <1>2, <1>5, <1>7 DEF TInv

LEMMA NextTInv == IInv /\ TInv /\ [Next]_vars => TInv'
<1> SUFFICES ASSUME IInv, TInv, [Next]_vars PROVE TInv'
  OBVIOUS
<1>1. CASE ServerNext /\ UNCHANGED clientVars
  BY <1>1, NumbersStep, CreditStep, SessionStep, PacketsStep, WindowsStep, SendingStep,
     MissingStep, FlagsStep, HoldersStep, Zenon DEF TInv
<1>2. CASE ClientHallo \/ \E p \in net : ClientEcho(p)
  BY <1>2, ClientTInv
<1>3. CASE UNCHANGED vars
  <2>1. UNCHANGED serverVars /\ UNCHANGED netVars /\ UNCHANGED clientVars
    BY <1>3 DEF vars
  <2>2. (Numbers /\ Credit /\ SessionCount /\ Windows /\ Sending /\ Missing /\ Holders)'
    BY <2>1, ServerRests
  <2>3. Flags' /\ Packets'
    BY <2>1 DEF TInv, Flags, Packets, serverVars, netVars, clientVars, phaseVars, sndVars, rcvVars
  <2> QED
    BY <2>2, <2>3 DEF TInv
<1> QED
  BY <1>1, <1>2, <1>3 DEF Next

\* Every number of the sender and of its packets stays in its range: the batch
\* is never overdrawn, pktSeq is taken back at most to -1, a packet that is
\* found missing is one between the last ACK and this one, and the window
\* read for a lost packet is that of a packet in the queue
\* (verus_server.cpp:320-388, 512-603 and 605-706).
THEOREM VerusTypes == Spec => []TypeOK
BY InitIInv, Inductive, InitTInv, NextTInv, TInvTypes, PTL DEF Spec

=============================================================================
