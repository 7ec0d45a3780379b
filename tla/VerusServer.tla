---------------------------- MODULE VerusServer ----------------------------
(***************************************************************************)
(* The Verus sender, src/verus/src/verus_server.cpp: its five threads over *)
(* their shared globals.  Delays and the delay curve are left out: where   *)
(* the code compares delays or evaluates the curve, every outcome it can   *)
(* have is possible.  Windows are rounded down, as they are wherever they  *)
(* leave a double.                                                         *)
(*                                                                         *)
(* restartLock and missingQueue are held across several steps, so they are *)
(* variables.  lockSendingList, lockWList and lockSPline protect sections  *)
(* that take no other lock; each such section is part of one step.         *)
(***************************************************************************)
EXTENDS Integers, FiniteSets, FiniteSetsExt

CONSTANTS
    MaxSeq,       \* bound: packets of a session
    MaxRestarts,  \* bound: calls of restartSlowStart
    MaxW,         \* bound: windows, MAX_W_DELAY_CURVE
    SlowExit,     \* the window above which a loss ends slow start (20)
    MaxCredit,    \* bound: tempS saturates here
    Ends          \* timeToRun may be over

ASSUME VerusAssumption ==
    /\ MaxSeq \in Nat \ {0} /\ MaxRestarts \in Nat /\ MaxW \in Nat \ {0}
    /\ SlowExit \in Nat \ {0} /\ MaxCredit \in Nat \ {0} /\ Ends \in BOOLEAN

\* Threads that take a lock: the delay profile threads are numbered from 0 in
\* the order of their creation.
Rcv == -1
Main == -2
Tmo == -3
Free == -4
Profs == 0..MaxRestarts

VARIABLES
    pktSeq, seqLast, ssId, wBar, wCrt, tempS,
    slowStart, lossPhase, haveSpline,
    sendingList,            \* seq -> w
    missing,                \* missingsequence_queue: seq -> w
    restartLock, missingQueue,
    armed,                  \* the timer has a wait whose handler has not run
    snd, sPkts, inc, pdu,   \* the sending thread, its batch, what pktSeq++
                            \* has read, the packet being sent
    rcv, ack, gap, gapW,    \* the receiver, its packet, the i of its loop
                            \* and the window found for it
    main, lost,             \* main and the expired packet
    tmo,                    \* the timeout thread
    prof,                   \* prof[k]: the k-th delay profile thread
    tid, cancelled,         \* delayProfile_tid, the threads with a cancel pending
    rst, restarts,          \* where restartSlowStart is; how often it was called
    net, acks               \* packets on their way to the client and back

windowVars == <<pktSeq, seqLast, ssId, wBar, wCrt, tempS>>
phaseVars == <<slowStart, lossPhase, haveSpline>>
listVars == <<sendingList, missing>>
lockVars == <<restartLock, missingQueue>>
sndVars == <<snd, sPkts, inc, pdu>>
rcvVars == <<rcv, ack, gap, gapW>>
mainVars == <<main, lost>>
profVars == <<prof, tid, cancelled>>
rstVars == <<rst, restarts>>
netVars == <<net, acks>>

\* What find() yields for a packet that is not in the list: end()->second.
Garbage == -1

NoPdu == [ss |-> 0, seq |-> 0, w |-> 0]
Empty == [s \in {} |-> 0]
With(f, s, w) == [x \in DOMAIN f \cup {s} |-> IF x = s THEN w ELSE f[x]]
Without(f, s) == [x \in DOMAIN f \ {s} |-> f[x]]
Least(a, b) == IF a < b THEN a ELSE b
Most(a, b) == IF a > b THEN a ELSE b

ServerInit ==
    /\ pktSeq = 0 /\ seqLast = 0 /\ ssId = 0 /\ wBar = 1 /\ wCrt = 0
    /\ tempS = 0
    /\ slowStart = TRUE /\ lossPhase = FALSE /\ haveSpline = FALSE
    /\ sendingList = Empty /\ missing = Empty
    /\ restartLock = Free /\ missingQueue = Free
    /\ armed = FALSE
    /\ snd = "off" /\ sPkts = 0 /\ inc = 0 /\ pdu = NoPdu
    /\ rcv = "off" /\ ack = NoPdu /\ gap = 0 /\ gapW = 0
    /\ main = "wait" /\ lost = 0
    /\ tmo = "off"
    /\ prof = [k \in Profs |-> "none"] /\ tid = 0 /\ cancelled = {}
    /\ rst = "none" /\ restarts = 0

-----------------------------------------------------------------------------
(* restartSlowStart, called by main, by the timeout handler and by the     *)
(* delay profile thread.  rst says how far the holder of restartLock is.   *)

RestartLock(t) ==
    /\ restartLock = Free
    /\ restarts < MaxRestarts
    /\ restartLock' = t
    /\ rst' = "reset"
    /\ restarts' = restarts + 1

RestartReset ==
    /\ rst = "reset"
    /\ seqLast' = 0 /\ wBar' = 1 /\ wCrt' = 0 /\ pktSeq' = 0
    /\ slowStart' = TRUE /\ lossPhase' = FALSE /\ haveSpline' = FALSE
    /\ rst' = "profile"
    /\ UNCHANGED <<ssId, tempS, listVars, lockVars, armed, mainVars, tmo,
                   profVars>>

\* Variant: the previous delay profile thread is left running.
RestartProfileNoCancel ==
    /\ rst = "profile"
    /\ tid' = restarts
    /\ prof' = [prof EXCEPT ![restarts] = "loop"]
    /\ rst' = "session"
    /\ UNCHANGED <<windowVars, phaseVars, listVars, lockVars, armed, mainVars,
                   tmo, cancelled>>

\* pthread_cancel of the delay profile thread, which is pending until the
\* thread sleeps, and pthread_create of the next one.
RestartProfile ==
    /\ rst = "profile"
    /\ cancelled' = cancelled \cup {tid}
    /\ tid' = restarts
    /\ prof' = [prof EXCEPT ![restarts] = "loop"]
    /\ rst' = "session"
    /\ UNCHANGED <<windowVars, phaseVars, listVars, lockVars, armed, mainVars,
                   tmo>>

RestartSession ==
    /\ rst = "session"
    /\ ssId' = ssId + 1
    /\ rst' = "sending"
    /\ UNCHANGED <<pktSeq, seqLast, wBar, wCrt, tempS, phaseVars, listVars,
                   lockVars, armed, mainVars, tmo, profVars>>

RestartClearSending ==
    /\ rst = "sending"
    /\ sendingList' = Empty
    /\ rst' = "missing"
    /\ UNCHANGED <<windowVars, phaseVars, missing, lockVars, armed, mainVars,
                   tmo, profVars>>

RestartClearMissing ==
    /\ rst = "missing"
    /\ missingQueue = Free
    /\ missing' = Empty
    /\ rst' = "first"
    /\ UNCHANGED <<windowVars, phaseVars, sendingList, lockVars, armed,
                   mainVars, tmo, profVars>>

\* The first packet of the new session, the timer and the unlock; main goes on
\* with its next epoch, the handler returns, and a delay profile thread ends:
\* it returns, or sleeps with the cancellation it has just asked for pending.
RestartFirst ==
    /\ rst = "first"
    /\ tempS' = 1
    /\ armed' = TRUE
    /\ restartLock' = Free
    /\ rst' = "none"
    /\ main' = IF restartLock = Main THEN "loop" ELSE main
    /\ tmo' = IF restartLock = Tmo THEN "idle" ELSE tmo
    /\ prof' = IF restartLock \in Profs
               THEN [prof EXCEPT ![restartLock] = "done"] ELSE prof
    /\ UNCHANGED <<pktSeq, seqLast, ssId, wBar, wCrt, phaseVars, listVars,
                   missingQueue, lost, tid, cancelled>>

RestartNext ==
    /\ \/ RestartReset \/ RestartProfile \/ RestartSession
       \/ RestartClearSending \/ RestartClearMissing \/ RestartFirst
    /\ UNCHANGED <<restarts, sndVars, rcvVars, netVars>>

-----------------------------------------------------------------------------
(* sending_thread.  Taking the credit and clearing it are two steps, and   *)
(* so are the read and the write of pktSeq++.                              *)

SndTake ==
    /\ snd = "idle"
    /\ tempS > 0
    /\ sPkts' = tempS
    /\ snd' = "clear"
    /\ UNCHANGED <<pktSeq, wBar, wCrt, tempS, slowStart, lossPhase,
                   sendingList, inc, pdu, net>>

SndClear ==
    /\ snd = "clear"
    /\ tempS' = 0
    /\ snd' = "next"
    /\ UNCHANGED <<pktSeq, wBar, wCrt, slowStart, lossPhase, sendingList,
                   sPkts, inc, pdu, net>>

SndRead ==
    /\ snd = "next"
    /\ pktSeq < MaxSeq
    /\ inc' = pktSeq
    /\ snd' = "write"
    /\ UNCHANGED <<pktSeq, wBar, wCrt, tempS, slowStart, lossPhase,
                   sendingList, sPkts, pdu, net>>

SndWrite ==
    /\ snd = "write"
    /\ pktSeq' = inc + 1
    /\ inc' = 0
    /\ snd' = "send"
    /\ UNCHANGED <<wBar, wCrt, tempS, slowStart, lossPhase, sendingList, sPkts,
                   pdu, net>>

SndSend ==
    /\ snd = "send"
    /\ pdu' = [ss |-> ssId, seq |-> pktSeq, w |-> wBar]
    /\ net' = net \cup {pdu'}
    /\ snd' = "insert"
    /\ UNCHANGED <<pktSeq, wBar, wCrt, tempS, slowStart, lossPhase,
                   sendingList, sPkts, inc>>

\* The buffer of the system is full: the packet is taken back, the batch is
\* given up and the window reduced; slow start ends.
SndFull ==
    /\ snd = "send"
    /\ \/ /\ slowStart
          /\ lossPhase' = TRUE /\ slowStart' = FALSE
          /\ wBar' = (49 * wBar) \div 100
       \/ /\ ~slowStart
          /\ wBar' = Most(1, (7 * wBar) \div 10)
          /\ UNCHANGED <<lossPhase, slowStart>>
    /\ pktSeq' = pktSeq - 1
    /\ sPkts' = 0
    /\ snd' = "idle"
    /\ UNCHANGED <<wCrt, tempS, sendingList, inc, pdu, net>>

\* The packet enters the sending list and is counted as in flight.
SndInsert ==
    /\ snd = "insert"
    /\ sendingList' = With(sendingList, pdu.seq, pdu.w)
    /\ wCrt' = wCrt + 1
    /\ sPkts' = sPkts - 1
    /\ pdu' = NoPdu
    /\ snd' = IF sPkts = 1 THEN "idle" ELSE "next"
    /\ UNCHANGED <<pktSeq, wBar, tempS, slowStart, lossPhase, inc, net>>

SndThread ==
    /\ SndTake \/ SndClear \/ SndRead \/ SndWrite \/ SndSend \/ SndFull
       \/ SndInsert
    /\ UNCHANGED <<seqLast, ssId, haveSpline, missing, lockVars, armed,
                   rcvVars, mainVars, tmo, profVars, rstVars, acks>>

-----------------------------------------------------------------------------
(* receiver_thread.  Only what no other thread can disturb is one step.    *)

\* Where an ACK goes: it is the next packet's, an earlier one's, or there is a
\* gap before it.
Branch(p) ==
    IF p.seq = seqLast + 1 THEN "update"
    ELSE IF p.seq < seqLast THEN "earlier" ELSE "gap"

\* Variant: restartLock is not taken.
RcvTakeUnlocked(p) ==
    /\ rcv = "recv"
    /\ p \in acks /\ acks' = acks \ {p}
    /\ p.ss >= ssId
    /\ armed' = TRUE
    /\ ack' = p
    /\ rcv' = Branch(p)
    /\ gap' = IF Branch(p) = "gap" THEN seqLast + 1 ELSE 0
    /\ UNCHANGED <<seqLast, wBar, wCrt, tempS, slowStart, lossPhase, listVars,
                   lockVars, gapW>>

\* recvfrom, restartLock, the session check, and the head of the loop: a delay
\* above SS_EXIT_THRESHOLD ends slow start; an ACK of a window not above wBar
\* ends the loss phase.  The timer starts anew.
RcvTake(p) ==
    /\ rcv = "recv"
    /\ restartLock = Free
    /\ p \in acks /\ acks' = acks \ {p}
    /\ \/ /\ p.ss < ssId
          /\ UNCHANGED <<rcvVars, restartLock, armed, wBar, slowStart, lossPhase>>
       \/ /\ p.ss >= ssId
          /\ restartLock' = Rcv
          /\ armed' = TRUE
          /\ \E exit \in {FALSE, slowStart} :
               /\ wBar' = IF exit THEN (7 * p.w) \div 10 ELSE wBar
               /\ slowStart' = (slowStart /\ ~exit)
               /\ lossPhase' = ((lossPhase \/ exit) /\ p.w > wBar')
          /\ ack' = p
          /\ rcv' = Branch(p)
          /\ gap' = IF Branch(p) = "gap" THEN seqLast + 1 ELSE 0
          /\ UNCHANGED gapW
    /\ UNCHANGED <<seqLast, wCrt, tempS, listVars, missingQueue>>

\* What follows updateUponReceivingPacket: the test that guards seqLast.
AfterUpdate ==
    IF ack.seq >= seqLast + 1 /\ ack.ss = ssId THEN "last" ELSE "erase"

\* Under missingQueue: a packet not in the queue is not counted.
RcvEarlier ==
    /\ rcv = "earlier"
    /\ missingQueue = Free
    /\ \/ /\ ack.seq \in DOMAIN missing
          /\ missingQueue' = Rcv
          /\ missing' = Without(missing, ack.seq)
          /\ rcv' = "update"
       \/ /\ ack.seq \notin DOMAIN missing
          /\ rcv' = AfterUpdate
          /\ UNCHANGED <<missingQueue, missing>>
    /\ UNCHANGED <<seqLast, wBar, wCrt, tempS, slowStart, lossPhase,
                   sendingList, restartLock, armed, ack, gap, gapW, acks>>

\* createMissingPdu(i): the window the packet was sent with is looked up, and
\* the packet put into the queue, each under the lock of its own list.
RcvLookup ==
    /\ rcv = "gap"
    /\ \/ /\ gap < ack.seq
          /\ gapW' = IF gap \in DOMAIN sendingList
                     THEN sendingList[gap] ELSE Garbage
          /\ rcv' = "create"
       \/ /\ gap >= ack.seq
          /\ rcv' = "update"
          /\ UNCHANGED gapW
    /\ UNCHANGED <<seqLast, wBar, wCrt, tempS, slowStart, lossPhase, listVars,
                   lockVars, armed, ack, gap, acks>>

RcvCreate ==
    /\ rcv = "create"
    /\ missingQueue = Free
    /\ missing' = With(missing, gap, gapW)
    /\ gap' = gap + 1
    /\ gapW' = 0
    /\ rcv' = "gap"
    /\ UNCHANGED <<seqLast, wBar, wCrt, tempS, slowStart, lossPhase,
                   sendingList, lockVars, armed, ack, acks>>

\* Variant: the decrement is not guarded.
RcvUpdateUnguarded ==
    /\ rcv = "update"
    /\ rcv' = "decrement"
    /\ UNCHANGED <<seqLast, wBar, wCrt, tempS, slowStart, lossPhase, listVars,
                   lockVars, armed, ack, gap, gapW, acks>>

\* updateUponReceivingPacket: the test of wCrt, then the decrement.
RcvUpdate ==
    /\ rcv = "update"
    /\ rcv' = IF wCrt > 0 THEN "decrement" ELSE "learn"
    /\ UNCHANGED <<seqLast, wBar, wCrt, tempS, slowStart, lossPhase, listVars,
                   lockVars, armed, ack, gap, gapW, acks>>

RcvDecrement ==
    /\ rcv = "decrement"
    /\ wCrt' = wCrt - 1
    /\ rcv' = "learn"
    /\ UNCHANGED <<seqLast, wBar, tempS, slowStart, lossPhase, listVars,
                   lockVars, armed, ack, gap, gapW, acks>>

\* The rest of it: in the loss phase the window grows by its inverse (below
\* one, by more than one); then the test of seqLast.
RcvLearn ==
    /\ rcv = "learn"
    /\ wBar' \in IF ~lossPhase THEN {wBar}
                 ELSE IF wBar = 0 THEN {Least(2, MaxW), MaxW}
                 ELSE {wBar, Least(wBar + 1, MaxW)}
    /\ missingQueue' = IF missingQueue = Rcv THEN Free ELSE missingQueue
    /\ rcv' = AfterUpdate
    /\ UNCHANGED <<seqLast, wCrt, tempS, slowStart, lossPhase, listVars,
                   restartLock, armed, ack, gap, gapW, acks>>

RcvLast ==
    /\ rcv = "last"
    /\ seqLast' = ack.seq
    /\ rcv' = "erase"
    /\ UNCHANGED <<wBar, wCrt, tempS, slowStart, lossPhase, listVars, lockVars,
                   armed, ack, gap, gapW, acks>>

\* The packet leaves the sending list; in slow start every ACK widens the
\* window and gives the sender credit.
RcvErase ==
    /\ rcv = "erase"
    /\ sendingList' = Without(sendingList, ack.seq)
    /\ wBar' = IF slowStart THEN Least(wBar + 1, MaxW) ELSE wBar
    /\ tempS' = IF slowStart THEN Least(tempS + Most(0, wBar' - wCrt), MaxCredit)
                ELSE tempS
    /\ restartLock' = Free
    /\ ack' = NoPdu /\ gap' = 0 /\ gapW' = 0
    /\ rcv' = "recv"
    /\ UNCHANGED <<seqLast, wCrt, slowStart, lossPhase, missing, missingQueue,
                   armed, acks>>

RcvThread ==
    /\ \/ \E p \in acks : RcvTake(p)
       \/ RcvEarlier \/ RcvLookup \/ RcvCreate \/ RcvUpdate \/ RcvDecrement
       \/ RcvLearn \/ RcvLast \/ RcvErase
    /\ UNCHANGED <<pktSeq, ssId, haveSpline, sndVars, mainVars, tmo, profVars,
                   rstVars, net>>

-----------------------------------------------------------------------------
(* main.                                                                   *)

\* The first datagram starts the threads and gives the first packet's credit.
MainStart(p) ==
    /\ main = "wait"
    /\ p \in acks /\ acks' = acks \ {p}
    /\ tempS' = 1
    /\ armed' = TRUE
    /\ snd' = "idle" /\ rcv' = "recv" /\ tmo' = "idle"
    /\ prof' = [prof EXCEPT ![0] = "loop"]
    /\ main' = "loop"
    /\ UNCHANGED <<pktSeq, seqLast, ssId, wBar, wCrt, phaseVars, listVars,
                   lockVars, sPkts, inc, pdu, ack, gap, gapW, lost, tid,
                   cancelled, rstVars, net>>

\* removeExpiredPacketsFromSeqQueue: the first missing packet has expired.
MainLoss ==
    /\ main = "loop"
    /\ missingQueue = Free
    /\ DOMAIN missing # {}
    /\ missingQueue' = Main
    /\ lost' = Min(DOMAIN missing)
    /\ main' = "lost"
    /\ UNCHANGED <<windowVars, slowStart, lossPhase, listVars, restartLock,
                   rstVars>>

\* A new loss phase decreases the window from that of the lost packet: to any
\* smaller one where that is garbage.
Decreased(w) ==
    IF lossPhase THEN {wBar}
    ELSE IF w = Garbage THEN 0..wBar ELSE {Least(wBar, (7 * w) \div 10)}

\* The first packet that expires in an epoch begins a loss phase, and ends slow
\* start if the window is large.  rbegin() of an empty list is a fault, which
\* ends the process.
MainLost ==
    /\ main = "lost"
    /\ wBar' \in Decreased(missing[lost])
    /\ lossPhase' = TRUE
    /\ \/ /\ slowStart /\ wBar' > SlowExit
          /\ slowStart' = FALSE
          /\ wCrt' = 0
          /\ \/ /\ sendingList # Empty
                /\ seqLast' = Max(DOMAIN sendingList)
                /\ missing' = Empty
                /\ main' = "settle"
             \/ /\ sendingList = Empty
                /\ main' = "exit"
                /\ UNCHANGED <<seqLast, missing>>
       \/ /\ ~(slowStart /\ wBar' > SlowExit)
          /\ main' = "settle"
          /\ UNCHANGED <<slowStart, wCrt, seqLast, missing>>
    /\ UNCHANGED <<pktSeq, ssId, tempS, sendingList, lockVars, lost, rstVars>>

\* Variant: an expired packet stays in the queue.
MainSettleKeep ==
    /\ main = "settle"
    /\ sendingList' = Without(sendingList, lost)
    /\ main' = IF wCrt > 0 THEN "decrement" ELSE "more"
    /\ UNCHANGED <<windowVars, slowStart, lossPhase, missing, lockVars, lost,
                   rstVars>>

\* An expired packet leaves both lists; the test of wCrt, then the decrement.
MainSettle ==
    /\ main = "settle"
    /\ missing' = Without(missing, lost)
    /\ sendingList' = Without(sendingList, lost)
    /\ main' = IF wCrt > 0 THEN "decrement" ELSE "more"
    /\ UNCHANGED <<windowVars, slowStart, lossPhase, lockVars, lost, rstVars>>

MainDecrement ==
    /\ main = "decrement"
    /\ wCrt' = wCrt - 1
    /\ main' = "more"
    /\ UNCHANGED <<pktSeq, seqLast, ssId, wBar, tempS, slowStart, lossPhase,
                   listVars, lockVars, lost, rstVars>>

\* Variant: the loop ends without releasing the queue.
MainMoreHeld ==
    /\ main = "more"
    /\ lost' = 0
    /\ main' = "epoch"
    /\ UNCHANGED <<windowVars, slowStart, lossPhase, listVars, lockVars,
                   rstVars>>

\* The next missing packet has expired too, or the queue is released.
MainMore ==
    /\ main = "more"
    /\ \/ /\ DOMAIN missing # {}
          /\ lost' = Min(DOMAIN missing)
          /\ main' = "settle"
          /\ UNCHANGED missingQueue
       \/ /\ missingQueue' = Free
          /\ lost' = 0
          /\ main' = "epoch"
    /\ UNCHANGED <<windowVars, slowStart, lossPhase, listVars, restartLock,
                   rstVars>>

\* Variant: what is left over is not kept from being negative.
CalcSiNegative(w) == {w - wCrt}

\* calcSi: what the window leaves over, by the number of epochs in a round trip.
CalcSi(w) ==
    LET rest == Most(0, w - wCrt) IN Least(rest, w)..Most(rest, w)

\* The expired packets have been dealt with, or no packet was missing, or the
\* first one missing has not expired.
AtEpoch == main = "epoch" \/ (main = "loop" /\ missingQueue = Free)

\* One epoch: after slow start the delay curve gives the window, and the
\* window the credit, unless the delay is minimal and packets are in flight.
MainEpoch ==
    /\ AtEpoch
    /\ \/ slowStart /\ UNCHANGED <<wBar, tempS>>
       \/ /\ ~slowStart
          /\ wBar' \in 1..MaxW
          /\ \/ wCrt >= 2 /\ UNCHANGED tempS
             \/ \E S \in CalcSi(wBar') : tempS' = Least(tempS + S, MaxCredit)
    /\ main' = "loop"
    /\ UNCHANGED <<pktSeq, seqLast, ssId, wCrt, slowStart, lossPhase, listVars,
                   lockVars, lost, rstVars>>

\* The delay is not on the curve: the session starts anew.
MainOffCurve ==
    /\ AtEpoch
    /\ ~slowStart /\ haveSpline
    /\ main' = "restart"
    /\ UNCHANGED <<windowVars, slowStart, lossPhase, listVars, lockVars, lost,
                   rstVars>>

MainRestart ==
    /\ main = "restart"
    /\ RestartLock(Main)
    /\ UNCHANGED <<windowVars, slowStart, lossPhase, listVars, missingQueue,
                   mainVars>>

\* timeToRun is over: the packet that ends the client goes out, and a while
\* later the process ends with all its threads.
MainEnd ==
    /\ main = "loop"
    /\ Ends
    /\ ssId' = -1
    /\ tempS' = 1
    /\ main' = "closing"
    /\ UNCHANGED <<pktSeq, seqLast, wBar, wCrt, slowStart, lossPhase, listVars,
                   lockVars, lost, rstVars>>

MainExit ==
    /\ main = "closing"
    /\ main' = "exit"
    /\ UNCHANGED <<windowVars, slowStart, lossPhase, listVars, lockVars, lost,
                   rstVars>>

MainThread ==
    \/ \E p \in acks : MainStart(p)
    \/ /\ \/ MainLoss \/ MainLost \/ MainSettle \/ MainDecrement
          \/ MainMore \/ MainEpoch \/ MainOffCurve \/ MainRestart \/ MainEnd
          \/ MainExit
       /\ UNCHANGED <<haveSpline, armed, sndVars, rcvVars, tmo, profVars,
                      netVars>>

-----------------------------------------------------------------------------
(* timeout_thread, which runs the handler of the timer until io.stop().    *)
(* The handler may run at any time while a wait is pending, and still run  *)
(* when the receiver has just set the timer anew.                          *)

\* The first packet was lost; or slow start ends; or all packets in flight are
\* given up.
TimeoutHandler ==
    /\ tmo = "idle"
    /\ armed
    /\ main # "closing"
    /\ \/ /\ seqLast = 0
          /\ tmo' = "restart"
          /\ armed' = FALSE
          /\ UNCHANGED <<slowStart, lossPhase, wCrt>>
       \/ /\ seqLast # 0 /\ slowStart
          /\ slowStart' = FALSE
          /\ UNCHANGED <<tmo, armed, lossPhase, wCrt>>
       \/ /\ seqLast # 0 /\ ~slowStart
          /\ lossPhase' = TRUE
          /\ wCrt' = 0
          /\ tmo' = "last"
          /\ armed' = FALSE
          /\ UNCHANGED slowStart
    /\ UNCHANGED <<seqLast, listVars, restartLock, rstVars>>

TmoRestart ==
    /\ tmo = "restart"
    /\ RestartLock(Tmo)
    /\ UNCHANGED <<seqLast, wCrt, slowStart, lossPhase, listVars, armed, tmo>>

\* The last packet of the sending list becomes the last acknowledged one.
TmoLast ==
    /\ tmo = "last"
    /\ seqLast' = IF sendingList = Empty THEN seqLast
                  ELSE Max(DOMAIN sendingList)
    /\ sendingList' = Empty
    /\ tmo' = "missing"
    /\ UNCHANGED <<wCrt, slowStart, lossPhase, missing, restartLock, armed,
                   rstVars>>

\* Variant: the handler returns without setting the timer.
TmoMissingUnarmed ==
    /\ tmo = "missing"
    /\ missingQueue = Free
    /\ missing' = Empty
    /\ tmo' = "idle"
    /\ UNCHANGED <<seqLast, wCrt, slowStart, lossPhase, sendingList,
                   restartLock, armed, rstVars>>

\* The missing packets are given up too, and the timer starts anew.
TmoMissing ==
    /\ tmo = "missing"
    /\ missingQueue = Free
    /\ missing' = Empty
    /\ armed' = TRUE
    /\ tmo' = "idle"
    /\ UNCHANGED <<seqLast, wCrt, slowStart, lossPhase, sendingList,
                   restartLock, rstVars>>

TmoThread ==
    /\ TimeoutHandler \/ TmoRestart \/ TmoLast \/ TmoMissing
    /\ UNCHANGED <<pktSeq, ssId, wBar, tempS, haveSpline, missingQueue,
                   sndVars, rcvVars, mainVars, profVars, netVars>>

-----------------------------------------------------------------------------
(* delayProfile_thread.                                                    *)

\* In slow start the thread sleeps, which is where a pending cancellation
\* takes effect; after it, the thread fits the curve.
ProfLoop(k) ==
    /\ prof[k] = "loop"
    /\ \/ k \in cancelled /\ prof' = [prof EXCEPT ![k] = "done"]
       \/ ~slowStart /\ prof' = [prof EXCEPT ![k] = "fit"]
    /\ UNCHANGED <<haveSpline, restartLock, rstVars>>

\* The curve is fitted, or it has too few points, or the fit raises an
\* exception.
ProfFit(k) ==
    /\ prof[k] = "fit"
    /\ \/ /\ haveSpline' = TRUE
          /\ prof' = [prof EXCEPT ![k] = IF k \in cancelled THEN "done" ELSE "loop"]
       \/ /\ prof' = [prof EXCEPT ![k] = "restart"]
          /\ UNCHANGED haveSpline
    /\ UNCHANGED <<restartLock, rstVars>>

ProfRestart(k) ==
    /\ prof[k] = "restart"
    /\ RestartLock(k)
    /\ UNCHANGED <<haveSpline, prof>>

ProfThread ==
    /\ \E k \in Profs : ProfLoop(k) \/ ProfFit(k) \/ ProfRestart(k)
    /\ UNCHANGED <<windowVars, slowStart, lossPhase, listVars, missingQueue,
                   armed, sndVars, rcvVars, mainVars, tmo, tid, cancelled,
                   netVars>>

ServerNext ==
    /\ main # "exit"
    /\ RestartNext \/ SndThread \/ RcvThread \/ MainThread \/ TmoThread
       \/ ProfThread

=============================================================================
