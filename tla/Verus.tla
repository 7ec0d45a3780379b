-------------------------------- MODULE Verus --------------------------------
(***************************************************************************)
(* The Verus sender with its client, src/verus/src/verus_client.cpp, over  *)
(* UDP.  A datagram that is never delivered is lost; the network keeps no  *)
(* order.                                                                  *)
(***************************************************************************)
EXTENDS VerusServer

CONSTANT MaxHallo     \* bound: requests the client sends

ASSUME HalloAssumption == MaxHallo \in Nat \ {0}

VARIABLES receivedPkt, hallos, client

clientVars == <<receivedPkt, hallos, client>>
serverVars == <<windowVars, phaseVars, listVars, lockVars, armed, sndVars,
                rcvVars, mainVars, tmo, profVars, rstVars>>
vars == <<serverVars, netVars, clientVars>>

\* "Hallo", as the server reads it once it expects ACKs: four letters are a
\* session above every other, the fifth a sequence number above those of slow
\* start, and the window is what the server's buffer held.
Hallo(w) == [ss |-> MaxRestarts + 1, seq |-> MaxSeq + 1, w |-> w]

ClientInit ==
    /\ net = {} /\ acks = {Hallo(0)}
    /\ receivedPkt = FALSE /\ hallos = 1 /\ client = "running"

\* TimeoutHandler of the client: the request is sent again until a packet
\* arrives.
ClientHallo ==
    /\ client = "running"
    /\ ~receivedPkt
    /\ hallos < MaxHallo
    /\ hallos' = hallos + 1
    /\ \E w \in 0..MaxW : acks' = acks \cup {Hallo(w)}
    /\ UNCHANGED <<serverVars, net, receivedPkt, client>>

\* main of the client: a packet is received and queued; one of a negative
\* session ends the client.
ClientRecv(p) ==
    /\ client = "running"
    /\ p \in net /\ net' = net \ {p}
    /\ receivedPkt' = TRUE
    /\ client' = IF p.ss < 0 THEN "ended" ELSE client

\* sending_thread of the client: a queued packet goes back as its own ACK.
\* The queue is part of the network, which keeps no order either.
ClientSend(p) == acks' = acks \cup {p}

ClientEcho(p) ==
    /\ ClientRecv(p) /\ ClientSend(p)
    /\ UNCHANGED <<serverVars, hallos>>

Init == ServerInit /\ ClientInit

Next ==
    \/ ServerNext /\ UNCHANGED clientVars
    \/ ClientHallo
    \/ \E p \in net : ClientEcho(p)

Spec == Init /\ [][Next]_vars

-----------------------------------------------------------------------------
(* Safety.                                                                 *)

Sessions == -1..(MaxRestarts + 1)
Pdus == [ss : Sessions, seq : 0..(MaxSeq + 1), w : 0..MaxW]

\* The type of every variable of the server and the client.
TypeOK ==
    /\ pktSeq \in -1..MaxSeq /\ seqLast \in 0..(MaxSeq + 1)
    /\ ssId \in Sessions /\ wBar \in 0..MaxW /\ wCrt \in Int
    /\ tempS \in 0..MaxCredit /\ sPkts \in 0..MaxCredit /\ inc \in -1..MaxSeq
    /\ {slowStart, lossPhase, haveSpline, armed, receivedPkt} \subseteq BOOLEAN
    /\ DOMAIN sendingList \subseteq 0..MaxSeq
    /\ \A s \in DOMAIN sendingList : sendingList[s] \in 0..MaxW
    /\ DOMAIN missing \subseteq 1..MaxSeq
    /\ \A s \in DOMAIN missing : missing[s] \in 0..MaxW \cup {Garbage}
    /\ restartLock \in Profs \cup {Rcv, Main, Tmo, Free}
    /\ missingQueue \in {Rcv, Main, Free}
    /\ {pdu, ack} \cup net \cup acks \subseteq Pdus
    /\ tid \in Profs /\ cancelled \subseteq Profs /\ restarts \in 0..MaxRestarts

Running == main \notin {"wait", "closing", "exit"}

\* While the receiver works on an ACK no restart is under way, and the ACK is
\* not one of a session that has been given up: what it does to seqLast, wBar
\* and tempS goes to the session it belongs to (restartLock, lines 196 and 627).
AckOfSession ==
    rcv \notin {"off", "recv"} => rst = "none" /\ ack.ss >= ssId

\* While the server runs, a wait of the timer is pending or its handler is at
\* work: a session whose packets, or whose credit for the first packet, are lost
\* is never left without anything that would revive it (lines 187 and 240).
TimerPending == Running => armed \/ tmo # "idle"

\* The tests of wCrt before its two decrements race with each other and with
\* the resets of wCrt; two is all they can take it below zero (lines 483, 592).
InFlightFloor == wCrt >= -2

\* Of the delay profile threads that live, all but the latest have been
\* cancelled, however many threads restart slow start (lines 217 and 218).
OneProfile ==
    \A k \in Profs : prof[k] \notin {"none", "done"} => k = tid \/ k \in cancelled

\* No holder of missingQueue waits for a lock, and no thread holds it at rest:
\* main inside its loop over expired packets, the receiver inside its update
\* (lines 668 to 675 and 829 to 832).
QueueHeldInside ==
    /\ missingQueue = Main => main \in {"lost", "settle", "decrement", "more", "exit"}
    /\ missingQueue = Rcv => rcv \in {"update", "decrement", "learn"}

-----------------------------------------------------------------------------
(* Liveness.  main with an expired packet and the receiver at work go on;    *)
(* missingQueue, which main leaves free while it sleeps between two epochs,  *)
(* is had by whoever waits for it; a packet that stays missing expires.  The *)
(* network, the timer and the end of the run owe nothing.                    *)

ServerStep(A) == main # "exit" /\ A /\ UNCHANGED clientVars

LiveSpec ==
    /\ Spec
    /\ SF_vars(ServerStep(/\ main' = "lost" \/ main \in {"lost", "settle",
                                                         "decrement", "more"}
                          /\ MainThread))
    /\ SF_vars(ServerStep(rcv \notin {"off", "recv"} /\ RcvThread))

\* Every missing packet is settled: acknowledged late, given up as lost, or
\* dropped with its session, unless main stops looking (line 542).
MissingSettles ==
    \A s \in 1..MaxSeq :
        s \in DOMAIN missing ~>
            s \notin DOMAIN missing \/ main \in {"restart", "closing", "exit"}

\* The receiver, which holds restartLock and takes missingQueue inside, comes
\* back for the next ACK: it and main never wait for each other (lines 627, 829).
ReceiverReturns ==
    rcv \notin {"off", "recv"} ~> rcv = "recv" \/ main = "exit"

-----------------------------------------------------------------------------
(* What comments of the server say.                                        *)

\* The w of every missing packet is that of a packet sent (line 553).
LostPacketW == \A s \in DOMAIN missing : missing[s] # Garbage

\* The timeout moves the last acknowledged packet to the last one sent, hence
\* never backwards (line 167).
TimeoutMovesForward ==
    [][tmo = "last" /\ tmo' = "missing" => seqLast' >= seqLast]_vars
=============================================================================
