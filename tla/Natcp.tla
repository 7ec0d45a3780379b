------------------------------- MODULE Natcp -------------------------------
(***************************************************************************)
(* The NATCP application: main and start_server of src/src/server.cc, its  *)
(* DataThread and CntThread, the client it launches inside Mahimahi, and   *)
(* the kill signals of natcp.sh.  The server process ends when DataThread  *)
(* does (start_server joins no other thread), in whatever state CntThread  *)
(* is then.                                                                *)
(***************************************************************************)
EXTENDS CntThread, DataThread

CONSTANT Signals    \* the processes natcp.sh kills: a subset of {"server", "client"}

ASSUME SignalsAssumption ==
    /\ Signals \subseteq {"server", "client"}
    /\ ClientWait \in Nat
    /\ NoFile \notin Nat
    /\ Millis <= MaxTime

VARIABLES
    main,       \* where start_server is
    basetime    \* Mahimahi's file: NoFile or a time in milliseconds

vars == <<sharedVars, cntVars, transferVars, main, basetime>>

MainPcs == {"setup", "launch", "listen", "accept", "spawncnt", "spawndata",
            "join"}

TypeOK ==
    /\ SharedTypeOK
    /\ CntTypeOK
    /\ TransferTypeOK
    /\ main \in MainPcs
    /\ basetime \in {NoFile} \cup Nat

\* The server is started anywhere within a millisecond.
Init ==
    /\ now \in 0..Millis - 1
    /\ SharedInit
    /\ CntInit
    /\ TransferInit
    /\ main = "setup"
    /\ basetime = NoFile

-----------------------------------------------------------------------------
(* main and start_server.                                                  *)

Exit ==
    /\ running' = FALSE
    /\ ServerCloses

Unaffected == <<dataVars, clientVars, asked, wire, got, cntVars, basetime, now,
                initial, start_of_client, got_message>>

\* The trace file, the socket and bind; on a failure the process returns.
MainSetup ==
    /\ running /\ main = "setup"
    /\ \/ /\ main' = "launch"
          /\ UNCHANGED <<running, sock, conn>>
       \/ /\ Exit
          /\ UNCHANGED main
    /\ UNCHANGED Unaffected

\* initial_timestamp(), then system("mm-delay ... mm-link ... ./client ... &").
MainLaunch ==
    /\ running /\ main = "launch"
    /\ initial' = now
    /\ client' = "sleep"
    /\ wakeClient' = now + ClientWait
    /\ main' = "listen"
    /\ UNCHANGED <<now, running, sock, start_of_client, got_message, cntVars,
                   dataVars, request, connVars, basetime>>

MainListen ==
    /\ running /\ main = "listen"
    /\ main' = "accept"
    /\ UNCHANGED <<sharedVars, cntVars, transferVars, basetime>>

\* accept() waits for a connection; a failure closes everything.
MainAccept ==
    /\ running /\ main = "accept"
    /\ conn # "none"
    /\ \/ /\ sock' = "open"
          /\ conn' = IF conn = "backlog" THEN "up" ELSE conn
          /\ main' = IF Mode # 0 THEN "spawncnt" ELSE "spawndata"
          /\ UNCHANGED running
       \/ /\ Exit
          /\ UNCHANGED main
    /\ UNCHANGED Unaffected

MainSpawnCnt ==
    /\ running /\ main = "spawncnt"
    /\ cnt' = "spin"
    /\ main' = "spawndata"
    /\ UNCHANGED <<it, check, schedVars, ret1, ret2, opt, drift, sharedVars,
                   transferVars, basetime>>

MainSpawnData ==
    /\ running /\ main = "spawndata"
    /\ data' = "recv"
    /\ main' = "join"
    /\ UNCHANGED <<loop, remaining, rem_size, done, clientVars, connVars,
                   sharedVars, cntVars, basetime>>

\* Variant: CntThread is joined as well.
MainJoinBoth ==
    /\ running /\ main = "join"
    /\ data = "done" /\ cnt \in {"none", "done"}
    /\ Exit
    /\ UNCHANGED <<main, Unaffected>>

\* pthread_join(data_thread), return from main: exit.
MainJoin ==
    /\ running /\ main = "join"
    /\ data = "done"
    /\ Exit
    /\ UNCHANGED <<main, Unaffected>>

MainNext == MainSetup \/ MainLaunch \/ MainListen \/ MainAccept
            \/ MainSpawnCnt \/ MainSpawnData \/ MainJoin

\* SIGTERM: handler() exits.
ServerKilled ==
    /\ "server" \in Signals
    /\ running
    /\ Exit
    /\ UNCHANGED <<main, Unaffected>>

-----------------------------------------------------------------------------
(* The client, Mahimahi and the clock.                                     *)

Listening == running /\ main \notin {"setup", "launch", "listen"}

ClientNext ==
    /\ \/ ClientSleep \/ ClientBasetime(basetime, Millis) \/ ClientSocket
       \/ ClientConnect(Listening) \/ ClientRequest \/ ClientRecv \/ ClientEof
    /\ UNCHANGED <<cntVars, main, basetime>>

KillClient ==
    /\ "client" \in Signals
    /\ ClientKilled
    /\ UNCHANGED <<cntVars, main, basetime>>

\* mm-link writes its base timestamp, in milliseconds (external).
MahimahiBasetime ==
    /\ client # "none"
    /\ basetime = NoFile
    /\ basetime' = now \div Millis
    /\ UNCHANGED <<sharedVars, cntVars, transferVars, main>>

\* The clock matters from the moment the client's network is launched.
Tick ==
    /\ main \notin {"setup", "launch"}
    /\ now < MaxTime
    /\ now' = now + 1
    /\ drift' = IF cnt = "loop" THEN drift + 1 ELSE drift
    /\ UNCHANGED <<running, sock, initial, start_of_client, got_message, cnt,
                   it, check, schedVars, ret1, ret2, opt, transferVars, main,
                   basetime>>

Cnt == CntNext /\ UNCHANGED <<transferVars, main, basetime>>
Data == DataNext /\ UNCHANGED <<cntVars, main, basetime>>

Next ==
    \/ MainNext \/ Cnt \/ Data \/ ClientNext
    \/ ServerKilled \/ KillClient \/ MahimahiBasetime \/ Tick

Spec == Init /\ [][Next]_vars

\* Every thread is scheduled, the clock runs, the client reads what arrives.
Fairness ==
    /\ WF_vars(MainNext) /\ WF_vars(Cnt) /\ WF_vars(Data)
    /\ WF_vars(ClientNext) /\ WF_vars(MahimahiBasetime) /\ WF_vars(Tick)

FairSpec == Spec /\ Fairness

-----------------------------------------------------------------------------
(* Properties of the feedback.                                             *)

\* CntThread is between the wake-up for record it and the end of the record.
Applying == cnt \in OptNames \cup {"finish"}

\* When the feedback of record `it' starts to reach the socket
\* (server.cc:472), the network the client sits in has been running for at
\* least the record's time plus the lag: the server never learns of a
\* bandwidth before the network has it.
NeverEarly == Applying => now >= start_of_client + Lag + Trace[it]

\* The schedule of CntThread (preTime, fct; server.cc:449-497) loses no time
\* but what is spent outside timestamp_begin/timestamp_end: where an iteration
\* begins, the clock is at the trace time reached, plus the time measured and
\* not yet charged, plus the lag and the drift.
ClockAccounting ==
    /\ cnt = "loop" /\ it > 0 =>
          now = start_of_client + Lag + preTime + fct + drift
    /\ cnt = "sleep" \/ Applying =>
          begin = start_of_client + Lag + preTime + fct + drift

\* A record is given up (server.cc:447-463) only when its own time has come,
\* to the millisecond the two sides are compared in.
OnlyStaleDropped ==
    [][it' # it /\ ~check' => now + Millis > start_of_client + Trace[it]]_vars

\* The options CntThread checks the results of.
CheckedOpts == {"bwval", "gain"} \cup (IF Mode = 1 THEN {"apply"} ELSE {})
                                \cup (IF Mode = 3 THEN {"clamp"} ELSE {})

\* After a record counts as applied (check = 1, server.cc:495) every option
\* whose result is checked holds that record's value, whatever setsockopt
\* calls failed on the way and wherever DataThread closed the socket.
FreshOptions ==
    check => \A o \in CheckedOpts : opt[o] = it - 1

\* CntThread computes its bias from the time in the client's request and
\* never from the initial value of start_of_client (server.cc:407-412,
\* 580-581).
StartPublished ==
    cnt \notin {"none", "spin"} => start_of_client = request /\ data # "publish"

\* What the feedback promises (module FeedbackSchedule), where the record in
\* effect is the one whose bandwidth the socket has: CntThread and DataThread,
\* run together, implement it.
Schedule == INSTANCE FeedbackSchedule
    WITH clock <- now, start <- start_of_client, known <- got_message,
         rec <- opt["bwval"]
FeedbackInSchedule == Schedule!Spec

-----------------------------------------------------------------------------
(* Properties of the transfer and of the process.                          *)

\* A client that reads to an orderly end of a transfer the server completed
\* has received exactly the bytes its request stands for, which is the size
\* times 1024 times 1024 in unsigned int (server.cc:568, 606-633,
\* client.c:276-293).
CompleteTransfer ==
    client = "done" /\ conn = "up" /\ done => got = Total

\* Once the client is connected the server process ends, whatever CntThread
\* waits for and however the connection ends (server.cc:356-388).
ServerExits == conn # "none" ~> ~running

\* A client that has been started ends (client.c:96-295).
ClientEnds == client = "sleep" ~> client = "done"
=============================================================================
