---------------------------- MODULE NatcpProofs ----------------------------
(***************************************************************************)
(* Proofs about Natcp for every trace, lag, size, clock bound and set of   *)
(* failing options.                                                        *)
(***************************************************************************)
EXTENDS Natcp, TLAPS

-----------------------------------------------------------------------------
(* The inductive invariant.                                                *)

\* The type invariant, with the Boolean variables apart.
Bools == running \in BOOLEAN /\ got_message \in BOOLEAN /\ check \in BOOLEAN
         /\ done \in BOOLEAN /\ asked \in BOOLEAN

SharedNums ==
    /\ now \in 0..MaxTime
    /\ sock \in {"none", "open", "closed"}
    /\ initial \in 0..MaxTime
    /\ start_of_client \in 0..MaxTime

CntNums ==
    /\ cnt \in CntPcs
    /\ it \in 0..NumLines
    /\ fct_ \in 0..Word - 1
    /\ bias_time \in 0..Word - 1
    /\ preTime \in Nat
    /\ fct \in Nat
    /\ offset \in Int
    /\ begin \in 0..MaxTime
    /\ wake \in Nat
    /\ ret1 \in {-1, 0}
    /\ ret2 \in {-2, -1, 0}
    /\ opt \in [OptNames -> NoRec..NumLines - 1]
    /\ drift \in Nat

TransferNums ==
    /\ data \in DataPcs
    /\ loop \in 0..UInt
    /\ remaining \in 0..UInt
    /\ rem_size \in 0..UInt - 1
    /\ client \in ClientPcs
    /\ wakeClient \in Nat
    /\ request \in 0..MaxTime
    /\ conn \in {"none", "backlog", "up", "reset", "reported"}
    /\ wire \in Nat
    /\ got \in Nat
    /\ main \in MainPcs
    /\ basetime \in {NoFile} \cup Nat

\* The parts are the type invariant.
LEMMA TypeSplit == TypeOK <=> Bools /\ SharedNums /\ CntNums /\ TransferNums
BY Zenon DEF TypeOK, SharedTypeOK, CntTypeOK, TransferTypeOK, Bools, SharedNums,
   CntNums, TransferNums

\* Which thread can have done what: CntThread is past its polling loop only
\* after DataThread published the time in the request, and nothing that
\* time depends on changes any more.
Order ==
    /\ main \in {"setup", "launch"} => client = "none"
    /\ main \notin {"spawndata", "join"} => cnt = "none"
    /\ main # "join" => data = "none"
    /\ asked => client \in {"recv", "done"}
    /\ data \notin {"none", "recv"} =>
          client \in {"recv", "done"} \/ (data = "done" /\ ~got_message)
    /\ cnt \notin {"none", "spin"} => got_message
    /\ got_message => data \notin {"none", "recv", "publish", "notify"}
    /\ got_message \/ data = "notify" => start_of_client = request

\* The times in the system are in the past.
Past ==
    /\ basetime # NoFile => basetime * Millis <= now
    /\ request <= now
    /\ start_of_client <= now
    /\ initial <= now
    /\ begin <= now

\* When record 0 would be applied if it had time 0.
Origin == start_of_client + Lag

\* How the variables of the schedule relate to the clock.
Pacing ==
    /\ cnt \in {"none", "spin", "start", "setup", "lag"} => preTime = 0 /\ fct = 0
    /\ cnt = "setup" => fct_ = Sub64(start_of_client, initial)
    /\ cnt = "lag" => wake = Origin + bias_time
    /\ cnt = "loop" => /\ Origin + preTime + fct <= now
                       /\ Origin + bias_time + fct <= now
    /\ cnt = "sleep" \/ Applying =>
          /\ it < NumLines
          /\ offset = Trace[it] - preTime - fct
          /\ offset >= 0
          /\ wake = begin + offset
          /\ Origin + preTime + fct <= begin
          /\ Origin + bias_time + fct <= begin
    /\ Applying => wake <= now

\* APPLY and CWND_CLAMP add to a ret2 that holds a single result.
Returned == cnt \in {"apply", "clamp"} => ret2 \in {-1, 0}

\* What CntThread keeps, and what the rest of the application keeps.
CntInv == CntNums /\ Pacing /\ Returned
Threads == SharedNums /\ TransferNums /\ Order
AppInv == Threads /\ Past

IInv == AppInv /\ CntInv

-----------------------------------------------------------------------------

\* Rounding down to a multiple.
LEMMA FloorBelow ==
    ASSUME NEW a \in Nat, NEW m \in Nat \ {0}
    PROVE  /\ a \div m \in Nat
           /\ (a \div m) * m <= a
BY SMT

\* The sizes of a transfer fit unsigned int.
LEMMA SizeTypes ==
    /\ FlowSize \in 0..UInt - 1
    /\ Loops \in 0..UInt
    /\ Remainder \in 0..UInt
<1>1. FlowSize \in 0..UInt - 1
  BY SizeAssumption DEF FlowSize
<1>2. Total \in 0..UInt - 1
  BY <1>1, SizeAssumption DEF Total
<1>3. Loops \in Nat /\ Loops * Buf <= Total
  BY <1>2, SizeAssumption, FloorBelow DEF Loops
<1>4. Loops <= Loops * Buf
  BY <1>3, SizeAssumption
<1>5. QED
  BY <1>1, <1>2, <1>3, <1>4, SizeAssumption DEF Remainder

\* The server starts with the invariant.
LEMMA InitIInv == Init => IInv
<1> SUFFICES ASSUME Init PROVE IInv
  OBVIOUS
<1> USE DEF Init, SharedInit, CntInit, TransferInit
<1>1. SharedNums /\ CntNums /\ TransferNums
  BY WordAssumption, TraceAssumption, SizeAssumption, SignalsAssumption
     DEF SharedNums, CntNums, TransferNums, CntPcs, OptNames, NoRec, DataPcs, ClientPcs, MainPcs
<1>5. Order
  BY DEF Order
<1>6. Past
  BY TraceAssumption DEF Past
<1>7. Pacing
  BY DEF Pacing, Applying, OptNames
<1>8. Returned
  BY DEF Returned
<1>9. QED
  BY <1>1, <1>5, <1>6, <1>7, <1>8 DEF IInv, AppInv, Threads, CntInv

\* While a record is applied its time plus the lag is over.
LEMMA ApplyingTime ==
    IInv /\ Applying => /\ it < NumLines
                       /\ Trace[it] \in Nat
                       /\ Origin + Trace[it] <= wake
                       /\ wake <= now
<1> SUFFICES ASSUME IInv, Applying
             PROVE  /\ it < NumLines
                    /\ Trace[it] \in Nat
                    /\ Origin + Trace[it] <= wake
                    /\ wake <= now
  OBVIOUS
<1>1. it < NumLines /\ Trace[it] \in Nat
  BY TraceAssumption DEF IInv, CntInv, CntNums, Pacing
<1> QED
  BY <1>1, WordAssumption, TraceAssumption DEF IInv, AppInv, Threads, CntInv, SharedNums, CntNums,
     Pacing, Origin

\* What one setsockopt does to the results and the options.
LEMMA CntSetOptTypes ==
    ASSUME IInv, NEW o \in OptNames, CntSetOpt(o)
    PROVE  /\ ret1' \in {-1, 0}
           /\ ret2' \in {-2, -1, 0}
           /\ o = "gain" => ret2' \in {-1, 0}
           /\ opt' \in [OptNames -> NoRec..NumLines - 1]
<1>1. PICK r \in Results(o) :
          /\ opt' = IF r = 0 THEN [opt EXCEPT ![o] = it] ELSE opt
          /\ ret1' = IF o = "bwval" THEN r ELSE ret1
          /\ ret2' = CASE o \in {"trgtdel", "gain"} -> r
                       [] o \in {"apply", "clamp"}  -> ret2 + r
                       [] OTHER                     -> ret2
  BY Zenon DEF CntSetOpt
<1>2. r \in {-1, 0}
  BY DEF Results
<1>3. cnt = o
  BY DEF CntSetOpt
<1>4. it \in NoRec..NumLines - 1
  BY <1>3, ApplyingTime, TraceAssumption DEF Applying, IInv, CntInv, CntNums,
     NoRec
<1>5. opt' \in [OptNames -> NoRec..NumLines - 1]
  BY <1>1, <1>4 DEF IInv, CntInv, CntNums
<1>6. ret1' \in {-1, 0}
  BY <1>1, <1>2 DEF IInv, CntInv, CntNums
<1>7. ret2' \in {-2, -1, 0} /\ (o = "gain" => ret2' \in {-1, 0})
  BY <1>1, <1>2, <1>3 DEF IInv, CntInv, CntNums, Returned, OptNames
<1> QED
  BY <1>5, <1>6, <1>7

\* The three ways a request can turn out.
LEMMA DataRecvCases ==
    ASSUME NEW n \in FieldReads, DataRecv(n)
    PROVE  \/ DataReturn /\ UNCHANGED <<running, asked>>
           \/ running' = FALSE /\ ServerCloses /\ UNCHANGED <<data, asked>>
           \/ data' = "publish" /\ UNCHANGED <<running, sock, conn>>
              /\ asked' = (n < 6)
BY SizeAssumption, Zenon DEF DataRecv

\* CntThread's invariant depends on its own variables, on the clock and, once
\* it is past its polling loop, on the two times of the start.
LEMMA CntFrame ==
    ASSUME IInv, UNCHANGED <<now, cntVars>>,
           cnt \in {"none", "spin"} \/ UNCHANGED <<start_of_client, initial>>
    PROVE  CntInv'
<1> USE DEF IInv, CntInv, cntVars
<1>1. CntNums'
  BY DEF CntNums
<1>2. Pacing'
  BY DEF Pacing, Applying, Origin, OptNames
<1>3. Returned'
  BY DEF Returned
<1> QED
  BY <1>1, <1>2, <1>3

\* The steps of main keep the invariant.
LEMMA MainStep == ASSUME IInv, MainNext PROVE Threads'
<1> Threads
  BY DEF IInv, AppInv
<1> USE DEF Threads, SharedNums, TransferNums, Order, DataPcs, ClientPcs, MainPcs,
            cntVars, schedVars, sharedVars, dataVars, clientVars, connVars,
            transferVars, Unaffected, Exit, ServerCloses, ClientCloses,
            DataReturn
<1>1. CASE MainSetup
  <2> USE <1>1 DEF MainSetup
  <2>1. CASE main' = "launch" /\ UNCHANGED <<running, sock, conn>>
    BY <2>1
  <2>2. CASE Exit /\ UNCHANGED main
    BY <2>2
  <2> QED
    BY <2>1, <2>2, Zenon
<1>2. CASE MainLaunch
  BY <1>2, WordAssumption, SignalsAssumption DEF MainLaunch
<1>3. CASE MainListen
  BY <1>3 DEF MainListen
<1>4. CASE MainAccept
  <2> USE <1>4 DEF MainAccept
  <2>1. CASE sock' = "open" /\ UNCHANGED running
    BY <2>1
  <2>2. CASE Exit /\ UNCHANGED main
    BY <2>2
  <2> QED
    BY <2>1, <2>2, Zenon
<1>5. CASE MainSpawnCnt
  BY <1>5 DEF MainSpawnCnt
<1>6. CASE MainSpawnData
  BY <1>6 DEF MainSpawnData
<1>7. CASE MainJoin
  BY <1>7 DEF MainJoin
<1> QED
  BY <1>1, <1>2, <1>3, <1>4, <1>5, <1>6, <1>7 DEF MainNext

\* The steps of CntThread.
LEMMA CntStep == ASSUME IInv, Cnt PROVE IInv'
<1>a. UNCHANGED <<transferVars, main, basetime, sharedVars>>
  BY DEF Cnt, CntNext, CntSpin, CntReadStart, CntSetup, CntLag, CntSkipPast,
     CntSkipLate, SkipLate, CntSleep, CntTraceEnd, CntWake, CntSetOpt, CntFail,
     CntApplied, BeginIteration
<1>b. cnt # "none" /\ got_message
  BY DEF Cnt, CntNext, CntSpin, CntReadStart, CntSetup, CntLag, CntSkipPast,
     CntSkipLate, SkipLate, CntSleep, CntTraceEnd, CntWake, CntSetOpt, CntFail,
     CntApplied, BeginIteration, OptNames, IInv, AppInv, Threads, Order
<1>c. SharedNums' /\ TransferNums' /\ Order'
  BY <1>a, <1>b DEF IInv, AppInv, Threads, SharedNums, TransferNums, Order, sharedVars,
     transferVars, dataVars, clientVars, connVars
<1>d. begin' <= now => Past'
  BY <1>a DEF IInv, AppInv, Past, sharedVars, transferVars, clientVars
<1> SUFFICES CntInv' /\ begin' <= now
  BY <1>c, <1>d DEF IInv, AppInv, Threads
<1> CntInv
  BY DEF IInv
<1> /\ now \in 0..MaxTime
    /\ initial \in Nat /\ initial <= now
    /\ start_of_client \in Nat /\ start_of_client <= now
    /\ begin <= now
  BY DEF IInv, AppInv, Threads, SharedNums, Past
<1> UNCHANGED <<now, initial, start_of_client>>
  BY <1>a DEF sharedVars
<1> USE WordAssumption, TraceAssumption
    DEF CntInv, CntNums, Pacing, Returned, Applying, Origin, OptNames, CntPcs,
        NoRec, schedVars
<1>1. CASE CntSpin
  BY <1>1 DEF CntSpin
<1>2. CASE CntReadStart
  BY <1>2 DEF CntReadStart, Sub64
<1>3. CASE CntSetup
  <2> USE <1>3 DEF CntSetup
  <2>1. CASE cnt' = "done" /\ UNCHANGED <<bias_time, wake>>
    BY <2>1
  <2>2. CASE /\ bias_time' = Sub64(timestamp, fct_)
             /\ wake' = now + Lag
             /\ cnt' = "lag"
    <3>1. bias_time' = now - start_of_client
      BY <2>2 DEF Sub64, timestamp
    <3> QED
      BY <2>2, <3>1
  <2> QED
    BY <2>1, <2>2
<1>4. CASE CntLag
  BY <1>4 DEF CntLag
<1>5. CASE CntSkipPast
  BY <1>5 DEF CntSkipPast, BeginIteration
<1>6. CASE CntSkipLate
  <2> USE <1>6 DEF CntSkipLate, SkipLate, BeginIteration
  <2>1. it \in 0..NumLines - 1 /\ Trace[it] \in Nat
    OBVIOUS
  <2>2. NextOffset \in Int /\ Trace[it] - NextOffset = preTime + fct
    <3>1. preTime \in Nat /\ fct \in Nat
      OBVIOUS
    <3> HIDE DEF CntInv, CntSkipLate
    <3> QED
      BY <2>1, <3>1 DEF NextOffset
  <2>3. cnt = "loop" /\ cnt' = "loop" /\ preTime' = preTime + fct /\ fct' = 0
    BY <2>2
  <2>4. CntNums'
    BY <2>1, <2>2, <2>3
  <2>5. Pacing'
    BY <2>3
  <2>6. Returned' /\ begin' <= now
    BY <2>3
  <2> HIDE DEF CntNums, Pacing, Returned
  <2> QED
    BY <2>4, <2>5, <2>6
<1>7. CASE CntSleep
  <2> USE <1>7 DEF CntSleep, BeginIteration
  <2>1. it \in 0..NumLines - 1 /\ Trace[it] \in Nat
    OBVIOUS
  <2>2. NextOffset \in Nat /\ NextOffset = Trace[it] - preTime - fct
    <3>1. preTime \in Nat /\ fct \in Nat /\ NextOffset >= 0
      OBVIOUS
    <3> HIDE DEF CntInv, CntSleep
    <3> QED
      BY <2>1, <3>1 DEF NextOffset
  <2>3. CntNums'
    <3> HIDE DEF Pacing, Returned
    <3>1. wake' = now + NextOffset /\ offset' = NextOffset /\ begin' = now
      OBVIOUS
    <3>2. wake' \in Nat /\ offset' \in Int
      <4> HIDE DEF CntInv, CntSleep
      <4> QED
        BY <2>2, <3>1
    <3> QED
      BY <3>1, <3>2
  <2>4. Pacing'
    BY <2>1, <2>2
  <2>5. Returned' /\ begin' <= now
    OBVIOUS
  <2> HIDE DEF CntNums, Pacing, Returned
  <2> QED
    BY <2>3, <2>4, <2>5
<1>8. CASE CntTraceEnd
  BY <1>8 DEF CntTraceEnd
<1>9. CASE CntWake
  BY <1>9 DEF CntWake
<1>10. CASE \E o \in OptNames : CntSetOpt(o)
  <2>1. PICK o \in OptNames : CntSetOpt(o)
    BY <1>10
  <2>2. /\ cnt = o
        /\ cnt' = After(o)
        /\ UNCHANGED <<it, schedVars, drift, sharedVars>>
    BY <2>1 DEF CntSetOpt
  <2>3. /\ After(o) \in OptNames \cup {"finish"}
        /\ After(o) \in {"apply", "clamp"} => o = "gain"
    BY Zenon DEF After
  <2>4. /\ ret1' \in {-1, 0}
        /\ ret2' \in {-2, -1, 0}
        /\ o = "gain" => ret2' \in {-1, 0}
        /\ opt' \in [OptNames -> NoRec..NumLines - 1]
    BY <2>1, CntSetOptTypes
  <2>5. CntNums'
    BY <2>2, <2>3, <2>4
  <2>6. Pacing'
    BY <2>2, <2>3, Zenon
  <2>7. Returned' /\ begin' <= now
    BY <2>2, <2>3, <2>4
  <2> QED
    BY <2>5, <2>6, <2>7, Zenon
<1>11. CASE CntFail
  BY <1>11 DEF CntFail
<1>12. CASE CntApplied
  <2> USE <1>12 DEF CntApplied
  <2>1. /\ it < NumLines
        /\ Trace[it] \in Nat
        /\ Origin + Trace[it] <= wake
        /\ wake <= now
    BY ApplyingTime
  <2>2. fct' = now - wake
    BY DEF Sub64
  <2>3. CntNums'
    BY <2>1, <2>2
  <2>4. Pacing'
    <3>1. Origin' + preTime' + fct' <= now'
      <4>1. Origin' = Origin /\ preTime' = Trace[it] /\ now' = now
        OBVIOUS
      <4>2. Origin \in Nat /\ wake \in Nat /\ now \in Nat
        OBVIOUS
      <4> HIDE DEF CntInv, Origin
      <4> QED
        BY <2>1, <2>2, <4>1, <4>2
    <3>2. Origin' + bias_time' + fct' <= now'
      BY <2>1, <2>2
    <3> QED
      BY <3>1, <3>2
  <2>5. Returned' /\ begin' <= now
    OBVIOUS
  <2> QED
    BY <2>3, <2>4, <2>5
<1> QED
  BY <1>1, <1>2, <1>3, <1>4, <1>5, <1>6, <1>7, <1>8, <1>9, <1>10, <1>11, <1>12, Zenon DEF Cnt, CntNext

\* The steps of DataThread.
LEMMA DataStep == ASSUME IInv, Data PROVE Threads'
<1> Threads
  BY DEF IInv, AppInv
<1> USE DEF Threads, SharedNums, TransferNums, Order, DataPcs, ClientPcs, MainPcs,
            cntVars, schedVars, sharedVars, dataVars, clientVars, connVars,
            transferVars, Unaffected, Exit, ServerCloses, ClientCloses,
            DataReturn
<1> UNCHANGED <<cntVars, main, basetime>>
  BY DEF Data
<1>1. CASE DataRecvFailed
  BY <1>1 DEF DataRecvFailed
<1>2. CASE \E n \in FieldReads : DataRecv(n)
  <2>1. PICK n \in FieldReads : DataRecv(n)
    BY <1>2
  <2> /\ data = "recv" /\ asked
      /\ UNCHANGED <<loop, remaining, rem_size, clientVars, wire, got,
                     now, initial, start_of_client, got_message>>
    BY <2>1 DEF DataRecv
  <2>2. CASE DataReturn /\ UNCHANGED <<running, asked>>
    BY <2>2
  <2>3. CASE running' = FALSE /\ ServerCloses /\ UNCHANGED <<data, asked>>
    BY <2>3
  <2>4. CASE data' = "publish" /\ UNCHANGED <<running, sock, conn>>
    BY <2>4
  <2> QED
    BY <2>1, <2>2, <2>3, <2>4, DataRecvCases, Zenon
<1>3. CASE DataPublish
  BY <1>3 DEF DataPublish
<1>4. CASE DataNotify
  BY <1>4 DEF DataNotify
<1>5. CASE DataSize
  BY <1>5, SizeTypes DEF DataSize
<1>6. CASE DataSendBuffer
  BY <1>6, SizeAssumption DEF DataSendBuffer, Queue
<1>7. CASE DataSendEnd
  BY <1>7 DEF DataSendEnd
<1>8. CASE DataSendRest
  <2>1. wire' \in Nat /\ remaining' \in 0..UInt
    BY <1>8, SizeAssumption DEF DataSendRest, Queue
  <2>2. Order'
    BY <1>8 DEF DataSendRest
  <2> QED
    BY <1>8, <2>1, <2>2 DEF DataSendRest
<1>9. CASE DataSendBroken
  <2> USE <1>9 DEF DataSendBroken
  <2>1. CASE conn' = "reported" /\ UNCHANGED <<running, sock>>
    BY <2>1
  <2>2. CASE running' = FALSE /\ ServerCloses
    BY <2>2
  <2> QED
    BY <2>1, <2>2, Zenon
<1>10. CASE DataFinish
  BY <1>10, SizeAssumption DEF DataFinish
<1>11. CASE DataClose
  BY <1>11 DEF DataClose
<1> QED
  BY <1>1, <1>2, <1>3, <1>4, <1>5, <1>6, <1>7, <1>8, <1>9, <1>10, <1>11, Zenon DEF Data, DataNext

\* The steps of the client.
LEMMA ClientStep == ASSUME IInv, ClientNext PROVE Threads'
<1> Threads
  BY DEF IInv, AppInv
<1> USE DEF Threads, SharedNums, TransferNums, Order, DataPcs, ClientPcs, MainPcs,
            cntVars, schedVars, sharedVars, dataVars, clientVars, connVars,
            transferVars, Unaffected, Exit, ServerCloses, ClientCloses,
            DataReturn
<1> UNCHANGED <<cntVars, main, basetime>>
  BY DEF ClientNext
<1>1. CASE ClientSleep
  BY <1>1 DEF ClientSleep
<1>2. CASE ClientBasetime(basetime, Millis)
  <2>1. basetime # NoFile => basetime * Millis \in 0..MaxTime
    BY WordAssumption, TraceAssumption DEF IInv, AppInv, Past
  <2>2. SharedNums' /\ TransferNums'
    BY <1>2, <2>1 DEF ClientBasetime
  <2>3. Order'
    BY <1>2 DEF ClientBasetime
  <2> QED
    BY <2>2, <2>3
<1>3. CASE ClientSocket
  <2> USE <1>3 DEF ClientSocket
  <2>1. SharedNums' /\ TransferNums'
    OBVIOUS
  <2>2. Order'
    OBVIOUS
  <2> QED
    BY <2>1, <2>2
<1>4. CASE ClientConnect(Listening)
  <2> USE <1>4 DEF ClientConnect, Listening
  <2>1. SharedNums' /\ TransferNums'
    OBVIOUS
  <2>2. Order'
    OBVIOUS
  <2> QED
    BY <2>1, <2>2
<1>5. CASE ClientRequest
  <2> USE <1>5 DEF ClientRequest
  <2>1. SharedNums' /\ TransferNums'
    OBVIOUS
  <2>2. Order'
    OBVIOUS
  <2> QED
    BY <2>1, <2>2
<1>6. CASE ClientRecv
  <2>1. PICK n \in 1..Buf : n <= wire /\ wire' = wire - n /\ got' = got + n
    BY <1>6 DEF ClientRecv
  <2>2. wire' \in Nat /\ got' \in Nat
    BY <2>1, SizeAssumption
  <2>3. Order'
    BY <1>6 DEF ClientRecv
  <2> QED
    BY <1>6, <2>2, <2>3 DEF ClientRecv
<1>7. CASE ClientEof
  <2> USE <1>7 DEF ClientEof
  <2>1. SharedNums' /\ TransferNums'
    OBVIOUS
  <2>2. Order'
    OBVIOUS
  <2> QED
    BY <2>1, <2>2
<1> QED
  BY <1>1, <1>2, <1>3, <1>4, <1>5, <1>6, <1>7, Zenon DEF ClientNext

\* Signals, the basetime file and the clock.
LEMMA OtherStep ==
    ASSUME IInv, ServerKilled \/ KillClient \/ MahimahiBasetime \/ Tick
    PROVE  Threads'
<1> Threads
  BY DEF IInv, AppInv
<1> USE DEF Threads, SharedNums, TransferNums, Order,
            cntVars, schedVars, sharedVars, dataVars, clientVars, connVars,
            transferVars, Unaffected, Exit, ServerCloses, ClientCloses,
            DataReturn
<1>1. CASE ServerKilled
  <2> USE <1>1 DEF ServerKilled
  <2>1. SharedNums' /\ TransferNums'
    OBVIOUS
  <2>2. Order'
    OBVIOUS
  <2> QED
    BY <2>1, <2>2
<1>2. CASE KillClient
  BY <1>2 DEF KillClient, ClientKilled, ClientPcs
<1>3. CASE MahimahiBasetime
  <2>1. basetime' \in Nat
    <3>0. now \in Nat
      <4> HIDE DEF Order, TransferNums
      <4> QED
        BY WordAssumption
    <3> HIDE DEF Threads
    <3>1. now \in Nat /\ basetime' = now \div Millis
      BY <1>3, <3>0 DEF MahimahiBasetime
    <3> QED
      BY <3>1, FloorBelow, TraceAssumption
  <2>2. SharedNums' /\ TransferNums'
    <3> HIDE DEF Order
    <3>1. SharedNums'
      BY <1>3 DEF MahimahiBasetime
    <3>2. TransferNums'
      BY <1>3, <2>1 DEF MahimahiBasetime
    <3> QED
      BY <3>1, <3>2
  <2>3. Order'
    BY <1>3 DEF MahimahiBasetime
  <2> QED
    BY <2>2, <2>3
<1>4. CASE Tick
  <2> USE <1>4 DEF Tick
  <2>1. SharedNums' /\ TransferNums'
    <3> HIDE DEF Order
    <3>1. SharedNums'
      BY WordAssumption
    <3>2. TransferNums'
      OBVIOUS
    <3> QED
      BY <3>1, <3>2
  <2>2. Order'
    OBVIOUS
  <2> QED
    BY <2>1, <2>2
<1> QED
  BY <1>1, <1>2, <1>3, <1>4, Zenon

\* All but CntThread leave its invariant alone.
LEMMA OthersKeepCnt == ASSUME IInv, [Next]_vars, ~Cnt PROVE CntInv'
<1> USE DEF cntVars, schedVars, sharedVars, Unaffected, Exit
<1> Order
  BY DEF IInv, AppInv, Threads
<1>1. CASE MainNext
  <2>1. CASE MainSpawnCnt
    BY <2>1, WordAssumption DEF MainSpawnCnt, IInv, CntInv, CntNums, CntPcs,
       Pacing, Returned, Applying, Origin, OptNames, Order
  <2>2. CASE ~MainSpawnCnt
    BY <1>1, <2>2, CntFrame, Zenon DEF MainNext, MainSetup, MainLaunch, MainListen,
       MainAccept, MainSpawnData, MainJoin, Order
  <2> QED
    BY <2>1, <2>2
<1>2. CASE Data
  <2>1. CASE DataPublish
    BY <1>2, <2>1, CntFrame DEF Data, DataPublish, Order
  <2>2. CASE ~DataPublish
    BY <1>2, <2>2, CntFrame DEF Data, DataNext, DataRecvFailed, DataRecv,
       DataNotify, DataSize, DataSendBuffer, DataSendEnd, DataSendRest,
       DataSendBroken, DataFinish, DataClose
  <2> QED
    BY <2>1, <2>2
<1>3. CASE ClientNext \/ KillClient
  BY <1>3, CntFrame, Zenon DEF ClientNext, KillClient, ClientSleep, ClientBasetime,
     ClientSocket, ClientConnect, ClientRequest, ClientRecv, ClientEof,
     ClientKilled
<1>4. CASE ServerKilled \/ MahimahiBasetime \/ UNCHANGED vars
  BY <1>4, CntFrame DEF ServerKilled, MahimahiBasetime, vars
<1>5. CASE Tick
  <2> USE <1>5, WordAssumption, TraceAssumption DEF Tick
  <2> now \in Nat /\ now' = now + 1 /\ start_of_client \in Nat /\ CntInv
    BY DEF IInv, AppInv, Threads, SharedNums
  <2>1. CntNums'
    BY DEF CntInv, CntNums
  <2>2. Pacing'
    <3> HIDE DEF Tick
    <3>1. UNCHANGED <<cnt, it, fct_, bias_time, preTime, fct, offset, begin, wake,
                      start_of_client, initial>>
      BY DEF Tick
    <3>2. Origin \in Nat /\ Origin' = Origin
      BY <3>1 DEF Origin
    <3>3. /\ preTime \in Nat /\ fct \in Nat /\ bias_time \in Nat /\ begin \in Nat
          /\ wake \in Nat
      BY DEF CntInv, CntNums
    <3>4. Pacing
      BY DEF CntInv
    <3> QED
      BY <3>1, <3>2, <3>3, <3>4 DEF Pacing, Applying, OptNames
  <2>3. Returned'
    BY DEF CntInv, Returned
  <2> QED
    BY <2>1, <2>2, <2>3 DEF CntInv
<1> QED
  BY <1>1, <1>2, <1>3, <1>4, <1>5 DEF Next

\* Recorded times are those of the clock or of times recorded before.
LEMMA OthersKeepPast == ASSUME IInv, [Next]_vars, ~Cnt PROVE Past'
<1> USE DEF cntVars, schedVars, sharedVars, transferVars, clientVars, Unaffected,
            Exit
<1> Past
  BY DEF IInv, AppInv
<1>1. CASE MainNext \/ ServerKilled
  <2>1. CASE MainLaunch
    BY <2>1, WordAssumption DEF MainLaunch, Past, IInv, AppInv, Threads,
       SharedNums
  <2>2. CASE ~MainLaunch
    BY <1>1, <2>2, Zenon DEF MainNext, MainSetup, MainListen, MainAccept, MainSpawnCnt,
       MainSpawnData, MainJoin, ServerKilled, Past
  <2> QED
    BY <2>1, <2>2
<1>2. CASE Data
  BY <1>2 DEF Data, DataNext, DataRecvFailed, DataRecv, DataPublish, DataNotify,
     DataSize, DataSendBuffer, DataSendEnd, DataSendRest, DataSendBroken,
     DataFinish, DataClose, Past
<1>3. CASE ClientNext
  <2>1. CASE ClientBasetime(basetime, Millis)
    BY <1>3, <2>1 DEF ClientNext, ClientBasetime, Past
  <2>2. CASE ~ClientBasetime(basetime, Millis)
    BY <1>3, <2>2 DEF ClientNext, ClientSleep, ClientSocket, ClientConnect,
       ClientRequest, ClientRecv, ClientEof, Past
  <2> QED
    BY <2>1, <2>2
<1>4. CASE KillClient \/ UNCHANGED vars
  BY <1>4 DEF KillClient, ClientKilled, vars, Past
<1>5. CASE MahimahiBasetime
  <2>1. now \in Nat
    BY WordAssumption DEF IInv, AppInv, Threads, SharedNums
  <2>2. basetime' * Millis <= now
    BY <1>5, <2>1, FloorBelow, TraceAssumption DEF MahimahiBasetime
  <2> QED
    BY <1>5, <2>2 DEF MahimahiBasetime, Past
<1>6. CASE Tick
  <2> /\ now \in Nat /\ request \in Nat /\ start_of_client \in Nat
      /\ initial \in Nat /\ begin \in Nat
    BY WordAssumption DEF IInv, AppInv, Threads, SharedNums, TransferNums, CntInv,
       CntNums
  <2>1. basetime # NoFile => basetime * Millis \in Nat
    BY TraceAssumption DEF IInv, AppInv, Threads, TransferNums
  <2> QED
    BY <1>6, <2>1 DEF Tick, Past
<1> QED
  BY <1>1, <1>2, <1>3, <1>4, <1>5, <1>6 DEF Next

\* No step breaks the invariant.
LEMMA NextIInv == IInv /\ [Next]_vars => IInv'
<1> SUFFICES ASSUME IInv, [Next]_vars PROVE IInv'
  OBVIOUS
<1>1. CASE Cnt
  BY <1>1, CntStep
<1>2. CASE ~Cnt
  <2>1. CntInv'
    BY <1>2, OthersKeepCnt
  <2>2. Past'
    BY <1>2, OthersKeepPast
  <2>3. ASSUME UNCHANGED vars PROVE Threads'
    <3> USE <2>3 DEF IInv, AppInv, Threads, vars, cntVars, sharedVars,
                     transferVars, dataVars, clientVars, connVars
    <3>1. SharedNums' /\ TransferNums'
      BY DEF SharedNums, TransferNums
    <3>2. Order'
      BY DEF Order
    <3> QED
      BY <3>1, <3>2
  <2>4. Threads'
    BY <1>2, <2>3, MainStep, DataStep, ClientStep, OtherStep DEF Next
  <2> QED
    BY <2>1, <2>2, <2>4 DEF IInv, AppInv
<1> QED
  BY <1>1, <1>2

\* The invariant holds throughout.
LEMMA Inductive == Spec => []IInv
BY InitIInv, NextIInv, PTL DEF Spec

\* The feedback of a record never reaches the socket before the client's
\* network has been running for the record's time plus the lag
\* (server.cc:449-472): for every trace and lag, and also when records are
\* skipped, sleeps last too long or start_of_client precedes initial.
THEOREM FeedbackNeverEarly == Spec => []NeverEarly
<1>1. IInv => NeverEarly
  BY ApplyingTime, WordAssumption, TraceAssumption
     DEF NeverEarly, Origin, IInv, AppInv, Threads, CntInv, SharedNums, CntNums
<1> QED
  BY <1>1, Inductive, PTL

\* CntThread, past its polling loop, reads the time of the request and not the
\* initial value of start_of_client (server.cc:407-412, 580-581).
THEOREM StartIsPublished == Spec => []StartPublished
<1>1. IInv => StartPublished
  BY DEF IInv, AppInv, Threads, Order, StartPublished
<1> QED
  BY <1>1, Inductive, PTL

-----------------------------------------------------------------------------
(* The type invariant: its Boolean part, and the part above.               *)

\* The Boolean variables stay Boolean.
LEMMA NextBools == Bools /\ [Next]_vars => Bools'
<1> SUFFICES ASSUME Bools, [Next]_vars PROVE Bools'
  OBVIOUS
<1> USE DEF Bools, sharedVars, cntVars, schedVars, transferVars, dataVars,
            clientVars, connVars, Unaffected, Exit
<1>1. CASE MainNext
  BY <1>1, Zenon DEF MainNext, MainSetup, MainLaunch, MainListen, MainAccept,
     MainSpawnCnt, MainSpawnData, MainJoin
<1>2. CASE Cnt
  BY <1>2, Zenon DEF Cnt, CntNext, CntSpin, CntReadStart, CntSetup, CntLag,
     CntSkipPast, CntSkipLate, SkipLate, CntSleep, CntTraceEnd, CntWake,
     CntSetOpt, CntFail, CntApplied, BeginIteration
<1>3. CASE Data
  <2>1. CASE \E n \in FieldReads : DataRecv(n)
    <3>1. PICK n \in FieldReads : DataRecv(n)
      BY <2>1
    <3>2. UNCHANGED <<done, got_message>>
      BY <3>1, Zenon DEF DataRecv
    <3>3. (n < 6) \in BOOLEAN
      BY SMT
    <3> QED
      BY <1>3, <3>1, <3>2, <3>3, DataRecvCases, Zenon DEF Data, DataReturn
  <2>2. CASE DataNext /\ ~\E n \in FieldReads : DataRecv(n)
    BY <1>3, <2>2, Zenon DEF Data, DataNext, DataRecvFailed, DataPublish,
       DataNotify, DataSize, DataSendBuffer, DataSendEnd, DataSendRest,
       DataSendBroken, DataFinish, DataClose, DataReturn
  <2> QED
    BY <1>3, <2>1, <2>2, Zenon DEF Data
<1>4. CASE ClientNext
  BY <1>4, Zenon DEF ClientNext, ClientSleep, ClientBasetime, ClientSocket,
     ClientConnect, ClientRequest, ClientRecv, ClientEof
<1>5. CASE ServerKilled \/ KillClient \/ MahimahiBasetime \/ Tick
  BY <1>5, Zenon DEF ServerKilled, KillClient, ClientKilled,
     MahimahiBasetime, Tick
<1>6. CASE UNCHANGED vars
  BY <1>6, Zenon DEF vars
<1> QED
  BY <1>1, <1>2, <1>3, <1>4, <1>5, <1>6, Zenon DEF Next

\* Every variable keeps its type: no counter of the transfer leaves unsigned
\* int, no time of the schedule (server.cc:449-497, all of it on uint64_t)
\* wraps below zero, and `it' never passes the end of the trace.
THEOREM TypeCorrect == Spec => []TypeOK
<1>1. Init => Bools
  BY Zenon DEF Init, SharedInit, CntInit, TransferInit, Bools
<1>2. IInv => SharedNums /\ CntNums /\ TransferNums
  BY DEF IInv, AppInv, Threads, CntInv
<1> QED
  BY <1>1, <1>2, NextBools, Inductive, TypeSplit, PTL DEF Spec

-----------------------------------------------------------------------------
(* The transfer: a completed one delivers exactly the bytes asked for, for *)
(* every size, buffer size and width of unsigned int, whatever the         *)
(* interleaving of the server, the client and the signals.                 *)

\* Every byte of the request is still to be sent, on its way or received.
Conserved == got + wire + loop * Buf + remaining = Total

\* How far DataThread is, and what it has left to send.
Progress ==
    /\ data \in {"none", "recv", "publish", "notify", "size"} =>
          wire = 0 /\ got = 0
    /\ data \in {"send", "rest", "finish", "close"} \/ done => Conserved
    /\ data \in {"rest", "finish", "close"} \/ done => loop = 0
    /\ data \in {"finish", "close"} \/ done => remaining = 0
    /\ done => data \in {"close", "done"}

\* The two ends of the connection.
Ends ==
    /\ client \in {"none", "sleep", "basetime", "socket", "connect"} =>
          conn = "none"
    /\ conn \in {"none", "backlog"} => sock = "none"
    /\ sock = "closed" => ~running \/ data = "done"
    /\ main # "join" /\ running => sock # "closed"
    /\ client = "done" => conn # "backlog"
    /\ client = "done" /\ conn = "up" => sock = "closed" /\ wire = 0

TInv == Progress /\ Ends

\* The loop and the rest make up the transfer.
LEMMA TotalType == Total \in Nat /\ Loops * Buf + Remainder = Total
<1>1. FlowSize \in Nat
  BY SizeTypes, SizeAssumption
<1>2. Total \in Nat
  BY <1>1, SizeAssumption DEF Total
<1>3. Loops \in Nat
  BY SizeTypes, SizeAssumption
<1> QED
  BY <1>2, <1>3, SizeAssumption DEF Remainder

\* Nothing is sent at first.
LEMMA InitTInv == Init => TInv
BY DEF Init, SharedInit, TransferInit, TInv, Progress, Ends

\* A step that leaves DataThread and the bytes alone leaves its progress alone.
LEMMA ProgressKept ==
    ASSUME Progress, UNCHANGED <<data, loop, remaining, done, wire, got>>
    PROVE  Progress'
<1>1. Conserved => Conserved'
  BY DEF Conserved
<1> HIDE DEF Conserved
<1> QED
  BY <1>1 DEF Progress

\* The steps of main, and a kill of the server.
LEMMA MainTInv == ASSUME IInv, TInv, MainNext \/ ServerKilled PROVE TInv'
<1> USE DEF Unaffected, sharedVars, cntVars, transferVars, dataVars, clientVars, connVars,
            Exit, ServerCloses
<1>0. Progress /\ Ends /\ Order
  BY DEF TInv, IInv, AppInv, Threads
<1>1. CASE MainSetup
  <2>1. Progress'
    BY <1>0, <1>1, ProgressKept DEF MainSetup
  <2>2. Ends'
    BY <1>0, <1>1, Zenon DEF MainSetup, Ends
  <2> QED
    BY <2>1, <2>2 DEF TInv
<1>2. CASE MainLaunch
  <2>1. Progress'
    BY <1>0, <1>2, ProgressKept DEF MainLaunch
  <2>2. Ends'
    BY <1>0, <1>2 DEF MainLaunch, Ends, Order
  <2> QED
    BY <2>1, <2>2 DEF TInv
<1>3. CASE MainListen
  <2>1. Progress'
    BY <1>0, <1>3, ProgressKept DEF MainListen
  <2>2. Ends'
    BY <1>0, <1>3 DEF MainListen, Ends
  <2> QED
    BY <2>1, <2>2 DEF TInv
<1>4. CASE MainAccept
  <2>1. Progress'
    BY <1>0, <1>4, ProgressKept DEF MainAccept
  <2>2. Ends'
    BY <1>0, <1>4, Zenon DEF MainAccept, Ends, Order
  <2> QED
    BY <2>1, <2>2 DEF TInv
<1>5. CASE MainSpawnCnt
  <2>1. Progress'
    BY <1>0, <1>5, ProgressKept DEF MainSpawnCnt
  <2>2. Ends'
    BY <1>0, <1>5 DEF MainSpawnCnt, Ends
  <2> QED
    BY <2>1, <2>2 DEF TInv
<1>6. CASE MainJoin
  <2>1. Progress'
    BY <1>0, <1>6, ProgressKept DEF MainJoin
  <2>2. Ends'
    BY <1>0, <1>6 DEF MainJoin, Ends
  <2> QED
    BY <2>1, <2>2 DEF TInv
<1>7. CASE ServerKilled
  <2>1. Progress'
    BY <1>0, <1>7, ProgressKept DEF ServerKilled
  <2>2. Ends'
    BY <1>0, <1>7 DEF ServerKilled, Ends
  <2> QED
    BY <2>1, <2>2 DEF TInv
<1>8. CASE MainSpawnData
  <2>1. Progress'
    BY <1>0, <1>8 DEF MainSpawnData, Order, Progress
  <2>2. Ends'
    BY <1>0, <1>8 DEF MainSpawnData, Order, Ends
  <2> QED
    BY <2>1, <2>2 DEF TInv
<1> QED
  BY <1>1, <1>2, <1>3, <1>4, <1>5, <1>6, <1>7, <1>8 DEF MainNext

\* The steps of DataThread.
LEMMA DataTInv == ASSUME IInv, TInv, Data PROVE TInv'
<1> USE SizeAssumption, TotalType
    DEF TInv, Progress, Ends, Conserved, sharedVars, clientVars, connVars,
        dataVars, DataReturn, ServerCloses
<1> /\ loop \in Nat /\ remaining \in Nat /\ wire \in Nat /\ got \in Nat
    /\ loop * Buf \in Nat
  BY DEF IInv, AppInv, Threads, TransferNums
<1> Order
  BY DEF IInv, AppInv, Threads
<1> UNCHANGED main
  BY DEF Data
<1>1. CASE DataRecvFailed
  BY <1>1 DEF DataRecvFailed, Order
<1>2. CASE \E n \in FieldReads : DataRecv(n)
  <2>1. PICK n \in FieldReads : DataRecv(n)
    BY <1>2
  <2>2. /\ running /\ data = "recv" /\ asked
        /\ UNCHANGED <<loop, remaining, done, clientVars, wire, got>>
    BY <2>1 DEF DataRecv
  <2>3. CASE DataReturn
    BY <2>2, <2>3 DEF Order
  <2>4. CASE running' = FALSE /\ ServerCloses /\ UNCHANGED data
    BY <2>2, <2>4
  <2>5. CASE data' = "publish" /\ UNCHANGED <<running, sock, conn>>
    BY <2>2, <2>5
  <2> QED
    BY <2>1, <2>3, <2>4, <2>5, DataRecvCases, Zenon
<1>3. CASE DataPublish \/ DataNotify
  <2>1. /\ data \in {"publish", "notify"} /\ data' \in {"notify", "size"}
        /\ UNCHANGED <<loop, remaining, done, clientVars, connVars, running, sock>>
    BY <1>3 DEF DataPublish, DataNotify
  <2> HIDE DEF Conserved
  <2>2. Progress'
    BY <2>1
  <2>3. Ends'
    BY <2>1
  <2> QED
    BY <2>2, <2>3
<1>4. CASE DataSize
  <2>1. /\ data = "size" /\ data' = "send" /\ loop' = Loops /\ remaining' = Remainder
        /\ UNCHANGED <<done, clientVars, connVars, sharedVars>>
    BY <1>4 DEF DataSize
  <2>2. Loops \in Nat /\ Remainder \in Nat /\ Loops * Buf \in Nat
    BY SizeTypes
  <2>3. Conserved'
    BY <2>1, <2>2
  <2> HIDE DEF Conserved
  <2> QED
    BY <2>1, <2>3
<1>5. CASE DataSendBuffer
  <2>1. (loop - 1) * Buf = loop * Buf - Buf
    OBVIOUS
  <2>2. /\ running /\ data = "send" /\ loop > 0 /\ loop' = loop - 1 /\ wire' = wire + Buf
        /\ UNCHANGED <<data, remaining, done, clientVars, conn, asked, got, sharedVars>>
    BY <1>5 DEF DataSendBuffer, Queue
  <2>3. Conserved'
    <3>1. Conserved
      BY <2>2
    <3>2. loop' * Buf = loop * Buf - Buf
      BY <2>1, <2>2
    <3> HIDE DEF TInv, Progress, Ends
    <3> QED
      BY <2>2, <3>1, <3>2
  <2> HIDE DEF Conserved
  <2> QED
    BY <2>2, <2>3
<1>6. CASE DataSendEnd
  BY <1>6 DEF DataSendEnd
<1>7. CASE DataSendRest
  <2>1. /\ running /\ data = "rest" /\ wire' = wire + remaining /\ remaining' = 0
        /\ data' = "finish"
        /\ UNCHANGED <<loop, done, clientVars, conn, asked, got, sharedVars>>
    BY <1>7 DEF DataSendRest, Queue
  <2>2. Conserved' /\ loop = 0
    <3>1. Conserved /\ loop = 0
      BY <2>1
    <3> HIDE DEF TInv, Progress, Ends
    <3> QED
      BY <2>1, <3>1
  <2> HIDE DEF Conserved
  <2>3. Progress'
    BY <2>1, <2>2
  <2>4. Ends'
    BY <2>1
  <2> QED
    BY <2>3, <2>4
<1>8. CASE DataSendBroken
  <2>1. Progress'
    BY <1>8, ProgressKept DEF DataSendBroken
  <2> HIDE DEF Progress, Conserved
  <2>2. Ends'
    BY <1>8, Zenon DEF DataSendBroken
  <2> QED
    BY <2>1, <2>2
<1>9. CASE DataFinish
  BY <1>9 DEF DataFinish
<1>10. CASE DataClose
  BY <1>10 DEF DataClose, Order
<1> QED
  BY <1>1, <1>2, <1>3, <1>4, <1>5, <1>6, <1>7, <1>8, <1>9, <1>10, Zenon
     DEF Data, DataNext

\* The steps of the client, and its kill.
LEMMA ClientTInv == ASSUME IInv, TInv, ClientNext \/ KillClient PROVE TInv'
<1> USE DEF sharedVars, clientVars, connVars, dataVars, ClientCloses
<1>0. /\ Progress /\ Ends /\ client \in ClientPcs
      /\ wire \in Nat /\ got \in Nat /\ loop * Buf \in Nat /\ remaining \in Nat
  BY SizeAssumption DEF TInv, IInv, AppInv, Threads, TransferNums
<1>1. UNCHANGED main
  BY DEF ClientNext, KillClient
<1>2. CASE ClientSleep
  <2>1. Progress'
    BY <1>0, <1>2, ProgressKept DEF ClientSleep
  <2>2. Ends'
    BY <1>0, <1>1, <1>2 DEF ClientSleep, Ends
  <2> QED
    BY <2>1, <2>2 DEF TInv
<1>3. CASE ClientBasetime(basetime, Millis)
  <2>1. Progress'
    BY <1>0, <1>3, ProgressKept DEF ClientBasetime
  <2>2. Ends'
    BY <1>0, <1>1, <1>3 DEF ClientBasetime, Ends
  <2> QED
    BY <2>1, <2>2 DEF TInv
<1>4. CASE ClientSocket
  <2>1. Progress'
    BY <1>0, <1>4, ProgressKept DEF ClientSocket
  <2>2. Ends'
    BY <1>0, <1>1, <1>4 DEF ClientSocket, Ends
  <2> QED
    BY <2>1, <2>2 DEF TInv
<1>5. CASE ClientConnect(Listening)
  <2>1. Progress'
    BY <1>0, <1>5, ProgressKept DEF ClientConnect
  <2>2. Ends'
    BY <1>0, <1>1, <1>5 DEF ClientConnect, Ends
  <2> QED
    BY <2>1, <2>2 DEF TInv
<1>6. CASE ClientRequest
  <2>1. Progress'
    BY <1>0, <1>6, ProgressKept DEF ClientRequest
  <2>2. Ends'
    BY <1>0, <1>1, <1>6 DEF ClientRequest, Ends
  <2> QED
    BY <2>1, <2>2 DEF TInv
<1>7. CASE ClientEof
  <2>1. Progress'
    BY <1>0, <1>7, ProgressKept DEF ClientEof
  <2>2. Ends'
    BY <1>0, <1>1, <1>7 DEF ClientEof, Ends
  <2> QED
    BY <2>1, <2>2 DEF TInv
<1>8. CASE KillClient
  <2>1. Progress'
    BY <1>0, <1>8, ProgressKept DEF KillClient, ClientKilled
  <2>2. Ends'
    BY <1>0, <1>1, <1>8 DEF KillClient, ClientKilled, Ends
  <2> QED
    BY <2>1, <2>2 DEF TInv
<1>9. CASE ClientRecv
  <2>1. /\ \E n \in Nat : wire' = wire - n /\ got' = got + n /\ 0 < n /\ n <= wire
        /\ client = "recv"
        /\ UNCHANGED <<clientVars, conn, asked, dataVars, sharedVars>>
    BY <1>9, SizeAssumption DEF ClientRecv
  <2>2. wire > 0 /\ got' + wire' = got + wire
    BY <1>0, <2>1
  <2>3. Conserved => Conserved'
    BY <1>0, <2>1, TotalType DEF Conserved
  <2> HIDE DEF Conserved
  <2>4. Progress'
    <3>1. UNCHANGED <<data, loop, remaining, done>>
      BY <2>1
    <3>2. data \notin {"none", "recv", "publish", "notify", "size"}
      BY <1>0, <2>2 DEF Progress
    <3> QED
      BY <1>0, <2>3, <3>1, <3>2 DEF Progress
  <2>5. Ends'
    BY <1>0, <1>1, <2>1, <2>2 DEF Ends
  <2> QED
    BY <2>4, <2>5 DEF TInv
<1> QED
  BY <1>2, <1>3, <1>4, <1>5, <1>6, <1>7, <1>8, <1>9 DEF ClientNext

\* No step loses or adds a byte.
LEMMA NextTInv == IInv /\ TInv /\ [Next]_vars => TInv'
<1> SUFFICES ASSUME IInv, TInv, [Next]_vars PROVE TInv'
  OBVIOUS
<1>1. CASE Cnt \/ MahimahiBasetime \/ Tick \/ UNCHANGED vars
  <2>1. UNCHANGED <<transferVars, main, running, sock>>
    BY <1>1, Zenon DEF Cnt, CntNext, CntSpin, CntReadStart, CntSetup, CntLag,
       CntSkipPast, CntSkipLate, SkipLate, CntSleep, CntTraceEnd, CntWake,
       CntSetOpt, CntFail, CntApplied, MahimahiBasetime, Tick, vars, sharedVars
  <2> QED
    BY <2>1 DEF TInv, Progress, Ends, Conserved, transferVars, dataVars,
       clientVars, connVars
<1> QED
  BY <1>1, MainTInv, DataTInv, ClientTInv DEF Next

\* A client that reads to an orderly end of a transfer the server completed
\* has got exactly the bytes it asked for (server.cc:606-633,
\* client.c:276-293), also where the size wraps on unsigned int.
THEOREM TransferIsComplete == Spec => []CompleteTransfer
<1>1. IInv /\ TInv => CompleteTransfer
  BY TotalType, SizeAssumption
     DEF TInv, Progress, Ends, Conserved, CompleteTransfer, IInv, AppInv, Threads, TransferNums
<1> QED
  BY <1>1, InitIInv, NextIInv, InitTInv, NextTInv, PTL DEF Spec
=============================================================================
