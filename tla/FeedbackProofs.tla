--------------------------- MODULE FeedbackProofs ---------------------------
(***************************************************************************)
(* Proofs about what CntThread leaves in the socket and when, on top of    *)
(* the invariant of NatcpProofs: the options are fresh, no record is       *)
(* dropped early, and the server implements FeedbackSchedule.              *)
(***************************************************************************)
EXTENDS NatcpProofs

-----------------------------------------------------------------------------
(* What the options hold while a record is being applied.                  *)

Options ==
    /\ opt["bwval"] <= it
    /\ cnt \notin (OptNames \ {"bwval"}) \cup {"finish", "done"} =>
          opt["bwval"] < it
    /\ cnt = "sleep" \/ Applying => ~check
    /\ FreshOptions
    /\ cnt \in (OptNames \ {"bwval"}) \cup {"finish"} /\ ret1 = 0 =>
          opt["bwval"] = it
    /\ cnt = "apply" => Mode = 1
    /\ cnt = "clamp" => Mode = 3
    /\ cnt \in {"apply", "clamp", "pacing", "finish"} /\ ret2 = 0 =>
          opt["gain"] = it
    /\ cnt \in {"pacing", "finish"} /\ ret2 = 0 =>
          /\ Mode = 1 => opt["apply"] = it
          /\ Mode = 3 => opt["clamp"] = it

\* No record is applied at first.
LEMMA InitOptions == Init => Options
BY DEF Init, CntInit, Options, FreshOptions, Applying, OptNames, NoRec

\* Each setsockopt of CntThread, and the test of the results.
LEMMA CntOptions == ASSUME IInv, Options, Cnt PROVE Options'
<1> USE TraceAssumption
    DEF Options, FreshOptions, CheckedOpts, Applying, OptNames, NoRec,
        schedVars
<1> /\ it \in Nat
    /\ opt \in [OptNames -> NoRec..NumLines - 1]
    /\ ret1 \in {-1, 0} /\ ret2 \in {-2, -1, 0}
  BY DEF IInv, AppInv, Threads, CntInv, SharedNums, CntNums
<1> opt["bwval"] \in Int /\ opt["gain"] \in Int /\ opt["apply"] \in Int
    /\ opt["clamp"] \in Int
  OBVIOUS
<1>1. CASE CntSpin
  BY <1>1 DEF CntSpin
<1>2. CASE CntReadStart
  BY <1>2 DEF CntReadStart
<1>3. CASE CntSetup
  BY <1>3 DEF CntSetup
<1>4. CASE CntLag
  BY <1>4 DEF CntLag
<1>5. CASE CntSkipPast
  BY <1>5 DEF CntSkipPast, BeginIteration
<1>6. CASE CntSkipLate
  BY <1>6 DEF CntSkipLate, SkipLate, BeginIteration
<1>7. CASE CntSleep
  BY <1>7 DEF CntSleep, BeginIteration
<1>8. CASE CntTraceEnd
  BY <1>8 DEF CntTraceEnd
<1>9. CASE CntWake
  BY <1>9 DEF CntWake
<1>10. CASE \E o \in OptNames : CntSetOpt(o)
  <2>1. PICK o \in OptNames : CntSetOpt(o)
    BY <1>10
  <2>2. PICK r \in Results(o) :
          /\ opt' = IF r = 0 THEN [opt EXCEPT ![o] = it] ELSE opt
          /\ ret1' = IF o = "bwval" THEN r ELSE ret1
          /\ ret2' = CASE o \in {"trgtdel", "gain"} -> r
                       [] o \in {"apply", "clamp"}  -> ret2 + r
                       [] OTHER                     -> ret2
    BY <2>1, Zenon DEF CntSetOpt
  <2>3. r \in {-1, 0}
    BY DEF Results
  <2>4. cnt = o /\ cnt' = After(o) /\ UNCHANGED <<it, check>>
    BY <2>1 DEF CntSetOpt
  <2>5. CASE o = "bwval"
    BY <2>2, <2>3, <2>4, <2>5 DEF After
  <2>6. CASE o = "trgtdel"
    BY <2>2, <2>3, <2>4, <2>6 DEF After
  <2>7. CASE o = "gain"
    BY <2>2, <2>3, <2>4, <2>7 DEF After
  <2>8. CASE o = "apply"
    BY <2>2, <2>3, <2>4, <2>8 DEF After
  <2>9. CASE o = "clamp"
    BY <2>2, <2>3, <2>4, <2>9 DEF After
  <2>10. CASE o = "pacing"
    BY <2>2, <2>3, <2>4, <2>10 DEF After
  <2> QED
    BY <2>5, <2>6, <2>7, <2>8, <2>9, <2>10
<1>11. CASE CntFail
  BY <1>11 DEF CntFail
<1>12. CASE CntApplied
  BY <1>12 DEF CntApplied
<1> QED
  BY <1>1, <1>2, <1>3, <1>4, <1>5, <1>6, <1>7, <1>8, <1>9, <1>10, <1>11,
     <1>12, Zenon DEF Cnt, CntNext

\* The steps of the others leave the record, its options and results alone.
LEMMA OthersLeaveCnt ==
    ASSUME [Next]_vars, ~Cnt
    PROVE  /\ UNCHANGED <<it, check, ret1, ret2, opt>>
           /\ UNCHANGED cnt \/ (cnt' = "spin" /\ main = "spawncnt")
<1> USE DEF cntVars, Unaffected
<1>1. CASE MainNext
  BY <1>1 DEF MainNext, MainSetup, MainLaunch, MainListen, MainAccept,
     MainSpawnCnt, MainSpawnData, MainJoin
<1>2. CASE Data \/ ClientNext \/ KillClient
  BY <1>2 DEF Data, ClientNext, KillClient
<1>3. CASE ServerKilled \/ MahimahiBasetime \/ Tick
  BY <1>3 DEF ServerKilled, MahimahiBasetime, Tick
<1>4. CASE UNCHANGED vars
  BY <1>4 DEF vars
<1> QED
  BY <1>1, <1>2, <1>3, <1>4 DEF Next

\* No other thread touches the options.
LEMMA NextOptions == IInv /\ Options /\ [Next]_vars => Options'
<1> SUFFICES ASSUME IInv, Options, [Next]_vars PROVE Options'
  OBVIOUS
<1>1. CASE ~Cnt
  <2>1. main = "spawncnt" => cnt = "none"
    BY DEF IInv, AppInv, Threads, Order
  <2> QED
    BY <1>1, <2>1, OthersLeaveCnt
       DEF Options, FreshOptions, Applying, OptNames
<1> QED
  BY <1>1, CntOptions

\* Both invariants hold throughout.
LEMMA AlwaysOptions == Spec => [](IInv /\ Options)
BY InitIInv, InitOptions, NextIInv, NextOptions, PTL DEF Spec

\* When a record counts as applied, each option whose result CntThread checks
\* holds the record's value (server.cc:472-495): for every set of options
\* that may fail and every moment at which DataThread closes the socket.
THEOREM OptionsAreFresh == Spec => []FreshOptions
<1>1. Options => FreshOptions
  BY DEF Options
<1> QED
  BY <1>1, AlwaysOptions, PTL

-----------------------------------------------------------------------------
(* Records given up.                                                       *)

\* Times compared in milliseconds differ by less than one.
LEMMA SameMillisecond ==
    ASSUME NEW a \in Nat, NEW b \in Nat, NEW m \in Nat \ {0},
           a \div m >= b \div m
    PROVE  a + m > b
<1>1. a \div m \in Nat /\ b \div m \in Nat
  BY SMT
<1>2. (a \div m) * m <= a
  BY SMT
<1>3. b < (b \div m) * m + m
  BY SMT
<1>4. (b \div m) * m <= (a \div m) * m
  BY <1>1
<1> QED
  BY <1>1, <1>2, <1>3, <1>4

\* A step that drops a record.
LEMMA StepOnlyStale ==
    ASSUME IInv, [Next]_vars, it' # it, ~check'
    PROVE  now + Millis > start_of_client + Trace[it]
<1> USE WordAssumption, TraceAssumption
<1>1. Cnt
  BY OthersLeaveCnt
<1> SharedNums /\ CntNums /\ Pacing
  BY DEF IInv, AppInv, Threads, CntInv
<1>2. CASE CntSkipPast
  <2>1. cnt = "loop" /\ Trace[it] \in Nat /\ InPast
    BY <1>2 DEF CntSkipPast, BeginIteration, SharedNums, CntNums
  <2>2. bias_time + Millis > Trace[it]
    <3>1. bias_time \in Nat /\ Millis \in Nat \ {0}
      BY DEF SharedNums, CntNums
    <3>2. bias_time \div Millis >= Trace[it] \div Millis
      BY <2>1 DEF InPast
    <3> HIDE TraceAssumption
    <3> QED
      BY <2>1, <3>1, <3>2, SameMillisecond, Zenon
  <2>3. start_of_client + Lag + bias_time + fct <= now
    BY <2>1 DEF Pacing, Origin
  <2> QED
    BY <2>1, <2>2, <2>3 DEF SharedNums, CntNums
<1>3. CASE CntSkipLate
  <2>1. cnt = "loop" /\ Trace[it] \in Nat /\ NextOffset < 0
    BY <1>3 DEF CntSkipLate, SkipLate, BeginIteration, SharedNums, CntNums
  <2>2. start_of_client + Lag + preTime + fct <= now
    BY <2>1 DEF Pacing, Origin
  <2> QED
    BY <2>1, <2>2 DEF SharedNums, CntNums, NextOffset
<1>4. CASE CntApplied
  BY <1>4 DEF CntApplied
<1> QED
  BY <1>1, <1>2, <1>3, <1>4 DEF Cnt, CntNext, CntSpin, CntReadStart, CntSetup,
     CntLag, CntSleep, BeginIteration, CntTraceEnd, CntWake, CntSetOpt, CntFail

\* A record is given up (server.cc:447-463) only when its time has come, to
\* the millisecond.
THEOREM DropsAreStale == Spec => OnlyStaleDropped
<1>1. IInv /\ [Next]_vars =>
        [it' # it /\ ~check' => now + Millis > start_of_client + Trace[it]]_vars
  BY StepOnlyStale
<1> QED
  BY <1>1, Inductive, PTL DEF Spec, OnlyStaleDropped

-----------------------------------------------------------------------------
(* The server implements FeedbackSchedule.                                 *)

\* The initial states of the server map to those of the schedule.
LEMMA InitSchedule == Init => Schedule!Init
BY WordAssumption, TraceAssumption
   DEF Init, SharedInit, CntInit, Schedule!Init, NoRec, OptNames

\* Every step of the server is a step of the schedule or none.
LEMMA StepSchedule ==
    ASSUME IInv, Options, [Next]_vars
    PROVE  [Schedule!Next]_(Schedule!schedule)
<1> USE WordAssumption, TraceAssumption
    DEF Schedule!schedule, sharedVars, cntVars, Unaffected
<1>1. CASE Cnt
  <2>1. CASE CntSetOpt("bwval") /\ opt' = [opt EXCEPT !["bwval"] = it]
    <3>1. Applying /\ cnt = "bwval" /\ UNCHANGED sharedVars
      BY <2>1 DEF CntSetOpt, Applying, OptNames
    <3>2. it \in 0..NumLines - 1 /\ now >= start_of_client + Lag + Trace[it]
      BY <3>1, ApplyingTime DEF IInv, AppInv, Threads, CntInv,
         SharedNums, CntNums, Origin
    <3>3. got_message /\ opt["bwval"] < it
      BY <3>1 DEF IInv, AppInv, Threads, Order, Options, OptNames
    <3>4. opt'["bwval"] = it
      BY <2>1 DEF IInv, AppInv, Threads, CntInv, SharedNums, CntNums, OptNames
    <3>5. Schedule!Apply(it)
      BY <3>1, <3>2, <3>3, <3>4 DEF Schedule!Apply
    <3> QED
      BY <3>2, <3>5 DEF Schedule!Next
  <2>2. CASE UNCHANGED <<sharedVars, opt>>
    BY <2>2
  <2>3. CASE \E o \in OptNames \ {"bwval"} :
                CntSetOpt(o) /\ opt' = [opt EXCEPT ![o] = it]
    BY <2>3 DEF CntSetOpt, IInv, AppInv, Threads, CntInv, SharedNums, CntNums, OptNames
  <2>4. CASE \E o \in OptNames : CntSetOpt(o)
    BY <2>1, <2>2, <2>3, <2>4, Zenon DEF CntSetOpt
  <2> QED
    BY <1>1, <2>2, <2>4, Zenon DEF Cnt, CntNext, CntSpin, CntReadStart, CntSetup,
       CntLag, CntSkipPast, CntSkipLate, SkipLate, CntSleep, BeginIteration,
       CntTraceEnd, CntWake, CntFail, CntApplied
<1>2. CASE Tick
  BY <1>2 DEF Tick, Schedule!Next, Schedule!Advance
<1>3. CASE Data
  <2>1. UNCHANGED opt
    BY <1>3 DEF Data
  <2>2. CASE DataPublish
    <3>1. ~got_message /\ request \in 0..now
      BY <2>2 DEF IInv, AppInv, Threads, SharedNums, TransferNums, Order, Past, DataPublish
    <3> QED
      BY <2>1, <2>2, <3>1 DEF DataPublish, Schedule!Next, Schedule!Learn
  <2>3. CASE DataNotify
    BY <2>1, <2>3 DEF DataNotify, Schedule!Next, Schedule!Announce
  <2> QED
    BY <1>3, <2>1, <2>2, <2>3 DEF Data, DataNext, DataRecvFailed, DataRecv,
       DataSize, DataSendBuffer, DataSendEnd, DataSendRest, DataSendBroken,
       DataFinish, DataClose
<1>4. CASE MainNext \/ ServerKilled
  BY <1>4, Zenon DEF MainNext, MainSetup, MainLaunch, MainListen, MainAccept,
     MainSpawnCnt, MainSpawnData, MainJoin, ServerKilled
<1>5. CASE ClientNext \/ KillClient
  BY <1>5 DEF ClientNext, ClientSleep, ClientBasetime, ClientSocket,
     ClientConnect, ClientRequest, ClientRecv, ClientEof, KillClient,
     ClientKilled
<1>6. CASE MahimahiBasetime \/ UNCHANGED vars
  BY <1>6 DEF MahimahiBasetime, vars
<1> QED
  BY <1>1, <1>2, <1>3, <1>4, <1>5, <1>6 DEF Next

\* The threads of the server, run together, implement the abstract feedback:
\* records take effect in order, each at most once, none before its time plus
\* the lag, and start_of_client is settled before CntThread uses it
\* (server.cc:393-504, 580-581).
THEOREM ImplementsSchedule == Spec => FeedbackInSchedule
<1>1. IInv /\ Options /\ [Next]_vars => [Schedule!Next]_(Schedule!schedule)
  BY StepSchedule
<1> QED
  BY <1>1, InitSchedule, AlwaysOptions, PTL
     DEF Spec, FeedbackInSchedule, Schedule!Spec

-----------------------------------------------------------------------------
(* Where the time goes.  The feedback files of the repository all start at *)
(* time 0 and are in the order of time.                                    *)

Sorted ==
    /\ NumLines > 0 => Trace[0] = 0
    /\ \A i, j \in 0..NumLines - 1 : i <= j => Trace[i] <= Trace[j]

PastFor(i) == bias_time \div Millis >= Trace[i] \div Millis

Accounts ==
    /\ cnt \in {"none", "spin", "start", "setup", "lag"} => it = 0
    /\ cnt = "loop" /\ it = 0 => now = Origin + bias_time + drift /\ fct = 0
    /\ cnt = "loop" /\ it > 0 =>
          /\ now = Origin + preTime + fct + drift
          /\ (preTime = bias_time /\ fct = 0) \/ ~PastFor(it - 1)
    /\ cnt = "sleep" \/ Applying =>
          /\ begin = Origin + preTime + fct + drift
          /\ ~PastFor(it)

\* Division keeps the order.
LEMMA DivMonotone ==
    ASSUME NEW a \in Nat, NEW b \in Nat, NEW m \in Nat \ {0}, a <= b
    PROVE  a \div m <= b \div m
<1>1. a \div m \in Nat /\ b \div m \in Nat
  BY SMT
<1>2. (a \div m) * m <= a /\ b < (b \div m) * m + m
  BY SMT
<1>3. (a \div m) * m < ((b \div m) + 1) * m
  BY <1>1, <1>2
<1> QED
  BY <1>1, <1>3

\* What precedes a past record is past.
LEMMA PastIsDownward ==
    ASSUME Sorted, IInv, NEW i \in 0..NumLines - 1, NEW j \in 0..NumLines - 1,
           i <= j, PastFor(j)
    PROVE  PastFor(i)
<1>1. Trace[i] \in Nat /\ Trace[j] \in Nat /\ Millis \in Nat \ {0}
  BY TraceAssumption
<1>2. Trace[i] <= Trace[j]
  BY DEF Sorted
<1>3. Trace[i] \div Millis <= Trace[j] \div Millis
  BY <1>1, <1>2, DivMonotone
<1>4. /\ Trace[i] \div Millis \in Nat
      /\ Trace[j] \div Millis \in Nat
      /\ bias_time \div Millis \in Nat
  BY <1>1, WordAssumption DEF IInv, AppInv, Threads, CntInv, SharedNums, CntNums
<1> QED
  BY <1>3, <1>4 DEF PastFor

\* The first record, at time 0, is past.
LEMMA FirstIsPast ==
    ASSUME Sorted, IInv, NumLines > 0
    PROVE  PastFor(0)
<1>1. bias_time \in Nat /\ Millis \in Nat \ {0} /\ Trace[0] = 0
  BY WordAssumption, TraceAssumption DEF IInv, AppInv, Threads, CntInv, SharedNums, CntNums, Sorted
<1>2. bias_time \div Millis >= 0 \div Millis
  BY <1>1, DivMonotone
<1> QED
  BY <1>1, <1>2 DEF PastFor

\* The steps of CntThread keep the accounts.
LEMMA CntAccounts == ASSUME Sorted, IInv, Accounts, Cnt PROVE Accounts'
<1> USE WordAssumption, TraceAssumption
    DEF Accounts, Applying, Origin, OptNames, schedVars, sharedVars, PastFor
<1> /\ it \in 0..NumLines
    /\ now \in Nat /\ start_of_client \in Nat /\ begin \in Nat
    /\ preTime \in Nat /\ fct \in Nat /\ bias_time \in Nat /\ drift \in Nat
  BY DEF IInv, AppInv, Threads, CntInv, SharedNums, CntNums
<1> Pacing
  BY DEF IInv, AppInv, Threads, CntInv
<1>1. CASE CntSpin \/ CntReadStart \/ CntSetup
  BY <1>1 DEF CntSpin, CntReadStart, CntSetup
<1>2. CASE CntLag
  <2>1. /\ cnt = "lag" /\ cnt' = "loop" /\ it = 0 /\ fct = 0
        /\ wake = Origin + bias_time /\ drift' = now - wake
        /\ UNCHANGED <<it, schedVars, sharedVars>>
    BY <1>2 DEF CntLag, Pacing
  <2> QED
    BY <2>1
<1>3. CASE CntSkipPast
  <2>1. /\ cnt = "loop" /\ cnt' = "loop" /\ it < NumLines /\ it' = it + 1
        /\ preTime' = bias_time /\ PastFor(it)
        /\ UNCHANGED <<bias_time, fct, drift, sharedVars>>
    BY <1>3 DEF CntSkipPast, BeginIteration, InPast
  <2>2. CASE it = 0
    BY <2>1, <2>2
  <2>3. CASE it > 0
    <3>1. PastFor(it - 1)
      BY <2>1, <2>3, PastIsDownward
    <3> QED
      BY <2>1, <2>3, <3>1
  <2> QED
    BY <2>2, <2>3
<1>4. CASE CntSkipLate
  <2>1. /\ cnt = "loop" /\ cnt' = "loop" /\ it < NumLines /\ it' = it + 1
        /\ preTime' = Trace[it] - NextOffset /\ fct' = 0 /\ ~PastFor(it)
        /\ UNCHANGED <<bias_time, drift, sharedVars>>
    BY <1>4 DEF CntSkipLate, SkipLate, BeginIteration, InPast
  <2>2. it > 0
    BY <2>1, FirstIsPast
  <2>3. preTime' = preTime + fct
    BY <2>1 DEF NextOffset
  <2>4. now = Origin + preTime + fct + drift
    BY <2>1, <2>2
  <2>5. now' = (Origin + preTime + fct + drift)'
    BY <2>1, <2>3, <2>4
  <2>6. ~PastFor(it - 1)'
    BY <2>1
  <2> QED
    BY <2>1, <2>2, <2>5, <2>6
<1>5. CASE CntSleep
  <2>1. /\ cnt = "loop" /\ cnt' = "sleep" /\ it < NumLines /\ ~PastFor(it)
        /\ begin' = now
        /\ UNCHANGED <<it, bias_time, preTime, fct, drift, sharedVars>>
    BY <1>5 DEF CntSleep, BeginIteration, InPast
  <2>2. it > 0
    BY <2>1, FirstIsPast
  <2> QED
    BY <2>1, <2>2
<1>6. CASE CntTraceEnd \/ CntWake \/ CntFail
  BY <1>6, Zenon DEF CntTraceEnd, CntWake, CntFail
<1>7. CASE \E o \in OptNames : CntSetOpt(o)
  <2>1. PICK o \in OptNames : CntSetOpt(o)
    BY <1>7
  <2>2. Applying /\ UNCHANGED <<it, schedVars, drift, sharedVars>>
    BY <2>1 DEF CntSetOpt
  <2>3. cnt' \in OptNames \cup {"finish"}
    BY <2>1 DEF CntSetOpt, After
  <2> QED
    BY <2>2, <2>3
<1>8. CASE CntApplied
  <2>1. /\ Applying /\ cnt' = "loop" /\ it' = it + 1 /\ preTime' = Trace[it]
        /\ fct' = Sub64(Sub64(now, begin), offset)
        /\ UNCHANGED <<bias_time, drift, sharedVars>>
    BY <1>8 DEF CntApplied
  <2>2. /\ wake <= now /\ Trace[it] \in Nat /\ it < NumLines
        /\ offset = Trace[it] - preTime - fct /\ offset >= 0
        /\ wake = begin + offset
    BY <2>1, ApplyingTime DEF Pacing
  <2>3. offset \in Nat /\ begin + offset <= now
    BY <2>2
  <2>4. fct' = (now - begin) - offset
    <3> HIDE DEF Accounts, Applying
    <3>1. Sub64(now, begin) = now - begin
      BY <2>3 DEF Sub64
    <3>2. Sub64(now - begin, offset) = (now - begin) - offset
      BY <2>3 DEF Sub64
    <3> QED
      BY <2>1, <3>1, <3>2
  <2>5. begin = Origin + preTime + fct + drift /\ ~PastFor(it)
    BY <2>1
  <2>6. now = Origin + Trace[it] + ((now - begin) - offset) + drift
    <3>1. Origin \in Nat
      OBVIOUS
    <3> HIDE TraceAssumption DEF Accounts, Applying, Origin, PastFor
    <3> QED
      BY <2>2, <2>5, <3>1
  <2>7. it' > 0 /\ it' - 1 = it
    BY <2>1
  <2>8. now' = (Origin + preTime + fct + drift)'
    BY <2>1, <2>4, <2>6
  <2>9. ~PastFor(it - 1)'
    BY <2>1, <2>5, <2>7
  <2> QED
    BY <2>1, <2>7, <2>8, <2>9
<1> QED
  BY <1>1, <1>2, <1>3, <1>4, <1>5, <1>6, <1>7, <1>8, Zenon DEF Cnt, CntNext

\* Time passes for CntThread only where Tick charges it, and its start time is
\* settled before it leaves the polling loop.
LEMMA OtherAccounts == ASSUME IInv, Accounts, [Next]_vars, ~Cnt PROVE Accounts'
<1> USE DEF Accounts, Applying, Origin, OptNames, schedVars, sharedVars, PastFor,
            cntVars, Unaffected
<1> /\ now \in Nat /\ start_of_client \in Nat /\ Lag \in Nat
    /\ preTime \in Nat /\ fct \in Nat /\ bias_time \in Nat /\ drift \in Nat
  BY WordAssumption, TraceAssumption DEF IInv, AppInv, Threads, CntInv,
     SharedNums, CntNums
<1> Order
  BY DEF IInv, AppInv, Threads, CntInv
<1>1. CASE MainNext \/ ServerKilled
  BY <1>1, Zenon DEF MainNext, MainSetup, MainLaunch, MainListen, MainAccept,
     MainSpawnCnt, MainSpawnData, MainJoin, ServerKilled, Order
<1>2. CASE Tick
  <2>1. /\ now' = now + 1
        /\ drift' = IF cnt = "loop" THEN drift + 1 ELSE drift
        /\ UNCHANGED <<cnt, it, schedVars, start_of_client>>
    BY <1>2 DEF Tick
  <2>2. CASE cnt = "loop"
    BY <2>1, <2>2
  <2>3. CASE cnt # "loop"
    BY <2>1, <2>3
  <2> QED
    BY <2>2, <2>3
<1>3. CASE DataPublish /\ Data
  BY <1>3 DEF Data, DataPublish, Order
<1>4. CASE Data /\ ~DataPublish
  BY <1>4 DEF Data, DataNext, DataRecvFailed, DataRecv, DataNotify, DataSize,
     DataSendBuffer, DataSendEnd, DataSendRest, DataSendBroken, DataFinish,
     DataClose
<1>5. CASE ClientNext \/ KillClient
  BY <1>5, Zenon DEF ClientNext, ClientSleep, ClientBasetime, ClientSocket,
     ClientConnect, ClientRequest, ClientRecv, ClientEof, KillClient,
     ClientKilled
<1>6. CASE MahimahiBasetime \/ UNCHANGED vars
  BY <1>6 DEF MahimahiBasetime, vars
<1> QED
  BY <1>1, <1>2, <1>3, <1>4, <1>5, <1>6, Zenon DEF Next

\* With a trace that starts at 0 and is in order, the schedule of CntThread
\* (preTime and fct, server.cc:442-498) accounts for all time but the lag and
\* what passes outside timestamp_begin/timestamp_end: the feedback is late by
\* exactly the drift, however many records are skipped or late.
THEOREM AllTimeAccounted == ASSUME Sorted PROVE Spec => []ClockAccounting
<1>1. Init => Accounts
  BY DEF Init, CntInit, Accounts, Applying, OptNames
<1>2. IInv /\ Accounts /\ [Next]_vars => Accounts'
  BY CntAccounts, OtherAccounts
<1>3. Accounts => ClockAccounting
  BY DEF Accounts, ClockAccounting, Origin
<1> QED
  BY <1>1, <1>2, <1>3, Inductive, PTL DEF Spec
=============================================================================
