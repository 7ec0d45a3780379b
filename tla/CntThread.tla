----------------------------- MODULE CntThread -----------------------------
(***************************************************************************)
(* The feedback thread of the NATCP server, CntThread of src/src/server.cc. *)
(* It plays the feedback trace against the clock: for every record it      *)
(* sleeps until the record's time has come, then writes the record's       *)
(* bandwidth, target delay, gain, window clamp and pacing rate into the    *)
(* socket DataThread is sending on.                                        *)
(*                                                                         *)
(* A socket option holds the index of the trace record its value was       *)
(* computed from (NoRec at first): the values are functions of the record, *)
(* which module CntValues defines.                                        *)
(***************************************************************************)
EXTENDS ServerState

CONSTANTS
    NumLines,   \* info->num_lines
    Trace,      \* Trace[i] is info->trace[i].time, in microseconds
    Lag,        \* lag_time
    Millis,     \* microseconds in a millisecond
    Mode,       \* feedback: 0 none, 1 NATCP, 3 NACubic
    MayFail     \* the options setsockopt may refuse on an open socket

\* The options in the order CntThread writes them; the fourth depends on Mode.
OptNames == {"bwval", "trgtdel", "gain", "apply", "clamp", "pacing"}

ASSUME TraceAssumption ==
    /\ NumLines \in Nat
    /\ Trace \in [0..NumLines - 1 -> Nat]
    /\ Lag \in Nat
    /\ Millis \in Nat \ {0}
    /\ Mode \in Nat
    /\ MayFail \subseteq OptNames \cup {"nodelay"}

NoRec == -1

VARIABLES
    cnt,        \* where CntThread is
    it,         \* the global it: the record played next
    check,      \* the global check: the last record was applied
    fct_,       \* start_of_client - initial_timestamp()
    bias_time,  \* how old the client's network is when the thread starts
    preTime,    \* trace time reached so far
    fct,        \* measured time not yet charged against the trace
    offset,     \* how long to sleep before the record is applied
    begin,      \* the static of timestamp_begin()
    wake,       \* when the current usleep may return
    ret1, ret2, \* setsockopt results
    opt,        \* opt[o]: the record the socket's option o comes from
    drift       \* history: time no timestamp_begin/timestamp_end pair measures,
                \* the oversleep of the lag and the time between iterations

cntVars == <<cnt, it, check, fct_, bias_time, preTime, fct, offset, begin,
             wake, ret1, ret2, opt, drift>>
schedVars == <<fct_, bias_time, preTime, fct, offset, begin, wake>>

CntPcs == {"none", "spin", "start", "setup", "lag", "loop", "sleep",
           "finish", "done"} \cup OptNames

CntTypeOK ==
    /\ cnt \in CntPcs
    /\ it \in 0..NumLines
    /\ check \in BOOLEAN
    /\ fct_ \in 0..Word - 1
    /\ bias_time \in 0..Word - 1
    /\ preTime \in Nat
    /\ fct \in Nat
    /\ offset \in Int
    /\ begin \in 0..MaxTime
    /\ wake \in Nat
    /\ ret1 \in {-1, 0}
    /\ ret2 \in {-2, -1, 0}
    /\ opt \in [OptNames -> NoRec..NumLines - 1]
    /\ drift \in Nat

CntInit ==
    /\ cnt = "none"
    /\ it = 0
    /\ check = FALSE
    /\ fct_ = 0 /\ bias_time = 0 /\ preTime = 0 /\ fct = 0 /\ offset = 0
    /\ begin = 0 /\ wake = 0
    /\ ret1 = 0 /\ ret2 = 0
    /\ opt = [o \in OptNames |-> NoRec]
    /\ drift = 0

-----------------------------------------------------------------------------
(* Start-up: wait for the request, compute the bias, sleep the lag.        *)

\* The polling loop sees got_message.
CntSpin ==
    /\ running /\ cnt = "spin"
    /\ got_message
    /\ cnt' = "start"
    /\ UNCHANGED <<it, check, schedVars, ret1, ret2, opt, drift, sharedVars>>

\* fct_ = start_of_client - initial_timestamp().
CntReadStart ==
    /\ running /\ cnt = "start"
    /\ fct_' = Sub64(start_of_client, initial)
    /\ cnt' = "setup"
    /\ UNCHANGED <<it, check, bias_time, preTime, fct, offset, begin, wake,
                   ret1, ret2, opt, drift, sharedVars>>

\* The results setsockopt can return: a closed descriptor is refused.
Results(o) == (IF sock = "open" THEN {0} ELSE {})
              \cup (IF sock # "open" \/ o \in MayFail THEN {-1} ELSE {})

\* TCP_NODELAY; when it is accepted, the bias is measured and the lag begins.
CntSetup ==
    /\ running /\ cnt = "setup"
    /\ \/ /\ -1 \in Results("nodelay")
          /\ cnt' = "done"
          /\ UNCHANGED <<bias_time, wake>>
       \/ /\ 0 \in Results("nodelay")
          /\ bias_time' = Sub64(timestamp, fct_)
          /\ wake' = now + Lag
          /\ cnt' = "lag"
    /\ UNCHANGED <<it, check, fct_, preTime, fct, offset, begin, ret1, ret2,
                   opt, drift, sharedVars>>

CntLag ==
    /\ running /\ cnt = "lag"
    /\ now >= wake
    /\ drift' = now - wake
    /\ cnt' = "loop"
    /\ UNCHANGED <<it, check, schedVars, ret1, ret2, opt, sharedVars>>

-----------------------------------------------------------------------------
(* The head of the loop.  Every iteration stamps its beginning.            *)

\* Variant: a record of the next millisecond counts as past, too.
InPastOffByOne == bias_time \div Millis + 1 >= Trace[it] \div Millis

InPast == bias_time \div Millis >= Trace[it] \div Millis
NextOffset == (Trace[it] - preTime) - fct

BeginIteration ==
    /\ running /\ cnt = "loop"
    /\ it < NumLines
    /\ check' = FALSE
    /\ begin' = now

\* The record was over before the thread started.
CntSkipPast ==
    /\ BeginIteration
    /\ InPast
    /\ preTime' = bias_time
    /\ it' = it + 1
    /\ UNCHANGED <<cnt, fct_, bias_time, fct, offset, wake, ret1, ret2, opt,
                   drift, sharedVars>>

\* The thread is late by more than the record's distance: it moves on, with
\* the trace time reached and the time still to be charged.
SkipLate(pre, charged) ==
    /\ BeginIteration
    /\ ~InPast
    /\ NextOffset < 0
    /\ offset' = NextOffset
    /\ preTime' = pre
    /\ fct' = charged
    /\ it' = it + 1
    /\ UNCHANGED <<cnt, fct_, bias_time, wake, ret1, ret2, opt, drift,
                   sharedVars>>

\* Variants: the measured time is charged again for the next record; the
\* lateness is forgotten; the lateness is subtracted instead of added.
CntSkipLateKeepFct == SkipLate(Trace[it] - NextOffset, fct)
CntSkipLateForget == SkipLate(Trace[it], 0)
CntSkipLateSign == SkipLate(Trace[it] + NextOffset, 0)

CntSkipLate == SkipLate(Trace[it] - NextOffset, 0)

\* usleep(offset)
CntSleep ==
    /\ BeginIteration
    /\ ~InPast
    /\ NextOffset >= 0
    /\ offset' = NextOffset
    /\ wake' = now + NextOffset
    /\ cnt' = "sleep"
    /\ UNCHANGED <<it, fct_, bias_time, preTime, fct, ret1, ret2, opt, drift,
                   sharedVars>>

CntTraceEnd ==
    /\ running /\ cnt = "loop"
    /\ it >= NumLines
    /\ cnt' = "done"
    /\ UNCHANGED <<it, check, schedVars, ret1, ret2, opt, drift, sharedVars>>

\* Variant: the sleep is cut short.
CntWakeAnyTime ==
    /\ running /\ cnt = "sleep"
    /\ cnt' = "bwval"
    /\ UNCHANGED <<it, check, schedVars, ret1, ret2, opt, drift, sharedVars>>

CntWake ==
    /\ running /\ cnt = "sleep"
    /\ now >= wake
    /\ cnt' = "bwval"
    /\ UNCHANGED <<it, check, schedVars, ret1, ret2, opt, drift, sharedVars>>

-----------------------------------------------------------------------------
(* Applying a record: one setsockopt after the other, each of which may    *)
(* find the socket closed by DataThread.                                   *)

\* The options written in this mode, in order.
After(o) ==
    CASE o = "bwval"   -> "trgtdel"
      [] o = "trgtdel" -> "gain"
      [] o = "gain"    -> IF Mode = 1 THEN "apply"
                          ELSE IF Mode = 3 THEN "clamp" ELSE "pacing"
      [] o = "apply"   -> "pacing"
      [] o = "clamp"   -> "pacing"
      [] o = "pacing"  -> "finish"

\* Variant: APPLY and CWND_CLAMP overwrite ret2, too.
CntSetOptOverwrite(o) ==
    /\ running /\ cnt = o
    /\ \E r \in Results(o) :
          /\ opt' = IF r = 0 THEN [opt EXCEPT ![o] = it] ELSE opt
          /\ ret1' = IF o = "bwval" THEN r ELSE ret1
          /\ ret2' = IF o \in {"bwval", "pacing"} THEN ret2 ELSE r
    /\ cnt' = After(o)
    /\ UNCHANGED <<it, check, schedVars, drift, sharedVars>>

\* BWVAL goes to ret1; TRGTDEL_MS and CWNDRVGAIN each assign ret2; APPLY and
\* CWND_CLAMP add to it; the result of SO_MAX_PACING_RATE is only printed.
CntSetOpt(o) ==
    /\ running /\ cnt = o
    /\ \E r \in Results(o) :
          /\ opt' = IF r = 0 THEN [opt EXCEPT ![o] = it] ELSE opt
          /\ ret1' = IF o = "bwval" THEN r ELSE ret1
          /\ ret2' = CASE o \in {"trgtdel", "gain"} -> r
                       [] o \in {"apply", "clamp"}  -> ret2 + r
                       [] OTHER                     -> ret2
    /\ cnt' = After(o)
    /\ UNCHANGED <<it, check, schedVars, drift, sharedVars>>

\* The results are looked at once all options are written.
CntFail ==
    /\ running /\ cnt = "finish"
    /\ ret1 < 0 \/ ret2 < 0
    /\ cnt' = "done"
    /\ UNCHANGED <<it, check, schedVars, ret1, ret2, opt, drift, sharedVars>>

CntApplied ==
    /\ running /\ cnt = "finish"
    /\ ret1 >= 0 /\ ret2 >= 0
    /\ preTime' = Trace[it]
    /\ it' = it + 1
    /\ check' = TRUE
    /\ fct' = Sub64(Sub64(now, begin), offset)
    /\ cnt' = "loop"
    /\ UNCHANGED <<fct_, bias_time, offset, begin, wake, ret1, ret2, opt,
                   drift, sharedVars>>

CntNext ==
    \/ CntSpin \/ CntReadStart \/ CntSetup \/ CntLag
    \/ CntSkipPast \/ CntSkipLate \/ CntSleep \/ CntTraceEnd \/ CntWake
    \/ \E o \in OptNames : CntSetOpt(o)
    \/ CntFail \/ CntApplied
=============================================================================
