---------------------------- MODULE ServerState ----------------------------
(***************************************************************************)
(* The globals of the NATCP server process (src/src/server.cc) that its    *)
(* threads share, and the clock and the socket they all see.  The unit of  *)
(* time is the microsecond of raw_timestamp().  CLOCK_REALTIME is assumed  *)
(* not to be stepped back.                                                 *)
(***************************************************************************)
EXTENDS Integers

CONSTANTS
    Word,      \* uint64_t wraps at this value
    MaxTime    \* bound: the clock stops here

ASSUME WordAssumption == Word \in Nat /\ MaxTime \in Nat /\ MaxTime < Word

VARIABLES
    now,              \* raw_timestamp()
    running,          \* the server process has not exited
    sock,             \* the accepted socket: "none", "open" or "closed"
    initial,          \* the static of initial_timestamp()
    start_of_client,  \* set by DataThread, read by CntThread
    got_message       \* set by DataThread, polled by CntThread

sharedVars == <<now, running, sock, initial, start_of_client, got_message>>

SharedTypeOK ==
    /\ now \in 0..MaxTime
    /\ running \in BOOLEAN
    /\ sock \in {"none", "open", "closed"}
    /\ initial \in 0..MaxTime
    /\ start_of_client \in 0..MaxTime
    /\ got_message \in BOOLEAN

SharedInit ==
    /\ running = TRUE
    /\ sock = "none"
    /\ initial = 0
    /\ start_of_client = 0
    /\ got_message = FALSE

\* a - b on uint64_t operands.
Sub64(a, b) == IF a >= b THEN a - b ELSE (a + Word) - b

\* timestamp(): the time since initial_timestamp() was first called.
timestamp == Sub64(now, initial)
=============================================================================
