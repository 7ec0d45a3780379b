-------------------------- MODULE TransportSender --------------------------
(***************************************************************************)
(* TransportSender (network/transportsender.cc) of both ends of a          *)
(* connection: the states sent and not yet known to be superseded, and the *)
(* instructions made from them.                                            *)
(*                                                                         *)
(* A state is a UserStream, the sequence of the user's events; taking the  *)
(* known prefix out of every state (rationalize_states) changes how a      *)
(* stream is stored and not what it means, and is left out.  Times are     *)
(* left out: a timer may be due or not at every tick, and the states sent  *)
(* longer ago than a timeout are any older part of the list.               *)
(***************************************************************************)
EXTENDS Integers, Sequences, FiniteSets

CONSTANTS
    End,        \* the two ends, {"client", "server"}
    MaxEvents,  \* events the user of each end makes
    MaxNum,     \* bounds on the state numbers of each end
    LastNum,    \* uint64_t(-1), the number of the last state of an end
    Closers,    \* the ends whose user may start a shutdown
    SentMax,    \* 32: limit on the list of sent states
    EraseBack,  \* 16: the state erased is this far from the end
    Retries,    \* SHUTDOWN_RETRIES
    MayClose    \* whether Sprout's window may be too small for a diff

ASSUME SenderAssumption ==
    /\ MaxEvents \in [End -> Nat] /\ Closers \subseteq End
    /\ LastNum \in Nat /\ MaxNum \in [End -> 0..(LastNum - 1)]
    /\ Retries \in Nat
    /\ SentMax \in Nat /\ EraseBack \in 3..SentMax
    /\ MayClose \in BOOLEAN

VARIABLES
    current_state, \* the state to be brought to the other end
    sent_states,   \* <<[num, state], ...>>; the first is acknowledged
    ack_num,       \* the last state received, acknowledged with every send
    shutdown_in_progress,
    shutdown_tries,
    sent           \* instructions ever sent; the network loses, delays,
                   \* repeats and reorders

senderVars == <<current_state, sent_states, ack_num, shutdown_in_progress,
                shutdown_tries, sent>>

\* What a freed list node holds.
Freed == -1

SenderInit ==
    /\ current_state = [e \in End |-> <<>>]
    /\ sent_states = [e \in End |-> <<[num |-> 0, state |-> <<>>]>>]
    /\ ack_num = [e \in End |-> 0]
    /\ shutdown_in_progress = [e \in End |-> FALSE]
    /\ shutdown_tries = [e \in End |-> 0]
    /\ sent = [e \in End |-> {}]

Back(s) == s[Len(s)]

-----------------------------------------------------------------------------
(* The list of sent states.                                                *)

\* update_assumed_receiver_state: after the known state, states in order as
\* long as they were sent less than a timeout ago.  The first `old` states of
\* the list were not, since times never decrease along it.
Assumed(s, old) ==
    CHOOSE i \in 1..Len(s) :
        /\ \A j \in 2..i : j > old
        /\ i < Len(s) => i + 1 <= old

\* Variant: the state before the newest.
PositionNewest(n) == n - 1

\* Where add_sent_state erases from a list of n states.
Position(n) == n + 1 - EraseBack

Erase(s, p) == [i \in 1..(Len(s) - 1) |-> IF i < p THEN s[i] ELSE s[i + 1]]

\* Variant: no limit on the list.
AddSentStateNoLimit(s, x) == Append(s, x)

\* add_sent_state: beyond the limit a state from the middle goes.
AddSentState(s, x) ==
    LET longer == Append(s, x)
    IN  IF Len(longer) > SentMax THEN Erase(longer, Position(Len(longer))) ELSE longer

\* The number of the state at the iterator i, held across add_sent_state.
NumAt(s, i) ==
    IF Len(s) + 1 > SentMax /\ i = Position(Len(s) + 1) THEN Freed ELSE s[i].num

\* process_acknowledgment_through: if the state is still there, all with lower
\* numbers go.  Numbers never decrease along the list.
FirstNotBelow(s, n) ==
    CHOOSE i \in 1..Len(s) : s[i].num >= n /\ \A j \in 1..(i - 1) : s[j].num < n

ProcessAck(s, n) ==
    IF \E i \in 1..Len(s) : s[i].num = n
    THEN SubSeq(s, FirstNotBelow(s, n), Len(s))
    ELSE s

-----------------------------------------------------------------------------
(* Operations.                                                             *)

\* Variant: only the newest event.
DiffFromNewest(state, existing) ==
    IF Len(state) > Len(existing) THEN <<state[Len(state)]>> ELSE <<>>

\* UserStream::diff_from: the events existing does not have.
DiffFrom(state, existing) == SubSeq(state, Len(existing) + 1, Len(state))

\* The user's input; current_state may not change during shutdown.
Change(e) ==
    /\ ~shutdown_in_progress[e]
    /\ Len(current_state[e]) < MaxEvents[e]
    /\ current_state' = [current_state EXCEPT ![e] = Append(@, Len(@) + 1)]
    /\ UNCHANGED <<sent_states, ack_num, shutdown_in_progress, shutdown_tries,
                   sent>>

StartShutdown(e) ==
    /\ e \in Closers
    /\ ~shutdown_in_progress[e]
    /\ shutdown_in_progress' = [shutdown_in_progress EXCEPT ![e] = TRUE]
    /\ UNCHANGED <<current_state, sent_states, ack_num, shutdown_tries, sent>>

ShutdownAcknowledged(e) == sent_states[e][1].num = LastNum
ShutdownTimedOut(e) == shutdown_tries[e] >= Retries

NewNum(e) ==
    IF shutdown_in_progress[e] THEN LastNum ELSE Back(sent_states[e]).num + 1

\* send_empty_ack and send_to_receiver, with send_in_fragments: the state is
\* listed and an instruction made from the assumed state, at index a.
SendState(e, a, diff, state) ==
    LET num == NewNum(e)
    IN  /\ num <= MaxNum[e] \/ shutdown_in_progress[e]
        /\ sent_states' = [sent_states EXCEPT
              ![e] = AddSentState(@, [num |-> num, state |-> state])]
        /\ sent' = [sent EXCEPT ![e] = @ \cup
              {[id    |-> Cardinality(@) + 1,
                old   |-> NumAt(sent_states[e], a),
                new   |-> num,
                ack   |-> ack_num[e],
                throw |-> sent_states'[e][1].num,
                diff  |-> diff]}]
        /\ shutdown_tries' = [shutdown_tries EXCEPT
              ![e] = IF num = LastNum THEN @ + 1 ELSE @]
        /\ UNCHANGED <<current_state, ack_num, shutdown_in_progress>>

\* Variant: no empty acknowledgement once a shutdown has started.
EmptyAckQuiet(e, a) ==
    ~shutdown_in_progress[e] /\ SendState(e, a, <<>>, current_state[e])

\* send_empty_ack lists current_state.
EmptyAck(e, a) == SendState(e, a, <<>>, current_state[e])

SendToReceiver(e, a, diff) ==
    SendState(e, a, diff, sent_states[e][a].state \o diff)

\* tick: with a window too small there is no diff and current_state is listed
\* with an empty acknowledgement all the same.  The program that uses the
\* transport ticks until its shutdown is acknowledged or given up.
Tick(e) ==
    /\ ~(shutdown_in_progress[e] /\ (ShutdownAcknowledged(e) \/ ShutdownTimedOut(e)))
    /\ \E old \in 1..Len(sent_states[e]) :
          LET a == Assumed(sent_states[e], old)
              diff == DiffFrom(current_state[e], sent_states[e][a].state)
          IN  \/ /\ diff = <<>> \/ MayClose
                 /\ EmptyAck(e, a)
              \/ /\ diff # <<>>
                 /\ SendToReceiver(e, a, diff)
=============================================================================
