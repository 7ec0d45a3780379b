----------------------------- MODULE Transport -----------------------------
(***************************************************************************)
(* Transport (network/networktransport.cc): both ends of a connection,     *)
(* each with a TransportSender, the states it received and a fragment      *)
(* assembly, over a network that may lose, delay, repeat and reorder every *)
(* fragment.  A fragment waiting in SproutConnection's queue is part of    *)
(* the network.                                                            *)
(***************************************************************************)
EXTENDS TransportSender, FragmentAssembly

CONSTANTS
    RecvMax,   \* 1024: limit on the received states
    DiffFrags  \* fragments of an instruction with a diff

ASSUME TransportAssumption ==
    End = {"client", "server"} /\ RecvMax \in Nat /\ DiffFrags \in Nat \ {0}

VARIABLES
    received_states,     \* by number: the list is sorted and has no repeats
    last_receiver_state, \* what the user of this end has seen
    fragments,           \* the FragmentAssembly
    has_remote_addr      \* the server knows its client once it hears from it

recvVars == <<received_states, last_receiver_state, fragments, has_remote_addr>>
vars == <<senderVars, recvVars>>

Client == "client"
Server == "server"
Peer(e) == IF e = Client THEN Server ELSE Client

Init ==
    /\ SenderInit
    /\ received_states = [e \in End |-> [n \in {0} |-> <<>>]]
    /\ last_receiver_state = [e \in End |-> <<>>]
    /\ fragments = [e \in End |-> NoFragments]
    /\ has_remote_addr = [e \in End |-> e = Client]

Highest(r) == CHOOSE n \in DOMAIN r : \A k \in DOMAIN r : k <= n
Latest(r) == r[Highest(r)]

\* process_throwaway_until
ThrowawayUntil(r, n) == [k \in {j \in DOMAIN r : j >= n} |-> r[k]]

\* What recv makes of an instruction: `reference` is an iterator taken before
\* the states below throwaway_num are erased.
Accepts(r, inst) ==
    /\ inst.new \notin DOMAIN r
    /\ inst.old \in DOMAIN r
    /\ Cardinality(DOMAIN ThrowawayUntil(r, inst.throw)) <= RecvMax

\* Variant: the diff is applied to the latest state.
AcceptedLatest(r, inst) ==
    LET kept == ThrowawayUntil(r, inst.throw)
    IN  [n \in DOMAIN kept \cup {inst.new} |->
            IF n = inst.new THEN Latest(r) \o inst.diff ELSE kept[n]]

Accepted(r, inst) ==
    LET kept == ThrowawayUntil(r, inst.throw)
    IN  [n \in DOMAIN kept \cup {inst.new} |->
            IF n = inst.new THEN r[inst.old] \o inst.diff ELSE kept[n]]

\* Variant: the acknowledgement also goes out for a full queue.
ReceivedAckFull(e, inst) ==
    LET r == received_states[e]
    IN  /\ received_states' = [received_states EXCEPT ![e] =
              CASE Accepts(r, inst) -> Accepted(r, inst)
                [] inst.new \notin DOMAIN r /\ inst.old \in DOMAIN r /\ ~Accepts(r, inst) ->
                      ThrowawayUntil(r, inst.throw)
                [] OTHER -> r]
        /\ ack_num' = [ack_num EXCEPT ![e] =
              IF inst.old \in DOMAIN r /\ \A n \in DOMAIN r : n < inst.new
              THEN inst.new ELSE @]

\* The rest of recv once the acknowledgement is processed.  A state that is
\* not the highest is inserted and not acknowledged.
Received(e, inst) ==
    LET r == received_states[e]
        known == inst.new \notin DOMAIN r /\ inst.old \in DOMAIN r
    IN  /\ received_states' = [received_states EXCEPT ![e] =
              CASE Accepts(r, inst) -> Accepted(r, inst)
                [] known /\ ~Accepts(r, inst) -> ThrowawayUntil(r, inst.throw)
                [] OTHER -> r]
        /\ ack_num' = [ack_num EXCEPT ![e] =
              IF Accepts(r, inst) /\ \A n \in DOMAIN received_states'[e] : n <= inst.new
              THEN inst.new ELSE @]

\* recv: a fragment, and the instruction it completes.
Recv(e) ==
    \E inst \in sent[Peer(e)] :
    \E frag \in MakeFragments(inst.id, IF inst.diff = <<>> THEN 1 ELSE DiffFrags) :
        LET a == AddFragment(fragments[e], frag)
        IN  /\ has_remote_addr' = [has_remote_addr EXCEPT ![e] = TRUE]
            /\ IF Complete(a)
               THEN /\ fragments' = [fragments EXCEPT ![e] = GetAssembly(a)]
                    /\ sent_states' = [sent_states EXCEPT ![e] = ProcessAck(@, inst.ack)]
                    /\ Received(e, inst)
               ELSE /\ fragments' = [fragments EXCEPT ![e] = a]
                    /\ UNCHANGED <<sent_states, received_states, ack_num>>
            /\ UNCHANGED <<current_state, shutdown_in_progress, shutdown_tries,
                           sent, last_receiver_state>>

\* get_remote_diff: the user reads what changed.
GetRemoteDiff(e) ==
    /\ last_receiver_state' = [last_receiver_state EXCEPT
          ![e] = Latest(received_states[e])]
    /\ UNCHANGED <<senderVars, received_states, fragments, has_remote_addr>>

UserStep(e) == (Change(e) \/ StartShutdown(e)) /\ UNCHANGED recvVars

\* tick of the sender returns at once while there is no remote address.
TickStep(e) == has_remote_addr[e] /\ Tick(e) /\ UNCHANGED recvVars

Next ==
    \E e \in End : UserStep(e) \/ TickStep(e) \/ Recv(e) \/ GetRemoteDiff(e)

Spec == Init /\ [][Next]_vars

\* The program calls tick at least every wait_time milliseconds, and during a
\* shutdown an acknowledgement is due every send_interval.
FairSpec == Spec /\ \A e \in End : WF_vars(TickStep(e))

-----------------------------------------------------------------------------
(* Properties.                                                             *)

\* Types of the transport's state: no list is ever empty, and the limits hold.
TypeOK ==
    \A e \in End :
        /\ Len(sent_states[e]) \in 1..SentMax
        /\ DOMAIN received_states[e] # {}
        /\ Cardinality(DOMAIN received_states[e]) <= RecvMax + 1
        /\ shutdown_tries[e] \in 0..Retries

\* The first sent state, "known, acknowledged receiver state", is one the
\* receiver still has, so that it can be a reference for a later instruction
\* and process_throwaway_until never empties the receiver's list.
KnownStateHeld ==
    \A e \in End : sent_states[e][1].num \in DOMAIN received_states[Peer(e)]

\* No instruction is made from a state that was erased from the middle of the
\* list, or from one that the instruction itself tells the receiver to throw
\* away: recv would read both through an iterator to a freed node.
ReferenceKept ==
    \A e \in End : \A inst \in sent[e] : inst.old >= inst.throw

\* Where sender and receiver both have a state under a number, it is the same
\* state: the stream the sender thinks the receiver has is the one it has.
SameState ==
    \A e \in End : \A i \in 1..Len(sent_states[e]) :
        LET x == sent_states[e][i]
            r == received_states[Peer(e)]
        IN  x.num \in DOMAIN r => r[x.num] = x.state

\* A shutdown ends: the peer acknowledges the last state, or the retries are
\* used up.
ShutdownEnds ==
    \A e \in End :
        shutdown_in_progress[e] /\ has_remote_addr[e] ~>
            ShutdownAcknowledged(e) \/ ShutdownTimedOut(e)

\* What each user sees of the other end's events: StateSync.
UserInput == INSTANCE StateSync WITH
    current <- current_state[Client], view <- last_receiver_state[Server]
HostOutput == INSTANCE StateSync WITH
    current <- current_state[Server], view <- last_receiver_state[Client]

\* The detailed protocol implements StateSync in both directions: no event is
\* lost, repeated or taken back, whatever the network does.
Synchronized == UserInput!Spec /\ HostOutput!Spec
=============================================================================
