---------------------------- MODULE MCTransport ----------------------------
(* Instances of Transport for TLC.                                         *)
EXTENDS Transport

BothEnds == {Client, Server}
\* The client's user makes up to two events, the server's none.
TwoEvents == [e \in BothEnds |-> IF e = Client THEN 2 ELSE 0]
\* The server only acknowledges.
TwoOne == [e \in BothEnds |-> IF e = Client THEN 2 ELSE 1]
=============================================================================
