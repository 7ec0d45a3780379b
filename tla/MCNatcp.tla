------------------------------ MODULE MCNatcp ------------------------------
(* Instances of Natcp for TLC. *)
EXTENDS Natcp

MCNoFile == -1

\* Every trace starts at 0, as all files of feedback/ do.  Records one unit
\* apart, two at the same time, and two in the same millisecond.
PacingTrace == [i \in 0..4 |-> <<0, 2, 3, 3, 5>>[i + 1]]

\* The shortest trace: one record in the past and one applied.
ControlTrace == [i \in 0..1 |-> <<0, 3>>[i + 1]]
=============================================================================
