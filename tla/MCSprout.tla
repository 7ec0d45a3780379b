------------------------------ MODULE MCSprout ------------------------------
(* Instances of Sprout for TLC.                                            *)
EXTENDS Sprout

\* An outage, a steady link, and one that stops.
SomeForecasts == {<<0, 0, 0>>, <<0, 2, 4>>, <<1, 3, 3>>}
=============================================================================
