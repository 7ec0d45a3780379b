---------------------------- MODULE MCEmulators ----------------------------
(* Instances of Emulators for TLC.                                         *)
EXTENDS Emulators

\* An opportunity at once, two in one millisecond, a gap.
SomeTraces == {<<0, 1, 3, 3>>, <<2, 2, 3, 4>>, <<1>>, <<>>}
=============================================================================
