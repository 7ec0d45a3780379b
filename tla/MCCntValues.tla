---------------------------- MODULE MCCntValues ----------------------------
(* CntValues on 8-bit ints, with units scaled accordingly. *)
EXTENDS CntValues

MCBandwidths == 0..12
MCMinRtts == 0..6
MCDelays == {0, 8, 14}
MCGains == {1, 2}
=============================================================================
