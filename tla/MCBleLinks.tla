---------------------------- MODULE MCBleLinks ----------------------------
(* Values for model checking BleLinks.                                     *)
EXTENDS BleLinks

CONSTANTS a1, a2, s1, s2
=============================================================================
