--------------------------- MODULE MCAdvertising ---------------------------
(* Values for model checking Advertising.                                  *)
EXTENDS Advertising

CONSTANTS s1, s2
=============================================================================
