----------------------------- MODULE MCPhoneLink -----------------------------
(* Values for model checking PhoneLink.                                    *)
EXTENDS PhoneLinkClaims

CONSTANTS p1, t1, t2, t3, l1, l2

ToP1 == [t \in Texts |-> p1]
=============================================================================
