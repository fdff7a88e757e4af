--------------------------------- MODULE MCSip ---------------------------------
(* Instances of the SIP gateway for TLC.                                    *)
EXTENDS SipProperties, TLC

CONSTANTS s1, s2, w1, w2, w3

TwoForOne == w1 :> s1 @@ w2 :> s1 @@ w3 :> s2
=============================================================================
