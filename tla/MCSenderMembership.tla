------------------------- MODULE MCSenderMembership --------------------------
(* Receivers for SenderMembership.                                         *)
EXTENDS SenderMembership, TLC

CONSTANTS s1, s2, s3, phone, tablet

Runs == {s1, s2, s3}
Devices == {phone, tablet}

\* The phone may run the receiver a second time.
PhoneTwice == (s1 :> phone) @@ (s2 :> phone) @@ (s3 :> tablet)

\* Restarts without repeated datagrams, and repeated datagrams without restarts.
RestartOrRepeat == {[runs |-> Runs, repeats |-> FALSE], [runs |-> {s1, s3}, repeats |-> TRUE]}
=============================================================================
