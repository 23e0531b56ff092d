------------------------------ MODULE MCUdSocket ------------------------------
(* Instances of UdSocket for TLC. *)
EXTENDS UdSocket

CONSTANTS t1, t2, w, m1, m2, m3, r1

OneThread == {t1}
TwoThreads == {t1, t2}
TwoMessages == {m1, m2}
ThreeMessages == {m1, m2, m3}
OneRecipient == {r1}

ToOne == [m \in Messages |-> r1]
AllNotified == Messages
\* nobody waits for the result of m3
NotTheThird == Messages \ {m3}
=============================================================================
