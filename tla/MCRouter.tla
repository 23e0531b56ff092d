------------------------------- MODULE MCRouter -------------------------------
(* An instance of Router for TLC. *)
EXTENDS Router

CONSTANTS p, q, r, s1, s2, x

TwoApps == {p, q}
OneRemote == {r}
ThreeServices == {s1, s2, x}

\* both applications offer s1, the remote endpoint provides x
OffersOf == [a \in Apps |-> IF a = p THEN {s1, s2} ELSE {s1}]
ExternalX == [service \in {x} |-> r]
Ids == [peer \in Apps \cup Remotes |-> IF peer = p THEN 1 ELSE IF peer = q THEN 2 ELSE 3]

Call(peer, service) == [requester |-> peer, service |-> service, session |-> 1]
ThreeCalls == {Call(q, s1), Call(q, x), Call(r, s1)}
=============================================================================
