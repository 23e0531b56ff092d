----------------------------- MODULE MCHeartbeat -----------------------------
(* Instances of Heartbeat for TLC. *)
EXTENDS Heartbeat, TLC

CONSTANTS a1, a2, a3, n1, n2, n3, n4

TwoApps == {a1, a2}
ThreeApps == {a1, a2, a3}
ThreeNodes == {n1, n2, n3}
FourNodes == {n1, n2, n3, n4}

Symmetry == Permutations(ThreeApps)
=============================================================================
