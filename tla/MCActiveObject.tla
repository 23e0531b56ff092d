--------------------------- MODULE MCActiveObject ---------------------------
(* An instance of ActiveObject for TLC. *)
EXTENDS ActiveObject

CONSTANTS f1, f2, j1

TwoFds == {f1, f2}
OneJob == {j1}

\* One descriptor is watched for both events, as a TCP connection with a message
\* to retry is, the other only for reading, as a timer is.
ThreeWatches == {<<f1, "POLLIN">>, <<f1, "POLLOUT">>, <<f2, "POLLIN">>}
=============================================================================
