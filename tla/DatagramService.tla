--------------------------- MODULE DatagramService ---------------------------
(***************************************************************************)
(* What a sender of datagrams is promised, without threads, buffers or a   *)
(* descriptor: one verdict on each message, that is true, and is given by  *)
(* send() or, to a message it delays, later.  Delayed messages get theirs  *)
(* in the order in which they were delayed, and are told of it once.       *)
(***************************************************************************)
EXTENDS Naturals, Sequences

CONSTANTS
    Messages,
    Notified    \* messages whose sender asks to be told

VARIABLES
    verdict,    \* message -> "none", "DELAYED_RESULT" or what became of it
    waiting,    \* delayed messages, first come first
    told,       \* message -> the verdicts its sender was told later
    delivered,  \* message -> how often it was delivered
    alive

vars == <<verdict, waiting, told, delivered, alive>>

Init ==
    /\ verdict = [m \in Messages |-> "none"] /\ waiting = <<>>
    /\ told = [m \in Messages |-> <<>>] /\ delivered = [m \in Messages |-> 0]
    /\ alive = TRUE

\* The message is delivered if that is the verdict, and only then.
Decide(m, result) ==
    /\ verdict' = [verdict EXCEPT ![m] = result]
    /\ delivered' = IF result = "SENT" THEN [delivered EXCEPT ![m] = @ + 1] ELSE delivered

Send(m) ==
    /\ verdict[m] = "none"
    /\ \/ \E result \in {"SENT", "RECIPIENT_AWAY"} : Decide(m, result) /\ UNCHANGED waiting
       \/ ~alive /\ Decide(m, "SOCKET_DEAD") /\ UNCHANGED waiting
       \/ Decide(m, "DELAYED_RESULT") /\ waiting' = Append(waiting, m)
    /\ UNCHANGED <<told, alive>>

\* A message that breaks the service remains the first one, and nothing is decided
\* about the others any more.
Retry ==
    /\ waiting # <<>> /\ verdict[Head(waiting)] = "DELAYED_RESULT"
    /\ \/ /\ \E result \in {"SENT", "RECIPIENT_AWAY"} : Decide(Head(waiting), result)
          /\ waiting' = Tail(waiting)
       \/ Decide(Head(waiting), "SOCKET_DEAD") /\ UNCHANGED waiting
    /\ UNCHANGED <<told, alive>>

Tell(m) ==
    /\ m \in Notified /\ told[m] = <<>> /\ verdict[m] \notin {"none", "DELAYED_RESULT"}
    /\ told' = [told EXCEPT ![m] = <<verdict[m]>>]
    /\ UNCHANGED <<verdict, waiting, delivered, alive>>

Die == alive' = FALSE /\ UNCHANGED <<verdict, waiting, told, delivered>>

Next == (\E m \in Messages : Send(m) \/ Tell(m)) \/ Retry \/ Die

Spec == Init /\ [][Next]_vars
=============================================================================
