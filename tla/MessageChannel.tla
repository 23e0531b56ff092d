---------------------------- MODULE MessageChannel ----------------------------
(***************************************************************************)
(* What the runtime is promised of another machine's messages, without     *)
(* streams, chunks or buffers: they are delivered whole, in the order in   *)
(* which they were sent, and each once.  A lost connection loses the last  *)
(* of those under way, none between two others.  The promise ends, for     *)
(* good, with a connection that is lost in the middle of a message.        *)
(***************************************************************************)
EXTENDS Naturals, Sequences

CONSTANT Messages

VARIABLES
    sent,       \* the messages, by number
    underway,   \* the numbers of those that may still be delivered
    delivered,  \* messages, in the order of their delivery
    intact      \* does the promise hold?

vars == <<sent, underway, delivered, intact>>

Init == sent = <<>> /\ underway = {} /\ delivered = <<>> /\ intact = TRUE

Send ==
    /\ \E m \in Messages : sent' = Append(sent, m)
    /\ underway' = underway \union {Len(sent) + 1}
    /\ UNCHANGED <<delivered, intact>>

Deliver ==
    \E i \in underway :
        /\ \A j \in underway : i <= j
        /\ delivered' = Append(delivered, sent[i])
        /\ underway' = underway \ {i}
        /\ UNCHANGED <<sent, intact>>

\* The connection is lost with all but the first of the messages under way.
Lose ==
    /\ \E k \in 0 .. Len(sent) : underway' = underway \intersect 1 .. k
    /\ UNCHANGED <<sent, delivered, intact>>

\* It is lost in the middle of a message.
Tear ==
    /\ underway # {}
    /\ intact = TRUE /\ intact' = FALSE
    /\ UNCHANGED <<sent, delivered>>

\* Nothing is promised any more.
Garble == intact = FALSE /\ intact' = FALSE

Next == Send \/ Deliver \/ Lose \/ Tear \/ Garble

Spec == Init /\ [][Next]_vars
=============================================================================
