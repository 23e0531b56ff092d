----------------------------- MODULE RuntimeProxy -----------------------------
(***************************************************************************)
(* runtime_proxy_t: how an application makes itself known to the runtime,  *)
(* notices that the runtime is gone and makes itself known again.          *)
(*                                                                         *)
(* reconnect() is a coroutine that sends three messages one after the      *)
(* other; it is suspended while the UNIX socket has only promised to send  *)
(* one (DELAYED_RESULT).  A heartbeat is sent every time the timer expires *)
(* and its result, at once or later, tells whether the runtime is there.   *)
(* All of it runs on one worker, but for the first part of the first       *)
(* reconnect(), which the constructor runs while the timer is not started. *)
(*                                                                         *)
(* The socket is reduced to the results of send() and the queue of         *)
(* messages it retries; it is taken to live as long as the application.    *)
(* The runtime is reduced to the messages it has yet to handle and to what *)
(* it knows of this application; runtimes come and go at any time.         *)
(***************************************************************************)
EXTENDS Naturals, Sequences

CONSTANTS
    Capacity,   \* datagrams the runtime's receive buffer takes
    MaxQueued   \* bound on heartbeats: none is sent when so many messages wait

ASSUME CapacityAssumption == Capacity \in Nat \ {0}
ASSUME MaxQueuedAssumption == MaxQueued \in Nat \ {0}

Steps == {"REGISTER_APPLICATION", "OFFER_SERVICE", "REQUEST_SERVICE"}
MessageTypes == Steps \cup {"HEARTBEAT"}

VARIABLES
    m_runtime_online,
    m_reconnect_in_progress,
    m_heartbeat,    \* is the timer running?
    sending,        \* the step reconnect() is about to send, or "none"
    queue,          \* messages the socket retries
    running,        \* is there a runtime?
    inbox,          \* its receive buffer
    known,          \* what it knows of this application
    interrupted     \* did it forget the application since it was sent REGISTER?

proxy == <<m_runtime_online, m_reconnect_in_progress, m_heartbeat>>
runtime == <<running, inbox, known, interrupted>>
vars == <<proxy, sending, queue, runtime>>

\* The constructor begins to reconnect.
Init ==
    /\ m_runtime_online = FALSE
    /\ m_reconnect_in_progress = TRUE
    /\ m_heartbeat = FALSE
    /\ sending = "REGISTER_APPLICATION"
    /\ queue = <<>>
    /\ running \in BOOLEAN
    /\ inbox = <<>>
    /\ known = {}
    /\ interrupted = FALSE

-----------------------------------------------------------------------------
(* m_socket.send(m_runtime_handle, ...)                                    *)

Sent(message) ==
    /\ running /\ Len(inbox) < Capacity
    /\ inbox' = Append(inbox, message)
    /\ interrupted' = (interrupted /\ message # "REGISTER_APPLICATION")
    /\ UNCHANGED <<running, known>>

Delayed(message) ==
    /\ running /\ Len(inbox) = Capacity
    /\ queue' = Append(queue, message)
    /\ UNCHANGED runtime

RecipientAway == ~running /\ UNCHANGED runtime

-----------------------------------------------------------------------------
(* reconnect()                                                             *)

\* mutant: services are offered before the application is registered
StepAfterOffersFirst(step) ==
    CASE step = "OFFER_SERVICE" -> "REGISTER_APPLICATION"
      [] step = "REGISTER_APPLICATION" -> "REQUEST_SERVICE"
      [] step = "REQUEST_SERVICE" -> "none"

StepAfter(step) ==
    CASE step = "REGISTER_APPLICATION" -> "OFFER_SERVICE"
      [] step = "OFFER_SERVICE" -> "REQUEST_SERVICE"
      [] step = "REQUEST_SERVICE" -> "none"

\* mutant: a reconnect that failed counts as still in progress
DoneSuccessOnly(success) ==
    /\ m_reconnect_in_progress' = ~success
    /\ m_runtime_online' = (success \/ m_runtime_online)
    /\ m_heartbeat' = (success \/ m_heartbeat)

\* on_done, the same lambda in the constructor and in send_heartbeat()
Done(success) ==
    /\ m_reconnect_in_progress' = FALSE
    /\ m_runtime_online' = (success \/ m_runtime_online)
    /\ m_heartbeat' = (success \/ m_heartbeat)

\* The coroutine resumes with SENT.
Continue(step) ==
    /\ sending' = StepAfter(step)
    /\ IF StepAfter(step) = "none" THEN Done(TRUE) ELSE UNCHANGED proxy

\* ... and with anything else.
Abandon == sending' = "none" /\ Done(FALSE)

SendStep ==
    /\ sending # "none"
    /\ \/ Sent(sending) /\ Continue(sending) /\ UNCHANGED queue
       \/ Delayed(sending) /\ sending' = "none" /\ UNCHANGED proxy
       \/ RecipientAway /\ Abandon /\ UNCHANGED queue

-----------------------------------------------------------------------------
(* send_heartbeat()                                                        *)

\* mutant: a reconnect is begun although one is in progress
HeartbeatSentAgain ==
    /\ IF ~m_runtime_online
       THEN m_reconnect_in_progress' = TRUE /\ sending' = "REGISTER_APPLICATION"
       ELSE UNCHANGED <<m_reconnect_in_progress, sending>>
    /\ UNCHANGED <<m_runtime_online, m_heartbeat>>

\* handleResult(SENT)
HeartbeatSent ==
    /\ IF ~m_runtime_online /\ ~m_reconnect_in_progress
       THEN m_reconnect_in_progress' = TRUE /\ sending' = "REGISTER_APPLICATION"
       ELSE UNCHANGED <<m_reconnect_in_progress, sending>>
    /\ UNCHANGED <<m_runtime_online, m_heartbeat>>

\* mutant: an outage is logged only
HeartbeatAwayIgnored == UNCHANGED <<proxy, sending>>

\* handleResult(RECIPIENT_AWAY)
HeartbeatAway ==
    /\ m_runtime_online' = FALSE
    /\ UNCHANGED <<m_reconnect_in_progress, m_heartbeat, sending>>

SendHeartbeat ==
    /\ m_heartbeat
    /\ sending = "none"
    /\ Len(queue) < MaxQueued
    /\ \/ Sent("HEARTBEAT") /\ HeartbeatSent /\ UNCHANGED queue
       \/ Delayed("HEARTBEAT") /\ UNCHANGED <<proxy, sending>>
       \/ RecipientAway /\ HeartbeatAway /\ UNCHANGED queue

\* The socket's retry of the first message, and the callback it was sent with.
\* What the callback sends is queued behind it; that the message is popped after
\* the callback makes no difference to anything here.
Retry ==
    /\ sending = "none"
    /\ queue # <<>>
    /\ queue' = Tail(queue)
    /\ \/ Sent(Head(queue)) /\ IF Head(queue) \in Steps THEN Continue(Head(queue)) ELSE HeartbeatSent
       \/ RecipientAway /\ IF Head(queue) \in Steps THEN Abandon ELSE HeartbeatAway

-----------------------------------------------------------------------------
(* The runtime.                                                            *)

Forgets == known' = {} /\ interrupted' = TRUE

\* Its handlers call m_apps.at(), which ends the process when the sender is not
\* registered (Router).
RuntimeHandles ==
    /\ running /\ inbox # <<>>
    /\ IF Head(inbox) \in Steps \ {"REGISTER_APPLICATION"} /\ "REGISTER_APPLICATION" \notin known
       THEN running' = FALSE /\ inbox' = <<>> /\ Forgets
       ELSE /\ inbox' = Tail(inbox)
            /\ known' = known \cup ({Head(inbox)} \cap Steps)
            /\ UNCHANGED <<running, interrupted>>
    /\ UNCHANGED <<proxy, sending, queue>>

\* It has not seen a heartbeat in time (Heartbeat).
RuntimeEvicts ==
    /\ running
    /\ Forgets
    /\ UNCHANGED <<proxy, sending, queue, running, inbox>>

RuntimeStops ==
    /\ running
    /\ running' = FALSE /\ inbox' = <<>> /\ Forgets
    /\ UNCHANGED <<proxy, sending, queue>>

RuntimeStarts ==
    /\ ~running
    /\ running' = TRUE
    /\ UNCHANGED <<proxy, sending, queue, inbox, known, interrupted>>

-----------------------------------------------------------------------------
Next ==
    \/ SendStep \/ SendHeartbeat \/ Retry
    \/ RuntimeHandles \/ RuntimeEvicts \/ RuntimeStops \/ RuntimeStarts

Spec == Init /\ [][Next]_vars

\* The worker of the application runs and its timer expires; a runtime handles
\* what it has received.  No runtime has to be started.  poll() reports the
\* descriptor writeable all the time (it is not connected), so that retries are
\* tried over and over, while heartbeats, 3 s apart, do not fill the buffer
\* again whenever there is room: a retry that is possible again and again
\* succeeds.
FairSpec ==
    /\ Spec
    /\ WF_vars(SendStep) /\ WF_vars(SendHeartbeat) /\ SF_vars(Retry)
    /\ WF_vars(RuntimeHandles)

-----------------------------------------------------------------------------
TypeOK ==
    /\ m_runtime_online \in BOOLEAN
    /\ m_reconnect_in_progress \in BOOLEAN
    /\ m_heartbeat \in BOOLEAN
    /\ sending \in Steps \cup {"none"}
    /\ queue \in Seq(MessageTypes) /\ Len(queue) <= MaxQueued
    /\ running \in BOOLEAN
    /\ inbox \in Seq(MessageTypes) /\ Len(inbox) <= Capacity
    /\ known \subseteq Steps
    /\ interrupted \in BOOLEAN

\* The reconnects that are suspended, one for each of their messages that waits.
Suspended == {i \in DOMAIN queue : queue[i] \in Steps}

\* There is never more than one reconnect(), and the flag says whether there is
\* one, although heartbeats whose results were delayed report them late and in
\* the middle of it.
OneReconnect ==
    /\ \A i, j \in Suspended : i = j
    /\ Suspended = {} \/ sending = "none"
    /\ m_reconnect_in_progress <=> Suspended # {} \/ sending # "none"

\* A runtime that neither started nor evicted the application since it was sent
\* REGISTER gets that before anything it needs it for: delays reorder messages,
\* and an OFFER or a REQUEST that comes first ends the process.
RegisterComesFirst ==
    ~interrupted =>
        \A i \in DOMAIN inbox : inbox[i] \in Steps \ {"REGISTER_APPLICATION"} =>
            \/ "REGISTER_APPLICATION" \in known
            \/ \E j \in DOMAIN inbox : j < i /\ inbox[j] = "REGISTER_APPLICATION"

\* An application that has been online notices that the runtime is gone for good.
OutageNoticed == <>[](~running) => <>[](~m_runtime_online)

\* An outage a heartbeat has noticed is repaired: once a runtime stays, it gets to
\* know the application and all it offers and requests, whatever reconnect was
\* in progress before.
NoticedOutageRepaired ==
    []( ([]running /\ ~m_runtime_online /\ m_heartbeat) => <>(known = Steps) )
=============================================================================
