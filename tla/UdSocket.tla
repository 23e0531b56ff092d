------------------------------- MODULE UdSocket -------------------------------
(***************************************************************************)
(* ud_socket_t: a bound UNIX datagram socket shared by the threads that    *)
(* call send() and the worker of its active object, which retries messages *)
(* the kernel would not take at once.                                      *)
(*                                                                         *)
(* m_mutex guards the queue and the descriptor.  It is released around the *)
(* callbacks and around to_dead(), and the stage of the life cycle is read *)
(* and written without it, so each of these is a step of its own.  EINTR   *)
(* repeats the call and is left out, as are the cached addresses.  A       *)
(* callback may send: it is one more of the Senders.                       *)
(***************************************************************************)
EXTENDS Integers, Sequences

CONSTANTS
    Senders,    \* threads that call send()
    Worker,     \* the worker of the active object
    Messages,   \* each is sent at most once: the bound on sending
    Recipients,
    To,         \* the recipient of a message
    Notified,   \* messages sent with an on_delayed_result
    NoMessage   \* what a thread outside send() is sending

ASSUME WorkerAssumption == Worker \notin Senders
ASSUME ToAssumption == To \in [Messages -> Recipients]
ASSUME NotifiedAssumption == Notified \subseteq Messages
ASSUME NoMessageAssumption == NoMessage \notin Messages

Threads == Senders \cup {Worker}
Results == {"SENT", "DELAYED_RESULT", "SOCKET_DEAD", "RECIPIENT_AWAY"}

VARIABLES
    m_stage,
    open,       \* m_socketfd # -1
    closes,     \* calls of close() so far
    readable, writeable,    \* is the descriptor on these watch lists?
    m_pending_messages,
    pc,
    sending,    \* the message a sender is sending
    task,       \* the callback the worker is in: "none", "receive", "retry"
    notify,     \* the result it is about to report, or "none"
    emptyRead,  \* was front() of an empty queue read?
    returned,   \* what send() returned for a message
    reported,   \* the results its on_delayed_result was called with
    delivered,  \* how often the kernel accepted it
    full, away  \* recipients whose buffer is full, who have no socket

descriptor == <<open, closes, readable, writeable>>
worker == <<task, notify, emptyRead>>
environment == <<full, away>>
vars == <<m_stage, descriptor, m_pending_messages, pc, sending, worker,
          returned, reported, delivered, environment>>

Init ==
    /\ m_stage = "ALIVE"
    /\ open = TRUE
    /\ closes = 0
    /\ readable = TRUE
    /\ writeable = FALSE
    /\ m_pending_messages = <<>>
    /\ pc = [t \in Threads |-> "idle"]
    /\ sending = [t \in Senders |-> NoMessage]
    /\ task = "none"
    /\ notify = "none"
    /\ emptyRead = FALSE
    /\ returned = [m \in Messages |-> "none"]
    /\ reported = [m \in Messages |-> <<>>]
    /\ delivered = [m \in Messages |-> 0]
    /\ full = {}
    /\ away = {}

Goto(t, label) == pc' = [pc EXCEPT ![t] = label]

\* A full buffer is EAGAIN, a recipient without a socket ENOENT or ECONNREFUSED;
\* any other error, and every call with the descriptor -1, is fatal.
SendTo(m, errno) ==
    CASE errno = "FATAL" -> TRUE
      [] errno = "AWAY" -> open /\ To[m] \in away
      [] errno = "AGAIN" -> open /\ To[m] \in full \ away
      [] errno = "NONE" -> open /\ To[m] \notin full \cup away

Deliver(m) == delivered' = [delivered EXCEPT ![m] = @ + 1]

-----------------------------------------------------------------------------
(* to_dead(): the stage is loaded, then stored, then on_dead() runs, and   *)
(* nothing keeps two threads from being in it at the same time.            *)

AfterDeath(t) == IF t \in Senders THEN "dead" ELSE IF task = "retry" THEN "retried" ELSE "idle"

LoadStage(t) ==
    /\ pc[t] = "dying"
    /\ Goto(t, IF m_stage = "DEAD" THEN AfterDeath(t) ELSE "storing")
    /\ UNCHANGED <<m_stage, descriptor, m_pending_messages, sending, worker, returned, reported, delivered, environment>>

StoreStage(t) ==
    /\ pc[t] = "storing"
    /\ m_stage' = "DEAD"
    /\ Goto(t, "closing")
    /\ UNCHANGED <<descriptor, m_pending_messages, sending, worker, returned, reported, delivered, environment>>

\* mutant: the descriptor is closed without asking whether it still is open
OnDeadUnguarded(t) ==
    /\ pc[t] = "closing"
    /\ open' = FALSE /\ closes' = closes + 1 /\ readable' = FALSE /\ writeable' = FALSE
    /\ Goto(t, AfterDeath(t))
    /\ UNCHANGED <<m_stage, m_pending_messages, sending, worker, returned, reported, delivered, environment>>

OnDead(t) ==
    /\ pc[t] = "closing"
    /\ IF open
       THEN open' = FALSE /\ closes' = closes + 1 /\ readable' = FALSE /\ writeable' = FALSE
       ELSE UNCHANGED descriptor
    /\ Goto(t, AfterDeath(t))
    /\ UNCHANGED <<m_stage, m_pending_messages, sending, worker, returned, reported, delivered, environment>>

ToDead(t) == LoadStage(t) \/ StoreStage(t) \/ OnDead(t)

-----------------------------------------------------------------------------
(* send()                                                                  *)

\* is_alive() is asked before the mutex is taken.
Send(t, m) ==
    /\ pc[t] = "idle"
    /\ returned[m] = "none" /\ \A u \in Senders : sending[u] # m
    /\ IF m_stage = "ALIVE"
       THEN /\ sending' = [sending EXCEPT ![t] = m]
            /\ Goto(t, "locking")
            /\ UNCHANGED returned
       ELSE /\ returned' = [returned EXCEPT ![m] = "SOCKET_DEAD"]
            /\ UNCHANGED <<sending, pc>>
    /\ UNCHANGED <<m_stage, descriptor, m_pending_messages, worker, reported, delivered, environment>>

Return(t, result) ==
    /\ returned' = [returned EXCEPT ![sending[t]] = result]
    /\ sending' = [sending EXCEPT ![t] = NoMessage]
    /\ Goto(t, "idle")

SendNow(t) ==
    /\ pc[t] = "locking"
    /\ \/ SendTo(sending[t], "NONE") /\ Deliver(sending[t]) /\ Return(t, "SENT")
       \/ SendTo(sending[t], "AWAY") /\ UNCHANGED delivered /\ Return(t, "RECIPIENT_AWAY")
    /\ UNCHANGED <<m_stage, descriptor, m_pending_messages, worker, reported, environment>>

\* mutant: the message is queued but nothing watches for the buffer to drain
SendLaterUnwatched(t) ==
    /\ pc[t] = "locking"
    /\ SendTo(sending[t], "AGAIN")
    /\ m_pending_messages' = Append(m_pending_messages, sending[t])
    /\ Return(t, "DELAYED_RESULT")
    /\ UNCHANGED <<m_stage, descriptor, worker, reported, delivered, environment>>

SendLater(t) ==
    /\ pc[t] = "locking"
    /\ SendTo(sending[t], "AGAIN")
    /\ m_pending_messages' = Append(m_pending_messages, sending[t])
    /\ writeable' = TRUE
    /\ Return(t, "DELAYED_RESULT")
    /\ UNCHANGED <<m_stage, open, closes, readable, worker, reported, delivered, environment>>

SendFails(t) ==
    /\ pc[t] = "locking"
    /\ SendTo(sending[t], "FATAL")
    /\ Goto(t, "dying")
    /\ UNCHANGED <<m_stage, descriptor, m_pending_messages, sending, worker, returned, reported, delivered, environment>>

SendReturnsDead(t) ==
    /\ pc[t] = "dead"
    /\ Return(t, "SOCKET_DEAD")
    /\ UNCHANGED <<m_stage, descriptor, m_pending_messages, worker, reported, delivered, environment>>

Sender(t) == SendNow(t) \/ SendLater(t) \/ SendFails(t) \/ SendReturnsDead(t) \/ ToDead(t)

-----------------------------------------------------------------------------
(* drain_retriable_messages() and drain_received_messages(), run by the    *)
(* worker while the descriptor is on the watch list they were given for.   *)

Front == Head(m_pending_messages)

\* The kernel reports the descriptor writeable whatever the recipients' buffers.
StartRetry ==
    /\ pc[Worker] = "idle" /\ writeable
    /\ task' = "retry"
    /\ Goto(Worker, "retry")
    /\ UNCHANGED <<m_stage, descriptor, m_pending_messages, sending, notify, emptyRead, returned, reported, delivered, environment>>

\* retrySingleMessage() asks is_alive() before it takes the mutex.
RetryChecksStage ==
    /\ pc[Worker] = "retry"
    /\ Goto(Worker, IF m_stage = "ALIVE" THEN "retrying" ELSE "retried")
    /\ UNCHANGED <<m_stage, descriptor, m_pending_messages, sending, worker, returned, reported, delivered, environment>>

\* mutant: a message nobody waits for is not popped
SettleKeepsFront(result) ==
    IF Front \in Notified
    THEN notify' = result /\ Goto(Worker, "notify") /\ UNCHANGED m_pending_messages
    ELSE /\ UNCHANGED <<notify, m_pending_messages>>
         /\ Goto(Worker, IF result = "SOCKET_DEAD" THEN "dying" ELSE "retry")

\* The result is reported with the mutex released, if there is a callback;
\* after a success or an unreachable recipient the message is popped.
Settle(result) ==
    IF Front \in Notified
    THEN /\ notify' = result
         /\ Goto(Worker, "notify")
         /\ UNCHANGED m_pending_messages
    ELSE /\ UNCHANGED notify
         /\ IF result = "SOCKET_DEAD"
            THEN Goto(Worker, "dying") /\ UNCHANGED m_pending_messages
            ELSE Goto(Worker, "retry") /\ m_pending_messages' = Tail(m_pending_messages)

Retry ==
    /\ pc[Worker] = "retrying" /\ m_pending_messages # <<>>
    /\ \/ SendTo(Front, "NONE") /\ Deliver(Front) /\ Settle("SENT")
       \/ SendTo(Front, "AWAY") /\ UNCHANGED delivered /\ Settle("RECIPIENT_AWAY")
       \/ SendTo(Front, "FATAL") /\ UNCHANGED delivered /\ Settle("SOCKET_DEAD")
    /\ UNCHANGED <<m_stage, descriptor, sending, task, emptyRead, returned, reported, environment>>

RetryAgain ==
    /\ pc[Worker] = "retrying" /\ m_pending_messages # <<>>
    /\ SendTo(Front, "AGAIN")
    /\ Goto(Worker, "retried")
    /\ UNCHANGED <<m_stage, descriptor, m_pending_messages, sending, worker, returned, reported, delivered, environment>>

\* The loop goes on after the last message, and front() of an empty queue is
\* undefined: the process may end or run on with a corrupted queue
\* ("undefined"), or what is read there may not be sendable, or not now.
RetryEmpty ==
    /\ pc[Worker] = "retrying" /\ m_pending_messages = <<>>
    /\ emptyRead' = TRUE
    /\ \E label \in {"undefined", "dying", "retried"} : Goto(Worker, label)
    /\ UNCHANGED <<m_stage, descriptor, m_pending_messages, sending, task, notify, returned, reported, delivered, environment>>

\* mutant: the message whose result was reported stays in the queue
NotifyKeepsFront ==
    /\ pc[Worker] = "notify"
    /\ reported' = [reported EXCEPT ![Front] = Append(@, notify)]
    /\ notify' = "none"
    /\ Goto(Worker, IF notify = "SOCKET_DEAD" THEN "dying" ELSE "retry")
    /\ UNCHANGED <<m_stage, descriptor, m_pending_messages, sending, task, emptyRead, returned, delivered, environment>>

\* on_delayed_result() has returned and the mutex is taken again.
Notify ==
    /\ pc[Worker] = "notify"
    /\ reported' = [reported EXCEPT ![Front] = Append(@, notify)]
    /\ notify' = "none"
    /\ IF notify = "SOCKET_DEAD"
       THEN Goto(Worker, "dying") /\ UNCHANGED m_pending_messages
       ELSE Goto(Worker, "retry") /\ m_pending_messages' = Tail(m_pending_messages)
    /\ UNCHANGED <<m_stage, descriptor, sending, task, emptyRead, returned, delivered, environment>>

\* mutant: the watch is removed although messages may have been queued meanwhile
FinishRetryUnwatches ==
    /\ pc[Worker] = "retried"
    /\ writeable' = FALSE
    /\ task' = "none"
    /\ Goto(Worker, "idle")
    /\ UNCHANGED <<m_stage, open, closes, readable, m_pending_messages, sending, notify, emptyRead, returned, reported, delivered, environment>>

FinishRetry ==
    /\ pc[Worker] = "retried"
    /\ writeable' = (writeable /\ m_pending_messages # <<>>)
    /\ task' = "none"
    /\ Goto(Worker, "idle")
    /\ UNCHANGED <<m_stage, open, closes, readable, m_pending_messages, sending, notify, emptyRead, returned, reported, delivered, environment>>

\* Receiving is of no concern here but for the fatal error it may meet.
ReceiveFails ==
    /\ pc[Worker] = "idle" /\ readable
    /\ m_stage = "ALIVE"
    /\ task' = "receive"
    /\ Goto(Worker, "dying")
    /\ UNCHANGED <<m_stage, descriptor, m_pending_messages, sending, notify, emptyRead, returned, reported, delivered, environment>>

\* Recipients come and go, and read what was sent to them, or not.
RecipientsChange ==
    /\ \E r \in Recipients :
           \/ full' \in {full \cup {r}, full \ {r}} /\ UNCHANGED away
           \/ away' \in {away \cup {r}, away \ {r}} /\ UNCHANGED full
    /\ UNCHANGED <<m_stage, descriptor, m_pending_messages, pc, sending, worker, returned, reported, delivered>>

-----------------------------------------------------------------------------
WorkerStep == StartRetry \/ RetryChecksStage \/ Retry \/ RetryAgain \/ RetryEmpty \/ Notify
                  \/ FinishRetry \/ ToDead(Worker)

Next ==
    \/ \E t \in Senders : Sender(t) \/ \E m \in Messages : Send(t, m)
    \/ WorkerStep
    \/ ReceiveFails
    \/ RecipientsChange

Spec == Init /\ [][Next]_vars

\* The scheduler runs the worker and every thread inside send().
FairSpec == Spec /\ WF_vars(WorkerStep) /\ \A t \in Senders : WF_vars(Sender(t))

-----------------------------------------------------------------------------
TypeOK ==
    /\ m_stage \in {"ALIVE", "DEAD"}
    /\ open \in BOOLEAN /\ readable \in BOOLEAN /\ writeable \in BOOLEAN /\ emptyRead \in BOOLEAN
    /\ closes \in Nat
    /\ m_pending_messages \in Seq(Messages)
    /\ pc \in [Threads -> {"idle", "locking", "dying", "storing", "closing", "dead", "retry",
                           "retrying", "notify", "retried", "undefined"}]
    /\ sending \in [Senders -> Messages \cup {NoMessage}]
    /\ task \in {"none", "receive", "retry"}
    /\ notify \in {"none", "SENT", "RECIPIENT_AWAY", "SOCKET_DEAD"}
    /\ returned \in [Messages -> Results \cup {"none"}]
    /\ reported \in [Messages -> Seq(Results)]
    /\ delivered \in [Messages -> Nat]
    /\ full \subseteq Recipients /\ away \subseteq Recipients

Queued(m) == \E i \in DOMAIN m_pending_messages : m_pending_messages[i] = m

\* The result reported later is on its way to the sender while the front of the
\* queue waits to be popped; who asked for none is judged by what is left of it.
Verdict(m) ==
    IF returned[m] # "DELAYED_RESULT" THEN returned[m]
    ELSE IF reported[m] # <<>> THEN reported[m][1]
    ELSE IF Queued(m) THEN IF notify # "none" /\ m = Front THEN notify ELSE "DELAYED_RESULT"
    ELSE IF delivered[m] > 0 THEN "SENT" ELSE "RECIPIENT_AWAY"

Service == INSTANCE DatagramService WITH
    verdict <- [m \in Messages |-> Verdict(m)],
    waiting <- IF notify \in {"SENT", "RECIPIENT_AWAY"}
               THEN Tail(m_pending_messages) ELSE m_pending_messages,
    told <- reported,
    alive <- m_stage = "ALIVE"

\* In any order of retries, callbacks and deaths the socket implements the service:
\* the verdict on a message tells what became of it, delayed messages overtake
\* none of the others that wait, and nobody is told twice.
ImplementsService == Service!Spec

\* A delayed result is reported at most once, and a message whose result is
\* outstanding has not left the queue.
DelayedResultsKept ==
    \A m \in Messages :
        /\ Len(reported[m]) <= 1
        /\ (m \in Notified /\ returned[m] = "DELAYED_RESULT" /\ reported[m] = <<>>) => Queued(m)

\* As long as the socket is open, queued messages are watched for: send() queues
\* while a drain is on its way to give up the watch.
QueuedIsWatched == (open /\ m_pending_messages # <<>>) => writeable

\* However many threads find the socket broken at once, its descriptor is closed
\* once and then on no watch list: its number may already be another file's.
ClosedOnceAndUnwatched ==
    /\ closes <= 1
    /\ ~open => closes = 1 /\ ~readable /\ ~writeable

\* udsocket.cpp:249, "returns true if it should keep draining"
DrainsWhatIsThere == ~emptyRead

Unfinished == m_stage = "ALIVE" /\ pc[Worker] # "undefined"

\* Once every recipient has room, the delayed result of a message is reported,
\* unless the socket dies or the worker runs into undefined behaviour first.
DelayedResultReported ==
    \A m \in Notified :
        (<>[](full = {})) =>
            ((returned[m] = "DELAYED_RESULT") ~> (reported[m] # <<>> \/ ~Unfinished))
=============================================================================
