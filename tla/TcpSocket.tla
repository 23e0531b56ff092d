------------------------------- MODULE TcpSocket -------------------------------
(***************************************************************************)
(* tcp_socket_t: the listening TCP socket of the runtime, the connections  *)
(* it accepts and those it opens to send.  send_to() is a coroutine that   *)
(* waits for a connection and then for its bytes to be written.            *)
(*                                                                         *)
(* All of it runs on the worker, in the callbacks of one poll() after the  *)
(* other: first those of readable descriptors, then those of writeable     *)
(* ones, each looked up by its descriptor when its turn comes.  Meanwhile  *)
(* the kernel goes on: peers read and vanish, connects are decided.        *)
(*                                                                         *)
(* A message is a number of bytes; what is received is Router's business.  *)
(* Messages are sent from the callbacks of readable descriptors, where     *)
(* forward() is called, and never over the connection being read, as that  *)
(* of a provider only brings what others asked for.  EINTR repeats the     *)
(* call and is left out; fcntl() on a descriptor just accepted succeeds.   *)
(***************************************************************************)
EXTENDS Naturals, Sequences

CONSTANTS
    Fds,        \* descriptors of connections; closed ones are used again
    Clients,    \* endpoints that connect to this runtime
    Providers,  \* endpoints of external services
    Messages,   \* each is sent at most once: the bound on sending
    To,         \* the endpoint a message is sent to
    Size        \* its bytes

Endpoints == Clients \cup Providers

ASSUME ToAssumption == To \in [Messages -> Endpoints]
ASSUME SizeAssumption == Size \in [Messages -> Nat \ {0}]

VARIABLES
    m_stage,
    m_connection_fds,       \* endpoint -> descriptor
    m_connection_details,   \* descriptor -> recipient and pending messages
    connecting,             \* descriptor -> recipient and the message that waits for it
    readable, writeable,    \* the watch lists
    phase,                  \* of the worker's loop
    readyIn, readyOut,      \* descriptors of this poll() not yet dispatched
    job,                    \* what the worker is in the middle of
    peer,                   \* open descriptor -> what the kernel knows of its peer
    full,                   \* open descriptors whose send buffer is full
    stream,                 \* the bytes the kernel took, by open descriptor
    result                  \* of send_to()

connections == <<m_connection_fds, m_connection_details>>
watches == <<readable, writeable>>
dispatch == <<phase, readyIn, readyOut>>
kernel == <<peer, full, stream>>
vars == <<m_stage, connections, connecting, watches, dispatch, job, kernel, result>>

Idle == <<"idle">>

Init ==
    /\ m_stage = "ALIVE"
    /\ m_connection_fds = <<>>
    /\ m_connection_details = <<>>
    /\ connecting = <<>>
    /\ readable = {}
    /\ writeable = {}
    /\ phase = "poll"
    /\ readyIn = {}
    /\ readyOut = {}
    /\ job = Idle
    /\ peer = <<>>
    /\ full = {}
    /\ stream = <<>>
    /\ result = [m \in Messages |-> "none"]

Without(f, x) == [y \in DOMAIN f \ {x} |-> f[y]]

Put(f, x, v) == [y \in DOMAIN f \cup {x} |-> IF y = x THEN v ELSE f[y]]

\* emplace() keeps what is there.
Emplace(f, x, v) == IF x \in DOMAIN f THEN f ELSE Put(f, x, v)

Connections == DOMAIN m_connection_details

Pending(fd) == m_connection_details[fd].pending_messages

Resume(m, value) == result' = [result EXCEPT ![m] = value]

-----------------------------------------------------------------------------
(* The kernel.                                                             *)

Open(fd, state) ==
    /\ fd \notin DOMAIN peer
    /\ peer' = Put(peer, fd, state)
    /\ stream' = Put(stream, fd, <<>>)
    /\ UNCHANGED full

Close(fd) ==
    /\ peer' = Without(peer, fd)
    /\ stream' = Without(stream, fd)
    /\ full' = full \ {fd}

Bytes(m, from, to) == [i \in 1 .. to - from |-> <<m, from + i>>]

\* The calls of send() in one loop: the kernel takes the bytes of m after `from'
\* up to `to' and then all are written, or it would block, or it has an error.
Write(fd, m, from, to, outcome) ==
    /\ to \in from .. Size[m]
    /\ to > from => peer[fd] \in {"up", "gone"} /\ fd \notin full
    /\ CASE outcome = "written" -> to = Size[m]
         [] outcome = "again" -> /\ to < Size[m] /\ peer[fd] # "error"
                                 /\ to = from => fd \in full \/ peer[fd] = "connecting"
         [] outcome = "fatal" -> to < Size[m] /\ peer[fd] \in {"gone", "error"}

\* What was taken may have filled the buffer; an EAGAIN means it is full.
Take(fd, m, from, to, outcome) ==
    /\ stream' = [stream EXCEPT ![fd] = @ \o Bytes(m, from, to)]
    /\ full' \in IF outcome = "again" THEN {full \cup {fd}} ELSE {full, full \cup {fd}}
    /\ UNCHANGED peer

ConnectDecided(fd) ==
    /\ fd \in DOMAIN peer /\ peer[fd] = "connecting"
    /\ \E state \in {"up", "error"} : peer' = [peer EXCEPT ![fd] = state]
    /\ full' = full \ {fd}
    /\ UNCHANGED <<m_stage, connections, connecting, watches, dispatch, job, stream, result>>

\* The peer closes or resets the connection, or is no longer reachable.
PeerVanishes(fd) ==
    /\ fd \in DOMAIN peer /\ peer[fd] = "up"
    /\ \/ peer' = [peer EXCEPT ![fd] = "gone"] /\ UNCHANGED full
       \/ peer' = [peer EXCEPT ![fd] = "error"] /\ full' = full \ {fd}
    /\ UNCHANGED <<m_stage, connections, connecting, watches, dispatch, job, stream, result>>

PeerReads(fd) ==
    /\ fd \in full /\ peer[fd] # "connecting"
    /\ full' = full \ {fd}
    /\ UNCHANGED <<m_stage, connections, connecting, watches, dispatch, job, peer, stream, result>>

-----------------------------------------------------------------------------
(* The worker's loop.                                                      *)

\* The UNIX socket may always be readable, so poll() may always return.
Poll ==
    /\ phase = "poll"
    /\ phase' = "readable"
    /\ readyIn' = {fd \in readable : peer[fd] \in {"gone", "error"}}
    /\ readyOut' = {fd \in writeable : peer[fd] # "connecting" /\ fd \notin full}
    /\ UNCHANGED <<m_stage, connections, connecting, watches, job, kernel, result>>

NextPhase ==
    /\ job = Idle
    /\ \/ phase = "readable" /\ readyIn = {} /\ phase' = "writeable"
       \/ phase = "writeable" /\ readyOut = {} /\ phase' = "poll"
    /\ UNCHANGED <<m_stage, connections, connecting, watches, readyIn, readyOut, job, kernel, result>>

\* In one of the callbacks of readable descriptors.
Receiving == phase = "readable" /\ job = Idle

-----------------------------------------------------------------------------
(* Connections.                                                            *)

AddConnection(endpoint, fd) ==
    /\ m_connection_fds' = Emplace(m_connection_fds, endpoint, fd)
    /\ m_connection_details' = Emplace(m_connection_details, fd,
                                       [recipient |-> endpoint, pending_messages |-> <<>>])
    /\ readable' = readable \cup {fd}

\* mutant: the descriptor of an evicted connection stays in the index
EvictKeepsIndex(fd) ==
    /\ readable' = readable \ {fd}
    /\ writeable' = writeable \ {fd}
    /\ m_connection_details' = Without(m_connection_details, fd)
    /\ UNCHANGED m_connection_fds
    /\ Close(fd)

\* mutant: the retries of an evicted connection stay on the watch list
EvictKeepsWatch(fd) ==
    /\ readable' = readable \ {fd}
    /\ UNCHANGED writeable
    /\ m_connection_fds' = Without(m_connection_fds, m_connection_details[fd].recipient)
    /\ m_connection_details' = Without(m_connection_details, fd)
    /\ Close(fd)

\* The index loses the endpoint even if it leads to another connection to it.
evict_connection(fd) ==
    /\ readable' = readable \ {fd}
    /\ writeable' = writeable \ {fd}
    /\ m_connection_fds' = Without(m_connection_fds, m_connection_details[fd].recipient)
    /\ m_connection_details' = Without(m_connection_details, fd)
    /\ Close(fd)

\* A peer connects from a port it does not use for another connection.
accept_connections(endpoint, fd) ==
    /\ Receiving /\ m_stage = "ALIVE"
    /\ \A other \in Connections :
           m_connection_details[other].recipient = endpoint => peer[other] \in {"gone", "error"}
    /\ \A other \in DOMAIN connecting : connecting[other].recipient # endpoint
    /\ Open(fd, "up")
    /\ AddConnection(endpoint, fd)
    /\ UNCHANGED <<m_stage, connecting, writeable, dispatch, job, result>>

\* accept() fails for good: on_dead() closes the listening socket and nothing else.
ListeningFails ==
    /\ Receiving /\ m_stage = "ALIVE"
    /\ m_stage' = "DEAD"
    /\ UNCHANGED <<connections, connecting, watches, dispatch, job, kernel, result>>

\* A dead socket reads nothing.  An end or a reset by the peer evicts the
\* connection; any other error of one connection ends the listening socket.
receive_messages(fd) ==
    /\ Receiving /\ fd \in readyIn
    /\ readyIn' = readyIn \ {fd}
    /\ \/ /\ fd \in readable /\ m_stage = "ALIVE" => peer[fd] \in {"up", "connecting"}
          /\ UNCHANGED <<m_stage, connections, watches, kernel>>
       \/ /\ fd \in readable /\ m_stage = "ALIVE" /\ peer[fd] = "gone"
          /\ evict_connection(fd)
          /\ UNCHANGED m_stage
       \/ /\ fd \in readable /\ m_stage = "ALIVE" /\ peer[fd] = "error"
          /\ m_stage' = "DEAD"
          /\ UNCHANGED <<connections, watches, kernel>>
    /\ UNCHANGED <<connecting, phase, readyOut, job, result>>

-----------------------------------------------------------------------------
(* send_to()                                                               *)

\* A connection the index knows is used, in whatever state it is.
Reuse(m) ==
    /\ To[m] \in DOMAIN m_connection_fds
    /\ job' = <<"write", m_connection_fds[To[m]], m>>
    /\ Resume(m, "waiting")
    /\ UNCHANGED <<connections, connecting, watches, kernel>>

\* _internal_detail_connect_to()
Connect(m) ==
    /\ To[m] \notin DOMAIN m_connection_fds
    /\ \/ \E fd \in Fds :      \* connected at once
              /\ Open(fd, "up")
              /\ AddConnection(To[m], fd)
              /\ job' = <<"write", fd, m>>
              /\ Resume(m, "waiting")
              /\ UNCHANGED <<connecting, writeable>>
       \/ \E fd \in Fds :      \* EINPROGRESS
              /\ Open(fd, "connecting")
              /\ connecting' = Put(connecting, fd, [recipient |-> To[m], message |-> m])
              /\ writeable' = writeable \cup {fd}
              /\ Resume(m, "waiting")
              /\ UNCHANGED <<connections, readable, job>>
       \/ /\ Resume(m, "EPHEMERAL_SOCKET_DEAD")
          /\ UNCHANGED <<connections, connecting, watches, job, kernel>>

send_to(m) ==
    /\ Receiving
    /\ result[m] = "none"
    /\ Reuse(m) \/ Connect(m)
    /\ UNCHANGED <<m_stage, dispatch>>

\* The callback of a connect that was in progress.  SO_ERROR is 0 when the
\* connect succeeded, and also as long as it has not been decided.
ConnectDone(fd) ==
    /\ writeable' = writeable \ {fd}
    /\ connecting' = Without(connecting, fd)
    /\ \/ /\ peer[fd] # "error"
          /\ AddConnection(connecting[fd].recipient, fd)
          /\ job' = <<"write", fd, connecting[fd].message>>
          /\ UNCHANGED <<kernel, result>>
       \/ /\ peer[fd] = "error"
          /\ Close(fd)
          /\ Resume(connecting[fd].message, "EPHEMERAL_SOCKET_DEAD")
          /\ UNCHANGED <<connections, readable, job>>

\* mutant: the message takes the place of those that are queued
EnqueueReplaces(fd, m, written) ==
    m_connection_details' = [m_connection_details EXCEPT ![fd].pending_messages =
        <<[message |-> m, bytes_already_written |-> written]>>]

Enqueue(fd, m, written) ==
    m_connection_details' = [m_connection_details EXCEPT ![fd].pending_messages =
        Append(@, [message |-> m, bytes_already_written |-> written])]

\* mutant: what the kernel would not take is queued and not watched for
WriteAllUnwatched ==
    /\ job[1] = "write"
    /\ job' = Idle
    /\ LET fd == job[2]
           m == job[3]
       IN  \E to \in 0 .. Size[m], outcome \in {"written", "again"} :
               /\ Write(fd, m, 0, to, outcome)
               /\ Take(fd, m, 0, to, outcome)
               /\ IF outcome = "written" THEN Resume(m, "SENT") /\ UNCHANGED connections
                  ELSE Enqueue(fd, m, to) /\ UNCHANGED <<m_connection_fds, result>>
    /\ UNCHANGED <<m_stage, connecting, watches, dispatch>>

\* mutant: what the kernel took is taken for the whole message
WriteAllShort ==
    /\ job[1] = "write"
    /\ job' = Idle
    /\ LET fd == job[2]
           m == job[3]
       IN  \E to \in 0 .. Size[m], outcome \in {"written", "again"} :
               /\ Write(fd, m, 0, to, outcome)
               /\ Take(fd, m, 0, to, outcome)
               /\ Resume(m, "SENT")
    /\ UNCHANGED <<m_stage, connections, connecting, watches, dispatch>>

\* It writes at once, whatever may be queued for the connection.
write_all ==
    /\ job[1] = "write"
    /\ job' = Idle
    /\ LET fd == job[2]
           m == job[3]
       IN  \E to \in 0 .. Size[m] :
           \/ /\ Write(fd, m, 0, to, "written")
              /\ Take(fd, m, 0, to, "written")
              /\ Resume(m, "SENT")
              /\ UNCHANGED <<connections, watches>>
           \/ /\ Write(fd, m, 0, to, "again")
              /\ Take(fd, m, 0, to, "again")
              /\ Enqueue(fd, m, to)
              /\ writeable' = writeable \cup {fd}
              /\ UNCHANGED <<m_connection_fds, readable, result>>
           \/ /\ Write(fd, m, 0, to, "fatal")
              /\ evict_connection(fd)
              /\ Resume(m, "EPHEMERAL_SOCKET_DEAD")
    /\ UNCHANGED <<m_stage, connecting, dispatch>>

-----------------------------------------------------------------------------
(* Callbacks of writeable descriptors.                                     *)

\* What the watch list has for the descriptor now is called.
Writeable(fd) ==
    /\ phase = "writeable" /\ job = Idle
    /\ fd \in readyOut
    /\ readyOut' = readyOut \ {fd}
    /\ \/ fd \notin writeable /\ UNCHANGED <<connections, connecting, watches, job, kernel, result>>
       \/ fd \in writeable /\ fd \in DOMAIN connecting /\ ConnectDone(fd)
       \/ /\ fd \in writeable /\ fd \notin DOMAIN connecting
          /\ job' = <<"retry", fd>>
          /\ UNCHANGED <<connections, connecting, watches, kernel, result>>
    /\ UNCHANGED <<m_stage, phase, readyIn>>

\* mutant: the progress of a message is forgotten when the kernel takes no more
RetryForgetsProgress(fd, to) ==
    m_connection_details' = m_connection_details

Progress(fd, to) ==
    m_connection_details' =
        [m_connection_details EXCEPT ![fd].pending_messages[1].bytes_already_written = to]

\* The rest of the queue goes with the connection, and its coroutines with it.
RetryFails(fd) == evict_connection(fd)

Pop(fd) ==
    m_connection_details' = [m_connection_details EXCEPT ![fd].pending_messages = Tail(@)]

\* One iteration of the loop of retry_messages().
retry_messages ==
    /\ job[1] = "retry"
    /\ LET fd == job[2]
           front == Head(Pending(fd))
           m == front.message
           from == front.bytes_already_written
       IN  \E to \in from .. Size[m] :
           \/ /\ Write(fd, m, from, to, "written")
              /\ Take(fd, m, from, to, "written")
              /\ Resume(m, "SENT")
              /\ Pop(fd)
              /\ \/ Len(Pending(fd)) > 1 /\ UNCHANGED <<job, writeable>>
                 \/ Len(Pending(fd)) = 1 /\ job' = Idle /\ writeable' = writeable \ {fd}
              /\ UNCHANGED <<m_connection_fds, readable>>
           \/ /\ Write(fd, m, from, to, "again")
              /\ Take(fd, m, from, to, "again")
              /\ Progress(fd, to)
              /\ job' = Idle
              /\ UNCHANGED <<m_connection_fds, watches, result>>
           \/ /\ Write(fd, m, from, to, "fatal")
              /\ Resume(m, "EPHEMERAL_SOCKET_DEAD")
              /\ RetryFails(fd)
              /\ job' = Idle
    /\ UNCHANGED <<m_stage, connecting, dispatch>>

-----------------------------------------------------------------------------
Worker ==
    \/ Poll
    \/ NextPhase
    \/ \E fd \in Fds : receive_messages(fd) \/ Writeable(fd)
    \/ write_all
    \/ retry_messages

Next ==
    \/ Worker
    \/ \E endpoint \in Clients, fd \in Fds : accept_connections(endpoint, fd)
    \/ ListeningFails
    \/ \E m \in Messages : send_to(m)
    \/ \E fd \in Fds : ConnectDecided(fd) \/ PeerVanishes(fd) \/ PeerReads(fd)

Spec == Init /\ [][Next]_vars

\* The worker runs, the kernel gives up a connect in the end, and peers read what
\* they are sent.
FairSpec ==
    /\ Spec
    /\ WF_vars(Worker)
    /\ \A fd \in Fds : WF_vars(ConnectDecided(fd)) /\ WF_vars(PeerReads(fd))

-----------------------------------------------------------------------------
TypeOK ==
    /\ m_stage \in {"ALIVE", "DEAD"}
    /\ DOMAIN m_connection_fds \subseteq Endpoints
    /\ m_connection_fds \in [DOMAIN m_connection_fds -> Fds]
    /\ Connections \subseteq Fds
    /\ m_connection_details \in
           [Connections -> [recipient : Endpoints, pending_messages :
               Seq([message : Messages, bytes_already_written : Nat])]]
    /\ \A fd \in Connections : \A i \in DOMAIN Pending(fd) :
           Pending(fd)[i].bytes_already_written < Size[Pending(fd)[i].message]
    /\ DOMAIN connecting \subseteq Fds
    /\ connecting \in [DOMAIN connecting -> [recipient : Endpoints, message : Messages]]
    /\ readable \subseteq Fds /\ writeable \subseteq Fds
    /\ phase \in {"poll", "readable", "writeable"}
    /\ readyIn \subseteq Fds /\ readyOut \subseteq Fds
    /\ job \in {Idle} \cup {"retry"} \X Fds \cup {"write"} \X Fds \X Messages
    /\ DOMAIN peer \subseteq Fds
    /\ peer \in [DOMAIN peer -> {"connecting", "up", "gone", "error"}]
    /\ full \subseteq DOMAIN peer
    /\ stream \in [DOMAIN peer -> Seq(Messages \X Nat)]
    /\ result \in [Messages -> {"none", "waiting", "SENT", "EPHEMERAL_SOCKET_DEAD"}]

\* What the index finds for an endpoint is a connection to that endpoint, although
\* peers reconnect from the same port, several connects to one provider may be in
\* progress, and descriptors of evicted connections are used again: send_to()
\* trusts it, and write_all() would throw or write to somebody else.
IndexLeadsToConnection ==
    \A endpoint \in DOMAIN m_connection_fds :
        /\ m_connection_fds[endpoint] \in Connections
        /\ m_connection_details[m_connection_fds[endpoint]].recipient = endpoint

\* No descriptor leaks and none is used after close(): what is open is being
\* connected or is a connection, which is read; it waits to be writeable exactly
\* while a connect or queued bytes wait for that, as retry_messages() takes the
\* front of the queue without asking.
DescriptorsAccounted ==
    /\ DOMAIN peer = Connections \cup DOMAIN connecting
    /\ Connections \cap DOMAIN connecting = {}
    /\ readable = Connections
    /\ writeable = DOMAIN connecting \cup {fd \in Connections : Pending(fd) # <<>>}
    /\ job[1] = "write" => job[2] \in Connections
    /\ job[1] = "retry" => job[2] \in Connections /\ Pending(job[2]) # <<>>

\* Where the continuation of a send_to() is kept.
Continuations(m) ==
    {<<"connect", fd>> : fd \in {f \in DOMAIN connecting : connecting[f].message = m}}
    \cup {<<"write", fd>> : fd \in {f \in Fds : job = <<"write", f, m>>}}
    \cup UNION {{<<fd, i>> : i \in {j \in DOMAIN Pending(fd) : Pending(fd)[j].message = m}} :
                    fd \in Connections}

\* The continuation of a coroutine is in one place as long as it waits, and nowhere
\* when it has ended and its frame is gone.
OneContinuation ==
    \A m \in Messages :
        /\ \A p, q \in Continuations(m) : p = q
        /\ result[m] # "waiting" => Continuations(m) = {}

\* It goes without being resumed only with the rest of a queue: when a connection is
\* evicted, of those queued for it all but the one whose retry failed.
Abandoned(m) == result[m] = "waiting" /\ Continuations(m) = {}

AbandonedInQueue(m) ==
    \E fd \in Connections \ DOMAIN m_connection_details' : \E i \in DOMAIN Pending(fd) :
        Pending(fd)[i].message = m /\ (job = <<"retry", fd>> => i > 1)

\* A coroutine is resumed once, and none but those an eviction leaves behind is
\* never: each has one continuation until it is resumed.
ResumedOnce ==
    /\ []OneContinuation
    /\ [][ \A m \in Messages : ~Abandoned(m) /\ Abandoned(m)' => AbandonedInQueue(m) ]_vars

\* Where a stream has bytes of m, and whether they are its first n, each once and in
\* their order.
Written(m, bytes) == {i \in DOMAIN bytes : bytes[i][1] = m}

FirstBytes(m, bytes, n) ==
    /\ {bytes[i][2] : i \in Written(m, bytes)} = 1 .. n
    /\ \A i, j \in Written(m, bytes) : i < j => bytes[i][2] < bytes[j][2]

\* Each byte is written once and in its order, however often the kernel takes a
\* part only: a queued message goes on where it stopped.
BytesInOrder ==
    \A fd \in Connections, m \in Messages :
        LET left == {i \in DOMAIN Pending(fd) : Pending(fd)[i].message = m}
        IN  \/ left = {} /\ \E n \in {0, Size[m]} : FirstBytes(m, stream[fd], n)
            \/ \E i \in left : FirstBytes(m, stream[fd], Pending(fd)[i].bytes_already_written)

\* No connection is given a byte that is addressed to the other end of another one,
\* although descriptors are used again and the index may have forgotten a connection.
NothingMisdirected ==
    \A fd \in Connections : \A i \in DOMAIN stream[fd] :
        To[stream[fd][i][1]] = m_connection_details[fd].recipient

\* A coroutine told SENT has all its bytes, from the first to the last, in the stream
\* of a connection, which leads to where the message is addressed.
SentAsAddressed ==
    /\ []NothingMisdirected
    /\ [][ \A m \in Messages : result[m] # "SENT" /\ result'[m] = "SENT" =>
               \E fd \in Connections : FirstBytes(m, stream'[fd], Size[m]) ]_vars

\* What is queued for a connection is written or fails in the end, whatever is
\* sent meanwhile and even when the listening socket is dead.
Queued(m) == \E fd \in Connections : \E i \in DOMAIN Pending(fd) : Pending(fd)[i].message = m

QueueDrains == \A m \in Messages : Queued(m) ~> ~Queued(m)

\* runtime_stub.cpp:192, messages have to be reconstructed: from a stream in which
\* one message follows the other.
StreamsAreMessages ==
    \A fd \in DOMAIN stream : \A i, j, k \in DOMAIN stream[fd] :
        i < j /\ j < k /\ stream[fd][i][1] = stream[fd][k][1] => stream[fd][j][1] = stream[fd][i][1]
=============================================================================
