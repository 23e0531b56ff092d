--------------------------- MODULE TcpSocketProofs ---------------------------
(***************************************************************************)
(* Invariance of TypeOK, IndexLeadsToConnection and DescriptorsAccounted   *)
(* of TcpSocket, ResumedOnce and, at the end, BytesInOrder and             *)
(* SentAsAddressed, for any number of descriptors, endpoints and messages  *)
(* of any size.                                                            *)
(***************************************************************************)
EXTENDS TcpSocket, SequenceTheorems, TLAPS

Entries == [message : Messages, bytes_already_written : Nat]
Details == [recipient : Endpoints, pending_messages : Seq(Entries)]

\* Of a queued message some bytes are left.
Queues == {q \in Seq(Entries) : \A i \in 1 .. Len(q) : q[i].bytes_already_written < Size[q[i].message]}

ConnectionsOK ==
    /\ DOMAIN m_connection_fds \subseteq Endpoints
    /\ m_connection_fds \in [DOMAIN m_connection_fds -> Fds]
    /\ Connections \subseteq Fds
    /\ m_connection_details \in [Connections -> Details]
    /\ \A fd \in Connections : Pending(fd) \in Queues
    /\ IndexLeadsToConnection

KernelOK ==
    /\ DOMAIN connecting \subseteq Fds
    /\ connecting \in [DOMAIN connecting -> [recipient : Endpoints, message : Messages]]
    /\ peer \in [DOMAIN peer -> {"connecting", "up", "gone", "error"}]
    /\ full \subseteq DOMAIN peer
    /\ stream \in [DOMAIN peer -> Seq(Messages \X Nat)]

\* The watch lists agree with the connections and the kernel.
AccountsOK ==
    /\ DOMAIN peer = Connections \cup DOMAIN connecting
    /\ Connections \cap DOMAIN connecting = {}
    /\ readable = Connections
    /\ writeable = DOMAIN connecting \cup {fd \in Connections : Pending(fd) # <<>>}

\* What the worker is in the middle of concerns a connection that is there.
JobOK ==
    /\ job \in {Idle} \cup {"retry"} \X Fds \cup {"write"} \X Fds \X Messages
    /\ job[1] = "write" => job[2] \in Connections
    /\ job[1] = "retry" => job[2] \in Connections /\ Pending(job[2]) # <<>>

LoopOK ==
    /\ m_stage \in {"ALIVE", "DEAD"}
    /\ phase \in {"poll", "readable", "writeable"}
    /\ readyIn \subseteq Fds /\ readyOut \subseteq Fds
    /\ result \in [Messages -> {"none", "waiting", "SENT", "EPHEMERAL_SOCKET_DEAD"}]

Writing(m) == job[1] = "write" /\ job[3] = m

Connecting(m) == \E fd \in DOMAIN connecting : connecting[fd].message = m

QueuedAt(m, fd, i) == fd \in Connections /\ i \in 1 .. Len(Pending(fd)) /\ Pending(fd)[i].message = m

\* Does a coroutine wait for the message anywhere?
Waiting(m) ==
    \/ Writing(m)
    \/ Connecting(m)
    \/ \E f \in Fds : \E i \in Nat : QueuedAt(m, f, i)

\* A message waits in one place, and only while send_to() has not returned.
WaitersOK ==
    \A m \in Messages :
        /\ \A f, g \in DOMAIN connecting :
               connecting[f].message = m /\ connecting[g].message = m => f = g
        /\ \A f, g \in Fds : \A i, j \in Nat : QueuedAt(m, f, i) /\ QueuedAt(m, g, j) => f = g /\ i = j
        /\ ~(Writing(m) /\ Connecting(m))
        /\ \A f \in Fds : \A i \in Nat : QueuedAt(m, f, i) => ~Writing(m) /\ ~Connecting(m)
        /\ Waiting(m) => result[m] = "waiting"

Structure == ConnectionsOK /\ KernelOK /\ AccountsOK

Core == Structure /\ JobOK /\ WaitersOK

IInv == Core /\ LoopOK

-----------------------------------------------------------------------------
(* Maps, connections and the kernel, one change at a time.                 *)

\* A map with one entry more, or another one.
LEMMA PutType ==
    ASSUME NEW S, NEW f, f \in [DOMAIN f -> S], NEW x, NEW v \in S
    PROVE  Put(f, x, v) \in [DOMAIN f \cup {x} -> S]
BY DEF Put

\* A map with one entry less.
LEMMA WithoutFields ==
    ASSUME NEW f, NEW x
    PROVE  /\ DOMAIN Without(f, x) = DOMAIN f \ {x}
           /\ \A y \in DOMAIN f \ {x} : Without(f, x)[y] = f[y]
           /\ \A S : f \in [DOMAIN f -> S] => Without(f, x) \in [DOMAIN f \ {x} -> S]
BY DEF Without

\* A connection is added under a descriptor that none has.  The index keeps what it
\* has for the endpoint, which may be an older connection.
LEMMA AddKeeps ==
    ASSUME ConnectionsOK, NEW fd \in Fds \ Connections, NEW endpoint \in Endpoints,
           AddConnection(endpoint, fd)
    PROVE  /\ ConnectionsOK'
           /\ Connections' = Connections \cup {fd}
           /\ Pending(fd)' = <<>>
           /\ \A g \in Connections : Pending(g)' = Pending(g)
<1> DEFINE d == [recipient |-> endpoint, pending_messages |-> <<>>]
<1>1. m_connection_details' = Put(m_connection_details, fd, d)
  BY DEF AddConnection, Emplace, Connections
<1>2. d \in Details /\ d.recipient = endpoint /\ d.pending_messages = <<>>
  BY DEF Details
<1> HIDE DEF d
<1>3. /\ Connections' = Connections \cup {fd}
      /\ m_connection_details'[fd] = d
      /\ \A g \in Connections : m_connection_details'[g] = m_connection_details[g]
      /\ m_connection_details' \in [Connections' -> Details]
  <2>1. /\ DOMAIN m_connection_details' = DOMAIN m_connection_details \cup {fd}
        /\ m_connection_details'[fd] = d
        /\ \A g \in DOMAIN m_connection_details : m_connection_details'[g] = m_connection_details[g]
    BY <1>1 DEF Connections, Put
  <2>2. m_connection_details' \in [DOMAIN m_connection_details \cup {fd} -> Details]
    BY <1>1, <1>2, PutType DEF Connections, ConnectionsOK
  <2> QED
    BY <2>1, <2>2 DEF Connections
<1>4. Pending(fd)' = <<>> /\ \A g \in Connections : Pending(g)' = Pending(g)
  BY <1>2, <1>3 DEF Pending
<1>5. <<>> \in Queues
  BY DEF Queues
<1>6. /\ DOMAIN m_connection_fds' \subseteq Endpoints
      /\ m_connection_fds' \in [DOMAIN m_connection_fds' -> Fds]
      /\ IndexLeadsToConnection'
  <2>1. CASE endpoint \in DOMAIN m_connection_fds
    <3>1. m_connection_fds' = m_connection_fds
      BY <2>1 DEF AddConnection, Emplace
    <3> QED
      BY <3>1, <1>3 DEF ConnectionsOK, IndexLeadsToConnection
  <2>2. CASE endpoint \notin DOMAIN m_connection_fds
    <3>1. m_connection_fds' = Put(m_connection_fds, endpoint, fd)
      BY <2>2 DEF AddConnection, Emplace
    <3>2. /\ DOMAIN m_connection_fds' = DOMAIN m_connection_fds \cup {endpoint}
          /\ m_connection_fds'[endpoint] = fd
          /\ \A e \in DOMAIN m_connection_fds : m_connection_fds'[e] = m_connection_fds[e]
      BY <3>1, <2>2 DEF Put
    <3>3. m_connection_fds' \in [DOMAIN m_connection_fds \cup {endpoint} -> Fds]
      BY <3>1, PutType DEF ConnectionsOK
    <3> QED
      BY <3>2, <3>3, <1>2, <1>3 DEF ConnectionsOK, IndexLeadsToConnection
  <2> QED
    BY <2>1, <2>2
<1> QED
  BY <1>3, <1>4, <1>5, <1>6 DEF ConnectionsOK

\* An evicted connection leaves nothing in the index: what led to it named its
\* recipient.
LEMMA EvictKeeps ==
    ASSUME ConnectionsOK, NEW fd \in Connections, evict_connection(fd)
    PROVE  /\ ConnectionsOK'
           /\ Connections' = Connections \ {fd}
           /\ \A g \in Connections \ {fd} : Pending(g)' = Pending(g)
<1> DEFINE e == m_connection_details[fd].recipient
<1>1. /\ m_connection_details' = Without(m_connection_details, fd)
      /\ m_connection_fds' = Without(m_connection_fds, e)
  BY DEF evict_connection
<1> HIDE DEF e
<1>2. /\ Connections' = Connections \ {fd}
      /\ \A g \in Connections \ {fd} : m_connection_details'[g] = m_connection_details[g]
      /\ m_connection_details' \in [Connections' -> Details]
  BY <1>1, WithoutFields DEF Connections, ConnectionsOK
<1>3. /\ DOMAIN m_connection_fds' = DOMAIN m_connection_fds \ {e}
      /\ \A x \in DOMAIN m_connection_fds \ {e} : m_connection_fds'[x] = m_connection_fds[x]
      /\ m_connection_fds' \in [DOMAIN m_connection_fds' -> Fds]
  BY <1>1, WithoutFields DEF ConnectionsOK
<1>4. \A g \in Connections \ {fd} : Pending(g)' = Pending(g)
  BY <1>2 DEF Pending
<1>5. IndexLeadsToConnection'
  BY <1>2, <1>3 DEF ConnectionsOK, IndexLeadsToConnection, e
<1> QED
  BY <1>2, <1>3, <1>4, <1>5 DEF ConnectionsOK

\* The queue of one connection becomes q.
LEMMA QueueKeeps ==
    ASSUME ConnectionsOK, NEW fd \in Connections, NEW q \in Queues, UNCHANGED m_connection_fds,
           m_connection_details' = [m_connection_details EXCEPT ![fd].pending_messages = q]
    PROVE  /\ ConnectionsOK'
           /\ Connections' = Connections
           /\ Pending(fd)' = q
           /\ \A g \in Connections \ {fd} : Pending(g)' = Pending(g)
<1> DEFINE d == [m_connection_details[fd] EXCEPT !.pending_messages = q]
<1>1. m_connection_details[fd] \in Details
  BY DEF ConnectionsOK
<1>2. d \in Details /\ d.recipient = m_connection_details[fd].recipient /\ d.pending_messages = q
  BY <1>1 DEF Details, Queues
<1>3. m_connection_details' = [m_connection_details EXCEPT ![fd] = d]
  OBVIOUS
<1> HIDE DEF d
<1>4. /\ Connections' = Connections
      /\ m_connection_details'[fd] = d
      /\ \A g \in Connections \ {fd} : m_connection_details'[g] = m_connection_details[g]
      /\ m_connection_details' \in [Connections -> Details]
  BY <1>2, <1>3 DEF Connections, ConnectionsOK
<1>5. Pending(fd)' = q /\ \A g \in Connections \ {fd} : Pending(g)' = Pending(g)
  BY <1>2, <1>4 DEF Pending
<1>6. IndexLeadsToConnection'
  BY <1>2, <1>4 DEF ConnectionsOK, IndexLeadsToConnection
<1> QED
  BY <1>4, <1>5, <1>6 DEF ConnectionsOK

\* The kernel hands out a descriptor that is not open.
LEMMA OpenKeeps ==
    ASSUME KernelOK, NEW fd, NEW state \in {"connecting", "up", "gone", "error"}, Open(fd, state)
    PROVE  /\ DOMAIN peer' = DOMAIN peer \cup {fd} /\ fd \notin DOMAIN peer
           /\ peer' \in [DOMAIN peer' -> {"connecting", "up", "gone", "error"}]
           /\ full' \subseteq DOMAIN peer'
           /\ stream' \in [DOMAIN peer' -> Seq(Messages \X Nat)]
<1>1. /\ peer' = Put(peer, fd, state) /\ stream' = Put(stream, fd, <<>>) /\ full' = full
      /\ fd \notin DOMAIN peer
  BY DEF Open
<1>2. /\ DOMAIN peer' = DOMAIN peer \cup {fd}
      /\ peer' \in [DOMAIN peer' -> {"connecting", "up", "gone", "error"}]
  BY <1>1, PutType DEF KernelOK, Put
<1>3. DOMAIN stream = DOMAIN peer /\ <<>> \in Seq(Messages \X Nat)
  BY DEF KernelOK
<1>4. stream' \in [DOMAIN peer' -> Seq(Messages \X Nat)]
  BY <1>1, <1>2, <1>3 DEF KernelOK, Put
<1> QED
  BY <1>1, <1>2, <1>4 DEF KernelOK

\* The kernel forgets a descriptor, and what it knew of it.
LEMMA CloseKeeps ==
    ASSUME KernelOK, NEW fd, Close(fd)
    PROVE  /\ DOMAIN peer' = DOMAIN peer \ {fd}
           /\ peer' \in [DOMAIN peer' -> {"connecting", "up", "gone", "error"}]
           /\ full' \subseteq DOMAIN peer'
           /\ stream' \in [DOMAIN peer' -> Seq(Messages \X Nat)]
<1>1. peer' = Without(peer, fd) /\ stream' = Without(stream, fd) /\ full' = full \ {fd}
  BY DEF Close
<1>2. /\ DOMAIN peer' = DOMAIN peer \ {fd}
      /\ peer' \in [DOMAIN peer' -> {"connecting", "up", "gone", "error"}]
  BY <1>1, WithoutFields DEF KernelOK
<1>3. DOMAIN stream = DOMAIN peer
  BY DEF KernelOK
<1>4. stream' \in [DOMAIN peer' -> Seq(Messages \X Nat)]
  BY <1>1, <1>2, <1>3, WithoutFields DEF KernelOK
<1> QED
  BY <1>1, <1>2, <1>4 DEF KernelOK

\* The kernel takes some bytes of a message.
LEMMA TakeKeeps ==
    ASSUME KernelOK, NEW fd \in DOMAIN peer, NEW m \in Messages, NEW from \in Nat, NEW to \in Nat,
           NEW outcome, Take(fd, m, from, to, outcome), from <= to
    PROVE  /\ UNCHANGED peer
           /\ full' \subseteq DOMAIN peer
           /\ stream' \in [DOMAIN peer -> Seq(Messages \X Nat)]
<1>1. Bytes(m, from, to) \in Seq(Messages \X Nat)
  <2>1. to - from \in Nat
    OBVIOUS
  <2>2. \A i \in 1 .. to - from : <<m, from + i>> \in Messages \X Nat
    OBVIOUS
  <2> QED
    BY <2>1, <2>2 DEF Bytes
<1>2. stream[fd] \in Seq(Messages \X Nat)
  BY DEF KernelOK
<1>3. stream[fd] \o Bytes(m, from, to) \in Seq(Messages \X Nat)
  BY <1>1, <1>2
<1>4. stream' \in [DOMAIN peer -> Seq(Messages \X Nat)]
  BY <1>3 DEF Take, KernelOK
<1>5. full' \subseteq DOMAIN peer
  BY DEF Take, KernelOK
<1> QED
  BY <1>4, <1>5 DEF Take

-----------------------------------------------------------------------------
(* The same for what the actions do.                                       *)

\* The kernel decides, peers read and vanish: no descriptor is opened or closed.
LEMMA KernelStructure ==
    ASSUME Structure, UNCHANGED <<connections, connecting, watches, stream>>,
           DOMAIN peer' = DOMAIN peer, full' \subseteq DOMAIN peer,
           peer' \in [DOMAIN peer -> {"connecting", "up", "gone", "error"}]
    PROVE  Structure'
<1>1. ConnectionsOK' /\ Connections' = Connections /\ \A g : Pending(g)' = Pending(g)
  BY DEF Structure, ConnectionsOK, IndexLeadsToConnection, Connections, Pending, connections
<1> QED
  BY <1>1 DEF Structure, KernelOK, AccountsOK, watches

\* A connection is accepted, or made at once.
LEMMA OpenStructure ==
    ASSUME Structure, NEW fd \in Fds, NEW endpoint \in Endpoints, Open(fd, "up"),
           AddConnection(endpoint, fd), UNCHANGED <<connecting, writeable>>
    PROVE  /\ Structure'
           /\ Connections' = Connections \cup {fd} /\ Pending(fd)' = <<>>
           /\ \A g \in Connections : Pending(g)' = Pending(g)
<1>1. /\ DOMAIN peer' = DOMAIN peer \cup {fd} /\ fd \notin DOMAIN peer
      /\ peer' \in [DOMAIN peer' -> {"connecting", "up", "gone", "error"}]
      /\ full' \subseteq DOMAIN peer'
      /\ stream' \in [DOMAIN peer' -> Seq(Messages \X Nat)]
  BY OpenKeeps DEF Structure
<1>2. fd \notin Connections /\ fd \notin DOMAIN connecting
  BY <1>1 DEF Structure, AccountsOK
<1>3. /\ ConnectionsOK'
      /\ Connections' = Connections \cup {fd} /\ Pending(fd)' = <<>>
      /\ \A g \in Connections : Pending(g)' = Pending(g)
  BY <1>2, AddKeeps DEF Structure
<1>4. KernelOK'
  BY <1>1 DEF Structure, KernelOK
<1>5. AccountsOK'
  BY <1>1, <1>2, <1>3 DEF Structure, AccountsOK, AddConnection
<1> QED
  BY <1>3, <1>4, <1>5 DEF Structure

\* A connect is in progress.
LEMMA ConnectStructure ==
    ASSUME Structure, NEW fd \in Fds, NEW endpoint \in Endpoints, NEW m \in Messages,
           Open(fd, "connecting"), connecting' = Put(connecting, fd, [recipient |-> endpoint, message |-> m]),
           writeable' = writeable \cup {fd}, UNCHANGED <<connections, readable>>
    PROVE  /\ Structure' /\ fd \notin DOMAIN connecting
           /\ Connections' = Connections /\ \A g : Pending(g)' = Pending(g)
<1>1. /\ DOMAIN peer' = DOMAIN peer \cup {fd} /\ fd \notin DOMAIN peer
      /\ peer' \in [DOMAIN peer' -> {"connecting", "up", "gone", "error"}]
      /\ full' \subseteq DOMAIN peer'
      /\ stream' \in [DOMAIN peer' -> Seq(Messages \X Nat)]
  BY OpenKeeps DEF Structure
<1>2. fd \notin Connections /\ fd \notin DOMAIN connecting
  BY <1>1 DEF Structure, AccountsOK
<1>3. ConnectionsOK' /\ Connections' = Connections /\ \A g : Pending(g)' = Pending(g)
  BY DEF Structure, ConnectionsOK, IndexLeadsToConnection, Connections, Pending, connections
<1>4. /\ DOMAIN connecting' = DOMAIN connecting \cup {fd}
      /\ connecting' \in [DOMAIN connecting' -> [recipient : Endpoints, message : Messages]]
  <2>1. [recipient |-> endpoint, message |-> m] \in [recipient : Endpoints, message : Messages]
    OBVIOUS
  <2> QED
    BY <2>1, PutType DEF Structure, KernelOK, Put
<1>5. KernelOK'
  BY <1>1, <1>4 DEF Structure, KernelOK
<1>6. AccountsOK'
  BY <1>1, <1>2, <1>3, <1>4 DEF Structure, AccountsOK
<1> QED
  BY <1>2, <1>3, <1>5, <1>6 DEF Structure

\* A connection goes from the index, the watch lists and the kernel at once.
LEMMA EvictStructure ==
    ASSUME Structure, NEW fd \in Connections, evict_connection(fd), UNCHANGED connecting
    PROVE  /\ Structure'
           /\ Connections' = Connections \ {fd}
           /\ \A g \in Connections \ {fd} : Pending(g)' = Pending(g)
<1>1. /\ DOMAIN peer' = DOMAIN peer \ {fd}
      /\ peer' \in [DOMAIN peer' -> {"connecting", "up", "gone", "error"}]
      /\ full' \subseteq DOMAIN peer'
      /\ stream' \in [DOMAIN peer' -> Seq(Messages \X Nat)]
  BY CloseKeeps DEF Structure, evict_connection
<1>2. /\ ConnectionsOK'
      /\ Connections' = Connections \ {fd}
      /\ \A g \in Connections \ {fd} : Pending(g)' = Pending(g)
  BY EvictKeeps DEF Structure
<1>3. KernelOK'
  BY <1>1 DEF Structure, KernelOK
<1>4. AccountsOK'
  BY <1>1, <1>2 DEF Structure, AccountsOK, evict_connection
<1> QED
  BY <1>2, <1>3, <1>4 DEF Structure

\* A connect that was in progress has become a connection.
LEMMA ConnectedStructure ==
    ASSUME Structure, NEW fd \in DOMAIN connecting, writeable' = writeable \ {fd},
           connecting' = Without(connecting, fd), AddConnection(connecting[fd].recipient, fd),
           UNCHANGED kernel
    PROVE  /\ Structure' /\ fd \notin Connections
           /\ Connections' = Connections \cup {fd} /\ Pending(fd)' = <<>>
           /\ \A g \in Connections : Pending(g)' = Pending(g)
<1>1. fd \in Fds \ Connections /\ connecting[fd].recipient \in Endpoints
  BY DEF Structure, KernelOK, AccountsOK
<1>2. /\ ConnectionsOK'
      /\ Connections' = Connections \cup {fd} /\ Pending(fd)' = <<>>
      /\ \A g \in Connections : Pending(g)' = Pending(g)
  BY <1>1, AddKeeps DEF Structure
<1>3. /\ DOMAIN connecting' = DOMAIN connecting \ {fd}
      /\ connecting' \in [DOMAIN connecting' -> [recipient : Endpoints, message : Messages]]
  BY WithoutFields DEF Structure, KernelOK
<1>4. KernelOK'
  BY <1>3 DEF Structure, KernelOK, kernel
<1>5. AccountsOK'
  BY <1>1, <1>2, <1>3 DEF Structure, AccountsOK, AddConnection, kernel
<1> QED
  BY <1>1, <1>2, <1>4, <1>5 DEF Structure

\* ... or has failed.
LEMMA RefusedStructure ==
    ASSUME Structure, NEW fd \in DOMAIN connecting, writeable' = writeable \ {fd},
           connecting' = Without(connecting, fd), Close(fd), UNCHANGED <<connections, readable>>
    PROVE  /\ Structure'
           /\ Connections' = Connections /\ \A g : Pending(g)' = Pending(g)
<1>1. /\ DOMAIN peer' = DOMAIN peer \ {fd}
      /\ peer' \in [DOMAIN peer' -> {"connecting", "up", "gone", "error"}]
      /\ full' \subseteq DOMAIN peer'
      /\ stream' \in [DOMAIN peer' -> Seq(Messages \X Nat)]
  BY CloseKeeps DEF Structure
<1>2. ConnectionsOK' /\ Connections' = Connections /\ \A g : Pending(g)' = Pending(g)
  BY DEF Structure, ConnectionsOK, IndexLeadsToConnection, Connections, Pending, connections
<1>3. /\ DOMAIN connecting' = DOMAIN connecting \ {fd}
      /\ connecting' \in [DOMAIN connecting' -> [recipient : Endpoints, message : Messages]]
  BY WithoutFields DEF Structure, KernelOK
<1>4. KernelOK'
  BY <1>1, <1>3 DEF Structure, KernelOK
<1>5. AccountsOK'
  BY <1>1, <1>2, <1>3 DEF Structure, AccountsOK
<1> QED
  BY <1>2, <1>4, <1>5 DEF Structure

\* Bytes are written on a connection, and its queue becomes q.
LEMMA WriteStructure ==
    ASSUME Structure, NEW fd \in Connections, NEW m \in Messages, NEW from \in Nat, NEW to \in Nat,
           NEW outcome, Take(fd, m, from, to, outcome), from <= to,
           NEW q \in Queues, UNCHANGED <<m_connection_fds, connecting, readable>>,
           m_connection_details' = [m_connection_details EXCEPT ![fd].pending_messages = q],
           \/ q = <<>> /\ writeable' = writeable \ {fd}
           \/ q # <<>> /\ writeable' = writeable \cup {fd}
    PROVE  /\ Structure'
           /\ Connections' = Connections /\ Pending(fd)' = q
           /\ \A g \in Connections \ {fd} : Pending(g)' = Pending(g)
<1>1. fd \in DOMAIN peer /\ fd \notin DOMAIN connecting
  BY DEF Structure, AccountsOK
<1>2. /\ UNCHANGED peer
      /\ full' \subseteq DOMAIN peer
      /\ stream' \in [DOMAIN peer -> Seq(Messages \X Nat)]
  BY <1>1, TakeKeeps DEF Structure
<1>3. /\ ConnectionsOK'
      /\ Connections' = Connections /\ Pending(fd)' = q
      /\ \A g \in Connections \ {fd} : Pending(g)' = Pending(g)
  BY QueueKeeps DEF Structure
<1>4. KernelOK'
  BY <1>2 DEF Structure, KernelOK
<1>5. AccountsOK'
  BY <1>1, <1>2, <1>3 DEF Structure, AccountsOK
<1> QED
  BY <1>3, <1>4, <1>5 DEF Structure

-----------------------------------------------------------------------------
(* Who waits where.                                                        *)

\* What the worker is in the middle of, spelled out.
LEMMA JobCases ==
    ASSUME JobOK
    PROVE  /\ job[1] = "write" => \E fd \in Connections, m \in Messages : job = <<"write", fd, m>>
           /\ job[1] = "retry" => \E fd \in Connections : job = <<"retry", fd>> /\ Pending(fd) # <<>>
           /\ job[1] # "write" => \A m : ~Writing(m)
<1>1. CASE job = Idle
  BY <1>1 DEF Idle, Writing
<1>2. CASE job \in {"retry"} \X Fds
  BY <1>2 DEF JobOK, Writing
<1>3. CASE job \in {"write"} \X Fds \X Messages
  BY <1>3 DEF JobOK, Writing
<1> QED
  BY <1>1, <1>2, <1>3 DEF JobOK

\* Nobody waits for a message that send_to() was not called with.
LEMMA NotWaiting ==
    ASSUME WaitersOK, NEW m \in Messages, result[m] # "waiting"
    PROVE  ~Writing(m) /\ ~Connecting(m) /\ \A f \in Fds : \A i \in Nat : ~QueuedAt(m, f, i)
BY DEF WaitersOK, Waiting

\* A coroutine that waits for nothing any more changes nothing for the others.
LEMMA WaitersShrink ==
    ASSUME WaitersOK,
           \A x \in Messages : Writing(x)' => Writing(x),
           DOMAIN connecting' \subseteq DOMAIN connecting,
           \A f \in DOMAIN connecting' : connecting'[f] = connecting[f],
           \A x \in Messages : \A f \in Fds : \A i \in Nat : QueuedAt(x, f, i)' => QueuedAt(x, f, i),
           \A x \in Messages : result'[x] = result[x] \/ ~Waiting(x)'
    PROVE  WaitersOK'
<1> SUFFICES ASSUME NEW m \in Messages
             PROVE  /\ \A f, g \in DOMAIN connecting' :
                           connecting'[f].message = m /\ connecting'[g].message = m => f = g
                    /\ \A f, g \in Fds : \A i, j \in Nat :
                           QueuedAt(m, f, i)' /\ QueuedAt(m, g, j)' => f = g /\ i = j
                    /\ ~(Writing(m)' /\ Connecting(m)')
                    /\ \A f \in Fds : \A i \in Nat : QueuedAt(m, f, i)' => ~Writing(m)' /\ ~Connecting(m)'
                    /\ Waiting(m)' => result'[m] = "waiting"
  BY DEF WaitersOK
<1>1. Connecting(m)' => Connecting(m)
  BY DEF Connecting
<1>2. Waiting(m)' => Waiting(m)
  BY <1>1 DEF Waiting
<1> QED
  BY <1>1, <1>2 DEF WaitersOK

\* A coroutine comes to wait for its bytes to be written, and for nothing else: it
\* did not wait at all, or for its connect.
LEMMA WaitersWrite ==
    ASSUME WaitersOK, NEW m \in Messages, \A x : ~Writing(x),
           \A x \in Messages : Writing(x)' => x = m,
           ~Connecting(m)', \A f \in Fds : \A i \in Nat : ~QueuedAt(m, f, i)',
           DOMAIN connecting' \subseteq DOMAIN connecting,
           \A f \in DOMAIN connecting' : connecting'[f] = connecting[f],
           \A x \in Messages : \A f \in Fds : \A i \in Nat : QueuedAt(x, f, i)' => QueuedAt(x, f, i),
           result'[m] = "waiting", \A x \in Messages \ {m} : result'[x] = result[x]
    PROVE  WaitersOK'
<1> SUFFICES ASSUME NEW n \in Messages
             PROVE  /\ \A f, g \in DOMAIN connecting' :
                           connecting'[f].message = n /\ connecting'[g].message = n => f = g
                    /\ \A f, g \in Fds : \A i, j \in Nat :
                           QueuedAt(n, f, i)' /\ QueuedAt(n, g, j)' => f = g /\ i = j
                    /\ ~(Writing(n)' /\ Connecting(n)')
                    /\ \A f \in Fds : \A i \in Nat : QueuedAt(n, f, i)' => ~Writing(n)' /\ ~Connecting(n)'
                    /\ Waiting(n)' => result'[n] = "waiting"
  BY DEF WaitersOK
<1>1. Connecting(n)' => Connecting(n)
  BY DEF Connecting
<1>2. n # m => (Waiting(n)' => Waiting(n))
  BY <1>1 DEF Waiting
<1> QED
  BY <1>1, <1>2 DEF WaitersOK

-----------------------------------------------------------------------------
(* Every step keeps Core.                                                  *)

\* A step of the loop or of the kernel that leaves all connections and coroutines alone.
LEMMA QuietCore ==
    ASSUME Core, UNCHANGED <<connections, connecting, watches, job, stream, result>>,
           DOMAIN peer' = DOMAIN peer, full' \subseteq DOMAIN peer,
           peer' \in [DOMAIN peer -> {"connecting", "up", "gone", "error"}]
    PROVE  Core'
<1>1. Structure'
  BY KernelStructure DEF Core
<1>2. Connections' = Connections /\ \A g : Pending(g)' = Pending(g)
  BY DEF Connections, Pending, connections
<1>3. JobOK'
  BY <1>2 DEF Core, JobOK
<1>4. /\ \A x : Writing(x)' <=> Writing(x)
      /\ \A x, f, i : QueuedAt(x, f, i)' <=> QueuedAt(x, f, i)
  BY <1>2 DEF Writing, QueuedAt
<1>5. WaitersOK'
  BY <1>4, WaitersShrink DEF Core
<1> QED
  BY <1>1, <1>3, <1>5 DEF Core

\* A connection is accepted, on a descriptor nobody waits for.
LEMMA AcceptCore ==
    ASSUME Core, NEW endpoint \in Clients, NEW fd \in Fds, accept_connections(endpoint, fd)
    PROVE  Core'
<1>1. /\ Open(fd, "up") /\ AddConnection(endpoint, fd) /\ endpoint \in Endpoints
      /\ UNCHANGED <<connecting, writeable, job, result>>
  BY DEF accept_connections, Endpoints
<1>2. /\ Structure'
      /\ Connections' = Connections \cup {fd} /\ Pending(fd)' = <<>>
      /\ \A g \in Connections : Pending(g)' = Pending(g)
  BY <1>1, OpenStructure DEF Core
<1>3. job = Idle
  BY DEF accept_connections, Receiving
<1>4. JobOK'
  BY <1>1, <1>3 DEF JobOK, Idle
<1>5. \A x \in Messages : \A f \in Fds : \A i \in Nat : QueuedAt(x, f, i)' => QueuedAt(x, f, i)
  BY <1>2 DEF QueuedAt
<1>6. WaitersOK'
  BY <1>1, <1>5, WaitersShrink DEF Core, Writing
<1> QED
  BY <1>2, <1>4, <1>6 DEF Core

\* A connection is evicted, by the worker or when it fails to write on it.
LEMMA EvictCore ==
    ASSUME Core, NEW fd \in Connections, evict_connection(fd), UNCHANGED connecting,
           job' = Idle, \A x \in Messages : result'[x] = result[x] \/ ~Waiting(x)'
    PROVE  Core'
<1>1. /\ Structure'
      /\ Connections' = Connections \ {fd}
      /\ \A g \in Connections \ {fd} : Pending(g)' = Pending(g)
  BY EvictStructure DEF Core
<1>2. JobOK' /\ \A x : ~Writing(x)'
  BY DEF JobOK, Idle, Writing
<1>3. \A x \in Messages : \A f \in Fds : \A i \in Nat : QueuedAt(x, f, i)' => QueuedAt(x, f, i)
  BY <1>1 DEF QueuedAt
<1>4. WaitersOK'
  BY <1>2, <1>3, WaitersShrink DEF Core
<1> QED
  BY <1>1, <1>2, <1>4 DEF Core

\* A connection is read: nothing, an end of it, or an error that ends the socket.
LEMMA ReceiveCore ==
    ASSUME Core, NEW fd \in Fds, receive_messages(fd)
    PROVE  Core'
<1>1. UNCHANGED <<connecting, job, result>> /\ job = Idle
  BY DEF receive_messages, Receiving
<1>2. CASE UNCHANGED <<connections, watches, kernel>>
  BY <1>1, <1>2, QuietCore DEF Core, Structure, KernelOK, kernel
<1>3. CASE fd \in readable /\ evict_connection(fd)
  <2>1. fd \in Connections
    BY <1>3 DEF Core, Structure, AccountsOK
  <2> QED
    BY <1>1, <1>3, <2>1, EvictCore
<1> QED
  BY <1>2, <1>3 DEF receive_messages

\* send_to() writes next, waits for a connect, or has failed.
LEMMA SendCore ==
    ASSUME Core, LoopOK, NEW m \in Messages, send_to(m)
    PROVE  Core'
<1>a. job = Idle /\ result[m] = "none" /\ (\A x : ~Writing(x)) /\ To[m] \in Endpoints
  BY ToAssumption DEF send_to, Receiving, Idle, Writing
<1>b. ~Writing(m) /\ ~Connecting(m) /\ \A f \in Fds : \A i \in Nat : ~QueuedAt(m, f, i)
  BY <1>a, NotWaiting DEF Core
<1>c. \A value : Resume(m, value) =>
          result'[m] = value /\ \A x \in Messages \ {m} : result'[x] = result[x]
  BY DEF Resume, LoopOK
<1>1. CASE Reuse(m)
  <2>1. /\ m_connection_fds[To[m]] \in Connections
        /\ job' = <<"write", m_connection_fds[To[m]], m>>
        /\ UNCHANGED <<connections, connecting, watches, kernel>>
        /\ result'[m] = "waiting" /\ \A x \in Messages \ {m} : result'[x] = result[x]
    BY <1>1, <1>c DEF Reuse, Core, Structure, ConnectionsOK, IndexLeadsToConnection
  <2>2. Structure'
    BY <2>1, KernelStructure DEF Core, Structure, KernelOK, kernel
  <2>3. Connections' = Connections /\ \A g : Pending(g)' = Pending(g)
    BY <2>1 DEF Connections, Pending, connections
  <2>4. JobOK'
    BY <2>1, <2>3 DEF JobOK, Core, Structure, ConnectionsOK
  <2>5. \A x \in Messages : Writing(x)' => x = m
    BY <2>1 DEF Writing
  <2>6. /\ ~Connecting(m)'
        /\ \A x \in Messages : \A f \in Fds : \A i \in Nat : QueuedAt(x, f, i)' => QueuedAt(x, f, i)
    BY <1>b, <2>1, <2>3 DEF Connecting, QueuedAt
  <2>7. WaitersOK'
    BY <1>a, <1>b, <2>1, <2>5, <2>6, WaitersWrite DEF Core
  <2> QED
    BY <2>2, <2>4, <2>7 DEF Core
<1>2. ASSUME NEW fd \in Fds, Open(fd, "up"), AddConnection(To[m], fd), job' = <<"write", fd, m>>,
             Resume(m, "waiting"), UNCHANGED <<connecting, writeable>>
      PROVE  Core'
  <2>1. /\ Structure'
        /\ Connections' = Connections \cup {fd} /\ Pending(fd)' = <<>>
        /\ \A g \in Connections : Pending(g)' = Pending(g)
    BY <1>a, <1>2, OpenStructure DEF Core
  <2>2. JobOK'
    BY <1>2, <2>1 DEF JobOK
  <2>3. \A x \in Messages : Writing(x)' => x = m
    BY <1>2 DEF Writing
  <2>4. /\ ~Connecting(m)'
        /\ \A x \in Messages : \A f \in Fds : \A i \in Nat : QueuedAt(x, f, i)' => QueuedAt(x, f, i)
    BY <1>b, <1>2, <2>1 DEF Connecting, QueuedAt
  <2>5. result'[m] = "waiting" /\ \A x \in Messages \ {m} : result'[x] = result[x]
    BY <1>2, <1>c
  <2>6. WaitersOK'
    BY <1>a, <1>b, <1>2, <2>3, <2>4, <2>5, WaitersWrite DEF Core
  <2> QED
    BY <2>1, <2>2, <2>6 DEF Core
<1>3. ASSUME NEW fd \in Fds, Open(fd, "connecting"),
             connecting' = Put(connecting, fd, [recipient |-> To[m], message |-> m]),
             writeable' = writeable \cup {fd}, Resume(m, "waiting"),
             UNCHANGED <<connections, readable, job>>
      PROVE  Core'
  <2>1. /\ Structure' /\ fd \notin DOMAIN connecting
        /\ Connections' = Connections /\ \A g : Pending(g)' = Pending(g)
    BY <1>a, <1>3, ConnectStructure DEF Core
  <2>2. JobOK' /\ \A x : ~Writing(x)'
    BY <1>a, <1>3 DEF JobOK, Idle, Writing
  <2>3. /\ DOMAIN connecting' = DOMAIN connecting \cup {fd}
        /\ connecting'[fd].message = m
        /\ \A f \in DOMAIN connecting : connecting'[f] = connecting[f]
    BY <1>3, <2>1 DEF Put
  <2>4. \A x, f, i : QueuedAt(x, f, i)' <=> QueuedAt(x, f, i)
    BY <2>1 DEF QueuedAt
  <2>5. result'[m] = "waiting" /\ \A x \in Messages \ {m} : result'[x] = result[x]
    BY <1>3, <1>c
  <2>6. \A x \in Messages \ {m} : Connecting(x)' => Connecting(x)
    BY <2>3 DEF Connecting
  <2>7. \A x \in Messages \ {m} : Waiting(x)' => Waiting(x)
    BY <2>2, <2>4, <2>6 DEF Waiting
  <2>8. WaitersOK'
    <3> SUFFICES ASSUME NEW n \in Messages
                 PROVE  /\ \A f, g \in DOMAIN connecting' :
                               connecting'[f].message = n /\ connecting'[g].message = n => f = g
                        /\ \A f, g \in Fds : \A i, j \in Nat :
                               QueuedAt(n, f, i)' /\ QueuedAt(n, g, j)' => f = g /\ i = j
                        /\ \A f \in Fds : \A i \in Nat : QueuedAt(n, f, i)' => ~Connecting(n)'
                        /\ Waiting(n)' => result'[n] = "waiting"
      BY <2>2 DEF WaitersOK
    <3>1. CASE n = m
      BY <3>1, <1>b, <2>3, <2>4, <2>5 DEF Connecting
    <3>2. CASE n # m
      BY <3>2, <2>3, <2>4, <2>5, <2>6, <2>7 DEF Core, WaitersOK
    <3> QED
      BY <3>1, <3>2
  <2> QED
    BY <2>1, <2>2, <2>8 DEF Core
<1>4. ASSUME Resume(m, "EPHEMERAL_SOCKET_DEAD"), UNCHANGED <<connections, connecting, watches, job, kernel>>
      PROVE  Core'
  <2>1. Structure'
    BY <1>4, KernelStructure DEF Core, Structure, KernelOK, kernel
  <2>2. Connections' = Connections /\ \A g : Pending(g)' = Pending(g)
    BY <1>4 DEF Connections, Pending, connections
  <2>3. JobOK'
    BY <1>4, <2>2 DEF Core, JobOK
  <2>4. \A x : (Writing(x)' <=> Writing(x)) /\ (Connecting(x)' <=> Connecting(x))
    BY <1>4 DEF Writing, Connecting
  <2>5. \A x, f, i : QueuedAt(x, f, i)' <=> QueuedAt(x, f, i)
    BY <2>2 DEF QueuedAt
  <2>6. ~Waiting(m)' /\ \A x \in Messages \ {m} : result'[x] = result[x]
    BY <1>b, <1>c, <1>4, <2>4, <2>5 DEF Waiting
  <2>7. WaitersOK'
    BY <1>4, <2>4, <2>5, <2>6, WaitersShrink DEF Core
  <2> QED
    BY <2>1, <2>3, <2>7 DEF Core
<1> QED
  BY <1>1, <1>2, <1>3, <1>4 DEF send_to, Connect

\* A connect is decided or not yet, or a retry begins.
LEMMA WriteableCore ==
    ASSUME Core, LoopOK, NEW fd \in Fds, Writeable(fd)
    PROVE  Core'
<1>a. job = Idle /\ \A x : ~Writing(x)
  BY DEF Writeable, Idle, Writing
<1>1. CASE UNCHANGED <<connections, connecting, watches, job, kernel, result>>
  BY <1>1, QuietCore DEF Core, Structure, KernelOK, kernel
<1>2. ASSUME fd \in writeable, fd \notin DOMAIN connecting, job' = <<"retry", fd>>,
             UNCHANGED <<connections, connecting, watches, kernel, result>>
      PROVE  Core'
  <2>1. Structure'
    BY <1>2, KernelStructure DEF Core, Structure, KernelOK, kernel
  <2>2. Connections' = Connections /\ \A g : Pending(g)' = Pending(g)
    BY <1>2 DEF Connections, Pending, connections
  <2>3. fd \in Connections /\ Pending(fd) # <<>>
    BY <1>2 DEF Core, Structure, AccountsOK
  <2>4. JobOK' /\ \A x : ~Writing(x)'
    BY <1>2, <2>2, <2>3 DEF JobOK, Writing
  <2>5. \A x, f, i : QueuedAt(x, f, i)' <=> QueuedAt(x, f, i)
    BY <2>2 DEF QueuedAt
  <2>6. WaitersOK'
    BY <1>2, <2>4, <2>5, WaitersShrink DEF Core
  <2> QED
    BY <2>1, <2>4, <2>6 DEF Core
<1>3. ASSUME fd \in DOMAIN connecting, connecting' = Without(connecting, fd),
             NEW m, m = connecting[fd].message
      PROVE  /\ m \in Messages /\ ~Connecting(m)' /\ result[m] = "waiting"
             /\ \A f \in Fds : \A i \in Nat : ~QueuedAt(m, f, i)
             /\ DOMAIN connecting' \subseteq DOMAIN connecting
             /\ \A f \in DOMAIN connecting' : connecting'[f] = connecting[f]
  <2>1. m \in Messages
    BY <1>3 DEF Core, Structure, KernelOK
  <2>2. /\ DOMAIN connecting' = DOMAIN connecting \ {fd}
        /\ \A f \in DOMAIN connecting' : connecting'[f] = connecting[f]
    BY <1>3 DEF Without
  <2>3. Connecting(m)
    BY <1>3 DEF Connecting
  <2>4. \A g \in DOMAIN connecting : connecting[g].message = m => g = fd
    BY <1>3, <2>1 DEF Core, WaitersOK
  <2>5. ~Connecting(m)'
    BY <2>2, <2>4 DEF Connecting
  <2>6. result[m] = "waiting" /\ \A f \in Fds : \A i \in Nat : ~QueuedAt(m, f, i)
    BY <2>1, <2>3 DEF Core, WaitersOK, Waiting
  <2> QED
    BY <2>1, <2>2, <2>5, <2>6
<1>4. ASSUME fd \in DOMAIN connecting, connecting' = Without(connecting, fd), writeable' = writeable \ {fd},
             AddConnection(connecting[fd].recipient, fd), job' = <<"write", fd, connecting[fd].message>>,
             UNCHANGED <<kernel, result>>
      PROVE  Core'
  <2> PICK m : m = connecting[fd].message
    OBVIOUS
  <2>1. /\ Structure' /\ fd \notin Connections
        /\ Connections' = Connections \cup {fd} /\ Pending(fd)' = <<>>
        /\ \A g \in Connections : Pending(g)' = Pending(g)
    BY <1>4, ConnectedStructure DEF Core
  <2>2. JobOK' /\ \A x \in Messages : Writing(x)' => x = m
    BY <1>3, <1>4, <2>1 DEF JobOK, Writing
  <2>3. \A x \in Messages : \A f \in Fds : \A i \in Nat : QueuedAt(x, f, i)' => QueuedAt(x, f, i)
    BY <2>1 DEF QueuedAt
  <2>4. WaitersOK'
    BY <1>a, <1>3, <1>4, <2>2, <2>3, WaitersWrite DEF Core
  <2> QED
    BY <2>1, <2>2, <2>4 DEF Core
<1>5. ASSUME fd \in DOMAIN connecting, connecting' = Without(connecting, fd), writeable' = writeable \ {fd},
             Close(fd), Resume(connecting[fd].message, "EPHEMERAL_SOCKET_DEAD"),
             UNCHANGED <<connections, readable, job>>
      PROVE  Core'
  <2> PICK m : m = connecting[fd].message
    OBVIOUS
  <2>1. /\ Structure'
        /\ Connections' = Connections /\ \A g : Pending(g)' = Pending(g)
    BY <1>5, RefusedStructure DEF Core
  <2>2. JobOK' /\ \A x : ~Writing(x)'
    BY <1>a, <1>5 DEF JobOK, Idle, Writing
  <2>3. \A x, f, i : QueuedAt(x, f, i)' <=> QueuedAt(x, f, i)
    BY <2>1 DEF QueuedAt
  <2>4. \A x \in Messages \ {m} : result'[x] = result[x]
    BY <1>5 DEF Resume, LoopOK
  <2>5. ~Waiting(m)'
    BY <1>3, <1>5, <2>2, <2>3 DEF Waiting
  <2>6. WaitersOK'
    BY <1>3, <1>5, <2>2, <2>3, <2>4, <2>5, WaitersShrink DEF Core
  <2> QED
    BY <2>1, <2>2, <2>6 DEF Core
<1> QED
  BY <1>1, <1>2, <1>4, <1>5 DEF Writeable, ConnectDone

\* Bytes are written and nothing else changes.
LEMMA TakeStructure ==
    ASSUME Structure, NEW fd \in Connections, NEW m \in Messages, NEW from \in Nat, NEW to \in Nat,
           NEW outcome, Take(fd, m, from, to, outcome), from <= to,
           UNCHANGED <<connections, connecting, watches>>
    PROVE  Structure' /\ Connections' = Connections /\ \A g : Pending(g)' = Pending(g)
<1>1. fd \in DOMAIN peer
  BY DEF Structure, AccountsOK
<1>2. /\ UNCHANGED peer
      /\ full' \subseteq DOMAIN peer
      /\ stream' \in [DOMAIN peer -> Seq(Messages \X Nat)]
  BY <1>1, TakeKeeps DEF Structure
<1>3. ConnectionsOK' /\ Connections' = Connections /\ \A g : Pending(g)' = Pending(g)
  BY DEF Structure, ConnectionsOK, IndexLeadsToConnection, Connections, Pending, connections
<1>4. KernelOK'
  BY <1>2 DEF Structure, KernelOK
<1>5. AccountsOK'
  BY <1>2, <1>3 DEF Structure, AccountsOK, watches
<1> QED
  BY <1>3, <1>4, <1>5 DEF Structure

\* The message is written, queued behind all others, or takes the connection with it.
LEMMA WriteAllCore ==
    ASSUME Core, LoopOK, write_all
    PROVE  Core'
<1>a. PICK fd \in Connections, m \in Messages : job = <<"write", fd, m>>
  BY JobCases DEF Core, write_all
<1>b. job[2] = fd /\ job[3] = m /\ job' = Idle /\ Writing(m) /\ (\A x : ~Writing(x)') /\ JobOK'
  BY <1>a DEF write_all, Writing, Idle, JobOK
<1>c. result[m] = "waiting" /\ ~Connecting(m) /\ \A f \in Fds : \A i \in Nat : ~QueuedAt(m, f, i)
  BY <1>b DEF Core, WaitersOK, Waiting
<1>d. \A value : Resume(m, value) => \A x \in Messages \ {m} : result'[x] = result[x]
  BY DEF Resume, LoopOK
<1>e. UNCHANGED connecting /\ Size[m] \in Nat /\ 0 \in Nat
  BY SizeAssumption DEF write_all
<1>f. ~Connecting(m)'
  BY <1>c, <1>e DEF Connecting
<1>1. ASSUME NEW to \in 0 .. Size[m], Take(fd, m, 0, to, "written"), Resume(m, "SENT"),
             UNCHANGED <<connections, watches>>
      PROVE  Core'
  <2>1. to \in Nat /\ 0 <= to
    BY <1>e
  <2>2. Structure' /\ Connections' = Connections /\ \A g : Pending(g)' = Pending(g)
    BY <1>1, <1>e, <2>1, TakeStructure DEF Core
  <2>3. \A x, f, i : QueuedAt(x, f, i)' <=> QueuedAt(x, f, i)
    BY <2>2 DEF QueuedAt
  <2>4. ~Waiting(m)'
    BY <1>b, <1>c, <1>f, <2>3 DEF Waiting
  <2>5. WaitersOK'
    BY <1>b, <1>d, <1>e, <1>1, <2>3, <2>4, WaitersShrink DEF Core
  <2> QED
    BY <1>b, <2>2, <2>5 DEF Core
<1>2. ASSUME NEW to \in 0 .. Size[m], Write(fd, m, 0, to, "again"), Take(fd, m, 0, to, "again"),
             Enqueue(fd, m, to), writeable' = writeable \cup {fd},
             UNCHANGED <<m_connection_fds, readable, result>>
      PROVE  Core'
  <2> DEFINE e == [message |-> m, bytes_already_written |-> to]
             q == Append(Pending(fd), e)
             k == Len(Pending(fd))
  <2>1. to \in Nat /\ 0 <= to /\ to < Size[m]
    BY <1>2, <1>e DEF Write
  <2>2. e \in Entries /\ e.message = m /\ e.bytes_already_written = to
    BY <2>1 DEF Entries
  <2>3. Pending(fd) \in Seq(Entries) /\ Pending(fd) \in Queues
    BY DEF Core, Structure, ConnectionsOK, Queues
  <2> HIDE DEF e
  <2>4. /\ q \in Seq(Entries) /\ k \in Nat /\ Len(q) = k + 1 /\ q # <<>> /\ q[k + 1] = e
        /\ \A i \in 1 .. k : q[i] = Pending(fd)[i]
    BY <2>2, <2>3
  <2>5. q \in Queues
    <3>1. \A i \in 1 .. Len(q) : i \in 1 .. k \/ i = k + 1
      BY <2>4
    <3> QED
      BY <3>1, <2>1, <2>2, <2>3, <2>4 DEF Queues
  <2>6. m_connection_details' = [m_connection_details EXCEPT ![fd].pending_messages = q]
    BY <1>2 DEF Enqueue, Pending, e
  <2> HIDE DEF q
  <2>7. /\ Structure'
        /\ Connections' = Connections /\ Pending(fd)' = q
        /\ \A g \in Connections \ {fd} : Pending(g)' = Pending(g)
    BY <1>2, <1>e, <2>1, <2>4, <2>5, <2>6, WriteStructure DEF Core
  <2>8. \A x \in Messages : \A f \in Fds : \A i \in Nat :
            QueuedAt(x, f, i)' => IF x = m THEN f = fd /\ i = k + 1 ELSE QueuedAt(x, f, i)
    <3> SUFFICES ASSUME NEW x \in Messages, NEW f \in Fds, NEW i \in Nat, QueuedAt(x, f, i)'
                 PROVE  IF x = m THEN f = fd /\ i = k + 1 ELSE QueuedAt(x, f, i)
      OBVIOUS
    <3>1. CASE f # fd
      <4>1. QueuedAt(x, f, i)
        BY <3>1, <2>7 DEF QueuedAt
      <4> QED
        BY <4>1, <1>c
    <3>2. CASE f = fd /\ i = k + 1
      <4>1. x = m
        BY <3>2, <2>2, <2>4, <2>7 DEF QueuedAt
      <4> QED
        BY <3>2, <4>1
    <3>3. CASE f = fd /\ i # k + 1
      <4>1. i \in 1 .. k /\ q[i] = Pending(fd)[i] /\ q[i].message = x
        BY <3>3, <2>4, <2>7 DEF QueuedAt
      <4>2. QueuedAt(x, f, i)
        BY <3>3, <4>1 DEF QueuedAt
      <4> QED
        BY <4>2, <1>c
    <3> QED
      BY <3>1, <3>2, <3>3
  <2>9. WaitersOK'
    <3> SUFFICES ASSUME NEW n \in Messages
                 PROVE  /\ \A f, g \in DOMAIN connecting' :
                               connecting'[f].message = n /\ connecting'[g].message = n => f = g
                        /\ \A f, g \in Fds : \A i, j \in Nat :
                               QueuedAt(n, f, i)' /\ QueuedAt(n, g, j)' => f = g /\ i = j
                        /\ \A f \in Fds : \A i \in Nat : QueuedAt(n, f, i)' => ~Connecting(n)'
                        /\ Waiting(n)' => result'[n] = "waiting"
      BY <1>b DEF WaitersOK
    <3>1. CASE n = m
      BY <3>1, <1>c, <1>e, <1>f, <1>2, <2>8 DEF Core, WaitersOK
    <3>2. CASE n # m
      <4>1. Connecting(n)' <=> Connecting(n)
        BY <1>e DEF Connecting
      <4>2. Waiting(n)' => Waiting(n)
        BY <3>2, <4>1, <1>b, <2>8 DEF Waiting
      <4> QED
        BY <3>2, <4>1, <4>2, <1>e, <1>2, <2>8 DEF Core, WaitersOK
    <3> QED
      BY <3>1, <3>2
  <2> QED
    BY <1>b, <2>7, <2>9 DEF Core
<1>3. ASSUME evict_connection(fd), Resume(m, "EPHEMERAL_SOCKET_DEAD") PROVE Core'
  <2>1. \A x \in Messages : \A f \in Fds : \A i \in Nat : QueuedAt(x, f, i)' => QueuedAt(x, f, i)
    <3>1. /\ Connections' = Connections \ {fd}
          /\ \A g \in Connections \ {fd} : Pending(g)' = Pending(g)
      BY <1>3, EvictKeeps DEF Core, Structure
    <3> QED
      BY <3>1 DEF QueuedAt
  <2>2. ~Waiting(m)'
    BY <1>b, <1>c, <1>f, <2>1 DEF Waiting
  <2> QED
    BY <1>b, <1>d, <1>e, <1>3, <2>2, EvictCore
<1> QED
  BY <1>b, <1>1, <1>2, <1>3 DEF write_all

\* The front of a queue, of which some bytes are left.
LEMMA FrontOfQueue ==
    ASSUME Core, NEW fd \in Connections, Pending(fd) # <<>>
    PROVE  LET q == Pending(fd)
               front == Head(q)
           IN  /\ q \in Seq(Entries) /\ Len(q) \in Nat /\ Len(q) >= 1
               /\ front = q[1] /\ front.message \in Messages /\ front.bytes_already_written \in Nat
               /\ front.bytes_already_written < Size[front.message]
               /\ QueuedAt(front.message, fd, 1) /\ result[front.message] = "waiting"
<1> DEFINE q == Pending(fd)
           m == Head(q).message
<1>1. q \in Seq(Entries) /\ q \in Queues
  BY DEF Core, Structure, ConnectionsOK, Queues
<1>2. /\ Len(q) \in Nat /\ Len(q) >= 1 /\ Head(q) = q[1] /\ q[1] \in Entries
  BY <1>1
<1>3. m \in Messages /\ Head(q).bytes_already_written \in Nat
      /\ Head(q).bytes_already_written < Size[m]
  BY <1>1, <1>2 DEF Entries, Queues
<1>4. fd \in Fds /\ 1 \in 1 .. Len(q) /\ 1 \in Nat
  BY <1>2 DEF Core, Structure, ConnectionsOK
<1>5. QueuedAt(m, fd, 1)
  BY <1>2, <1>4 DEF QueuedAt
<1>6. result[m] = "waiting"
  BY <1>3, <1>4, <1>5 DEF Core, WaitersOK, Waiting
<1> QED
  BY <1>1, <1>2, <1>3, <1>5, <1>6

\* The front of the queue is written, has made progress, or takes the connection with it.
LEMMA RetryCore ==
    ASSUME Core, LoopOK, retry_messages
    PROVE  Core'
<1>a. PICK fd \in Connections : job = <<"retry", fd>> /\ Pending(fd) # <<>>
  BY JobCases DEF Core, retry_messages
<1> DEFINE q == Pending(fd)
           k == Len(q)
<1> PICK m, from : m = Head(q).message /\ from = Head(q).bytes_already_written
  OBVIOUS
<1>b. /\ q \in Seq(Entries) /\ k \in Nat /\ k >= 1 /\ Head(q) = q[1]
      /\ m \in Messages /\ from \in Nat /\ from < Size[m] /\ Size[m] \in Nat
      /\ QueuedAt(m, fd, 1) /\ result[m] = "waiting" /\ q \in Queues
  BY <1>a, FrontOfQueue, SizeAssumption DEF Core, Structure, ConnectionsOK
<1>c. /\ job[2] = fd /\ fd \in Fds /\ (\A x : ~Writing(x)) /\ UNCHANGED connecting
      /\ fd \notin DOMAIN connecting /\ fd \in writeable
  BY <1>a DEF Writing, Core, Structure, ConnectionsOK, AccountsOK, retry_messages
<1>d. \A value : Resume(m, value) => \A x \in Messages \ {m} : result'[x] = result[x]
  BY DEF Resume, LoopOK
<1>e. /\ ~Connecting(m) /\ ~Connecting(m)'
      /\ \A f \in Fds : \A i \in Nat : QueuedAt(m, f, i) => f = fd /\ i = 1
  BY <1>b, <1>c DEF Core, WaitersOK, Connecting
<1>f. fd \in readable
  BY DEF Core, Structure, AccountsOK
<1>1. ASSUME NEW to \in from .. Size[m], Take(fd, m, from, to, "written"), Resume(m, "SENT"), Pop(fd),
             \/ k > 1 /\ UNCHANGED <<job, writeable>>
             \/ k = 1 /\ job' = Idle /\ writeable' = writeable \ {fd},
             UNCHANGED <<m_connection_fds, readable>>
      PROVE  Core'
  <2> DEFINE t == Tail(q)
  <2>1. to \in Nat /\ from <= to
    BY <1>b
  <2>2. /\ t \in Seq(Entries) /\ Len(t) = k - 1
        /\ \A i \in 1 .. k - 1 : t[i] = q[i + 1] /\ i + 1 \in 1 .. k
    BY <1>a, <1>b
  <2>3. t \in Queues
    BY <1>b, <2>2 DEF Queues
  <2>4. m_connection_details' = [m_connection_details EXCEPT ![fd].pending_messages = t]
    BY <1>1 DEF Pop, Pending
  <2>t. t = <<>> <=> k = 1
    <3>1. t = <<>> <=> Len(t) = 0
      <4> HIDE DEF t
      <4> QED
        BY <2>2, EmptySeq
    <3> QED
      BY <3>1, <2>2, <1>b
  <2>5. \/ t = <<>> /\ k = 1 /\ writeable' = writeable \ {fd} /\ job' = Idle
        \/ t # <<>> /\ k > 1 /\ writeable' = writeable \cup {fd} /\ job' = job
    <3> HIDE DEF t, k, q
    <3>1. writeable \cup {fd} = writeable
      BY <1>c
    <3>2. k = 1 => ~(k > 1)
      OBVIOUS
    <3>3. k > 1 => k # 1
      OBVIOUS
    <3> QED
      BY <1>1, <2>t, <3>1, <3>2, <3>3
  <2> HIDE DEF t
  <2>6. /\ Structure'
        /\ Connections' = Connections /\ Pending(fd)' = t
        /\ \A g \in Connections \ {fd} : Pending(g)' = Pending(g)
    BY <1>1, <1>b, <1>c, <2>1, <2>3, <2>4, <2>5, WriteStructure DEF Core
  <2>7. JobOK' /\ \A x : ~Writing(x)'
    <3>1. CASE t = <<>>
      <4>1. job' = Idle
        BY <3>1, <2>5
      <4> QED
        BY <4>1 DEF JobOK, Writing, Idle
    <3>2. CASE t # <<>>
      <4>1. job' = <<"retry", fd>>
        BY <3>2, <1>a, <2>5
      <4> QED
        BY <4>1, <3>2, <1>c, <2>6 DEF JobOK, Writing
    <3> QED
      BY <3>1, <3>2
  <2>8. \A x \in Messages : \A f \in Fds : \A i \in Nat :
            QueuedAt(x, f, i)' => IF f = fd THEN QueuedAt(x, f, i + 1) /\ i + 1 # 1 ELSE QueuedAt(x, f, i)
    <3> SUFFICES ASSUME NEW x \in Messages, NEW f \in Fds, NEW i \in Nat, QueuedAt(x, f, i)'
                 PROVE  IF f = fd THEN QueuedAt(x, f, i + 1) /\ i + 1 # 1 ELSE QueuedAt(x, f, i)
      OBVIOUS
    <3>1. CASE f # fd
      BY <3>1, <2>6 DEF QueuedAt
    <3>2. CASE f = fd
      <4>1. i \in 1 .. k - 1 /\ t[i].message = x
        BY <3>2, <2>2, <2>6 DEF QueuedAt
      <4> QED
        BY <3>2, <4>1, <2>2 DEF QueuedAt
    <3> QED
      BY <3>1, <3>2
  <2>9. \A x \in Messages : (Connecting(x)' <=> Connecting(x)) /\ (Waiting(x)' => Waiting(x))
    <3>1. \A x \in Messages : Connecting(x)' <=> Connecting(x)
      BY <1>c DEF Connecting
    <3>2. \A x \in Messages : \A f \in Fds : \A i \in Nat :
              QueuedAt(x, f, i)' => \E j \in Nat : QueuedAt(x, f, j)
      BY <2>8
    <3> QED
      BY <3>1, <3>2, <2>7 DEF Waiting
  <2>10. ~Waiting(m)'
    <3>1. ASSUME NEW f \in Fds, NEW i \in Nat, QueuedAt(m, f, i)' PROVE FALSE
      <4>1. CASE f = fd
        <5>1. QueuedAt(m, fd, i + 1) /\ i + 1 # 1 /\ i + 1 \in Nat
          BY <3>1, <4>1, <1>b, <2>8
        <5> QED
          BY <5>1, <1>c, <1>e
      <4>2. CASE f # fd
        BY <3>1, <4>2, <1>b, <1>e, <2>8
      <4> QED
        BY <4>1, <4>2
    <3>2. ~Connecting(m)' /\ ~Writing(m)'
      BY <1>e, <2>7
    <3> QED
      BY <3>1, <3>2 DEF Waiting
  <2>11. \A n \in Messages, f, g \in Fds, i, j \in Nat : QueuedAt(n, f, i)' /\ QueuedAt(n, g, j)' => f = g /\ i = j
    <3> SUFFICES ASSUME NEW n \in Messages, NEW f \in Fds, NEW g \in Fds, NEW i \in Nat, NEW j \in Nat,
                        QueuedAt(n, f, i)', QueuedAt(n, g, j)'
                 PROVE  f = g /\ i = j
      OBVIOUS
    <3>1. PICK a \in Nat : QueuedAt(n, f, a) /\ a = IF f = fd THEN i + 1 ELSE i
      BY <2>8
    <3>2. PICK b \in Nat : QueuedAt(n, g, b) /\ b = IF g = fd THEN j + 1 ELSE j
      BY <2>8
    <3>3. f = g /\ a = b
      BY <3>1, <3>2 DEF Core, WaitersOK
    <3> QED
      BY <3>1, <3>2, <3>3
  <2>12. \A n \in Messages, f \in Fds, i \in Nat : QueuedAt(n, f, i)' => ~Connecting(n)'
    <3> SUFFICES ASSUME NEW n \in Messages, NEW f \in Fds, NEW i \in Nat, QueuedAt(n, f, i)'
                 PROVE  ~Connecting(n)'
      OBVIOUS
    <3>1. PICK a \in Nat : QueuedAt(n, f, a)
      BY <2>8
    <3> QED
      BY <3>1, <2>9 DEF Core, WaitersOK
  <2>13. \A n \in Messages : Waiting(n)' => result'[n] = "waiting"
    <3> TAKE n \in Messages
    <3>1. CASE n = m
      BY <3>1, <2>10
    <3>2. CASE n # m
      BY <3>2, <2>9, <1>1, <1>d DEF Core, WaitersOK
    <3> QED
      BY <3>1, <3>2
  <2>14. WaitersOK'
    BY <1>c, <2>7, <2>11, <2>12, <2>13 DEF Core, WaitersOK
  <2> QED
    BY <2>6, <2>7, <2>14 DEF Core
<1>2. ASSUME NEW to \in from .. Size[m], Write(fd, m, from, to, "again"), Take(fd, m, from, to, "again"),
             Progress(fd, to), job' = Idle, UNCHANGED <<m_connection_fds, watches, result>>
      PROVE  Core'
  <2> DEFINE e == [q[1] EXCEPT !.bytes_already_written = to]
             t == [q EXCEPT ![1] = e]
  <2>1. to \in Nat /\ from <= to /\ to < Size[m]
    BY <1>2, <1>b DEF Write
  <2>2. q[1] \in Entries /\ q[1].message = m /\ 1 \in 1 .. k
    BY <1>b
  <2>3. e \in Entries /\ e.message = m /\ e.bytes_already_written = to
    BY <2>1, <2>2 DEF Entries
  <2>4. m_connection_details' = [m_connection_details EXCEPT ![fd].pending_messages = t]
    BY <1>2 DEF Progress, Pending
  <2> HIDE DEF e
  <2>5. /\ t \in Seq(Entries) /\ Len(t) = k /\ t # <<>> /\ t[1] = e
        /\ \A i \in 1 .. k : i # 1 => t[i] = q[i]
    BY <1>a, <1>b, <2>2, <2>3
  <2>6. t \in Queues
    BY <1>b, <2>1, <2>3, <2>5 DEF Queues
  <2>7. \A i \in 1 .. k : t[i].message = q[i].message
    BY <2>2, <2>3, <2>5
  <2> HIDE DEF t
  <2>8. readable' = readable /\ writeable' = writeable \cup {fd}
    BY <1>2, <1>c DEF watches
  <2>9. /\ Structure'
        /\ Connections' = Connections /\ Pending(fd)' = t
        /\ \A g \in Connections \ {fd} : Pending(g)' = Pending(g)
    BY <1>2, <1>b, <1>c, <2>1, <2>4, <2>5, <2>6, <2>8, WriteStructure DEF Core
  <2>10. \A x \in Messages : \A f \in Fds : \A i \in Nat : QueuedAt(x, f, i)' => QueuedAt(x, f, i)
    <3> SUFFICES ASSUME NEW x \in Messages, NEW f \in Fds, NEW i \in Nat, QueuedAt(x, f, i)'
                 PROVE  QueuedAt(x, f, i)
      OBVIOUS
    <3>1. CASE f # fd
      BY <3>1, <2>9 DEF QueuedAt
    <3>2. CASE f = fd
      BY <3>2, <2>5, <2>7, <2>9 DEF QueuedAt
    <3> QED
      BY <3>1, <3>2
  <2>11. JobOK' /\ \A x : ~Writing(x)'
    BY <1>2 DEF JobOK, Idle, Writing
  <2>12. WaitersOK'
    BY <1>2, <1>c, <2>10, <2>11, WaitersShrink DEF Core
  <2> QED
    BY <2>9, <2>11, <2>12 DEF Core
<1>3. ASSUME Resume(m, "EPHEMERAL_SOCKET_DEAD"), RetryFails(fd), job' = Idle PROVE Core'
  <2>1. evict_connection(fd) /\ \A x : ~Writing(x)'
    BY <1>3 DEF RetryFails, Idle, Writing
  <2>2. /\ Connections' = Connections \ {fd}
        /\ \A g \in Connections \ {fd} : Pending(g)' = Pending(g)
    BY <2>1, EvictKeeps DEF Core, Structure
  <2>3. \A f \in Fds : \A i \in Nat : ~QueuedAt(m, f, i)'
    <3> SUFFICES ASSUME NEW f \in Fds, NEW i \in Nat, QueuedAt(m, f, i)' PROVE FALSE
      OBVIOUS
    <3>1. f # fd /\ QueuedAt(m, f, i)
      BY <2>2 DEF QueuedAt
    <3> QED
      BY <3>1, <1>e
  <2>4. ~Waiting(m)'
    BY <2>1, <2>3, <1>e DEF Waiting
  <2> QED
    BY <1>3, <1>c, <1>d, <2>1, <2>4, EvictCore
<1> QED
  BY <1>c, <1>1, <1>2, <1>3 DEF retry_messages

-----------------------------------------------------------------------------
(* The invariant.                                                          *)

\* A socket that was just made knows no connection.
LEMMA InitInv == Init => IInv
<1> SUFFICES ASSUME Init PROVE IInv
  OBVIOUS
<1>1. Connections = {} /\ DOMAIN m_connection_fds = {} /\ DOMAIN connecting = {} /\ DOMAIN peer = {}
  BY DEF Init, Connections
<1>2. Structure
  BY <1>1 DEF Init, Structure, ConnectionsOK, KernelOK, AccountsOK, IndexLeadsToConnection, Connections
<1>3. JobOK
  BY DEF Init, Idle, JobOK
<1>4. WaitersOK
  BY <1>1 DEF Init, Idle, WaitersOK, Waiting, Writing, Connecting, QueuedAt
<1>5. LoopOK
  BY DEF Init, LoopOK
<1> QED
  BY <1>2, <1>3, <1>4, <1>5 DEF IInv, Core

\* The loop's own variables keep their types, and a result is one of those of send_to().
LEMMA LoopStep ==
    ASSUME IInv, [Next]_vars
    PROVE  LoopOK'
<1>1. \A m \in Messages, value \in {"waiting", "SENT", "EPHEMERAL_SOCKET_DEAD"} :
          Resume(m, value) => result' \in [Messages -> {"none", "waiting", "SENT", "EPHEMERAL_SOCKET_DEAD"}]
  BY DEF Resume, IInv, LoopOK
<1>2. ASSUME Poll PROVE LoopOK'
  BY <1>2 DEF Poll, IInv, Core, Structure, ConnectionsOK, KernelOK, AccountsOK, LoopOK
<1>3. ASSUME NextPhase PROVE LoopOK'
  BY <1>3 DEF NextPhase, IInv, LoopOK
<1>4. ASSUME NEW fd \in Fds, receive_messages(fd) PROVE LoopOK'
  BY <1>4 DEF receive_messages, IInv, LoopOK
<1>5. ASSUME NEW fd \in Fds, Writeable(fd) PROVE LoopOK'
  <2>1. CASE result' = result
    BY <1>5, <2>1 DEF Writeable, IInv, LoopOK
  <2>2. ASSUME fd \in DOMAIN connecting, Resume(connecting[fd].message, "EPHEMERAL_SOCKET_DEAD")
        PROVE  LoopOK'
    <3>1. connecting[fd].message \in Messages
      BY <2>2 DEF IInv, Core, Structure, KernelOK
    <3> QED
      BY <1>1, <1>5, <2>2, <3>1 DEF Writeable, IInv, LoopOK
  <2> QED
    BY <1>5, <2>1, <2>2 DEF Writeable, ConnectDone
<1>6. ASSUME write_all PROVE LoopOK'
  <2>1. PICK fd \in Connections, m \in Messages : job = <<"write", fd, m>>
    BY <1>6, JobCases DEF IInv, Core, write_all
  <2>2. result' = result \/ Resume(m, "SENT") \/ Resume(m, "EPHEMERAL_SOCKET_DEAD")
    BY <1>6, <2>1 DEF write_all
  <2> QED
    BY <1>1, <1>6, <2>2 DEF write_all, dispatch, IInv, LoopOK
<1>7. ASSUME retry_messages PROVE LoopOK'
  <2>1. PICK fd \in Connections : job = <<"retry", fd>> /\ Pending(fd) # <<>>
    BY <1>7, JobCases DEF IInv, Core, retry_messages
  <2> PICK m : m = Head(Pending(fd)).message
    OBVIOUS
  <2>2. m \in Messages
    BY <2>1, FrontOfQueue DEF IInv
  <2>3. result' = result \/ Resume(m, "SENT") \/ Resume(m, "EPHEMERAL_SOCKET_DEAD")
    BY <1>7, <2>1 DEF retry_messages
  <2> QED
    BY <1>1, <1>7, <2>2, <2>3 DEF retry_messages, dispatch, IInv, LoopOK
<1>8. ASSUME NEW endpoint \in Clients, NEW fd \in Fds, accept_connections(endpoint, fd) PROVE LoopOK'
  BY <1>8 DEF accept_connections, dispatch, IInv, LoopOK
<1>9. ASSUME ListeningFails PROVE LoopOK'
  BY <1>9 DEF ListeningFails, dispatch, IInv, LoopOK
<1>10. ASSUME NEW m \in Messages, send_to(m) PROVE LoopOK'
  BY <1>1, <1>10 DEF send_to, Reuse, Connect, dispatch, IInv, LoopOK
<1>11. ASSUME NEW fd \in Fds, ConnectDecided(fd) \/ PeerVanishes(fd) \/ PeerReads(fd) PROVE LoopOK'
  BY <1>11 DEF ConnectDecided, PeerVanishes, PeerReads, dispatch, IInv, LoopOK
<1>12. CASE UNCHANGED vars
  BY <1>12 DEF vars, dispatch, IInv, LoopOK
<1> QED
  BY <1>2, <1>3, <1>4, <1>5, <1>6, <1>7, <1>8, <1>9, <1>10, <1>11, <1>12 DEF Next, Worker

\* What the kernel does meanwhile leaves the socket as it is.
LEMMA KernelCore ==
    ASSUME Core, NEW fd \in Fds, ConnectDecided(fd) \/ PeerVanishes(fd) \/ PeerReads(fd)
    PROVE  Core'
<1>1. UNCHANGED <<connections, connecting, watches, job, stream, result>>
  BY DEF ConnectDecided, PeerVanishes, PeerReads
<1>2. full \subseteq DOMAIN peer /\ peer \in [DOMAIN peer -> {"connecting", "up", "gone", "error"}]
  BY DEF Core, Structure, KernelOK
<1>3. /\ DOMAIN peer' = DOMAIN peer /\ full' \subseteq DOMAIN peer
      /\ peer' \in [DOMAIN peer -> {"connecting", "up", "gone", "error"}]
  BY <1>2 DEF ConnectDecided, PeerVanishes, PeerReads
<1> QED
  BY <1>1, <1>3, QuietCore

\* Every step keeps the invariant.
LEMMA StepInv == IInv /\ [Next]_vars => IInv'
<1> SUFFICES ASSUME IInv, [Next]_vars PROVE Core'
  BY LoopStep DEF IInv
<1>1. CASE UNCHANGED <<connections, connecting, watches, job, kernel, result>>
  BY <1>1, QuietCore DEF IInv, Core, Structure, KernelOK, kernel
<1>2. CASE Poll \/ NextPhase \/ ListeningFails \/ UNCHANGED vars
  BY <1>1, <1>2 DEF Poll, NextPhase, ListeningFails, vars
<1> QED
  BY <1>2, ReceiveCore, WriteableCore, WriteAllCore, RetryCore, AcceptCore, SendCore, KernelCore
     DEF Next, Worker, IInv

\* The inductive invariant holds in every reachable state.
THEOREM Invariance == Spec => []IInv
BY InitInv, StepInv, PTL DEF Spec

\* Every variable keeps its type; of each queued message some bytes are left.
THEOREM TypeCorrect == Spec => []TypeOK
<1>1. IInv => TypeOK
  <2> SUFFICES ASSUME IInv PROVE TypeOK
    OBVIOUS
  <2>1. \A fd \in Connections : Pending(fd) \in Queues
    BY DEF IInv, Core, Structure, ConnectionsOK
  <2>2. \A fd \in Connections : \A i \in DOMAIN Pending(fd) :
            Pending(fd)[i].bytes_already_written < Size[Pending(fd)[i].message]
    BY <2>1 DEF Queues
  <2>3. m_connection_details \in
            [Connections -> [recipient : Endpoints, pending_messages :
                Seq([message : Messages, bytes_already_written : Nat])]]
    BY DEF IInv, Core, Structure, ConnectionsOK, Details, Entries
  <2>4. readable \subseteq Fds /\ writeable \subseteq Fds /\ DOMAIN peer \subseteq Fds
    BY DEF IInv, Core, Structure, ConnectionsOK, KernelOK, AccountsOK
  <2> QED
    BY <2>2, <2>3, <2>4 DEF TypeOK, IInv, Core, Structure, ConnectionsOK, KernelOK, JobOK, LoopOK
<1> QED
  BY <1>1, Invariance, PTL

\* Whatever reconnects, and whichever descriptors are used again, the index of
\* send_to() leads to a connection to the endpoint it was asked for.
THEOREM IndexLeads == Spec => []IndexLeadsToConnection
BY Invariance, PTL DEF IInv, Core, Structure, ConnectionsOK

\* No descriptor leaks, none is used after close(), and the watch lists and what the
\* worker is in the middle of agree with the connections.
THEOREM Accounted == Spec => []DescriptorsAccounted
<1>1. IInv => DescriptorsAccounted
  BY DEF IInv, Core, Structure, AccountsOK, JobOK, DescriptorsAccounted
<1> QED
  BY <1>1, Invariance, PTL

-----------------------------------------------------------------------------
(* ResumedOnce: a coroutine that waits is either resumed, or waits on, or  *)
(* goes with the rest of a queue.                                          *)

\* The continuation of send_to() is somewhere exactly while it waits somewhere.
LEMMA ContinuationsWait ==
    ASSUME IInv, NEW m \in Messages
    PROVE  /\ Continuations(m) # {} <=> Waiting(m)
           /\ \A p, q \in Continuations(m) : p = q
<1>1. \A p \in Continuations(m) :
          \/ \E fd \in DOMAIN connecting : p = <<"connect", fd>> /\ connecting[fd].message = m
          \/ \E fd \in Fds : p = <<"write", fd>> /\ job = <<"write", fd, m>>
          \/ \E fd \in Fds, i \in Nat : p = <<fd, i>> /\ QueuedAt(m, fd, i)
  <2> TAKE p \in Continuations(m)
  <2>1. ASSUME NEW fd \in Connections, NEW i \in DOMAIN Pending(fd), p = <<fd, i>>,
               Pending(fd)[i].message = m
        PROVE  fd \in Fds /\ i \in Nat /\ QueuedAt(m, fd, i)
    <3>1. Pending(fd) \in Seq(Entries) /\ fd \in Fds
      BY DEF IInv, Core, Structure, ConnectionsOK, Queues
    <3> QED
      BY <2>1, <3>1 DEF QueuedAt
  <2> QED
    BY <2>1 DEF Continuations
<1>2. \A fd \in Fds : job = <<"write", fd, m>> => Writing(m)
  BY DEF Writing
<1>3. \A f, g \in Fds : job = <<"write", f, m>> /\ job = <<"write", g, m>> => f = g
  OBVIOUS
<1>4. Continuations(m) # {} => Waiting(m)
  BY <1>1, <1>2 DEF Waiting, Connecting
<1>5. Waiting(m) => Continuations(m) # {}
  <2>1. CASE Writing(m)
    <3>1. PICK fd \in Connections, n \in Messages : job = <<"write", fd, n>>
      BY <2>1, JobCases DEF IInv, Core, Writing
    <3>2. n = m /\ fd \in Fds
      BY <2>1, <3>1 DEF Writing, IInv, Core, Structure, ConnectionsOK
    <3> QED
      BY <3>1, <3>2 DEF Continuations
  <2>2. CASE Connecting(m)
    BY <2>2 DEF Connecting, Continuations
  <2>3. ASSUME NEW fd \in Fds, NEW i \in Nat, QueuedAt(m, fd, i) PROVE Continuations(m) # {}
    <3>1. Pending(fd) \in Seq(Entries) /\ fd \in Connections
      BY <2>3 DEF QueuedAt, IInv, Core, Structure, ConnectionsOK, Queues
    <3>2. i \in DOMAIN Pending(fd) /\ Pending(fd)[i].message = m
      BY <2>3, <3>1 DEF QueuedAt
    <3> DEFINE places(g) == {<<g, j>> : j \in {k \in DOMAIN Pending(g) : Pending(g)[k].message = m}}
    <3>3. <<fd, i>> \in places(fd)
      BY <3>2
    <3>4. UNION {places(g) : g \in Connections} \subseteq Continuations(m)
      BY DEF Continuations
    <3> HIDE DEF places
    <3> QED
      BY <3>1, <3>3, <3>4
  <2> QED
    BY <2>1, <2>2, <2>3 DEF Waiting
<1>6. ASSUME NEW p \in Continuations(m), NEW q \in Continuations(m) PROVE p = q
  <2> USE DEF IInv, Core, WaitersOK
  <2>1. ASSUME NEW f \in DOMAIN connecting, p = <<"connect", f>>, connecting[f].message = m PROVE p = q
    <3>1. Connecting(m)
      BY <2>1 DEF Connecting
    <3>2. PICK g \in DOMAIN connecting : q = <<"connect", g>> /\ connecting[g].message = m
      BY <1>1, <1>2, <3>1
    <3> QED
      BY <2>1, <3>2
  <2>2. ASSUME NEW f \in Fds, p = <<"write", f>>, job = <<"write", f, m>> PROVE p = q
    <3>1. Writing(m)
      BY <1>2, <2>2
    <3>2. PICK g \in Fds : q = <<"write", g>> /\ job = <<"write", g, m>>
      BY <1>1, <3>1 DEF Connecting
    <3> QED
      BY <1>3, <2>2, <3>2
  <2>3. ASSUME NEW f \in Fds, NEW i \in Nat, p = <<f, i>>, QueuedAt(m, f, i) PROVE p = q
    <3>1. PICK g \in Fds, j \in Nat : q = <<g, j>> /\ QueuedAt(m, g, j)
      BY <1>1, <1>2, <2>3 DEF Connecting
    <3>2. f = g /\ i = j
      BY <2>3, <3>1
    <3> QED
      BY <2>3, <3>1, <3>2
  <2> QED
    BY <1>1, <2>1, <2>2, <2>3
<1> QED
  BY <1>4, <1>5, <1>6

\* A step that evicts no connection of x, and lets x wait where it waited.
LEMMA StillWaits ==
    ASSUME NEW x \in Messages, Waiting(x),
           Writing(x) => Waiting(x)', Connecting(x) => Waiting(x)',
           \A f \in Fds : \A i \in Nat : QueuedAt(x, f, i) => Waiting(x)' \/ AbandonedInQueue(x)
    PROVE  Waiting(x)' \/ AbandonedInQueue(x)
BY DEF Waiting

\* What is queued elsewhere stays when a connection goes; what is queued for it is
\* abandoned, but for the front of a queue whose retry failed.
LEMMA EvictAbandons ==
    ASSUME IInv, NEW fd \in Connections, evict_connection(fd), NEW x \in Messages,
           NEW f \in Fds, NEW i \in Nat, QueuedAt(x, f, i), job = <<"retry", fd>> => i > 1 \/ f # fd
    PROVE  Waiting(x)' \/ AbandonedInQueue(x)
<1>1. /\ Connections' = Connections \ {fd}
      /\ \A g \in Connections \ {fd} : Pending(g)' = Pending(g)
  BY EvictKeeps DEF IInv, Core, Structure
<1>2. CASE f # fd
  <2>1. QueuedAt(x, f, i)'
    BY <1>1, <1>2 DEF QueuedAt
  <2> QED
    BY <2>1 DEF Waiting
<1>3. CASE f = fd
  <2>1. Pending(fd) \in Seq(Entries) /\ DOMAIN m_connection_details' = Connections \ {fd}
    BY <1>1 DEF Connections, IInv, Core, Structure, ConnectionsOK, Queues
  <2>2. i \in DOMAIN Pending(fd) /\ Pending(fd)[i].message = x
    BY <1>3, <2>1 DEF QueuedAt
  <2> QED
    BY <1>3, <2>1, <2>2 DEF AbandonedInQueue
<1> QED
  BY <1>2, <1>3

\* A step that leaves the connections alone, or adds one, lets everybody wait on.
LEMMA GrowKeepsWaiting ==
    ASSUME NEW x \in Messages, NEW f \in Fds, NEW i \in Nat, QueuedAt(x, f, i),
           Connections \subseteq Connections', \A g \in Connections : Pending(g)' = Pending(g)
    PROVE  Waiting(x)'
<1>1. QueuedAt(x, f, i)'
  BY DEF QueuedAt
<1> QED
  BY <1>1 DEF Waiting

\* A step that leaves all connections and coroutines alone.
LEMMA QuietWaits ==
    ASSUME NEW x \in Messages, Waiting(x), UNCHANGED <<connections, connecting, job>>
    PROVE  Waiting(x)'
<1>1. Connections' = Connections /\ \A g : Pending(g)' = Pending(g)
  BY DEF Connections, Pending, connections
<1> QED
  BY <1>1 DEF Waiting, Writing, Connecting, QueuedAt

\* Nobody who waits is disturbed by a connection that is accepted,
LEMMA AcceptWaits ==
    ASSUME IInv, NEW x \in Messages, Waiting(x), NEW endpoint \in Clients, NEW fd \in Fds,
           accept_connections(endpoint, fd)
    PROVE  Waiting(x)'
<1>1. /\ Open(fd, "up") /\ AddConnection(endpoint, fd) /\ endpoint \in Endpoints
      /\ UNCHANGED <<connecting, writeable, job, result>>
  BY DEF accept_connections, Endpoints
<1>2. Connections' = Connections \cup {fd} /\ \A g \in Connections : Pending(g)' = Pending(g)
  BY <1>1, OpenStructure DEF IInv, Core
<1>3. (Writing(x) => Writing(x)') /\ (Connecting(x) => Connecting(x)')
  BY <1>1 DEF Writing, Connecting
<1> QED
  BY <1>2, <1>3, GrowKeepsWaiting DEF Waiting

\* or by one that is read, unless it ends;
LEMMA ReceiveWaits ==
    ASSUME IInv, NEW x \in Messages, Waiting(x), NEW fd \in Fds, receive_messages(fd)
    PROVE  Waiting(x)' \/ AbandonedInQueue(x)
<1>1. UNCHANGED <<connecting, job>> /\ job = Idle
  BY DEF receive_messages, Receiving
<1>2. CASE UNCHANGED connections
  BY <1>1, <1>2, QuietWaits
<1>3. CASE fd \in readable /\ evict_connection(fd)
  <2>1. fd \in Connections
    BY <1>3 DEF IInv, Core, Structure, AccountsOK
  <2>2. ~Writing(x) /\ (Connecting(x) => Connecting(x)') /\ job # <<"retry", fd>>
    BY <1>1 DEF Idle, Writing, Connecting
  <2>3. \A f \in Fds : \A i \in Nat : QueuedAt(x, f, i) => Waiting(x)' \/ AbandonedInQueue(x)
    BY <1>3, <2>1, <2>2, EvictAbandons
  <2> QED
    BY <2>2, <2>3 DEF Waiting
<1> QED
  BY <1>2, <1>3 DEF receive_messages

\* send_to() leaves the others alone, and its own coroutine somewhere;
LEMMA SendWaits ==
    ASSUME IInv, NEW m \in Messages, send_to(m), NEW x \in Messages,
           Waiting(x) \/ (x = m /\ result'[x] = "waiting")
    PROVE  Waiting(x)'
<1>1. job = Idle /\ ~Writing(x)
  BY DEF send_to, Receiving, Idle, Writing
<1>2. CASE Reuse(m)
  <2>1. UNCHANGED <<connections, connecting>> /\ Writing(m)'
    BY <1>2 DEF Reuse, Writing
  <2>2. Connections' = Connections /\ \A g : Pending(g)' = Pending(g)
    BY <2>1 DEF Connections, Pending, connections
  <2> QED
    BY <1>1, <2>1, <2>2 DEF Waiting, Connecting, QueuedAt
<1>3. ASSUME NEW fd \in Fds, Open(fd, "up"), AddConnection(To[m], fd), job' = <<"write", fd, m>>,
             UNCHANGED <<connecting, writeable>>
      PROVE  Waiting(x)'
  <2>1. Connections' = Connections \cup {fd} /\ \A g \in Connections : Pending(g)' = Pending(g)
    BY <1>3, OpenStructure, ToAssumption DEF IInv, Core
  <2>2. Writing(m)' /\ (Connecting(x) => Connecting(x)')
    BY <1>3 DEF Writing, Connecting
  <2> QED
    BY <1>1, <2>1, <2>2, GrowKeepsWaiting DEF Waiting
<1>4. ASSUME NEW fd \in Fds, Open(fd, "connecting"),
             connecting' = Put(connecting, fd, [recipient |-> To[m], message |-> m]),
             UNCHANGED <<connections, job>>
      PROVE  Waiting(x)'
  <2>1. fd \notin DOMAIN connecting
    BY <1>4 DEF Open, IInv, Core, Structure, AccountsOK
  <2>2. Connecting(m)' /\ (Connecting(x) => Connecting(x)')
    BY <1>4, <2>1 DEF Connecting, Put
  <2>3. Connections' = Connections /\ \A g : Pending(g)' = Pending(g)
    BY <1>4 DEF Connections, Pending, connections
  <2> QED
    BY <1>1, <2>2, <2>3 DEF Waiting, QueuedAt
<1>5. ASSUME Resume(m, "EPHEMERAL_SOCKET_DEAD"), UNCHANGED <<connections, connecting, job>>
      PROVE  Waiting(x)'
  <2>1. result'[m] = "EPHEMERAL_SOCKET_DEAD"
    BY <1>5 DEF Resume, IInv, LoopOK
  <2> QED
    BY <1>5, <2>1, QuietWaits
<1> QED
  BY <1>2, <1>3, <1>4, <1>5 DEF send_to, Connect

\* the coroutine of a connect that is decided writes next or is resumed;
LEMMA WriteableWaits ==
    ASSUME IInv, NEW x \in Messages, Waiting(x), NEW fd \in Fds, Writeable(fd), result'[x] = "waiting"
    PROVE  Waiting(x)'
<1>a. job = Idle /\ ~Writing(x)
  BY DEF Writeable, Idle, Writing
<1>1. CASE UNCHANGED <<connections, connecting>>
  <2>1. Connections' = Connections /\ \A g : Pending(g)' = Pending(g)
    BY <1>1 DEF Connections, Pending, connections
  <2> QED
    BY <1>a, <1>1, <2>1 DEF Waiting, Connecting, QueuedAt
<1>2. ASSUME fd \in DOMAIN connecting, connecting' = Without(connecting, fd), Connecting(x),
             connecting[fd].message # x
      PROVE  Waiting(x)'
  <2>1. PICK g \in DOMAIN connecting : connecting[g].message = x
    BY <1>2 DEF Connecting
  <2>2. g \in DOMAIN connecting' /\ connecting'[g].message = x
    BY <1>2, <2>1 DEF Without
  <2> QED
    BY <2>2 DEF Waiting, Connecting
<1>3. ASSUME fd \in DOMAIN connecting, connecting' = Without(connecting, fd), writeable' = writeable \ {fd},
             AddConnection(connecting[fd].recipient, fd), job' = <<"write", fd, connecting[fd].message>>,
             UNCHANGED kernel
      PROVE  Waiting(x)'
  <2>1. Connections' = Connections \cup {fd} /\ \A g \in Connections : Pending(g)' = Pending(g)
    BY <1>3, ConnectedStructure DEF IInv, Core
  <2>2. connecting[fd].message = x => Writing(x)'
    BY <1>3 DEF Writing
  <2>3. Connecting(x) => Waiting(x)'
    BY <1>2, <1>3, <2>2 DEF Waiting
  <2> QED
    BY <1>a, <2>1, <2>3, GrowKeepsWaiting DEF Waiting
<1>4. ASSUME fd \in DOMAIN connecting, connecting' = Without(connecting, fd),
             Resume(connecting[fd].message, "EPHEMERAL_SOCKET_DEAD"), UNCHANGED connections
      PROVE  Waiting(x)'
  <2>1. Connections' = Connections /\ \A g : Pending(g)' = Pending(g)
    BY <1>4 DEF Connections, Pending, connections
  <2>2. connecting[fd].message # x
    BY <1>4 DEF Resume, IInv, LoopOK
  <2>3. Connecting(x) => Waiting(x)'
    BY <1>2, <1>4, <2>2
  <2> QED
    BY <1>a, <2>1, <2>3, GrowKeepsWaiting DEF Waiting
<1> QED
  BY <1>1, <1>3, <1>4 DEF Writeable, ConnectDone

\* One queue changes, and what it held of x it still holds.
LEMMA QueueWaits ==
    ASSUME IInv, NEW x \in Messages, NEW fd \in Connections, NEW q,
           m_connection_details' = [m_connection_details EXCEPT ![fd].pending_messages = q],
           NEW f \in Fds, NEW i \in Nat, QueuedAt(x, f, i),
           f = fd => \E j \in Nat : j \in 1 .. Len(q) /\ q[j].message = x
    PROVE  Waiting(x)'
<1>1. /\ Connections' = Connections /\ Pending(fd)' = q
      /\ \A g \in Connections \ {fd} : Pending(g)' = Pending(g)
  <2>1. m_connection_details \in [Connections -> Details]
    BY DEF IInv, Core, Structure, ConnectionsOK
  <2> QED
    BY <2>1 DEF Connections, Pending, Details
<1>2. \E j \in Nat : QueuedAt(x, f, j)'
  BY <1>1 DEF QueuedAt
<1> QED
  BY <1>2 DEF Waiting

\* the one that writes is resumed or queued;
LEMMA WriteAllWaits ==
    ASSUME IInv, NEW x \in Messages, Waiting(x), write_all, result'[x] = "waiting"
    PROVE  Waiting(x)' \/ AbandonedInQueue(x)
<1>a. PICK fd \in Connections, m \in Messages : job = <<"write", fd, m>>
  BY JobCases DEF IInv, Core, write_all
<1>b. /\ fd \in Fds /\ job[2] = fd /\ job[3] = m /\ (Writing(x) => x = m)
      /\ (Connecting(x) => Connecting(x)')
  BY <1>a DEF Writing, Connecting, write_all, IInv, Core, Structure, ConnectionsOK
<1>c. \A value \in {"SENT", "EPHEMERAL_SOCKET_DEAD"} : Resume(m, value) => x # m
  BY DEF Resume, IInv, LoopOK
<1>1. ASSUME Resume(m, "SENT"), UNCHANGED connections PROVE Waiting(x)'
  <2>1. Connections' = Connections /\ \A g : Pending(g)' = Pending(g)
    BY <1>1 DEF Connections, Pending, connections
  <2> QED
    BY <1>b, <1>c, <1>1, <2>1, GrowKeepsWaiting DEF Waiting
<1>2. ASSUME NEW to \in 0 .. Size[m], Enqueue(fd, m, to) PROVE Waiting(x)'
  <2> DEFINE e == [message |-> m, bytes_already_written |-> to]
             q == Append(Pending(fd), e)
             k == Len(Pending(fd))
  <2>1. m_connection_details' = [m_connection_details EXCEPT ![fd].pending_messages = q]
    BY <1>2 DEF Enqueue, Pending
  <2>2. to \in Nat
    BY <1>2, SizeAssumption
  <2>3. e \in Entries /\ e.message = m
    BY <2>2 DEF Entries
  <2>4. Pending(fd) \in Seq(Entries)
    BY DEF IInv, Core, Structure, ConnectionsOK, Queues
  <2> HIDE DEF e
  <2>5. k \in Nat /\ Len(q) = k + 1 /\ q[k + 1] = e /\ \A i \in 1 .. k : q[i] = Pending(fd)[i]
    BY <2>3, <2>4
  <2> HIDE DEF q
  <2>6. CASE x = m
    <3>1. /\ Connections' = Connections /\ Pending(fd)' = q
      <4>1. m_connection_details \in [Connections -> Details]
        BY DEF IInv, Core, Structure, ConnectionsOK
      <4> QED
        BY <2>1, <4>1 DEF Connections, Pending, Details
    <3>2. k + 1 \in Nat /\ k + 1 \in 1 .. Len(q) /\ q[k + 1].message = x
      BY <2>3, <2>5, <2>6
    <3> HIDE DEF k
    <3>3. PICK j \in Nat : j = k + 1
      BY <3>2
    <3>4. QueuedAt(x, fd, j)'
      BY <3>1, <3>2, <3>3 DEF QueuedAt
    <3> QED
      BY <1>b, <3>4 DEF Waiting
  <2>7. ASSUME NEW f \in Fds, NEW i \in Nat, QueuedAt(x, f, i) PROVE Waiting(x)'
    <3>1. f = fd => i \in 1 .. Len(q) /\ q[i].message = x
      BY <2>5, <2>7 DEF QueuedAt
    <3> QED
      BY <2>1, <2>7, <3>1, QueueWaits
  <2> QED
    BY <1>b, <2>6, <2>7 DEF Waiting
<1>3. ASSUME evict_connection(fd), Resume(m, "EPHEMERAL_SOCKET_DEAD")
      PROVE  Waiting(x)' \/ AbandonedInQueue(x)
  <2>1. job # <<"retry", fd>>
    BY <1>a
  <2>2. \A f \in Fds : \A i \in Nat : QueuedAt(x, f, i) => Waiting(x)' \/ AbandonedInQueue(x)
    BY <1>3, <2>1, EvictAbandons
  <2> QED
    BY <1>b, <1>c, <1>3, <2>2 DEF Waiting
<1> QED
  BY <1>b, <1>1, <1>2, <1>3 DEF write_all

\* and the one at the front of a queue is resumed or stays there.
LEMMA RetryWaits ==
    ASSUME IInv, NEW x \in Messages, Waiting(x), retry_messages, result'[x] = "waiting"
    PROVE  Waiting(x)' \/ AbandonedInQueue(x)
<1>a. PICK fd \in Connections : job = <<"retry", fd>> /\ Pending(fd) # <<>>
  BY JobCases DEF IInv, Core, retry_messages
<1> DEFINE q == Pending(fd)
           k == Len(q)
<1> PICK m, from : m = Head(q).message /\ from = Head(q).bytes_already_written
  OBVIOUS
<1>b. /\ q \in Seq(Entries) /\ k \in Nat /\ k >= 1 /\ Head(q) = q[1] /\ q[1] \in Entries
      /\ m \in Messages /\ from \in Nat /\ Size[m] \in Nat
  BY <1>a, FrontOfQueue, SizeAssumption DEF IInv
<1>c. job[2] = fd /\ ~Writing(x) /\ (Connecting(x) => Connecting(x)')
  BY <1>a DEF Writing, Connecting, retry_messages
<1>d. \A value \in {"SENT", "EPHEMERAL_SOCKET_DEAD"} : Resume(m, value) => x # m
  BY <1>b DEF Resume, IInv, LoopOK
<1>1. ASSUME Resume(m, "SENT"), Pop(fd), NEW f \in Fds, NEW i \in Nat, QueuedAt(x, f, i)
      PROVE  Waiting(x)'
  <2> DEFINE t == Tail(q)
  <2>1. m_connection_details' = [m_connection_details EXCEPT ![fd].pending_messages = t]
    BY <1>1 DEF Pop, Pending
  <2>2. Len(t) = k - 1 /\ \A j \in 1 .. k - 1 : t[j] = q[j + 1]
    BY <1>a, <1>b
  <2> HIDE DEF t
  <2>3. ASSUME f = fd PROVE \E j \in Nat : j \in 1 .. Len(t) /\ t[j].message = x
    <3>1. i \in 1 .. k /\ q[i].message = x
      BY <1>1, <2>3 DEF QueuedAt
    <3>2. i # 1
      BY <1>b, <1>d, <1>1, <3>1
    <3>3. i - 1 \in Nat /\ i - 1 \in 1 .. k - 1 /\ (i - 1) + 1 = i
      BY <1>b, <3>1, <3>2
    <3>4. t[i - 1] = q[i]
      BY <2>2, <3>3
    <3> QED
      BY <2>2, <3>1, <3>3, <3>4
  <2> QED
    BY <1>1, <2>1, <2>3, QueueWaits
<1>2. ASSUME NEW to \in from .. Size[m], Progress(fd, to), NEW f \in Fds, NEW i \in Nat, QueuedAt(x, f, i)
      PROVE  Waiting(x)'
  <2> DEFINE e == [q[1] EXCEPT !.bytes_already_written = to]
             t == [q EXCEPT ![1] = e]
  <2>1. m_connection_details' = [m_connection_details EXCEPT ![fd].pending_messages = t]
    BY <1>2 DEF Progress, Pending
  <2>2. to \in Nat
    BY <1>b
  <2>3. e \in Entries /\ e.message = q[1].message
    BY <1>b, <2>2 DEF Entries
  <2> HIDE DEF e
  <2>4. Len(t) = k /\ t[1] = e /\ \A j \in 1 .. k : j # 1 => t[j] = q[j]
    BY <1>a, <1>b, <2>3
  <2>5. \A j \in 1 .. k : t[j].message = q[j].message
    BY <2>3, <2>4
  <2> HIDE DEF t
  <2>6. f = fd => i \in 1 .. Len(t) /\ t[i].message = x
    BY <1>2, <2>4, <2>5 DEF QueuedAt
  <2> QED
    BY <1>2, <2>1, <2>6, QueueWaits
<1>3. ASSUME Resume(m, "EPHEMERAL_SOCKET_DEAD"), evict_connection(fd), NEW f \in Fds, NEW i \in Nat,
             QueuedAt(x, f, i)
      PROVE  Waiting(x)' \/ AbandonedInQueue(x)
  <2>1. f = fd => i > 1
    <3>1. f = fd => i \in 1 .. k /\ q[i].message = x
      BY <1>3 DEF QueuedAt
    <3> QED
      BY <1>b, <1>d, <1>3, <3>1
  <2> QED
    BY <1>3, <2>1, EvictAbandons
<1> QED
  BY <1>c, <1>1, <1>2, <1>3 DEF retry_messages, RetryFails, Waiting

KeptWhileWaiting == \A m \in Messages : Continuations(m) # {} <=> Waiting(m)

\* The same, as a formula for the state after a step.
LEMMA ContinuationsKept == IInv => KeptWhileWaiting
BY ContinuationsWait DEF KeptWhileWaiting

\* No step takes the continuation of a coroutine that waits, but the eviction of a
\* connection it is queued for.
LEMMA NoneForgotten ==
    IInv /\ [Next]_vars => \A m \in Messages : ~Abandoned(m) /\ Abandoned(m)' => AbandonedInQueue(m)
<1> SUFFICES ASSUME IInv, [Next]_vars, NEW m \in Messages, ~Abandoned(m), Abandoned(m)'
             PROVE  AbandonedInQueue(m)
  OBVIOUS
<1>1. result'[m] = "waiting" /\ ~Waiting(m)'
  <2>1. IInv'
    BY StepInv
  <2>2. IInv' => KeptWhileWaiting'
    BY ContinuationsKept, PTL
  <2> QED
    BY <2>1, <2>2 DEF Abandoned, KeptWhileWaiting
<1>2. result[m] = "waiting" => Waiting(m)
  BY ContinuationsWait DEF Abandoned
<1>3. ASSUME NEW n \in Messages, n # m, NEW value, Resume(n, value) PROVE result'[m] = result[m]
  BY <1>3 DEF Resume, IInv, LoopOK
<1>4. ASSUME NEW value \in {"SENT", "EPHEMERAL_SOCKET_DEAD"}, Resume(m, value) PROVE FALSE
  BY <1>1, <1>4 DEF Resume, IInv, LoopOK
<1>5. ASSUME UNCHANGED result PROVE Waiting(m)
  BY <1>1, <1>2, <1>5
<1>6. CASE UNCHANGED <<connections, connecting, job, result>>
  BY <1>1, <1>5, <1>6, QuietWaits
<1>7. CASE \/ Poll \/ NextPhase \/ ListeningFails \/ UNCHANGED vars
           \/ \E fd \in Fds : ConnectDecided(fd) \/ PeerVanishes(fd) \/ PeerReads(fd)
  BY <1>6, <1>7 DEF Poll, NextPhase, ListeningFails, ConnectDecided, PeerVanishes, PeerReads, vars
<1>8. ASSUME NEW fd \in Fds, receive_messages(fd) PROVE AbandonedInQueue(m)
  <2>1. Waiting(m)
    BY <1>5, <1>8 DEF receive_messages
  <2> QED
    BY <1>1, <1>8, <2>1, ReceiveWaits
<1>9. ASSUME NEW fd \in Fds, Writeable(fd) PROVE FALSE
  <2>1. CASE UNCHANGED result
    BY <1>1, <1>5, <1>9, <2>1, WriteableWaits
  <2>2. ASSUME fd \in DOMAIN connecting, Resume(connecting[fd].message, "EPHEMERAL_SOCKET_DEAD")
        PROVE  FALSE
    <3>1. connecting[fd].message \in Messages
      BY <2>2 DEF IInv, Core, Structure, KernelOK
    <3>2. result'[m] = result[m]
      BY <1>3, <1>4, <2>2, <3>1
    <3> QED
      BY <1>1, <1>2, <1>9, <3>2, WriteableWaits
  <2> QED
    BY <1>9, <2>1, <2>2 DEF Writeable, ConnectDone
<1>10. ASSUME write_all PROVE AbandonedInQueue(m)
  <2>1. PICK fd \in Connections, n \in Messages : job = <<"write", fd, n>>
    BY <1>10, JobCases DEF IInv, Core, write_all
  <2>2. UNCHANGED result \/ Resume(n, "SENT") \/ Resume(n, "EPHEMERAL_SOCKET_DEAD")
    BY <1>10, <2>1 DEF write_all
  <2>3. result'[m] = result[m]
    BY <1>3, <1>4, <2>2
  <2> QED
    BY <1>1, <1>2, <1>10, <2>3, WriteAllWaits
<1>11. ASSUME retry_messages PROVE AbandonedInQueue(m)
  <2>1. PICK fd \in Connections : job = <<"retry", fd>> /\ Pending(fd) # <<>>
    BY <1>11, JobCases DEF IInv, Core, retry_messages
  <2> PICK n : n = Head(Pending(fd)).message
    OBVIOUS
  <2>2. n \in Messages
    BY <2>1, FrontOfQueue DEF IInv
  <2>3. UNCHANGED result \/ Resume(n, "SENT") \/ Resume(n, "EPHEMERAL_SOCKET_DEAD")
    BY <1>11, <2>1 DEF retry_messages
  <2>4. result'[m] = result[m]
    BY <1>3, <1>4, <2>2, <2>3
  <2> QED
    BY <1>1, <1>2, <1>11, <2>4, RetryWaits
<1>12. ASSUME NEW endpoint \in Clients, NEW fd \in Fds, accept_connections(endpoint, fd) PROVE FALSE
  <2>1. Waiting(m)
    BY <1>5, <1>12 DEF accept_connections
  <2> QED
    BY <1>1, <1>12, <2>1, AcceptWaits
<1>13. ASSUME NEW n \in Messages, send_to(n) PROVE FALSE
  <2>1. CASE n = m
    BY <1>1, <1>13, <2>1, SendWaits
  <2>2. CASE n # m
    <3>1. result'[m] = result[m]
      BY <1>3, <1>13, <2>2 DEF send_to, Reuse, Connect
    <3> QED
      BY <1>1, <1>2, <1>13, <3>1, SendWaits
  <2> QED
    BY <2>1, <2>2
<1> QED
  BY <1>7, <1>8, <1>9, <1>10, <1>11, <1>12, <1>13 DEF Next, Worker

\* A coroutine that waits for a connection or for its bytes to be written has one
\* continuation until it is resumed; only the eviction of a connection leaves one
\* behind, and only behind the message whose retry failed.
THEOREM Resumed == Spec => ResumedOnce
<1>1. IInv => OneContinuation
  <2> SUFFICES ASSUME IInv, NEW m \in Messages
               PROVE  /\ \A p, q \in Continuations(m) : p = q
                      /\ result[m] # "waiting" => Continuations(m) = {}
    BY DEF OneContinuation
  <2>1. Waiting(m) => result[m] = "waiting"
    BY DEF IInv, Core, WaitersOK
  <2> QED
    BY <2>1, ContinuationsWait
<1>2. IInv /\ [Next]_vars
          => [\A m \in Messages : ~Abandoned(m) /\ Abandoned(m)' => AbandonedInQueue(m)]_vars
  BY NoneForgotten
<1> QED
  BY <1>1, <1>2, Invariance, PTL DEF Spec, ResumedOnce

-----------------------------------------------------------------------------
(* BytesInOrder: the bytes of a message that is queued are, in the stream, *)
(* as many as its entry says; of one that waits to be written there are    *)
(* none in any stream.                                                     *)

\* Nothing of any message is in an empty stream.
LEMMA EmptyBytes == \A m : FirstBytes(m, <<>>, 0)
  BY DEF FirstBytes, Written

\* What the kernel takes of a message follows what it took before, and leaves the
\* bytes of other messages where they are.
LEMMA AppendBytes ==
    ASSUME NEW s \in Seq(Messages \X Nat), NEW m \in Messages, NEW from \in Nat, NEW to \in Nat,
           from <= to
    PROVE  LET t == s \o Bytes(m, from, to)
           IN  /\ FirstBytes(m, s, from) => FirstBytes(m, t, to)
               /\ \A x, n : x # m /\ FirstBytes(x, s, n) => FirstBytes(x, t, n)
               /\ \A x : x # m => Written(x, t) = Written(x, s)
<1> DEFINE b == Bytes(m, from, to)
           t == s \o b
           L == Len(s)
           k == to - from
<1>1. k \in Nat /\ L \in Nat /\ DOMAIN s = 1 .. L
  OBVIOUS
<1>2. b \in Seq(Messages \X Nat) /\ Len(b) = k /\ \A i \in 1 .. k : b[i] = <<m, from + i>>
  <2>1. \A i \in 1 .. k : <<m, from + i>> \in Messages \X Nat
    OBVIOUS
  <2> QED
    BY <1>1, <2>1 DEF Bytes
<1> HIDE DEF b
<1>3. /\ t \in Seq(Messages \X Nat) /\ Len(t) = L + k /\ DOMAIN t = 1 .. L + k
      /\ \A i \in 1 .. L : t[i] = s[i]
      /\ \A i \in L + 1 .. L + k : t[i] = b[i - L]
  <2>1. /\ t \in Seq(Messages \X Nat) /\ Len(t) = L + Len(b)
        /\ \A i \in 1 .. L + Len(b) : t[i] = IF i <= L THEN s[i] ELSE b[i - L]
    BY <1>2, ConcatProperties
  <2> HIDE DEF t, L, k
  <2> QED
    BY <1>1, <1>2, <2>1
<1> HIDE DEF t
<1>4. \A i \in L + 1 .. L + k : t[i][1] = m /\ t[i][2] = from + (i - L)
  <2> SUFFICES ASSUME NEW i \in L + 1 .. L + k PROVE t[i] = <<m, from + (i - L)>>
    OBVIOUS
  <2>1. i - L \in 1 .. k
    BY <1>1
  <2> QED
    BY <1>2, <1>3, <2>1
<1> HIDE DEF L, k
<1>5. Written(m, t) = Written(m, s) \cup (L + 1 .. L + k)
  <2>1. \A i : i \in 1 .. L + k <=> i \in 1 .. L \/ i \in L + 1 .. L + k
    BY <1>1
  <2> QED
    BY <1>1, <1>3, <1>4, <2>1 DEF Written
<1>6. ASSUME NEW x, x # m PROVE Written(x, t) = Written(x, s)
  <2>1. \A i : i \in 1 .. L + k <=> i \in 1 .. L \/ i \in L + 1 .. L + k
    BY <1>1
  <2> QED
    BY <1>1, <1>3, <1>4, <1>6, <2>1 DEF Written
<1>7. ASSUME FirstBytes(m, s, from) PROVE FirstBytes(m, t, to)
  <2>1. \A i \in Written(m, s) : i \in 1 .. L /\ t[i] = s[i] /\ s[i][2] \in 1 .. from
    BY <1>1, <1>3, <1>7 DEF Written, FirstBytes
  <2>2. {t[i][2] : i \in Written(m, t)} = 1 .. to
    <3>1. \A i \in Written(m, t) : t[i][2] \in 1 .. to
      <4> SUFFICES ASSUME NEW i \in Written(m, t) PROVE t[i][2] \in 1 .. to
        OBVIOUS
      <4>1. CASE i \in Written(m, s)
        BY <2>1, <4>1
      <4>2. CASE i \in L + 1 .. L + k
        BY <1>1, <1>4, <4>2 DEF k
      <4> QED
        BY <1>5, <4>1, <4>2
    <3>2. ASSUME NEW v \in 1 .. to PROVE \E i \in Written(m, t) : t[i][2] = v
      <4>1. CASE v \in 1 .. from
        <5>1. PICK i \in Written(m, s) : s[i][2] = v
          BY <1>7, <4>1 DEF FirstBytes
        <5> QED
          BY <1>5, <2>1, <5>1
      <4>2. CASE v \notin 1 .. from
        <5>1. L + (v - from) \in L + 1 .. L + k
          BY <1>1, <4>2 DEF k
        <5>2. t[L + (v - from)][2] = v
          BY <1>1, <1>4, <5>1
        <5> QED
          BY <1>5, <5>1, <5>2
      <4> QED
        BY <4>1, <4>2
    <3> QED
      BY <3>1, <3>2
  <2>3. ASSUME NEW i \in Written(m, t), NEW j \in Written(m, t), i < j
        PROVE  t[i][2] < t[j][2]
    <3>1. CASE i \in Written(m, s) /\ j \in Written(m, s)
      BY <1>7, <2>1, <2>3, <3>1 DEF FirstBytes
    <3>2. CASE i \in Written(m, s) /\ j \in L + 1 .. L + k
      <4>1. t[i][2] \in 1 .. from
        BY <2>1, <3>2
      <4>2. t[j][2] = from + (j - L)
        BY <1>4, <3>2
      <4>3. j - L >= 1 /\ j - L \in Nat
        BY <1>1, <3>2
      <4> QED
        BY <4>1, <4>2, <4>3
    <3>3. CASE i \in L + 1 .. L + k /\ j \in Written(m, s)
      BY <1>1, <2>1, <2>3, <3>3
    <3>4. CASE i \in L + 1 .. L + k /\ j \in L + 1 .. L + k
      BY <1>1, <1>4, <2>3, <3>4
    <3> QED
      BY <1>5, <3>1, <3>2, <3>3, <3>4
  <2> QED
    BY <2>2, <2>3 DEF FirstBytes
<1>8. ASSUME NEW x, NEW n, x # m, FirstBytes(x, s, n) PROVE FirstBytes(x, t, n)
  <2>1. Written(x, t) = Written(x, s) /\ \A i \in Written(x, s) : t[i] = s[i]
    BY <1>1, <1>3, <1>6, <1>8 DEF Written
  <2> QED
    BY <1>8, <2>1 DEF FirstBytes
<1> QED
  BY <1>6, <1>7, <1>8 DEF t, b

\* No byte of it has been written.
Fresh(m) == result[m] = "none" \/ Writing(m) \/ Connecting(m)

\* BytesInOrder, of one message and one connection.
InOrder(m, fd) ==
    \/ /\ \A i \in Nat : ~QueuedAt(m, fd, i)
       /\ \E n \in {0, Size[m]} : FirstBytes(m, stream[fd], n)
    \/ \E i \in Nat : /\ QueuedAt(m, fd, i)
                      /\ FirstBytes(m, stream[fd], Pending(fd)[i].bytes_already_written)

BytesOK ==
    /\ \A fd \in DOMAIN connecting : stream[fd] = <<>>
    /\ \A m \in Messages : Fresh(m) => \A fd \in Connections : FirstBytes(m, stream[fd], 0)
    /\ \A fd \in Connections, m \in Messages : InOrder(m, fd)

\* The queues are sequences.
LEMMA QueueLength ==
    ASSUME IInv, NEW fd \in Connections
    PROVE  /\ Pending(fd) \in Seq(Entries) /\ Len(Pending(fd)) \in Nat
           /\ DOMAIN Pending(fd) = 1 .. Len(Pending(fd))
<1>1. Pending(fd) \in Seq(Entries)
  BY DEF IInv, Core, Structure, ConnectionsOK, Queues
<1> QED
  BY <1>1

\* BytesInOrder says that of all of them.
LEMMA BytesOfAll ==
    ASSUME IInv, \A fd \in Connections, m \in Messages : InOrder(m, fd)
    PROVE  BytesInOrder
<1> SUFFICES ASSUME NEW fd \in Connections, NEW m \in Messages
             PROVE  LET left == {i \in DOMAIN Pending(fd) : Pending(fd)[i].message = m}
                    IN  \/ left = {} /\ \E n \in {0, Size[m]} : FirstBytes(m, stream[fd], n)
                        \/ \E i \in left :
                               FirstBytes(m, stream[fd], Pending(fd)[i].bytes_already_written)
  BY DEF BytesInOrder
<1> DEFINE left == {i \in DOMAIN Pending(fd) : Pending(fd)[i].message = m}
<1>1. \A i \in Nat : QueuedAt(m, fd, i) <=> i \in left
  BY QueueLength DEF QueuedAt
<1>2. left \subseteq Nat
  BY QueueLength
<1>3. InOrder(m, fd)
  OBVIOUS
<1> HIDE DEF left
<1>4. \/ left = {} /\ \E n \in {0, Size[m]} : FirstBytes(m, stream[fd], n)
      \/ \E i \in left : FirstBytes(m, stream[fd], Pending(fd)[i].bytes_already_written)
  BY <1>1, <1>2, <1>3 DEF InOrder
<1> QED
  BY <1>4 DEF left

\* A step that writes nothing: a connection keeps its stream and its queue, or is new
\* and has neither.
LEMMA NothingWritten ==
    ASSUME BytesOK,
           \A fd \in DOMAIN connecting' : stream'[fd] = <<>>,
           \A fd \in Connections' :
               \/ fd \in Connections /\ Pending(fd)' = Pending(fd) /\ stream'[fd] = stream[fd]
               \/ Pending(fd)' = <<>> /\ stream'[fd] = <<>>,
           \A m \in Messages : Fresh(m)' => Fresh(m)
    PROVE  BytesOK'
<1>1. ASSUME NEW m \in Messages, Fresh(m)', NEW fd \in Connections'
      PROVE  FirstBytes(m, stream'[fd], 0)
  BY <1>1, EmptyBytes DEF BytesOK
<1>2. ASSUME NEW fd \in Connections', NEW m \in Messages PROVE InOrder(m, fd)'
  <2>1. CASE fd \in Connections /\ Pending(fd)' = Pending(fd) /\ stream'[fd] = stream[fd]
    <3>1. \A i \in Nat : QueuedAt(m, fd, i)' <=> QueuedAt(m, fd, i)
      BY <1>2, <2>1 DEF QueuedAt
    <3>2. InOrder(m, fd)
      BY <2>1 DEF BytesOK
    <3> QED
      BY <2>1, <3>1, <3>2 DEF InOrder
  <2>2. CASE Pending(fd)' = <<>> /\ stream'[fd] = <<>>
    <3>1. \A i \in Nat : ~QueuedAt(m, fd, i)'
      BY <2>2 DEF QueuedAt
    <3> QED
      BY <2>2, <3>1, EmptyBytes DEF InOrder
  <2> QED
    BY <2>1, <2>2
<1>3. \A m \in Messages : Fresh(m)' => \A fd \in Connections' : FirstBytes(m, stream'[fd], 0)
  BY <1>1
<1> QED
  BY <1>2, <1>3 DEF BytesOK, FirstBytes, Written

\* A step that writes bytes of m on a connection: there its queue goes on from what
\* was written, and those of other messages keep what was written of them.
LEMMA SomeWritten ==
    ASSUME IInv, BytesOK, NEW fd \in Connections, NEW m \in Messages,
           NEW from \in Nat, NEW to \in Nat, from <= to, NEW outcome,
           Take(fd, m, from, to, outcome), FirstBytes(m, stream[fd], from),
           UNCHANGED connecting, Connections' = Connections,
           \A g \in Connections \ {fd} : Pending(g)' = Pending(g),
           \/ to = Size[m] /\ \A i \in Nat : ~QueuedAt(m, fd, i)'
           \/ \E i \in Nat : QueuedAt(m, fd, i)' /\ Pending(fd)'[i].bytes_already_written = to,
           \A x \in Messages \ {m} :
               /\ \A i \in Nat : QueuedAt(x, fd, i) =>
                      \E j \in Nat : /\ QueuedAt(x, fd, j)'
                                     /\ Pending(fd)'[j].bytes_already_written
                                            = Pending(fd)[i].bytes_already_written
               /\ \A j \in Nat : QueuedAt(x, fd, j)' => \E i \in Nat : QueuedAt(x, fd, i),
           ~Fresh(m)', \A x \in Messages : Fresh(x)' => Fresh(x)
    PROVE  BytesOK'
<1>1. /\ DOMAIN stream = DOMAIN peer /\ fd \in DOMAIN stream /\ fd \notin DOMAIN connecting
      /\ stream[fd] \in Seq(Messages \X Nat)
      /\ DOMAIN connecting \subseteq DOMAIN stream /\ Connections \subseteq DOMAIN stream
  BY DEF IInv, Core, Structure, KernelOK, AccountsOK
<1>2. stream' = [stream EXCEPT ![fd] = stream[fd] \o Bytes(m, from, to)]
  BY DEF Take
<1>3. /\ stream'[fd] = stream[fd] \o Bytes(m, from, to)
      /\ \A g \in DOMAIN stream \ {fd} : stream'[g] = stream[g]
  BY <1>1, <1>2
<1>4. /\ FirstBytes(m, stream'[fd], to)
      /\ \A x, n : x # m /\ FirstBytes(x, stream[fd], n) => FirstBytes(x, stream'[fd], n)
  <2> DEFINE t == stream[fd] \o Bytes(m, from, to)
  <2>1. /\ FirstBytes(m, stream[fd], from) => FirstBytes(m, t, to)
        /\ \A x, n : x # m /\ FirstBytes(x, stream[fd], n) => FirstBytes(x, t, n)
    BY <1>1, AppendBytes
  <2> HIDE DEF t
  <2>2. stream'[fd] = t
    BY <1>3 DEF t
  <2> QED
    BY <2>1, <2>2
<1>5. \A g \in DOMAIN connecting' : stream'[g] = <<>>
  BY <1>1, <1>3 DEF BytesOK
<1>6. ASSUME NEW x \in Messages, Fresh(x)', NEW g \in Connections' PROVE FirstBytes(x, stream'[g], 0)
  <2>1. x # m /\ FirstBytes(x, stream[g], 0)
    BY <1>6 DEF BytesOK
  <2> QED
    BY <1>1, <1>3, <1>4, <2>1
<1>7. ASSUME NEW g \in Connections', NEW x \in Messages PROVE InOrder(x, g)'
  <2>1. CASE g # fd
    <3>1. stream'[g] = stream[g] /\ Pending(g)' = Pending(g)
      BY <1>1, <1>3, <2>1
    <3>2. \A i \in Nat : QueuedAt(x, g, i)' <=> QueuedAt(x, g, i)
      BY <3>1 DEF QueuedAt
    <3>3. InOrder(x, g)
      BY DEF BytesOK
    <3> QED
      BY <3>1, <3>2, <3>3 DEF InOrder
  <2>2. CASE g = fd /\ x = m
    BY <1>4, <2>2 DEF InOrder
  <2>3. CASE g = fd /\ x # m
    <3>1. InOrder(x, fd)
      BY DEF BytesOK
    <3>2. CASE (\A i \in Nat : ~QueuedAt(x, fd, i))
               /\ \E n \in {0, Size[x]} : FirstBytes(x, stream[fd], n)
      <4>1. \A i \in Nat : ~QueuedAt(x, fd, i)'
        BY <2>3, <3>2
      <4> QED
        BY <1>4, <2>3, <3>2, <4>1 DEF InOrder
    <3>3. ASSUME NEW i \in Nat, QueuedAt(x, fd, i),
                 FirstBytes(x, stream[fd], Pending(fd)[i].bytes_already_written)
          PROVE  InOrder(x, fd)'
      <4>1. PICK j \in Nat : QueuedAt(x, fd, j)' /\ Pending(fd)'[j].bytes_already_written
                                                       = Pending(fd)[i].bytes_already_written
        BY <2>3, <3>3
      <4>2. FirstBytes(x, stream'[fd], Pending(fd)'[j].bytes_already_written)
        BY <1>4, <2>3, <3>3, <4>1
      <4> QED
        BY <4>1, <4>2 DEF InOrder
    <3> QED
      BY <2>3, <3>1, <3>2, <3>3 DEF InOrder
  <2> QED
    BY <2>1, <2>2, <2>3
<1>8. \A x \in Messages : Fresh(x)' => \A g \in Connections' : FirstBytes(x, stream'[g], 0)
  BY <1>6
<1> QED
  BY <1>5, <1>7, <1>8 DEF BytesOK, FirstBytes, Written

\* A step that touches neither streams nor queues.
LEMMA QuietBytes ==
    ASSUME BytesOK, UNCHANGED <<connections, connecting, stream>>,
           \A m \in Messages : Fresh(m)' => Fresh(m)
    PROVE  BytesOK'
<1>1. Connections' = Connections /\ \A g : Pending(g)' = Pending(g)
  BY DEF Connections, Pending, connections
<1>2. \A fd \in DOMAIN connecting' : stream'[fd] = <<>>
  BY DEF BytesOK
<1> QED
  BY <1>1, <1>2, NothingWritten

\* A descriptor that is opened has an empty stream, and the others keep theirs.
LEMMA OpenBytes ==
    ASSUME IInv, NEW fd, NEW state, Open(fd, state)
    PROVE  /\ stream'[fd] = <<>> /\ fd \notin Connections /\ fd \notin DOMAIN connecting
           /\ \A g \in Connections \cup DOMAIN connecting : stream'[g] = stream[g]
<1>1. DOMAIN stream = DOMAIN peer /\ DOMAIN peer = Connections \cup DOMAIN connecting
  BY DEF IInv, Core, Structure, KernelOK, AccountsOK
<1> QED
  BY <1>1 DEF Open, Put

\* Of one that is closed the others are not concerned.
LEMMA CloseBytes ==
    ASSUME IInv, NEW fd, Close(fd)
    PROVE  \A g \in (Connections \cup DOMAIN connecting) \ {fd} : stream'[g] = stream[g]
<1>1. DOMAIN stream = DOMAIN peer /\ DOMAIN peer = Connections \cup DOMAIN connecting
  BY DEF IInv, Core, Structure, KernelOK, AccountsOK
<1> QED
  BY <1>1 DEF Close, Without

\* An eviction takes a stream with it.
LEMMA EvictBytes ==
    ASSUME IInv, BytesOK, NEW fd \in Connections, evict_connection(fd), UNCHANGED connecting,
           \A m \in Messages : Fresh(m)' => Fresh(m)
    PROVE  BytesOK'
<1>1. /\ Connections' = Connections \ {fd}
      /\ \A g \in Connections \ {fd} : Pending(g)' = Pending(g)
  BY EvictStructure DEF IInv, Core
<1>2. /\ fd \notin DOMAIN connecting
      /\ \A g \in (Connections \cup DOMAIN connecting) \ {fd} : stream'[g] = stream[g]
  BY CloseBytes DEF evict_connection, IInv, Core, Structure, AccountsOK
<1>3. \A g \in DOMAIN connecting' : stream'[g] = <<>>
  BY <1>2 DEF BytesOK
<1> QED
  BY <1>1, <1>2, <1>3, NothingWritten

\* send_to(): the message is fresh, and a new connection has an empty stream.
LEMMA SendBytes ==
    ASSUME IInv, BytesOK, NEW m \in Messages, send_to(m)
    PROVE  BytesOK'
<1>1. job = Idle /\ result[m] = "none" /\ Fresh(m) /\ (\A x : ~Writing(x)) /\ To[m] \in Endpoints
  BY ToAssumption DEF send_to, Receiving, Idle, Writing, Fresh
<1>2. \A value : Resume(m, value) => \A x \in Messages \ {m} : result'[x] = result[x]
  BY DEF Resume, IInv, LoopOK
<1>3. CASE Reuse(m)
  <2>1. /\ UNCHANGED <<connections, connecting, stream>>
        /\ \A x \in Messages \ {m} : ~Writing(x)' /\ result'[x] = result[x]
    BY <1>2, <1>3 DEF Reuse, kernel, Writing
  <2>2. \A x \in Messages : Fresh(x)' => Fresh(x)
    BY <1>1, <2>1 DEF Fresh, Connecting
  <2> QED
    BY <2>1, <2>2, QuietBytes
<1>4. ASSUME NEW fd \in Fds, Open(fd, "up"), AddConnection(To[m], fd), job' = <<"write", fd, m>>,
             Resume(m, "waiting"), UNCHANGED <<connecting, writeable>>
      PROVE  BytesOK'
  <2>1. /\ Connections' = Connections \cup {fd} /\ Pending(fd)' = <<>>
        /\ \A g \in Connections : Pending(g)' = Pending(g)
    BY <1>1, <1>4, OpenStructure DEF IInv, Core
  <2>2. /\ stream'[fd] = <<>> /\ fd \notin Connections /\ fd \notin DOMAIN connecting
        /\ \A g \in Connections \cup DOMAIN connecting : stream'[g] = stream[g]
    BY <1>4, OpenBytes
  <2>3. \A x \in Messages \ {m} : ~Writing(x)' /\ result'[x] = result[x]
    BY <1>2, <1>4 DEF Writing
  <2>4. \A x \in Messages : Fresh(x)' => Fresh(x)
    BY <1>1, <1>4, <2>3 DEF Fresh, Connecting
  <2>5. \A g \in DOMAIN connecting' : stream'[g] = <<>>
    BY <1>4, <2>2 DEF BytesOK
  <2> QED
    BY <2>1, <2>2, <2>4, <2>5, NothingWritten
<1>5. ASSUME NEW fd \in Fds, Open(fd, "connecting"),
             connecting' = Put(connecting, fd, [recipient |-> To[m], message |-> m]),
             writeable' = writeable \cup {fd}, Resume(m, "waiting"),
             UNCHANGED <<connections, readable, job>>
      PROVE  BytesOK'
  <2>1. Connections' = Connections /\ \A g : Pending(g)' = Pending(g)
    BY <1>5 DEF Connections, Pending, connections
  <2>2. /\ stream'[fd] = <<>> /\ fd \notin Connections /\ fd \notin DOMAIN connecting
        /\ \A g \in Connections \cup DOMAIN connecting : stream'[g] = stream[g]
    BY <1>5, OpenBytes
  <2>3. /\ DOMAIN connecting' = DOMAIN connecting \cup {fd}
        /\ connecting'[fd].message = m
        /\ \A f \in DOMAIN connecting : connecting'[f] = connecting[f]
    BY <1>5, <2>2 DEF Put
  <2>4. \A x \in Messages : Fresh(x)' => Fresh(x)
    <3>1. \A x \in Messages \ {m} : Connecting(x)' => Connecting(x)
      BY <2>3 DEF Connecting
    <3>2. \A x \in Messages \ {m} : ~Writing(x)' /\ result'[x] = result[x]
      BY <1>1, <1>2, <1>5 DEF Writing
    <3> QED
      BY <1>1, <3>1, <3>2 DEF Fresh
  <2>5. \A g \in DOMAIN connecting' : stream'[g] = <<>>
    BY <2>2, <2>3 DEF BytesOK
  <2> QED
    BY <2>1, <2>2, <2>4, <2>5, NothingWritten
<1>6. CASE Resume(m, "EPHEMERAL_SOCKET_DEAD") /\ UNCHANGED <<connections, connecting, watches, job, kernel>>
  <2>1. \A x \in Messages : Fresh(x)' => Fresh(x)
    BY <1>1, <1>2, <1>6 DEF Fresh, Writing, Connecting
  <2> QED
    BY <1>6, <2>1, QuietBytes DEF kernel
<1> QED
  BY <1>3, <1>4, <1>5, <1>6 DEF send_to, Connect

\* A connect that is decided has written nothing yet.
LEMMA WriteableBytes ==
    ASSUME IInv, BytesOK, NEW fd \in Fds, Writeable(fd)
    PROVE  BytesOK'
<1>1. job = Idle /\ \A x : ~Writing(x)
  BY DEF Writeable, Idle, Writing
<1>2. CASE /\ job' = job \/ job' = <<"retry", fd>>
           /\ UNCHANGED <<connections, connecting, kernel, result>>
  <2>1. \A x : ~Writing(x)'
    BY <1>1, <1>2 DEF Writing, Idle
  <2>2. \A x \in Messages : Fresh(x)' => Fresh(x)
    BY <1>2, <2>1 DEF Fresh, Connecting
  <2> QED
    BY <1>2, <2>2, QuietBytes DEF kernel
<1>3. ASSUME fd \in DOMAIN connecting, connecting' = Without(connecting, fd)
      PROVE  /\ DOMAIN connecting' = DOMAIN connecting \ {fd} /\ fd \notin Connections
             /\ \A f \in DOMAIN connecting' : connecting'[f] = connecting[f]
             /\ \A x \in Messages : Connecting(x)' => Connecting(x)
             /\ stream[fd] = <<>> /\ Connecting(connecting[fd].message)
  <2>1. /\ DOMAIN connecting' = DOMAIN connecting \ {fd}
        /\ \A f \in DOMAIN connecting' : connecting'[f] = connecting[f]
    BY <1>3 DEF Without
  <2>2. fd \notin Connections /\ stream[fd] = <<>>
    BY <1>3 DEF IInv, Core, Structure, AccountsOK, BytesOK
  <2> QED
    BY <1>3, <2>1, <2>2 DEF Connecting
<1>4. ASSUME fd \in DOMAIN connecting, connecting' = Without(connecting, fd), writeable' = writeable \ {fd},
             AddConnection(connecting[fd].recipient, fd), job' = <<"write", fd, connecting[fd].message>>,
             UNCHANGED <<kernel, result>>
      PROVE  BytesOK'
  <2>1. /\ Connections' = Connections \cup {fd} /\ Pending(fd)' = <<>>
        /\ \A g \in Connections : Pending(g)' = Pending(g)
    BY <1>4, ConnectedStructure DEF IInv, Core
  <2>2. stream' = stream
    BY <1>4 DEF kernel
  <2>3. \A x \in Messages : Writing(x)' => x = connecting[fd].message
    BY <1>4 DEF Writing
  <2>4. \A x \in Messages : Fresh(x)' => Fresh(x)
    BY <1>3, <1>4, <2>3 DEF Fresh
  <2>5. \A g \in DOMAIN connecting' : stream'[g] = <<>>
    BY <1>3, <1>4, <2>2 DEF BytesOK
  <2> QED
    BY <1>3, <1>4, <2>1, <2>2, <2>4, <2>5, NothingWritten
<1>5. ASSUME fd \in DOMAIN connecting, connecting' = Without(connecting, fd), Close(fd),
             Resume(connecting[fd].message, "EPHEMERAL_SOCKET_DEAD"),
             UNCHANGED <<connections, readable, job>>
      PROVE  BytesOK'
  <2>1. Connections' = Connections /\ \A g : Pending(g)' = Pending(g)
    BY <1>5 DEF Connections, Pending, connections
  <2>2. \A g \in (Connections \cup DOMAIN connecting) \ {fd} : stream'[g] = stream[g]
    BY <1>5, CloseBytes
  <2>3. \A x \in Messages : result'[x] = "none" => result[x] = "none"
    BY <1>5 DEF Resume, IInv, LoopOK
  <2>4. \A x \in Messages : Fresh(x)' => Fresh(x)
    BY <1>3, <1>5, <2>3 DEF Fresh, Writing
  <2>5. \A g \in DOMAIN connecting' : stream'[g] = <<>>
    BY <1>3, <1>5, <2>2 DEF BytesOK
  <2> QED
    BY <1>3, <1>5, <2>1, <2>2, <2>4, <2>5, NothingWritten
<1> QED
  BY <1>2, <1>4, <1>5 DEF Writeable, ConnectDone

\* A connection that is accepted has an empty stream.
LEMMA AcceptBytes ==
    ASSUME IInv, BytesOK, NEW endpoint \in Clients, NEW fd \in Fds, accept_connections(endpoint, fd)
    PROVE  BytesOK'
<1>1. /\ Open(fd, "up") /\ AddConnection(endpoint, fd) /\ endpoint \in Endpoints
      /\ UNCHANGED <<connecting, writeable, job, result>>
  BY DEF accept_connections, Endpoints
<1>2. /\ Connections' = Connections \cup {fd} /\ Pending(fd)' = <<>>
      /\ \A g \in Connections : Pending(g)' = Pending(g)
  BY <1>1, OpenStructure DEF IInv, Core
<1>3. /\ stream'[fd] = <<>> /\ fd \notin Connections /\ fd \notin DOMAIN connecting
      /\ \A g \in Connections \cup DOMAIN connecting : stream'[g] = stream[g]
  BY <1>1, OpenBytes
<1>4. \A x \in Messages : Fresh(x)' => Fresh(x)
  BY <1>1 DEF Fresh, Writing, Connecting
<1>5. \A g \in DOMAIN connecting' : stream'[g] = <<>>
  BY <1>1, <1>3 DEF BytesOK
<1> QED
  BY <1>2, <1>3, <1>4, <1>5, NothingWritten

\* Reading writes nothing, but may evict the connection.
LEMMA ReceiveBytes ==
    ASSUME IInv, BytesOK, NEW fd \in Fds, receive_messages(fd)
    PROVE  BytesOK'
<1>1. \A x \in Messages : Fresh(x)' => Fresh(x)
  BY DEF receive_messages, Fresh, Writing, Connecting
<1>2. UNCHANGED connecting
  BY DEF receive_messages
<1>3. CASE UNCHANGED <<connections, watches, kernel>>
  BY <1>1, <1>2, <1>3, QuietBytes DEF kernel
<1>4. CASE fd \in readable /\ evict_connection(fd)
  <2>1. fd \in Connections
    BY <1>4 DEF IInv, Core, Structure, AccountsOK
  <2> QED
    BY <1>1, <1>2, <1>4, <2>1, EvictBytes
<1> QED
  BY <1>3, <1>4 DEF receive_messages

\* write_all() writes the first bytes of a message of which none was written, and
\* queues what is left.
LEMMA WriteAllBytes ==
    ASSUME IInv, BytesOK, write_all
    PROVE  BytesOK'
<1>a. PICK fd \in Connections, m \in Messages : job = <<"write", fd, m>>
  BY JobCases DEF IInv, Core, write_all
<1>b. job[2] = fd /\ job[3] = m /\ Writing(m) /\ (\A x : ~Writing(x)') /\ fd \in Fds
  BY <1>a DEF write_all, Writing, Idle, IInv, Core, Structure, ConnectionsOK
<1>c. result[m] = "waiting" /\ ~Connecting(m) /\ \A f \in Fds : \A i \in Nat : ~QueuedAt(m, f, i)
  BY <1>b DEF IInv, Core, WaitersOK, Waiting
<1>d. /\ \A value : Resume(m, value) =>
             result'[m] = value /\ \A x \in Messages \ {m} : result'[x] = result[x]
      /\ UNCHANGED connecting /\ \A x : Connecting(x)' <=> Connecting(x)
  BY DEF Resume, IInv, LoopOK, write_all, Connecting
<1>e. Size[m] \in Nat /\ 0 \in Nat /\ FirstBytes(m, stream[fd], 0)
  BY <1>b, SizeAssumption DEF BytesOK, Fresh
<1>1. ASSUME NEW to \in 0 .. Size[m], Write(fd, m, 0, to, "written"), Take(fd, m, 0, to, "written"),
             Resume(m, "SENT"), UNCHANGED <<connections, watches>>
      PROVE  BytesOK'
  <2>1. to = Size[m] /\ to \in Nat /\ 0 <= to
    BY <1>1, <1>e DEF Write
  <2>2. Connections' = Connections /\ \A g : Pending(g)' = Pending(g)
    BY <1>1 DEF Connections, Pending, connections
  <2>3. \A x, i : QueuedAt(x, fd, i)' <=> QueuedAt(x, fd, i)
    BY <2>2 DEF QueuedAt
  <2>4. ~Fresh(m)' /\ \A x \in Messages : Fresh(x)' => Fresh(x)
    BY <1>1, <1>b, <1>c, <1>d DEF Fresh
  <2>5. \A x \in Messages \ {m} :
            /\ \A i \in Nat : QueuedAt(x, fd, i) =>
                   \E j \in Nat : /\ QueuedAt(x, fd, j)'
                                  /\ Pending(fd)'[j].bytes_already_written
                                         = Pending(fd)[i].bytes_already_written
            /\ \A j \in Nat : QueuedAt(x, fd, j)' => \E i \in Nat : QueuedAt(x, fd, i)
    BY <2>2, <2>3
  <2>6. \A i \in Nat : ~QueuedAt(m, fd, i)'
    BY <1>b, <1>c, <2>3
  <2> QED
    BY <1>1, <1>d, <1>e, <2>1, <2>2, <2>4, <2>5, <2>6, SomeWritten
<1>2. ASSUME NEW to \in 0 .. Size[m], Take(fd, m, 0, to, "again"), Enqueue(fd, m, to),
             UNCHANGED <<m_connection_fds, readable, result>>
      PROVE  BytesOK'
  <2> DEFINE p == Pending(fd)
             e == [message |-> m, bytes_already_written |-> to]
             q == Append(p, e)
             k == Len(p)
  <2>1. to \in Nat /\ 0 <= to
    BY <1>e
  <2>2. e \in Entries /\ e.message = m /\ e.bytes_already_written = to
    BY <2>1 DEF Entries
  <2>3. p \in Seq(Entries)
    BY QueueLength
  <2>4. Connections' = Connections /\ Pending(fd)' = q
        /\ \A g \in Connections \ {fd} : Pending(g)' = Pending(g)
    <3>1. m_connection_details \in [Connections -> Details]
      BY DEF IInv, Core, Structure, ConnectionsOK
    <3>2. m_connection_details' = [m_connection_details EXCEPT ![fd].pending_messages = q]
      BY <1>2 DEF Enqueue, Pending
    <3> HIDE DEF q
    <3> QED
      BY <3>1, <3>2 DEF Pending, Connections, Details
  <2> HIDE DEF p, e
  <2>5. /\ k \in Nat /\ Len(q) = k + 1 /\ q[k + 1] = e
        /\ \A i \in 1 .. k : q[i] = p[i]
    BY <2>2, <2>3
  <2> HIDE DEF q
  <2>6. PICK n \in Nat : n = k + 1 /\ n \in DOMAIN q /\ q[n] = e
    BY <2>5
  <2>10. QueuedAt(m, fd, n)' /\ Pending(fd)'[n].bytes_already_written = to
    <3>1. fd \in Connections' /\ n \in DOMAIN Pending(fd)' /\ Pending(fd)'[n] = e
      BY <2>4, <2>6
    <3> QED
      BY <2>2, <3>1 DEF QueuedAt
  <2>7. ASSUME NEW x \in Messages \ {m}, NEW i \in Nat
        PROVE  (QueuedAt(x, fd, i)' <=> QueuedAt(x, fd, i))
               /\ (QueuedAt(x, fd, i) => Pending(fd)'[i] = Pending(fd)[i])
    <3>1. CASE i \in 1 .. k
      BY <2>4, <2>5, <3>1 DEF QueuedAt, p
    <3>2. CASE i = k + 1
      BY <2>2, <2>4, <2>5, <3>2 DEF QueuedAt, p
    <3>3. CASE i \notin 1 .. k + 1
      BY <2>4, <2>5, <3>3 DEF QueuedAt, p
    <3> QED
      BY <2>5, <3>1, <3>2, <3>3
  <2>8. \A x \in Messages \ {m} :
            /\ \A i \in Nat : QueuedAt(x, fd, i) =>
                   \E j \in Nat : /\ QueuedAt(x, fd, j)'
                                  /\ Pending(fd)'[j].bytes_already_written
                                         = Pending(fd)[i].bytes_already_written
            /\ \A j \in Nat : QueuedAt(x, fd, j)' => \E i \in Nat : QueuedAt(x, fd, i)
    BY <2>7
  <2>9. ~Fresh(m)' /\ \A x \in Messages : Fresh(x)' => Fresh(x)
    BY <1>2, <1>b, <1>c, <1>d DEF Fresh
  <2>11. \E i \in Nat : QueuedAt(m, fd, i)' /\ Pending(fd)'[i].bytes_already_written = to
    BY <2>10
  <2> QED
    BY <1>2, <1>d, <1>e, <2>1, <2>4, <2>8, <2>9, <2>11, SomeWritten
<1>3. ASSUME evict_connection(fd), Resume(m, "EPHEMERAL_SOCKET_DEAD") PROVE BytesOK'
  <2>1. \A x \in Messages : Fresh(x)' => Fresh(x)
    BY <1>3, <1>b, <1>c, <1>d DEF Fresh
  <2> QED
    BY <1>3, <1>d, <2>1, EvictBytes
<1> QED
  BY <1>b, <1>1, <1>2, <1>3 DEF write_all

\* retry_messages() goes on where the front of the queue stopped.
LEMMA RetryBytes ==
    ASSUME IInv, BytesOK, retry_messages
    PROVE  BytesOK'
<1>a. PICK fd \in Connections : job = <<"retry", fd>> /\ Pending(fd) # <<>>
  BY JobCases DEF IInv, Core, retry_messages
<1> DEFINE q == Pending(fd)
           k == Len(q)
<1> PICK m, from : m = Head(q).message /\ from = Head(q).bytes_already_written
  OBVIOUS
<1>b. /\ q \in Seq(Entries) /\ k \in Nat /\ k >= 1 /\ Head(q) = q[1]
      /\ m \in Messages /\ from \in Nat /\ from < Size[m] /\ Size[m] \in Nat
      /\ QueuedAt(m, fd, 1) /\ result[m] = "waiting"
  BY <1>a, FrontOfQueue, SizeAssumption DEF IInv
<1>c. /\ job[2] = fd /\ fd \in Fds /\ (\A x : ~Writing(x)) /\ UNCHANGED connecting
      /\ (\A x : Connecting(x)' <=> Connecting(x))
  BY <1>a DEF Writing, IInv, Core, Structure, ConnectionsOK, retry_messages, Connecting
<1>d. \A value : Resume(m, value) =>
          result'[m] = value /\ \A x \in Messages \ {m} : result'[x] = result[x]
  BY <1>b DEF Resume, IInv, LoopOK
<1>e. /\ ~Connecting(m)
      /\ \A i \in Nat : QueuedAt(m, fd, i) => i = 1
  BY <1>b, <1>c DEF IInv, Core, WaitersOK
<1>f. FirstBytes(m, stream[fd], from)
  <2>1. InOrder(m, fd)
    BY <1>b DEF BytesOK
  <2> QED
    BY <1>b, <1>e, <2>1 DEF InOrder
<1>g. job' = Idle \/ job' = job => \A x : ~Writing(x)'
  BY <1>c DEF Writing, Idle
<1>1. ASSUME NEW to \in from .. Size[m], Write(fd, m, from, to, "written"),
             Take(fd, m, from, to, "written"), Resume(m, "SENT"), Pop(fd),
             job' = Idle \/ job' = job, UNCHANGED <<m_connection_fds, readable>>
      PROVE  BytesOK'
  <2> DEFINE t == Tail(q)
  <2>1. to \in Nat /\ from <= to /\ to = Size[m]
    BY <1>1, <1>b DEF Write
  <2>2. /\ t \in Seq(Entries) /\ Len(t) = k - 1
        /\ \A i \in 1 .. k - 1 : t[i] = q[i + 1] /\ i + 1 \in 1 .. k
    BY <1>a, <1>b
  <2>3. Connections' = Connections /\ Pending(fd)' = t
        /\ \A g \in Connections \ {fd} : Pending(g)' = Pending(g)
    <3>1. m_connection_details \in [Connections -> Details]
      BY DEF IInv, Core, Structure, ConnectionsOK
    <3>2. m_connection_details' = [m_connection_details EXCEPT ![fd].pending_messages = t]
      BY <1>1 DEF Pop, Pending
    <3> HIDE DEF t
    <3> QED
      BY <3>1, <3>2 DEF Pending, Connections, Details
  <2> HIDE DEF t
  <2>4. ASSUME NEW x \in Messages, NEW i \in Nat \ {0}
        PROVE  /\ QueuedAt(x, fd, i)' <=> QueuedAt(x, fd, i + 1)
               /\ QueuedAt(x, fd, i)' => Pending(fd)'[i] = Pending(fd)[i + 1]
    BY <1>b, <2>2, <2>3 DEF QueuedAt
  <2>5. \A i \in Nat : ~QueuedAt(m, fd, i)'
    <3> SUFFICES ASSUME NEW i \in Nat, QueuedAt(m, fd, i)' PROVE FALSE
      OBVIOUS
    <3>1. i # 0
      BY DEF QueuedAt
    <3>2. QueuedAt(m, fd, i + 1) /\ i + 1 \in Nat /\ i + 1 # 1
      BY <1>b, <2>4, <3>1
    <3> QED
      BY <1>e, <3>2
  <2>6. ASSUME NEW x \in Messages \ {m}, NEW i \in Nat, QueuedAt(x, fd, i)
        PROVE  \E j \in Nat : /\ QueuedAt(x, fd, j)'
                              /\ Pending(fd)'[j].bytes_already_written
                                     = Pending(fd)[i].bytes_already_written
    <3>1. i # 0 /\ i # 1
      BY <1>b, <2>6 DEF QueuedAt
    <3>2. PICK j \in Nat \ {0} : i = j + 1
      <4>1. i - 1 \in Nat \ {0} /\ i = (i - 1) + 1
        BY <3>1
      <4> QED
        BY <4>1
    <3> QED
      BY <2>4, <2>6, <3>2
  <2>7. ASSUME NEW x \in Messages \ {m}, NEW j \in Nat, QueuedAt(x, fd, j)'
        PROVE  \E i \in Nat : QueuedAt(x, fd, i)
    <3>1. j # 0
      BY <2>7 DEF QueuedAt
    <3> QED
      BY <2>4, <2>7, <3>1
  <2>8. ~Fresh(m)' /\ \A x \in Messages : Fresh(x)' => Fresh(x)
    BY <1>1, <1>b, <1>c, <1>d, <1>e, <1>g DEF Fresh
  <2>9. \A x \in Messages \ {m} :
            /\ \A i \in Nat : QueuedAt(x, fd, i) =>
                   \E j \in Nat : /\ QueuedAt(x, fd, j)'
                                  /\ Pending(fd)'[j].bytes_already_written
                                         = Pending(fd)[i].bytes_already_written
            /\ \A j \in Nat : QueuedAt(x, fd, j)' => \E i \in Nat : QueuedAt(x, fd, i)
    BY <2>6, <2>7
  <2> HIDE DEF q, k
  <2> QED
    BY <1>1, <1>b, <1>c, <1>f, <2>1, <2>3, <2>5, <2>8, <2>9, SomeWritten
<1>2. ASSUME NEW to \in from .. Size[m], Take(fd, m, from, to, "again"),
             Progress(fd, to), job' = Idle, UNCHANGED <<m_connection_fds, watches, result>>
      PROVE  BytesOK'
  <2> DEFINE e == [q[1] EXCEPT !.bytes_already_written = to]
             t == [q EXCEPT ![1] = e]
  <2>1. to \in Nat /\ from <= to
    BY <1>b
  <2>2. q[1] \in Entries /\ q[1].message = m /\ 1 \in 1 .. k
    BY <1>b
  <2>3. e \in Entries /\ e.message = m /\ e.bytes_already_written = to
    BY <2>1, <2>2 DEF Entries
  <2>4. m_connection_details' = [m_connection_details EXCEPT ![fd].pending_messages = t]
    BY <1>2 DEF Progress, Pending
  <2>5. Connections' = Connections /\ Pending(fd)' = t
        /\ \A g \in Connections \ {fd} : Pending(g)' = Pending(g)
    <3> HIDE DEF t
    <3>1. m_connection_details \in [Connections -> Details]
      BY DEF IInv, Core, Structure, ConnectionsOK
    <3> QED
      BY <2>4, <3>1 DEF Pending, Connections, Details
  <2> HIDE DEF e
  <2>6. /\ Len(t) = k /\ t[1] = e
        /\ \A i \in 1 .. k : i # 1 => t[i] = q[i]
    BY <1>a, <1>b, <2>2, <2>3
  <2> HIDE DEF t
  <2>7. QueuedAt(m, fd, 1)' /\ Pending(fd)'[1].bytes_already_written = to
    BY <2>2, <2>3, <2>5, <2>6 DEF QueuedAt
  <2>8. ASSUME NEW x \in Messages \ {m}, NEW i \in Nat
        PROVE  (QueuedAt(x, fd, i)' <=> QueuedAt(x, fd, i))
               /\ (QueuedAt(x, fd, i) => Pending(fd)'[i] = Pending(fd)[i])
    <3>1. CASE i = 1
      BY <2>2, <2>3, <2>5, <2>6, <3>1 DEF QueuedAt
    <3>2. CASE i # 1
      BY <2>5, <2>6, <3>2 DEF QueuedAt
    <3> QED
      BY <3>1, <3>2
  <2>9. \A x \in Messages \ {m} :
            /\ \A i \in Nat : QueuedAt(x, fd, i) =>
                   \E j \in Nat : /\ QueuedAt(x, fd, j)'
                                  /\ Pending(fd)'[j].bytes_already_written
                                         = Pending(fd)[i].bytes_already_written
            /\ \A j \in Nat : QueuedAt(x, fd, j)' => \E i \in Nat : QueuedAt(x, fd, i)
    BY <2>8
  <2>10. ~Fresh(m)' /\ \A x \in Messages : Fresh(x)' => Fresh(x)
    BY <1>2, <1>b, <1>c, <1>e, <1>g DEF Fresh
  <2> HIDE DEF q, k
  <2> QED
    BY <1>2, <1>b, <1>c, <1>f, <2>1, <2>5, <2>7, <2>9, <2>10, SomeWritten
<1>3. ASSUME Resume(m, "EPHEMERAL_SOCKET_DEAD"), RetryFails(fd), job' = Idle PROVE BytesOK'
  <2>1. evict_connection(fd)
    BY <1>3 DEF RetryFails
  <2>2. \A x \in Messages : Fresh(x)' => Fresh(x)
    BY <1>3, <1>b, <1>c, <1>d, <1>e, <1>g DEF Fresh
  <2> QED
    BY <1>c, <2>1, <2>2, EvictBytes
<1> QED
  BY <1>c, <1>1, <1>2, <1>3 DEF retry_messages

\* Every step keeps track of the bytes.
LEMMA NextBytes == IInv /\ BytesOK /\ [Next]_vars => BytesOK'
<1> SUFFICES ASSUME IInv, BytesOK, [Next]_vars PROVE BytesOK'
  OBVIOUS
<1>1. ASSUME UNCHANGED <<connections, connecting, job, stream, result>> PROVE BytesOK'
  <2>1. \A x \in Messages : Fresh(x)' => Fresh(x)
    BY <1>1 DEF Fresh, Writing, Connecting
  <2> QED
    BY <1>1, <2>1, QuietBytes
<1>2. CASE Poll \/ NextPhase \/ ListeningFails \/ UNCHANGED vars
  BY <1>1, <1>2 DEF Poll, NextPhase, ListeningFails, vars, kernel
<1>3. ASSUME NEW fd \in Fds, ConnectDecided(fd) \/ PeerVanishes(fd) \/ PeerReads(fd) PROVE BytesOK'
  BY <1>1, <1>3 DEF ConnectDecided, PeerVanishes, PeerReads
<1> QED
  BY <1>2, <1>3, ReceiveBytes, WriteableBytes, WriteAllBytes, RetryBytes, AcceptBytes, SendBytes
     DEF Next, Worker

\* Whatever the kernel takes at a time, and however often it takes a part only, each
\* byte of a message is in the stream of its connection once and in its order; of a
\* queued one, as many as its entry says (tcpsocket.cpp:144-195, 414-475).
THEOREM Ordered == Spec => []BytesInOrder
<1>1. Init => BytesOK
  <2> SUFFICES ASSUME Init PROVE BytesOK
    OBVIOUS
  <2>1. Connections = {} /\ DOMAIN connecting = {}
    BY DEF Init, Connections
  <2> QED
    BY <2>1 DEF BytesOK
<1>2. IInv /\ BytesOK => BytesInOrder
  BY BytesOfAll DEF BytesOK
<1> QED
  BY <1>1, <1>2, NextBytes, Invariance, PTL DEF Spec

-----------------------------------------------------------------------------
(* Where messages are bound for.  That the index leads to a connection to  *)
(* the right endpoint is not enough: a message stays with the descriptor   *)
(* it was given while connects are decided, queues move on, connections    *)
(* are evicted and descriptors are used again.                             *)

Leads(fd) ==
    IF fd \in Connections THEN m_connection_details[fd].recipient ELSE connecting[fd].recipient

\* The message waits at the descriptor, or bytes of it have been written there.
Bound(m, fd) ==
    \/ Writing(m) /\ job[2] = fd
    \/ fd \in DOMAIN connecting /\ connecting[fd].message = m
    \/ \E i \in Nat : QueuedAt(m, fd, i)
    \/ fd \in Connections /\ Written(m, stream[fd]) # {}

Directed == \A m \in Messages, fd \in Fds : Bound(m, fd) => Leads(fd) = To[m]

\* So no connection has a byte of a message for another endpoint.
LEMMA DirectedBytes == IInv /\ Directed => NothingMisdirected
<1> SUFFICES ASSUME IInv, Directed, NEW fd \in Connections, NEW i \in DOMAIN stream[fd]
             PROVE  To[stream[fd][i][1]] = m_connection_details[fd].recipient
  BY DEF NothingMisdirected
<1>1. fd \in Fds /\ stream[fd] \in Seq(Messages \X Nat)
  BY DEF IInv, Core, Structure, ConnectionsOK, KernelOK, AccountsOK
<1>2. stream[fd][i][1] \in Messages
  BY <1>1
<1>3. i \in Written(stream[fd][i][1], stream[fd])
  BY DEF Written
<1> QED
  BY <1>1, <1>2, <1>3 DEF Directed, Bound, Leads

\* A step that moves no message.
LEMMA QuietDirected ==
    ASSUME Directed, UNCHANGED <<connections, connecting, stream>>, job' = job \/ \A x : ~Writing(x)'
    PROVE  Directed'
<1>1. /\ Connections' = Connections /\ \A fd : Pending(fd)' = Pending(fd)
      /\ \A fd : Leads(fd)' = Leads(fd)
  BY DEF Connections, Pending, Leads, connections
<1>2. \A m, fd, i : QueuedAt(m, fd, i)' <=> QueuedAt(m, fd, i)
  BY <1>1 DEF QueuedAt
<1>3. ASSUME NEW m \in Messages, NEW fd \in Fds, Bound(m, fd)' PROVE Bound(m, fd)
  BY <1>1, <1>2, <1>3 DEF Bound, Written, Writing
<1> QED
  BY <1>1, <1>3 DEF Directed

\* An eviction leaves the other connections what they have.
LEMMA EvictDirected ==
    ASSUME IInv, Directed, NEW fd \in Connections, evict_connection(fd), UNCHANGED connecting,
           \A x : ~Writing(x)'
    PROVE  Directed'
<1>1. /\ Connections' = Connections \ {fd} /\ fd \notin DOMAIN connecting
      /\ \A g \in Connections \ {fd} : Pending(g)' = Pending(g)
  BY EvictStructure DEF IInv, Core, Structure, AccountsOK
<1>2. \A g \in Connections \ {fd} : m_connection_details'[g] = m_connection_details[g]
  BY WithoutFields DEF evict_connection, Connections
<1>3. \A g \in Connections \ {fd} : stream'[g] = stream[g]
  BY CloseBytes DEF evict_connection
<1> SUFFICES ASSUME NEW m \in Messages, NEW g \in Fds, Bound(m, g)' PROVE Leads(g)' = To[m]
  BY DEF Directed
<1>4. CASE g \in DOMAIN connecting
  <2>1. g \notin Connections /\ g \notin Connections'
    BY <1>1, <1>4 DEF IInv, Core, Structure, AccountsOK
  <2>2. connecting[g].message = m
    BY <2>1 DEF Bound, QueuedAt
  <2> QED
    BY <1>4, <2>1, <2>2 DEF Bound, Directed, Leads
<1>5. CASE g \notin DOMAIN connecting
  <2>1. g \in Connections \ {fd}
    BY <1>1, <1>5 DEF Bound, QueuedAt
  <2>2. \A i : QueuedAt(m, g, i)' => QueuedAt(m, g, i)
    BY <1>1, <2>1 DEF QueuedAt
  <2>3. Bound(m, g)
    BY <1>3, <1>5, <2>1, <2>2 DEF Bound, Written
  <2> QED
    BY <1>1, <1>2, <2>1, <2>3 DEF Directed, Leads
<1> QED
  BY <1>4, <1>5

\* A connection that is added leads to the endpoint it is added for.
LEMMA AddLeads ==
    ASSUME NEW fd, fd \notin Connections, NEW endpoint, AddConnection(endpoint, fd)
    PROVE  /\ Connections' = Connections \cup {fd} /\ Leads(fd)' = endpoint
           /\ \A g \in Connections : Leads(g)' = Leads(g)
<1> DEFINE d == [recipient |-> endpoint, pending_messages |-> <<>>]
<1>1. m_connection_details' = Put(m_connection_details, fd, d)
  BY DEF AddConnection, Emplace, Connections
<1>2. d.recipient = endpoint
  OBVIOUS
<1> HIDE DEF d
<1>3. /\ Connections' = Connections \cup {fd} /\ m_connection_details'[fd] = d
      /\ \A g \in Connections : m_connection_details'[g] = m_connection_details[g]
  BY <1>1 DEF Put, Connections
<1> QED
  BY <1>2, <1>3 DEF Leads

\* A connection under a descriptor just opened has only the message it was opened for.
LEMMA OpenDirected ==
    ASSUME IInv, Directed, NEW fd \in Fds, NEW endpoint \in Endpoints, Open(fd, "up"),
           AddConnection(endpoint, fd), UNCHANGED <<connecting, writeable>>,
           \A x : Writing(x)' => job'[2] = fd /\ To[x] = endpoint
    PROVE  Directed'
<1>1. /\ Connections' = Connections \cup {fd} /\ Pending(fd)' = <<>>
      /\ \A g \in Connections : Pending(g)' = Pending(g)
  BY OpenStructure DEF IInv, Core
<1>2. /\ stream'[fd] = <<>> /\ fd \notin Connections /\ fd \notin DOMAIN connecting
      /\ \A g \in Connections \cup DOMAIN connecting : stream'[g] = stream[g]
  BY OpenBytes
<1>3. Leads(fd)' = endpoint /\ \A g \in Connections : Leads(g)' = Leads(g)
  BY <1>2, AddLeads
<1> SUFFICES ASSUME NEW m \in Messages, NEW g \in Fds, Bound(m, g)' PROVE Leads(g)' = To[m]
  BY DEF Directed
<1>4. CASE g = fd
  <2>1. \A i : ~QueuedAt(m, fd, i)'
    BY <1>1 DEF QueuedAt
  <2>2. Written(m, stream'[fd]) = {}
    BY <1>2 DEF Written
  <2>3. Written(m, stream[fd])' = {}
    BY <2>2 DEF Written
  <2>4. Writing(m)'
    BY <1>2, <1>4, <2>1, <2>3 DEF Bound
  <2> QED
    BY <1>3, <1>4, <2>4
<1>5. CASE g # fd
  <2>1. \A i : QueuedAt(m, g, i)' => QueuedAt(m, g, i)
    BY <1>1, <1>5 DEF QueuedAt
  <2>2. Bound(m, g)
    BY <1>1, <1>2, <1>5, <2>1 DEF Bound, Written
  <2>3. CASE g \in Connections
    BY <1>3, <2>2, <2>3 DEF Directed
  <2>4. CASE g \notin Connections
    BY <1>1, <1>5, <2>2, <2>4 DEF Directed, Leads
  <2> QED
    BY <2>3, <2>4
<1> QED
  BY <1>4, <1>5

\* send_to() finds a connection to the message's endpoint, or opens one.
LEMMA SendDirected ==
    ASSUME IInv, Directed, NEW m \in Messages, send_to(m)
    PROVE  Directed'
<1>1. job = Idle /\ (\A x : ~Writing(x)) /\ To[m] \in Endpoints
  BY ToAssumption DEF send_to, Receiving, Idle, Writing
<1>2. CASE Reuse(m)
  <2> DEFINE fd == m_connection_fds[To[m]]
  <2>1. /\ To[m] \in DOMAIN m_connection_fds /\ job' = <<"write", fd, m>>
        /\ UNCHANGED <<connections, connecting, stream>>
    BY <1>2 DEF Reuse, kernel
  <2>2. fd \in Connections /\ m_connection_details[fd].recipient = To[m]
    BY <2>1 DEF IInv, Core, Structure, ConnectionsOK, IndexLeadsToConnection
  <2> HIDE DEF fd
  <2>3. /\ Connections' = Connections /\ \A g : Pending(g)' = Pending(g) /\ Leads(g)' = Leads(g)
    BY <2>1 DEF Connections, Pending, Leads, connections
  <2>4. \A x, g, i : QueuedAt(x, g, i)' <=> QueuedAt(x, g, i)
    BY <2>3 DEF QueuedAt
  <2>5. ASSUME NEW x \in Messages, NEW g \in Fds, Bound(x, g)' PROVE Leads(g)' = To[x]
    <3>1. CASE Writing(x)' /\ job'[2] = g
      <4>1. g = fd /\ x = m
        BY <2>1, <3>1 DEF Writing
      <4> QED
        BY <2>2, <2>3, <4>1 DEF Leads
    <3>2. CASE ~(Writing(x)' /\ job'[2] = g)
      <4>1. Bound(x, g)
        BY <2>1, <2>3, <2>4, <2>5, <3>2 DEF Bound, Written
      <4> QED
        BY <2>3, <4>1 DEF Directed
    <3> QED
      BY <3>1, <3>2
  <2> QED
    BY <2>5 DEF Directed
<1>3. ASSUME NEW fd \in Fds, Open(fd, "up"), AddConnection(To[m], fd), job' = <<"write", fd, m>>,
             UNCHANGED <<connecting, writeable>>
      PROVE  Directed'
  <2>1. \A x : Writing(x)' => job'[2] = fd /\ To[x] = To[m]
    BY <1>3 DEF Writing
  <2> QED
    BY <1>1, <1>3, <2>1, OpenDirected
<1>4. ASSUME NEW fd \in Fds, Open(fd, "connecting"),
             connecting' = Put(connecting, fd, [recipient |-> To[m], message |-> m]),
             UNCHANGED <<connections, readable, job>>
      PROVE  Directed'
  <2>1. Connections' = Connections /\ \A g : Pending(g)' = Pending(g)
    BY <1>4 DEF Connections, Pending, connections
  <2>2. /\ stream'[fd] = <<>> /\ fd \notin Connections /\ fd \notin DOMAIN connecting
        /\ \A g \in Connections \cup DOMAIN connecting : stream'[g] = stream[g]
    BY <1>4, OpenBytes
  <2>3. /\ DOMAIN connecting' = DOMAIN connecting \cup {fd}
        /\ connecting'[fd].message = m /\ connecting'[fd].recipient = To[m]
        /\ \A f \in DOMAIN connecting : connecting'[f] = connecting[f]
    BY <1>4, <2>2 DEF Put
  <2>4. ASSUME NEW x \in Messages, NEW g \in Fds, Bound(x, g)' PROVE Leads(g)' = To[x]
    <3>1. \A i : QueuedAt(x, g, i)' <=> QueuedAt(x, g, i)
      BY <2>1 DEF QueuedAt
    <3>2. ~Writing(x)'
      BY <1>1, <1>4 DEF Writing
    <3>3. CASE g = fd
      <4>1. \A i : ~QueuedAt(x, g, i)
        BY <2>2, <3>3 DEF QueuedAt
      <4>2. x = m
        BY <2>1, <2>2, <2>3, <2>4, <3>1, <3>2, <3>3, <4>1 DEF Bound
      <4> QED
        BY <2>1, <2>2, <2>3, <3>3, <4>2 DEF Leads
    <3>4. CASE g # fd
      <4>1. Bound(x, g)
        BY <2>1, <2>2, <2>3, <2>4, <3>1, <3>2, <3>4 DEF Bound, Written
      <4>2. Leads(g) = To[x]
        BY <4>1 DEF Directed
      <4>3. g \in Connections \/ g \in DOMAIN connecting
        BY <1>1, <4>1 DEF Bound, QueuedAt
      <4>4. m_connection_details' = m_connection_details
        BY <1>4 DEF connections
      <4> QED
        BY <2>1, <2>3, <4>2, <4>3, <4>4 DEF Leads
    <3> QED
      BY <3>3, <3>4
  <2> QED
    BY <2>4 DEF Directed
<1>5. CASE UNCHANGED <<connections, connecting, watches, job, kernel>>
  BY <1>5, QuietDirected DEF kernel
<1> QED
  BY <1>2, <1>3, <1>4, <1>5 DEF send_to, Connect

\* A connect that is decided hands its message to the connection to its endpoint.
LEMMA WriteableDirected ==
    ASSUME IInv, Directed, BytesOK, NEW fd \in Fds, Writeable(fd)
    PROVE  Directed'
<1>1. job = Idle /\ \A x : ~Writing(x)
  BY DEF Writeable, Idle, Writing
<1>2. CASE /\ job' = job \/ job' = <<"retry", fd>>
           /\ UNCHANGED <<connections, connecting, kernel>>
  <2>1. \A x : ~Writing(x)'
    BY <1>1, <1>2 DEF Writing, Idle
  <2> QED
    BY <1>2, <2>1, QuietDirected DEF kernel
<1>3. ASSUME fd \in DOMAIN connecting, connecting' = Without(connecting, fd)
      PROVE  /\ DOMAIN connecting' = DOMAIN connecting \ {fd} /\ fd \notin Connections
             /\ \A f \in DOMAIN connecting' : connecting'[f] = connecting[f]
             /\ stream[fd] = <<>> /\ Bound(connecting[fd].message, fd)
             /\ connecting[fd].message \in Messages
  <2>1. /\ DOMAIN connecting' = DOMAIN connecting \ {fd}
        /\ \A f \in DOMAIN connecting' : connecting'[f] = connecting[f]
    BY <1>3 DEF Without
  <2>2. fd \notin Connections /\ stream[fd] = <<>> /\ connecting[fd].message \in Messages
    BY <1>3 DEF IInv, Core, Structure, KernelOK, AccountsOK, BytesOK
  <2> QED
    BY <1>3, <2>1, <2>2 DEF Bound
<1>4. ASSUME fd \in DOMAIN connecting, connecting' = Without(connecting, fd), writeable' = writeable \ {fd},
             AddConnection(connecting[fd].recipient, fd), job' = <<"write", fd, connecting[fd].message>>,
             UNCHANGED kernel
      PROVE  Directed'
  <2>1. /\ Connections' = Connections \cup {fd} /\ Pending(fd)' = <<>>
        /\ \A g \in Connections : Pending(g)' = Pending(g)
    BY <1>4, ConnectedStructure DEF IInv, Core
  <2>2. stream' = stream
    BY <1>4 DEF kernel
  <2>3. Leads(fd)' = connecting[fd].recipient /\ \A g \in Connections : Leads(g)' = Leads(g)
    BY <1>3, <1>4, AddLeads
  <2>4. connecting[fd].recipient = To[connecting[fd].message]
    BY <1>3, <1>4 DEF Directed, Leads
  <2>5. ASSUME NEW x \in Messages, NEW g \in Fds, Bound(x, g)' PROVE Leads(g)' = To[x]
    <3>1. CASE g = fd
      <4>1. \A i : ~QueuedAt(x, fd, i)'
        BY <2>1 DEF QueuedAt
      <4>2. Written(x, stream[fd])' = {}
        BY <1>3, <1>4, <2>2 DEF Written
      <4>3. Writing(x)'
        BY <1>3, <1>4, <2>5, <3>1, <4>1, <4>2 DEF Bound
      <4>4. x = connecting[fd].message
        BY <1>4, <4>3 DEF Writing
      <4> QED
        BY <2>3, <2>4, <3>1, <4>4
    <3>2. CASE g # fd
      <4>1. \A i : QueuedAt(x, g, i)' => QueuedAt(x, g, i)
        BY <2>1, <3>2 DEF QueuedAt
      <4>2. Bound(x, g)
        BY <1>3, <1>4, <2>1, <2>2, <2>5, <3>2, <4>1 DEF Bound, Written, Writing
      <4>3. CASE g \in Connections
        BY <2>3, <4>2, <4>3 DEF Directed
      <4>4. CASE g \notin Connections
        <5>1. g \in DOMAIN connecting
          BY <1>1, <4>2, <4>4 DEF Bound, QueuedAt
        <5> QED
          BY <1>3, <1>4, <2>1, <3>2, <4>2, <4>4, <5>1 DEF Directed, Leads
      <4> QED
        BY <4>3, <4>4
    <3> QED
      BY <3>1, <3>2
  <2> QED
    BY <2>5 DEF Directed
<1>5. ASSUME fd \in DOMAIN connecting, connecting' = Without(connecting, fd), Close(fd),
             UNCHANGED <<connections, readable, job>>
      PROVE  Directed'
  <2>1. Connections' = Connections /\ \A g : Pending(g)' = Pending(g)
    BY <1>5 DEF Connections, Pending, connections
  <2>2. \A g \in (Connections \cup DOMAIN connecting) \ {fd} : stream'[g] = stream[g]
    BY <1>5, CloseBytes
  <2>3. m_connection_details' = m_connection_details
    BY <1>5 DEF connections
  <2>4. ASSUME NEW x \in Messages, NEW g \in Fds, Bound(x, g)' PROVE Leads(g)' = To[x]
    <3>1. \A i : QueuedAt(x, g, i)' <=> QueuedAt(x, g, i)
      BY <2>1 DEF QueuedAt
    <3>2. ~Writing(x)'
      BY <1>1, <1>5 DEF Writing
    <3>3. g # fd /\ (g \in Connections \/ g \in DOMAIN connecting)
      BY <1>3, <1>5, <2>1, <2>4, <3>1, <3>2 DEF Bound, QueuedAt
    <3>4. Bound(x, g)
      BY <1>3, <1>5, <2>1, <2>2, <2>4, <3>1, <3>2, <3>3 DEF Bound, Written
    <3> QED
      BY <1>3, <1>5, <2>1, <2>3, <3>3, <3>4 DEF Directed, Leads
  <2> QED
    BY <2>4 DEF Directed
<1> QED
  BY <1>2, <1>4, <1>5 DEF Writeable, ConnectDone

\* What the kernel takes of a message goes where it is written, and nowhere else.
LEMMA TakeBytes ==
    ASSUME IInv, NEW fd \in Connections, NEW m \in Messages, NEW from \in Nat, NEW to \in Nat,
           from <= to, NEW outcome, Take(fd, m, from, to, outcome)
    PROVE  /\ \A g \in Connections \ {fd} : stream'[g] = stream[g]
           /\ FirstBytes(m, stream[fd], from) => FirstBytes(m, stream'[fd], to)
           /\ \A x : x # m => Written(x, stream'[fd]) = Written(x, stream[fd])
<1>1. /\ DOMAIN stream = DOMAIN peer /\ fd \in DOMAIN stream /\ Connections \subseteq DOMAIN stream
      /\ stream[fd] \in Seq(Messages \X Nat)
  BY DEF IInv, Core, Structure, KernelOK, AccountsOK
<1>2. stream' = [stream EXCEPT ![fd] = stream[fd] \o Bytes(m, from, to)]
  BY DEF Take
<1> DEFINE t == stream[fd] \o Bytes(m, from, to)
<1>3. /\ FirstBytes(m, stream[fd], from) => FirstBytes(m, t, to)
      /\ \A x : x # m => Written(x, t) = Written(x, stream[fd])
  BY <1>1, AppendBytes
<1>4. stream'[fd] = t /\ \A g \in Connections \ {fd} : stream'[g] = stream[g]
  BY <1>1, <1>2
<1> HIDE DEF t
<1> QED
  BY <1>3, <1>4

\* Bytes of a message bound for a connection are written on it, and what its queue
\* has afterwards was bound for it before.
LEMMA TakeDirected ==
    ASSUME IInv, Directed, NEW fd \in Connections, NEW m \in Messages, Bound(m, fd),
           NEW from \in Nat, NEW to \in Nat, from <= to, NEW outcome,
           Take(fd, m, from, to, outcome), UNCHANGED connecting,
           Connections' = Connections, \A g \in Connections : Leads(g)' = Leads(g),
           \A g \in Connections \ {fd} : Pending(g)' = Pending(g),
           \A x \in Messages \ {m} : \A j \in Nat : QueuedAt(x, fd, j)' => \E i \in Nat : QueuedAt(x, fd, i),
           \A x : ~Writing(x)'
    PROVE  Directed'
<1>1. /\ \A g \in Connections \ {fd} : stream'[g] = stream[g]
      /\ \A x : x # m => Written(x, stream'[fd]) = Written(x, stream[fd])
  BY TakeBytes
<1>2. fd \notin DOMAIN connecting
  BY DEF IInv, Core, Structure, AccountsOK
<1> SUFFICES ASSUME NEW x \in Messages, NEW g \in Fds, Bound(x, g)' PROVE Leads(g)' = To[x]
  BY DEF Directed
<1>3. CASE g = fd
  <2>1. CASE x = m
    BY <1>3, <2>1 DEF Directed
  <2>2. CASE x # m
    <3>1. Written(x, stream[fd])' = Written(x, stream[fd])
      BY <1>1, <2>2 DEF Written
    <3>2. Bound(x, fd)
      BY <1>2, <1>3, <2>2, <3>1 DEF Bound
    <3> QED
      BY <1>3, <3>2 DEF Directed
  <2> QED
    BY <2>1, <2>2
<1>4. CASE g # fd
  <2>1. \A i : QueuedAt(x, g, i)' => QueuedAt(x, g, i)
    BY <1>4 DEF QueuedAt
  <2>2. Bound(x, g)
    BY <1>1, <1>4, <2>1 DEF Bound, Written
  <2>3. CASE g \in Connections
    BY <2>2, <2>3 DEF Directed
  <2>4. CASE g \notin Connections
    BY <2>2, <2>4 DEF Directed, Leads
  <2> QED
    BY <2>3, <2>4
<1> QED
  BY <1>3, <1>4

\* The queue of a connection changes, and what the connection leads to does not.
LEMMA QueueLeads ==
    ASSUME IInv, NEW fd \in Connections, NEW q,
           m_connection_details' = [m_connection_details EXCEPT ![fd].pending_messages = q]
    PROVE  /\ Connections' = Connections /\ Pending(fd)' = q
           /\ \A g \in Connections \ {fd} : Pending(g)' = Pending(g)
           /\ \A g \in Connections : Leads(g)' = Leads(g)
<1>1. m_connection_details \in [Connections -> Details]
  BY DEF IInv, Core, Structure, ConnectionsOK
<1> QED
  BY <1>1 DEF Pending, Connections, Details, Leads

\* write_all() writes on the connection its message is bound for.
LEMMA WriteAllDirected ==
    ASSUME IInv, Directed, BytesOK, write_all
    PROVE  /\ Directed'
           /\ \A m \in Messages : result[m] # "SENT" /\ result'[m] = "SENT" =>
                  \E fd \in Connections : FirstBytes(m, stream'[fd], Size[m])
<1>a. PICK fd \in Connections, m \in Messages : job = <<"write", fd, m>>
  BY JobCases DEF IInv, Core, write_all
<1>b. /\ job[2] = fd /\ job[3] = m /\ Writing(m) /\ (\A x : ~Writing(x)') /\ fd \in Fds
      /\ UNCHANGED connecting /\ Bound(m, fd)
  BY <1>a DEF write_all, Writing, Idle, Bound, IInv, Core, Structure, ConnectionsOK
<1>c. \A value : Resume(m, value) =>
          result'[m] = value /\ \A x \in Messages \ {m} : result'[x] = result[x]
  BY DEF Resume, IInv, LoopOK
<1>e. Size[m] \in Nat /\ 0 \in Nat /\ FirstBytes(m, stream[fd], 0)
  BY <1>b, SizeAssumption DEF BytesOK, Fresh
<1> DEFINE Sent == \A x \in Messages : result[x] # "SENT" /\ result'[x] = "SENT" =>
                       \E g \in Connections : FirstBytes(x, stream'[g], Size[x])
<1>1. ASSUME NEW to \in 0 .. Size[m], Write(fd, m, 0, to, "written"), Take(fd, m, 0, to, "written"),
             Resume(m, "SENT"), UNCHANGED connections
      PROVE  Directed' /\ Sent
  <2>1. to = Size[m] /\ to \in Nat /\ 0 <= to
    BY <1>1, <1>e DEF Write
  <2>2. /\ Connections' = Connections /\ \A g : Pending(g)' = Pending(g)
        /\ \A g \in Connections : Leads(g)' = Leads(g)
    BY <1>1 DEF Connections, Pending, Leads, connections
  <2>3. \A x, i : QueuedAt(x, fd, i)' => QueuedAt(x, fd, i)
    BY <2>2 DEF QueuedAt
  <2>4. Directed'
    BY <1>1, <1>b, <1>e, <2>1, <2>2, <2>3, TakeDirected
  <2>5. FirstBytes(m, stream'[fd], Size[m])
    BY <1>1, <1>e, <2>1, TakeBytes
  <2>6. Sent
    BY <1>1, <1>c, <2>5
  <2> QED
    BY <2>4, <2>6
<1>2. ASSUME NEW to \in 0 .. Size[m], Take(fd, m, 0, to, "again"), Enqueue(fd, m, to), UNCHANGED result
      PROVE  Directed' /\ Sent
  <2> DEFINE p == Pending(fd)
             e == [message |-> m, bytes_already_written |-> to]
             q == Append(p, e)
  <2>1. to \in Nat /\ 0 <= to
    BY <1>e
  <2>2. e \in Entries /\ e.message = m
    BY <2>1 DEF Entries
  <2>3. p \in Seq(Entries) /\ Len(p) \in Nat
    BY QueueLength
  <2>4. /\ Connections' = Connections /\ Pending(fd)' = q
        /\ \A g \in Connections \ {fd} : Pending(g)' = Pending(g)
        /\ \A g \in Connections : Leads(g)' = Leads(g)
    <3>1. m_connection_details' = [m_connection_details EXCEPT ![fd].pending_messages = q]
      BY <1>2 DEF Enqueue, Pending
    <3> HIDE DEF q
    <3> QED
      BY <3>1, QueueLeads
  <2> HIDE DEF p, e
  <2>5. Len(q) = Len(p) + 1 /\ q[Len(p) + 1] = e /\ \A i \in 1 .. Len(p) : q[i] = p[i]
    BY <2>2, <2>3
  <2> HIDE DEF q
  <2>6. ASSUME NEW x \in Messages \ {m}, NEW j \in Nat, QueuedAt(x, fd, j)' PROVE QueuedAt(x, fd, j)
    <3>1. j \in 1 .. Len(q) /\ q[j].message = x
      BY <2>4, <2>6 DEF QueuedAt
    <3>2. j # Len(p) + 1
      BY <2>2, <2>5, <3>1
    <3>3. j \in 1 .. Len(p) /\ p[j].message = x
      BY <2>3, <2>5, <3>1, <3>2
    <3> QED
      BY <3>3 DEF QueuedAt, p
  <2>7. \A x \in Messages \ {m} : \A j \in Nat : QueuedAt(x, fd, j)' => \E i \in Nat : QueuedAt(x, fd, i)
    BY <2>6
  <2>8. Directed'
    BY <1>2, <1>b, <1>e, <2>1, <2>4, <2>7, TakeDirected
  <2> QED
    BY <1>2, <2>8
<1>3. ASSUME evict_connection(fd), Resume(m, "EPHEMERAL_SOCKET_DEAD") PROVE Directed' /\ Sent
  <2>1. Directed'
    BY <1>3, <1>b, EvictDirected
  <2>2. Sent
    BY <1>3, <1>c
  <2> QED
    BY <2>1, <2>2
<1> QED
  BY <1>b, <1>1, <1>2, <1>3 DEF write_all

\* retry_messages() writes the front of a queue on the connection it was queued for.
LEMMA RetryDirected ==
    ASSUME IInv, Directed, BytesOK, retry_messages
    PROVE  /\ Directed'
           /\ \A m \in Messages : result[m] # "SENT" /\ result'[m] = "SENT" =>
                  \E fd \in Connections : FirstBytes(m, stream'[fd], Size[m])
<1>a. PICK fd \in Connections : job = <<"retry", fd>> /\ Pending(fd) # <<>>
  BY JobCases DEF IInv, Core, retry_messages
<1> DEFINE q == Pending(fd)
           k == Len(q)
<1> PICK m, from : m = Head(q).message /\ from = Head(q).bytes_already_written
  OBVIOUS
<1>b. /\ q \in Seq(Entries) /\ k \in Nat /\ k >= 1 /\ Head(q) = q[1]
      /\ m \in Messages /\ from \in Nat /\ from < Size[m] /\ Size[m] \in Nat
      /\ QueuedAt(m, fd, 1) /\ result[m] = "waiting"
  BY <1>a, FrontOfQueue, SizeAssumption DEF IInv
<1>c. /\ job[2] = fd /\ fd \in Fds /\ (\A x : ~Writing(x)) /\ UNCHANGED connecting
      /\ Bound(m, fd)
  BY <1>a, <1>b DEF Writing, Bound, IInv, Core, Structure, ConnectionsOK, retry_messages
<1>d. \A value : Resume(m, value) =>
          result'[m] = value /\ \A x \in Messages \ {m} : result'[x] = result[x]
  BY <1>b DEF Resume, IInv, LoopOK
<1>e. FirstBytes(m, stream[fd], from)
  <2>1. \A i \in Nat : QueuedAt(m, fd, i) => i = 1
    BY <1>b, <1>c DEF IInv, Core, WaitersOK
  <2>2. InOrder(m, fd)
    BY <1>b DEF BytesOK
  <2> QED
    BY <1>b, <2>1, <2>2 DEF InOrder
<1>g. job' = Idle \/ job' = job => \A x : ~Writing(x)'
  BY <1>c DEF Writing, Idle
<1> DEFINE Sent == \A x \in Messages : result[x] # "SENT" /\ result'[x] = "SENT" =>
                       \E g \in Connections : FirstBytes(x, stream'[g], Size[x])
<1>1. ASSUME NEW to \in from .. Size[m], Write(fd, m, from, to, "written"),
             Take(fd, m, from, to, "written"), Resume(m, "SENT"), Pop(fd),
             job' = Idle \/ job' = job
      PROVE  Directed' /\ Sent
  <2> DEFINE t == Tail(q)
  <2>1. to \in Nat /\ from <= to /\ to = Size[m]
    BY <1>1, <1>b DEF Write
  <2>2. /\ t \in Seq(Entries) /\ Len(t) = k - 1
        /\ \A i \in 1 .. k - 1 : t[i] = q[i + 1] /\ i + 1 \in 1 .. k
    BY <1>a, <1>b
  <2>3. /\ Connections' = Connections /\ Pending(fd)' = t
        /\ \A g \in Connections \ {fd} : Pending(g)' = Pending(g)
        /\ \A g \in Connections : Leads(g)' = Leads(g)
    <3>1. m_connection_details' = [m_connection_details EXCEPT ![fd].pending_messages = t]
      BY <1>1 DEF Pop, Pending
    <3> HIDE DEF t
    <3> QED
      BY <3>1, QueueLeads
  <2> HIDE DEF t
  <2>4. ASSUME NEW x \in Messages \ {m}, NEW j \in Nat, QueuedAt(x, fd, j)'
        PROVE  \E i \in Nat : QueuedAt(x, fd, i)
    <3>1. j \in 1 .. k - 1 /\ t[j].message = x
      BY <2>2, <2>3, <2>4 DEF QueuedAt
    <3>2. PICK i \in Nat : i = j + 1 /\ i \in 1 .. k /\ t[j] = q[i]
      BY <2>2, <3>1
    <3>3. QueuedAt(x, fd, i)
      BY <3>1, <3>2 DEF QueuedAt
    <3> QED
      BY <3>3
  <2>5. \A x \in Messages \ {m} : \A j \in Nat : QueuedAt(x, fd, j)' => \E i \in Nat : QueuedAt(x, fd, i)
    BY <2>4
  <2> HIDE DEF q, k
  <2>6. Directed'
    BY <1>1, <1>b, <1>c, <1>g, <2>1, <2>3, <2>5, TakeDirected
  <2>7. FirstBytes(m, stream'[fd], Size[m])
    BY <1>1, <1>b, <1>e, <2>1, TakeBytes
  <2>8. Sent
    BY <1>1, <1>d, <2>7
  <2> QED
    BY <2>6, <2>8
<1>2. ASSUME NEW to \in from .. Size[m], Take(fd, m, from, to, "again"),
             Progress(fd, to), job' = Idle, UNCHANGED result
      PROVE  Directed' /\ Sent
  <2> DEFINE e == [q[1] EXCEPT !.bytes_already_written = to]
             t == [q EXCEPT ![1] = e]
  <2>1. to \in Nat /\ from <= to
    BY <1>b
  <2>2. q[1] \in Entries /\ q[1].message = m /\ 1 \in 1 .. k
    BY <1>b
  <2>3. e.message = m
    BY <2>2 DEF Entries
  <2>4. /\ Connections' = Connections /\ Pending(fd)' = t
        /\ \A g \in Connections \ {fd} : Pending(g)' = Pending(g)
        /\ \A g \in Connections : Leads(g)' = Leads(g)
    <3>1. m_connection_details' = [m_connection_details EXCEPT ![fd].pending_messages = t]
      BY <1>2 DEF Progress, Pending
    <3> HIDE DEF t
    <3> QED
      BY <3>1, QueueLeads
  <2> HIDE DEF e
  <2>5. Len(t) = k /\ t[1] = e /\ \A i \in 1 .. k : i # 1 => t[i] = q[i]
    BY <1>b, <2>2
  <2> HIDE DEF t
  <2>6. ASSUME NEW x \in Messages \ {m}, NEW j \in Nat, QueuedAt(x, fd, j)' PROVE QueuedAt(x, fd, j)
    <3>1. j \in 1 .. k /\ t[j].message = x
      BY <2>4, <2>5, <2>6 DEF QueuedAt
    <3>2. t[j] = q[j]
      BY <2>3, <2>5, <3>1
    <3> QED
      BY <3>1, <3>2 DEF QueuedAt
  <2>7. \A x \in Messages \ {m} : \A j \in Nat : QueuedAt(x, fd, j)' => \E i \in Nat : QueuedAt(x, fd, i)
    BY <2>6
  <2> HIDE DEF q, k
  <2>8. Directed'
    BY <1>2, <1>b, <1>c, <1>g, <2>1, <2>4, <2>7, TakeDirected
  <2> QED
    BY <1>2, <2>8
<1>3. ASSUME Resume(m, "EPHEMERAL_SOCKET_DEAD"), RetryFails(fd), job' = Idle PROVE Directed' /\ Sent
  <2>1. Directed'
    BY <1>3, <1>c, <1>g, EvictDirected DEF RetryFails
  <2>2. Sent
    BY <1>3, <1>d
  <2> QED
    BY <2>1, <2>2
<1> QED
  BY <1>c, <1>1, <1>2, <1>3 DEF retry_messages

\* Every step keeps messages at the descriptors they are bound for, and says SENT only
\* of one that is written.
LEMMA NextDirected ==
    ASSUME IInv, Directed, BytesOK, [Next]_vars
    PROVE  /\ Directed'
           /\ \A m \in Messages : result[m] # "SENT" /\ result'[m] = "SENT" =>
                  \E fd \in Connections : FirstBytes(m, stream'[fd], Size[m])
<1> DEFINE Sent == \A m \in Messages : result[m] # "SENT" /\ result'[m] = "SENT" =>
                       \E fd \in Connections : FirstBytes(m, stream'[fd], Size[m])
<1>1. ASSUME UNCHANGED <<connections, connecting, job, stream, result>> PROVE Directed' /\ Sent
  BY <1>1, QuietDirected
<1>2. CASE Poll \/ NextPhase \/ ListeningFails \/ UNCHANGED vars
  BY <1>1, <1>2 DEF Poll, NextPhase, ListeningFails, vars, kernel
<1>3. ASSUME NEW fd \in Fds, ConnectDecided(fd) \/ PeerVanishes(fd) \/ PeerReads(fd) PROVE Directed' /\ Sent
  BY <1>1, <1>3 DEF ConnectDecided, PeerVanishes, PeerReads
<1>4. ASSUME NEW fd \in Fds, receive_messages(fd) PROVE Directed' /\ Sent
  <2>1. UNCHANGED <<connecting, job, result>> /\ job = Idle /\ \A x : ~Writing(x)'
    BY <1>4 DEF receive_messages, Receiving, Writing, Idle
  <2>2. CASE UNCHANGED <<connections, watches, kernel>>
    BY <1>1, <2>1, <2>2 DEF kernel
  <2>3. CASE fd \in readable /\ evict_connection(fd)
    <3>1. fd \in Connections
      BY <2>3 DEF IInv, Core, Structure, AccountsOK
    <3> QED
      BY <2>1, <2>3, <3>1, EvictDirected
  <2> QED
    BY <1>4, <2>2, <2>3 DEF receive_messages
<1>5. ASSUME NEW fd \in Fds, Writeable(fd) PROVE Directed' /\ Sent
  <2>1. Sent
    BY <1>5 DEF Writeable, ConnectDone, Resume, IInv, LoopOK
  <2> QED
    BY <1>5, <2>1, WriteableDirected
<1>6. ASSUME NEW endpoint \in Clients, NEW fd \in Fds, accept_connections(endpoint, fd)
      PROVE  Directed' /\ Sent
  <2>1. /\ Open(fd, "up") /\ AddConnection(endpoint, fd) /\ endpoint \in Endpoints
        /\ UNCHANGED <<connecting, writeable, job, result>> /\ \A x : ~Writing(x)'
    BY <1>6 DEF accept_connections, Receiving, Endpoints, Writing, Idle
  <2>2. Directed'
    BY <2>1, OpenDirected
  <2> QED
    BY <2>1, <2>2
<1>7. ASSUME NEW m \in Messages, send_to(m) PROVE Directed' /\ Sent
  <2>1. Sent
    BY <1>7 DEF send_to, Reuse, Connect, Resume, IInv, LoopOK
  <2> QED
    BY <1>7, <2>1, SendDirected
<1> QED
  BY <1>2, <1>3, <1>4, <1>5, <1>6, <1>7, WriteAllDirected, RetryDirected DEF Next, Worker

\* A coroutine of send_to() that is told SENT has all its bytes, in their order, in the
\* stream of a connection, and the bytes of a message are only in streams that lead
\* to its endpoint, whichever descriptors are used again (tcpsocket.cpp:107-195,
\* 239-268, 414-496).
THEOREM Sent == Spec => SentAsAddressed
<1> DEFINE SentStep == \A m \in Messages : result[m] # "SENT" /\ result'[m] = "SENT" =>
                           \E fd \in Connections : FirstBytes(m, stream'[fd], Size[m])
<1>1. Init => Directed /\ BytesOK
  <2> SUFFICES ASSUME Init PROVE Directed /\ BytesOK
    OBVIOUS
  <2>1. Connections = {} /\ DOMAIN connecting = {} /\ \A m : ~Writing(m)
    BY DEF Init, Connections, Writing, Idle
  <2> QED
    BY <2>1 DEF BytesOK, Directed, Bound, QueuedAt
<1>2. IInv /\ Directed => NothingMisdirected
  BY DirectedBytes
<1>3. IInv /\ Directed /\ BytesOK /\ [Next]_vars => Directed' /\ [SentStep]_vars
  BY NextDirected
<1> QED
  BY <1>1, <1>2, <1>3, NextBytes, Invariance, PTL DEF Spec, SentAsAddressed
=============================================================================
