------------------------------ MODULE Reassembly ------------------------------
(***************************************************************************)
(* runtime_stub_t::handle_on_receive_reliable(): messages are put together *)
(* again from the chunks in which one remote endpoint's bytes arrive.      *)
(*                                                                         *)
(* Bytes are counted in words of four: word 1 of a message is its id, word *)
(* 2 its length, and the length counts the others.  A chunk that ends      *)
(* within a word makes no difference: nothing is done with a word before   *)
(* it is complete, and messages are taken to end with a word.              *)
(*                                                                         *)
(* The assembly line belongs to the endpoint and outlives its connections. *)
(***************************************************************************)
EXTENDS Integers, Sequences

CONSTANTS
    MaxLength,  \* bound on what a length field says
    MaxSent,    \* bound on the messages that are sent
    MaxChunk    \* words a recv() takes at most (350)

ASSUME LengthAssumption == MaxLength \in Nat /\ MaxLength >= 2
ASSUME SentAssumption == MaxSent \in Nat
ASSUME ChunkAssumption == MaxChunk \in Nat \ {0}

VARIABLES
    sent,           \* the length fields of the messages sent so far
    stream,         \* the words on their way
    data, declared_payload_size,    \* the endpoint's m_tcp_package_assembly
    forwarded,      \* what forward() was called with
    torn            \* did a connection end within a message?

assembly_line == <<data, declared_payload_size>>
vars == <<sent, stream, assembly_line, forwarded, torn>>

\* Half of a SOME/IP header is counted by its own length field.
Lengths == 2 .. MaxLength
Words == [message : DOMAIN sent, word : 1 .. MaxLength + 2]

\* The words of the i-th message.
Message(i, length) == [k \in 1 .. length + 2 |-> [message |-> i, word |-> k]]

Init ==
    /\ sent = <<>> /\ stream = <<>>
    /\ data = <<>> /\ declared_payload_size = 0
    /\ forwarded = <<>>
    /\ torn = FALSE

Send(length) ==
    /\ Len(sent) < MaxSent
    /\ sent' = Append(sent, length)
    /\ stream' = stream \o Message(Len(sent) + 1, length)
    /\ UNCHANGED <<assembly_line, forwarded, torn>>

EndsWithinMessage(words) ==
    words # <<>> /\ LET last == words[Len(words)] IN last.word < sent[last.message] + 2

\* The connection is lost with what is on its way; the endpoint's next one
\* begins with a whole message.
Disconnect ==
    /\ stream # <<>>
    /\ stream' = <<>>
    /\ torn' = (torn \/ EndsWithinMessage(data))
    /\ UNCHANGED <<sent, assembly_line, forwarded>>

-----------------------------------------------------------------------------
(* handle_on_receive_reliable(), with the line's data and what has arrived.*)

\* What a word says when it is read as a length: a number of any size, if it is
\* something else.
AsLength(w) == IF w.word = 2 THEN {sent[w.message]} ELSE 0 .. MaxLength + 1

\* mutant: the length is read from every chunk
DeclaredFromChunk(words) ==
    IF Len(words) - Len(data) < 2 THEN {declared_payload_size} ELSE AsLength(words[Len(data) + 2])

Declared(words) ==
    IF declared_payload_size = 0 THEN AsLength(words[2]) ELSE {declared_payload_size}

Incomplete(words, length) ==
    /\ Len(words) < length + 2
    /\ data' = words /\ declared_payload_size' = length
    /\ UNCHANGED forwarded

\* mutant: declared_payload_size is left as it is
ForwardFrontKeepsLength(words, length) ==
    /\ Len(words) >= length + 2
    /\ forwarded' = Append(forwarded, SubSeq(words, 1, length + 2))
    /\ data' = SubSeq(words, length + 3, Len(words)) /\ declared_payload_size' = length

\* "message assembled": one, however many there are.
ForwardFront(words, length) ==
    /\ Len(words) >= length + 2
    /\ forwarded' = Append(forwarded, SubSeq(words, 1, length + 2))
    /\ data' = SubSeq(words, length + 3, Len(words)) /\ declared_payload_size' = 0

Receive(n) ==
    /\ n <= Len(stream)
    /\ stream' = SubSeq(stream, n + 1, Len(stream))
    /\ LET words == data \o SubSeq(stream, 1, n)
       IN  IF Len(words) < 2
           THEN data' = words /\ UNCHANGED <<declared_payload_size, forwarded>>
           ELSE \E length \in Declared(words) :
                    Incomplete(words, length) \/ ForwardFront(words, length)
    /\ UNCHANGED <<sent, torn>>

Next ==
    \/ \E length \in Lengths : Send(length)
    \/ \E n \in 1 .. MaxChunk : Receive(n)
    \/ Disconnect

Spec == Init /\ [][Next]_vars

-----------------------------------------------------------------------------
TypeOK ==
    /\ sent \in Seq(Lengths) /\ Len(sent) <= MaxSent
    /\ stream \in Seq(Words)
    /\ data \in Seq(Words)
    /\ declared_payload_size \in 0 .. MaxLength + 1
    /\ forwarded \in Seq(Seq(Words))
    /\ torn \in BOOLEAN

\* Whatever the chunks, what is forwarded is messages as they were sent and in
\* the order they were sent in, as long as no connection ends within one (its
\* part stays in the line and shifts everything after it).
ForwardedAsSent ==
    ~torn =>
        /\ \A i \in DOMAIN forwarded : \E m \in DOMAIN sent : forwarded[i] = Message(m, sent[m])
        /\ \A i, j \in DOMAIN forwarded : i < j => forwarded[i][1].message < forwarded[j][1].message

Line == data \o stream

Channel == INSTANCE MessageChannel WITH
    Messages <- UNION {{Message(i, length) : length \in Lengths} : i \in 1 .. MaxSent},
    sent <- [i \in DOMAIN sent |-> Message(i, sent[i])],
    underway <- {Line[k].message : k \in DOMAIN Line},
    delivered <- forwarded,
    intact <- ~torn

\* handle_on_receive_reliable() hides the chunks: forward() is called with each
\* message once, whole and in order, only the last ones before a disconnect are
\* missing, and nothing but a connection lost with a part of a message in the
\* line ends that.
ImplementsChannel == Channel!Spec

IsComplete(words) == words # <<>> /\ Len(words) >= sent[words[1].message] + 2

\* A message that is complete, because it came in one chunk with others, waits
\* for the next chunk of its endpoint and not longer.
WaitsForNextChunk ==
    [][ ~torn /\ IsComplete(data) /\ data' # data =>
            forwarded' = Append(forwarded, Message(data[1].message, sent[data[1].message])) ]_vars
=============================================================================
