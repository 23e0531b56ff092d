---------------------------- MODULE ProtocolProofs ----------------------------
(***************************************************************************)
(* Proofs about two layers of the protocol.                                *)
(*                                                                         *)
(* Reassembly, for any lengths, any number of messages and any chunks: the *)
(* line of a connection is what lies in the buffer and what is on its way  *)
(* to it, one after the other.  However it is cut, it consists of whole    *)
(* messages with increasing numbers, and the buffer begins with the first  *)
(* of them: that is what the invariant says, word by word.                 *)
(*                                                                         *)
(* Serialization, for any types, values and numbers of arguments: a type   *)
(* is sound for some values if each of them is written to as many bytes    *)
(* as are measured, and read back wherever these bytes lie in an input.    *)
(* Integers and strings are sound for what fits them and their length      *)
(* fields, arrays and structs of sound types are sound, and so are the     *)
(* samples.                                                                *)
(***************************************************************************)
EXTENDS MCProtocol, SequenceTheorems, WellFoundedInduction, TLAPS

\* Around each word lies its message, all of it.
Framed(W, lengths) ==
    \A k \in 1 .. Len(W) :
        /\ W[k].message \in 1 .. Len(lengths)
        /\ W[k].word \in 1 .. lengths[W[k].message] + 2
        /\ k - W[k].word >= 0
        /\ k - W[k].word + lengths[W[k].message] + 2 <= Len(W)
        /\ \A p \in 1 .. lengths[W[k].message] + 2 :
               W[k - W[k].word + p] = [message |-> W[k].message, word |-> p]

\* Each message comes once, and a later one later.
Ordered(W) ==
    \A k, l \in 1 .. Len(W) : k < l =>
        \/ W[k].message < W[l].message
        \/ W[k].message = W[l].message /\ W[l].word = W[k].word + (l - k)

\* A length that has been read is that of the message the buffer begins with.
DeclaredIsFronts ==
    declared_payload_size # 0 =>
        /\ Len(data) >= 2
        /\ declared_payload_size = sent[data[1].message]

ForwardedBefore ==
    \A i \in DOMAIN forwarded, k \in 1 .. Len(Line) : forwarded[i][1].message < Line[k].message

LineInv == ~torn => Framed(Line, sent) /\ Ordered(Line) /\ DeclaredIsFronts /\ ForwardedBefore

IInv == TypeOK /\ LineInv /\ ForwardedAsSent

-----------------------------------------------------------------------------
\* The words of a message, by number.
LEMMA MessageType ==
    ASSUME NEW S, NEW i \in S, NEW length \in Lengths
    PROVE  /\ Message(i, length) \in Seq([message : S, word : 1 .. MaxLength + 2])
           /\ Len(Message(i, length)) = length + 2
           /\ \A k \in 1 .. length + 2 : Message(i, length)[k] = [message |-> i, word |-> k]
<1>1. length + 2 \in Nat /\ length \in Nat /\ length <= MaxLength
    BY LengthAssumption DEF Lengths
<1>2. \A k \in 1 .. length + 2 : [message |-> i, word |-> k] \in [message : S, word : 1 .. MaxLength + 2]
    BY <1>1, LengthAssumption
<1> QED BY <1>1, <1>2 DEF Message

\* What a chunk of the stream makes of the line.
LEMMA Chunk ==
    ASSUME TypeOK, NEW n \in 1 .. MaxChunk, n <= Len(stream)
    PROVE  LET words == data \o SubSeq(stream, 1, n)
               rest == SubSeq(stream, n + 1, Len(stream))
           IN  /\ words \in Seq(Words) /\ rest \in Seq(Words)
               /\ Len(words) = Len(data) + n
               /\ words \o rest = Line
               /\ Line \in Seq(Words)
               /\ Len(Line) = Len(data) + Len(stream)
               /\ \A k \in 1 .. Len(words) : words[k] = Line[k]
               /\ \A k \in 1 .. Len(data) : data[k] = words[k]
<1> DEFINE chunk == SubSeq(stream, 1, n)
           rest == SubSeq(stream, n + 1, Len(stream))
           words == data \o chunk
<1>1. stream \in Seq(Words) /\ data \in Seq(Words) /\ n \in Nat \ {0}
    BY ChunkAssumption DEF TypeOK
<1>2. Len(stream) \in Nat /\ Len(data) \in Nat /\ \A i \in 1 .. Len(stream) : stream[i] \in Words
    BY <1>1, LenProperties, ElementOfSeq
<1>3. /\ chunk \in Seq(Words) /\ Len(chunk) = n
      /\ \A i \in 1 .. n : chunk[i] = stream[i]
  <2>1. \A i \in 1 .. n : stream[i] \in Words
      BY <1>1, <1>2
  <2>2. /\ chunk \in Seq(Words)
        /\ Len(chunk) = IF 1 <= n THEN n - 1 + 1 ELSE 0
        /\ \A i \in 1 .. n - 1 + 1 : chunk[i] = stream[1 + i - 1]
      BY <1>1, <2>1, SubSeqProperties
  <2> QED BY <1>1, <2>2
<1>4. /\ rest \in Seq(Words) /\ Len(rest) = Len(stream) - n
      /\ \A i \in 1 .. Len(stream) - n : rest[i] = stream[n + i]
  <2>1. \A i \in n + 1 .. Len(stream) : stream[i] \in Words
      BY <1>1, <1>2
  <2>2. /\ rest \in Seq(Words)
        /\ Len(rest) = IF n + 1 <= Len(stream) THEN Len(stream) - (n + 1) + 1 ELSE 0
        /\ \A i \in 1 .. Len(stream) - (n + 1) + 1 : rest[i] = stream[(n + 1) + i - 1]
      BY <1>1, <1>2, <2>1, SubSeqProperties
  <2> QED BY <1>1, <1>2, <2>2
<1>5. /\ words \in Seq(Words) /\ Len(words) = Len(data) + n
      /\ \A i \in 1 .. Len(data) + n : words[i] = IF i <= Len(data) THEN data[i] ELSE stream[i - Len(data)]
    BY <1>1, <1>2, <1>3, ConcatProperties
<1>6. /\ Line \in Seq(Words) /\ Len(Line) = Len(data) + Len(stream)
      /\ \A i \in 1 .. Len(data) + Len(stream) :
             Line[i] = IF i <= Len(data) THEN data[i] ELSE stream[i - Len(data)]
    BY <1>1, ConcatProperties DEF Line
<1>7. /\ words \o rest \in Seq(Words) /\ Len(words \o rest) = Len(Line)
      /\ \A i \in 1 .. Len(Line) : (words \o rest)[i] = IF i <= Len(words) THEN words[i] ELSE rest[i - Len(words)]
  <2>0. words \in Seq(Words) /\ rest \in Seq(Words)
      BY <1>4, <1>5
  <2> HIDE DEF words, rest, chunk
  <2>1. /\ words \o rest \in Seq(Words) /\ Len(words \o rest) = Len(words) + Len(rest)
        /\ \A i \in 1 .. Len(words) + Len(rest) :
               (words \o rest)[i] = IF i <= Len(words) THEN words[i] ELSE rest[i - Len(words)]
      BY <2>0, ConcatProperties
  <2>2. Len(words) + Len(rest) = Len(Line)
      BY <1>1, <1>2, <1>4, <1>5, <1>6
  <2> QED BY <2>1, <2>2
<1>8. \A i \in 1 .. Len(Line) : (words \o rest)[i] = Line[i]
  <2> SUFFICES ASSUME NEW i \in 1 .. Len(Line) PROVE (words \o rest)[i] = Line[i]
      OBVIOUS
  <2> HIDE DEF words, rest, chunk
  <2>0. i \in Nat /\ i \in 1 .. Len(data) + Len(stream) /\ n \in Nat
      BY <1>1, <1>2, <1>6
  <2>1. CASE i <= Len(words)
    <3>1. i \in 1 .. Len(data) + n
        BY <1>1, <1>2, <1>5, <2>0, <2>1
    <3>2. (words \o rest)[i] = IF i <= Len(data) THEN data[i] ELSE stream[i - Len(data)]
        BY <1>5, <1>7, <2>1, <3>1
    <3> QED BY <1>6, <2>0, <3>2
  <2>2. CASE ~(i <= Len(words))
    <3>1. /\ i - Len(words) \in 1 .. Len(stream) - n /\ ~(i <= Len(data))
          /\ n + (i - Len(words)) = i - Len(data)
        BY <1>1, <1>2, <1>5, <2>0, <2>2
    <3>2. (words \o rest)[i] = rest[i - Len(words)]
        BY <1>7, <2>2
    <3>3. rest[i - Len(words)] = stream[i - Len(data)]
        BY <1>4, <3>1
    <3> QED BY <1>6, <2>0, <3>1, <3>2, <3>3
  <2> QED BY <2>1, <2>2
<1>9. words \o rest = Line
    BY <1>6, <1>7, <1>8, SeqEqual
<1>10. /\ \A k \in 1 .. Len(words) : words[k] = Line[k]
       /\ \A k \in 1 .. Len(data) : data[k] = words[k]
    BY <1>1, <1>2, <1>5, <1>6
<1> QED BY <1>4, <1>5, <1>6, <1>9, <1>10
\* What is cut from the front of the buffer.
LEMMA Cut ==
    ASSUME NEW W \in Seq(Words), NEW L \in Nat, L <= Len(W)
    PROVE  /\ SubSeq(W, 1, L) \in Seq(Words) /\ Len(SubSeq(W, 1, L)) = L
           /\ \A k \in 1 .. L : SubSeq(W, 1, L)[k] = W[k]
           /\ SubSeq(W, L + 1, Len(W)) \in Seq(Words)
           /\ Len(SubSeq(W, L + 1, Len(W))) = Len(W) - L
           /\ \A k \in 1 .. Len(W) - L : SubSeq(W, L + 1, Len(W))[k] = W[L + k]
<1>0. Len(W) \in Nat /\ \A i \in 1 .. Len(W) : W[i] \in Words
    BY LenProperties, ElementOfSeq
<1>1. /\ SubSeq(W, 1, L) \in Seq(Words)
      /\ Len(SubSeq(W, 1, L)) = IF 1 <= L THEN L - 1 + 1 ELSE 0
      /\ \A k \in 1 .. L - 1 + 1 : SubSeq(W, 1, L)[k] = W[1 + k - 1]
  <2>1. \A i \in 1 .. L : W[i] \in Words
      BY <1>0
  <2> QED BY <2>1, SubSeqProperties
<1>2. /\ SubSeq(W, L + 1, Len(W)) \in Seq(Words)
      /\ Len(SubSeq(W, L + 1, Len(W))) = IF L + 1 <= Len(W) THEN Len(W) - (L + 1) + 1 ELSE 0
      /\ \A k \in 1 .. Len(W) - (L + 1) + 1 : SubSeq(W, L + 1, Len(W))[k] = W[(L + 1) + k - 1]
  <2>1. \A i \in L + 1 .. Len(W) : W[i] \in Words
      BY <1>0
  <2> QED BY <1>0, <2>1, SubSeqProperties
<1> QED BY <1>0, <1>1, <1>2

\* What reading a chunk leads to.
Stored(words) ==
    data' = words /\ UNCHANGED <<declared_payload_size, forwarded>> /\ Len(words) < 2

Decoded(words) ==
    /\ Len(words) >= 2
    /\ \E length \in Declared(words) : Incomplete(words, length) \/ ForwardFront(words, length)

\* handle_on_receive_reliable() stores a chunk or goes on to decode what it has.
LEMMA ReceiveCases ==
    ASSUME TypeOK, NEW n \in 1 .. MaxChunk, Receive(n)
    PROVE  LET words == data \o SubSeq(stream, 1, n)
           IN  Stored(words) \/ Decoded(words)
<1> DEFINE words == data \o SubSeq(stream, 1, n)
<1>1. Len(words) \in Nat
  <2>1. words \in Seq(Words)
      BY Chunk DEF Receive
  <2> QED BY <2>1, LenProperties
<1>2. CASE Len(words) < 2
    BY <1>2 DEF Receive, Stored
<1>3. CASE Len(words) >= 2
    BY <1>1, <1>3 DEF Receive, Decoded
<1> QED BY <1>1, <1>2, <1>3

\* Whatever word is read as a length, the declared length keeps its type.
LEMMA DeclaredType ==
    ASSUME TypeOK, NEW words \in Seq(Words), Len(words) >= 2, NEW length \in Declared(words)
    PROVE  length \in 0 .. MaxLength + 1
<1>1. declared_payload_size \in 0 .. MaxLength + 1
    BY DEF TypeOK
<1>2. CASE declared_payload_size # 0
    BY <1>1, <1>2 DEF Declared
<1>3. CASE declared_payload_size = 0
  <2>1. length \in AsLength(words[2])
      BY <1>3 DEF Declared
  <2>2. CASE words[2].word # 2
      BY <2>1, <2>2 DEF AsLength
  <2>3. CASE words[2].word = 2
    <3>1. words[2] \in Words
        BY ElementOfSeq
    <3>2. words[2].message \in 1 .. Len(sent)
        BY <3>1, LenProperties DEF Words, TypeOK
    <3>3. sent[words[2].message] \in Lengths
        BY <3>2, ElementOfSeq DEF TypeOK
    <3>4. length = sent[words[2].message]
        BY <2>1, <2>3 DEF AsLength
    <3> QED BY <3>3, <3>4, LengthAssumption DEF Lengths
  <2> QED BY <2>2, <2>3
<1> QED BY <1>2, <1>3

-----------------------------------------------------------------------------
\* An empty line is intact.
LEMMA InitInv == Init => IInv
<1> SUFFICES ASSUME Init PROVE IInv
    OBVIOUS
<1>1. TypeOK
  <2>1. <<>> \in Seq(Lengths) /\ <<>> \in Seq(Words) /\ <<>> \in Seq(Seq(Words)) /\ Len(<<>>) = 0
      BY EmptySeq
  <2>2. 0 <= MaxSent /\ 0 \in 0 .. MaxLength + 1
      BY SentAssumption, LengthAssumption
  <2> QED BY <2>1, <2>2 DEF Init, TypeOK
<1>2. Line = <<>> /\ Len(Line) = 0
    BY DEF Init, Line
<1>3. LineInv
    BY <1>2 DEF Init, LineInv, Framed, Ordered, DeclaredIsFronts, ForwardedBefore
<1>4. ForwardedAsSent
    BY DEF Init, ForwardedAsSent
<1> QED BY <1>1, <1>3, <1>4 DEF IInv

\* Every step keeps the types.
LEMMA TypeStep == TypeOK /\ [Next]_vars => TypeOK'
<1> SUFFICES ASSUME TypeOK, [Next]_vars PROVE TypeOK'
    OBVIOUS
<1>1. ASSUME NEW length \in Lengths, Send(length) PROVE TypeOK'
  <2> DEFINE m == Len(sent) + 1
  <2>1. /\ sent' \in Seq(Lengths) /\ Len(sent') = m /\ m <= MaxSent /\ Len(sent) \in Nat
        /\ DOMAIN sent = 1 .. Len(sent) /\ DOMAIN sent' = 1 .. m
      BY <1>1, SentAssumption DEF TypeOK, Send
  <2>2. Words \subseteq Words' /\ m \in DOMAIN sent'
      BY <2>1 DEF Words
  <2>3. Message(m, length) \in Seq(Words')
      BY <2>2, MessageType DEF Words
  <2>4. stream \in Seq(Words') /\ data \in Seq(Words') /\ forwarded \in Seq(Seq(Words'))
    <3>1. Seq(Words) \subseteq Seq(Words')
        BY <2>2, SeqMonotonic
    <3> QED BY <3>1, <2>2, SeqMonotonic DEF TypeOK
  <2>5. stream' \in Seq(Words')
      BY <1>1, <2>3, <2>4, ConcatProperties DEF Send
  <2> QED BY <1>1, <2>1, <2>4, <2>5 DEF TypeOK, Send, assembly_line
<1>2. ASSUME NEW n \in 1 .. MaxChunk, Receive(n) PROVE TypeOK'
  <2> DEFINE words == data \o SubSeq(stream, 1, n)
  <2>0. UNCHANGED <<sent, torn>> /\ Words' = Words
      BY <1>2 DEF Receive, Words
  <2>1. words \in Seq(Words) /\ stream' \in Seq(Words)
      BY <1>2, Chunk DEF Receive
  <2>2. CASE Stored(words)
      BY <2>0, <2>1, <2>2 DEF TypeOK, Stored
  <2>3. CASE Decoded(words)
    <3> HIDE DEF words
    <3>1. PICK length \in Declared(words) : Incomplete(words, length) \/ ForwardFront(words, length)
        BY <2>3 DEF Decoded
    <3>2. length \in 0 .. MaxLength + 1
        BY <2>1, <2>3, DeclaredType DEF Decoded
    <3>3. CASE Incomplete(words, length)
        BY <2>0, <2>1, <3>2, <3>3 DEF TypeOK, Incomplete
    <3>4. CASE ForwardFront(words, length)
      <4>1. /\ SubSeq(words, 1, length + 2) \in Seq(Words)
            /\ SubSeq(words, length + 3, Len(words)) \in Seq(Words)
        <5>1. length + 2 \in Nat /\ length + 2 <= Len(words) /\ length + 2 + 1 = length + 3
            BY <2>1, <3>2, <3>4, LengthAssumption, LenProperties DEF ForwardFront
        <5> QED BY <2>1, <5>1, Cut
      <4>2. forwarded' \in Seq(Seq(Words))
          BY <3>4, <4>1 DEF ForwardFront, TypeOK
      <4> QED BY <2>0, <2>1, <3>4, <4>1, <4>2, LengthAssumption DEF TypeOK, ForwardFront
    <3> QED BY <3>1, <3>3, <3>4
  <2> QED BY <1>2, <2>2, <2>3, ReceiveCases
<1>3. CASE Disconnect
  <2>1. Words' = Words /\ <<>> \in Seq(Words) /\ torn' \in BOOLEAN
      BY <1>3 DEF Disconnect, Words, TypeOK
  <2> QED BY <1>3, <2>1 DEF TypeOK, Disconnect, assembly_line
<1>4. CASE UNCHANGED vars
    BY <1>4 DEF TypeOK, vars, assembly_line, Words
<1> QED BY <1>1, <1>2, <1>3, <1>4 DEF Next

\* Type correctness: whatever a buffer that has lost its framing makes of its
\* words, every variable keeps its type.
THEOREM TypeCorrect == Spec => []TypeOK
<1>1. Init => TypeOK
    BY InitInv DEF IInv
<1> QED BY <1>1, TypeStep, PTL DEF Spec
-----------------------------------------------------------------------------
\* What is known of a word.
LEMMA WordFacts ==
    ASSUME TypeOK, NEW W \in Seq(Words), Framed(W, sent), NEW k \in 1 .. Len(W)
    PROVE  /\ W[k].message \in 1 .. Len(sent) /\ Len(sent) \in Nat /\ Len(W) \in Nat
           /\ sent[W[k].message] \in Nat /\ sent[W[k].message] >= 2
           /\ W[k].word \in 1 .. sent[W[k].message] + 2
           /\ k - W[k].word >= 0
           /\ k - W[k].word + sent[W[k].message] + 2 <= Len(W)
           /\ \A p \in 1 .. sent[W[k].message] + 2 :
                  W[k - W[k].word + p] = [message |-> W[k].message, word |-> p]
<1>1. sent \in Seq(Lengths) /\ Len(sent) \in Nat /\ Len(W) \in Nat
    BY LenProperties DEF TypeOK
<1>2. W[k].message \in 1 .. Len(sent)
    BY DEF Framed
<1>3. sent[W[k].message] \in Lengths
    BY <1>1, <1>2, ElementOfSeq
<1> QED BY <1>1, <1>2, <1>3, LengthAssumption DEF Framed, Lengths

\* A framed line begins with a message.
LEMMA FrontMessage ==
    ASSUME TypeOK, NEW W \in Seq(Words), Framed(W, sent), 1 <= Len(W)
    PROVE  /\ W[1].message \in 1 .. Len(sent)
           /\ W[1].word = 1
           /\ sent[W[1].message] \in Nat /\ sent[W[1].message] >= 2
           /\ sent[W[1].message] + 2 <= Len(W)
           /\ \A p \in 1 .. sent[W[1].message] + 2 : W[p] = [message |-> W[1].message, word |-> p]
<1>1. 1 \in 1 .. Len(W)
    BY LenProperties
<1>2. W[1].word \in Nat /\ W[1].word >= 1 /\ 1 - W[1].word >= 0
    BY <1>1, WordFacts
<1>3. W[1].word = 1
    BY <1>2
<1>4. \A p \in 1 .. sent[W[1].message] + 2 : W[p] = [message |-> W[1].message, word |-> p]
  <2> SUFFICES ASSUME NEW p \in 1 .. sent[W[1].message] + 2
               PROVE  W[p] = [message |-> W[1].message, word |-> p]
      OBVIOUS
  <2>1. W[1 - W[1].word + p] = [message |-> W[1].message, word |-> p]
      BY <1>1, WordFacts
  <2>2. 1 - W[1].word + p = p
      BY <1>3
  <2> QED BY <2>1, <2>2
<1>5. sent[W[1].message] \in Nat /\ 1 - W[1].word + sent[W[1].message] + 2 <= Len(W)
    BY <1>1, WordFacts
<1>6. sent[W[1].message] + 2 <= Len(W)
    BY <1>3, <1>5
<1> QED BY <1>1, <1>3, <1>4, <1>6, WordFacts

\* A word that lies beyond the first message belongs to a later one, which lies
\* beyond it as a whole.
LEMMA BeyondFront ==
    ASSUME TypeOK, NEW W \in Seq(Words), Framed(W, sent), Ordered(W),
           NEW at \in 1 .. Len(W), at > sent[W[1].message] + 2
    PROVE  /\ at - W[at].word >= sent[W[1].message] + 2
           /\ W[1].message < W[at].message
<1>0. PICK first, L, m, w, s, size :
          /\ first = W[1].message /\ L = sent[first] + 2
          /\ m = W[at].message /\ w = W[at].word /\ s = at - w /\ size = sent[m] + 2
    OBVIOUS
<1>1. Len(W) \in Nat /\ at \in Nat /\ 1 <= Len(W) /\ 1 \in 1 .. Len(W)
    BY LenProperties
<1>2. /\ first \in Nat /\ L \in Nat /\ L >= 1 /\ W[1].word = 1 /\ at > L
      /\ W[L] = [message |-> first, word |-> L]
  <2>1. first \in 1 .. Len(sent) /\ Len(sent) \in Nat /\ sent[first] \in Nat
      BY <1>0, <1>1, FrontMessage, WordFacts
  <2>2. L \in Nat /\ L >= 1 /\ L \in 1 .. sent[first] + 2
    <3>1. L = sent[first] + 2
        BY <1>0
    <3> QED BY <2>1, <3>1
  <2> QED BY <1>0, <1>1, <2>1, <2>2, FrontMessage
<1>3. s = at - w
    BY <1>0
<1>4. /\ m \in Nat /\ w \in Nat /\ s \in Nat /\ size \in Nat /\ w >= 1 /\ w <= size
      /\ \A p \in 1 .. size : W[s + p] = [message |-> m, word |-> p]
  <2>1. /\ m \in 1 .. Len(sent) /\ Len(sent) \in Nat /\ sent[m] \in Nat
        /\ w \in 1 .. sent[m] + 2 /\ at - w >= 0
      BY <1>0, WordFacts
  <2>2. \A p \in 1 .. sent[m] + 2 : W[at - w + p] = [message |-> m, word |-> p]
      BY <1>0, WordFacts
  <2>3. size \in Nat /\ w \in Nat /\ w >= 1 /\ w <= size /\ s \in Nat /\ m \in Nat
    <3>1. size = sent[m] + 2 /\ s = at - w /\ at \in Nat
        BY <1>0, <1>1
    <3>2. w \in Nat /\ m \in Nat /\ sent[m] \in Nat
        BY <2>1
    <3> QED BY <2>1, <3>1, <3>2
  <2> QED BY <1>0, <2>2, <2>3
<1>5. m = first => size = L
    BY <1>0
<1>6. first < m \/ w = at
  <2>1. first < m \/ w = 1 + (at - 1)
    <3>1. 1 < at
        BY <1>1, <1>2
    <3> QED BY <1>0, <1>1, <1>2, <3>1 DEF Ordered
  <2> QED BY <1>1, <2>1
<1>7. s >= L /\ first < m
  <2>1. ~(s < L)
    <3> SUFFICES ASSUME s < L PROVE FALSE
        OBVIOUS
    <3>1. L - s \in 1 .. size /\ s + (L - s) = L
        BY <1>1, <1>2, <1>3, <1>4
    <3>2. [message |-> m, word |-> L - s] = [message |-> first, word |-> L]
        BY <1>2, <1>4, <3>1
    <3>3. m = first /\ L - s = L
        BY <3>2
    <3>4. s = 0 /\ size = L
        BY <1>2, <1>4, <1>5, <3>3
    <3> QED BY <1>1, <1>2, <1>3, <1>4, <3>4
  <2>2. s >= L
      BY <2>1, <1>2, <1>4
  <2>3. w # at
      BY <2>2, <1>1, <1>2, <1>3, <1>4
  <2> QED BY <2>2, <2>3, <1>6
<1> QED BY <1>0, <1>7

\* Without the first message the line is still framed, and all that is left is later.
LEMMA DropFront ==
    ASSUME TypeOK, NEW W \in Seq(Words), Framed(W, sent), Ordered(W), 1 <= Len(W),
           NEW R \in Seq(Words), Len(R) = Len(W) - (sent[W[1].message] + 2),
           \A k \in 1 .. Len(R) : R[k] = W[sent[W[1].message] + 2 + k]
    PROVE  /\ Framed(R, sent) /\ Ordered(R)
           /\ \A k \in 1 .. Len(R) : W[1].message < R[k].message
<1>0. PICK first, L, lenW, lenR :
          /\ first = W[1].message /\ L = sent[first] + 2 /\ lenW = Len(W) /\ lenR = Len(R)
    OBVIOUS
<1>1. L \in Nat /\ lenW \in Nat /\ lenR \in Nat /\ lenR = lenW - L
  <2>1. L = sent[first] + 2 /\ sent[first] \in Nat
      BY <1>0, FrontMessage
  <2>2. lenW \in Nat /\ lenR \in Nat
      BY <1>0, LenProperties
  <2>3. lenR = lenW - L
      BY <1>0
  <2> QED BY <2>1, <2>2, <2>3
<1>2. \A k \in 1 .. Len(R) :
          L + k \in 1 .. Len(W) /\ L + k > L /\ k \in Nat /\ R[k] = W[L + k]
  <2>1. \A k \in 1 .. lenR : L + k \in 1 .. lenW /\ L + k > L /\ k \in Nat
      BY <1>1
  <2> QED BY <1>0, <2>1
<1>3. \A k \in 1 .. Len(R) : W[1].message < R[k].message
    BY <1>0, <1>2, BeyondFront
<1>4. Framed(R, sent)
  <2> SUFFICES ASSUME NEW k \in 1 .. Len(R)
               PROVE  /\ R[k].message \in 1 .. Len(sent)
                      /\ R[k].word \in 1 .. sent[R[k].message] + 2
                      /\ k - R[k].word >= 0
                      /\ k - R[k].word + sent[R[k].message] + 2 <= Len(R)
                      /\ \A p \in 1 .. sent[R[k].message] + 2 :
                             R[k - R[k].word + p] = [message |-> R[k].message, word |-> p]
      BY DEF Framed
  <2>1. PICK m, w, s, at, size :
            m = R[k].message /\ w = R[k].word /\ s = k - w /\ at = L + k /\ size = sent[m] + 2
      OBVIOUS
  <2>2. m = W[at].message /\ w = W[at].word /\ at \in 1 .. Len(W) /\ at > L /\ k \in Nat /\ at \in Nat
      BY <1>1, <1>2, <2>1
  <2>3. at - w >= L
      BY <1>0, <2>2, BeyondFront
  <2>4. m \in 1 .. Len(sent) /\ sent[m] \in Nat /\ w \in 1 .. size /\ at - w + sent[m] + 2 <= Len(W)
      BY <2>1, <2>2, WordFacts
  <2>5. \A p \in 1 .. size : W[at - w + p] = [message |-> m, word |-> p]
    <3>1. \A p \in 1 .. sent[m] + 2 : W[at - w + p] = [message |-> m, word |-> p]
        BY <2>2, WordFacts
    <3> QED BY <2>1, <3>1
  <2>7. s = k - w /\ at = L + k /\ size = sent[m] + 2 /\ lenW = Len(W) /\ lenR = Len(R)
      BY <1>0, <2>1
  <2>6. size \in Nat /\ w \in Nat /\ at - w + size <= lenW
    <3>1. sent[m] \in Nat /\ at \in Nat /\ w \in Nat
        BY <2>2, <2>4
    <3>2. size \in Nat
        BY <2>7, <3>1
    <3>3. at - w + size = at - w + sent[m] + 2
        BY <2>7, <3>1
    <3> QED BY <2>4, <2>7, <3>1, <3>2, <3>3
  <2>b. s = k - w /\ at = L + k
      BY <2>7
  <2>8. s \in Nat /\ s + size <= lenR /\ at - w = L + s
    <3>1. k \in Nat /\ at \in Nat
        BY <2>2
    <3> QED BY <1>1, <2>3, <2>6, <2>b, <3>1
  <2>9. ASSUME NEW p \in 1 .. size PROVE R[s + p] = [message |-> m, word |-> p]
    <3>1. s + p \in 1 .. lenR /\ at - w + p = L + (s + p)
        BY <1>1, <2>6, <2>8
    <3>2. R[s + p] = W[L + (s + p)]
        BY <1>0, <1>2, <3>1
    <3> QED BY <2>5, <3>1, <3>2
  <2>10. s >= 0 /\ s + sent[m] + 2 <= Len(R)
    <3>a. sent[m] \in Nat /\ s \in Nat
        BY <2>4, <2>8
    <3>b. size = sent[m] + 2
        BY <2>7
    <3>1. s + sent[m] + 2 = s + size
        BY <3>a, <3>b
    <3> QED BY <2>7, <2>8, <3>1
  <2> QED BY <2>1, <2>4, <2>9, <2>10
<1>5. Ordered(R)
  <2> SUFFICES ASSUME NEW k \in 1 .. Len(R), NEW l \in 1 .. Len(R), k < l
               PROVE  \/ R[k].message < R[l].message
                      \/ R[k].message = R[l].message /\ R[l].word = R[k].word + (l - k)
      BY DEF Ordered
  <2>1. PICK K, M : K = L + k /\ M = L + l
      OBVIOUS
  <2>2. K \in 1 .. Len(W) /\ M \in 1 .. Len(W) /\ R[k] = W[K] /\ R[l] = W[M] /\ k \in Nat /\ l \in Nat
      BY <1>2, <2>1
  <2>a. K < M /\ M - K = l - k
    <3>1. L \in Nat
        BY <1>1
    <3> QED BY <2>1, <2>2, <3>1
  <2>3. \/ W[K].message < W[M].message
        \/ W[K].message = W[M].message /\ W[M].word = W[K].word + (M - K)
      BY <2>2, <2>a DEF Ordered
  <2> QED BY <2>2, <2>a, <2>3
<1> QED BY <1>3, <1>4, <1>5

\* Another message at the end of a line, with a number of its own.
LEMMA AppendMessage ==
    ASSUME TypeOK, NEW W \in Seq(Words), Framed(W, sent), Ordered(W),
           NEW length \in Lengths, NEW n, n = Len(sent) + 1,
           NEW R, Len(R) = Len(W) + length + 2,
           \A k \in 1 .. Len(W) : R[k] = W[k],
           \A k \in 1 .. length + 2 : R[Len(W) + k] = [message |-> n, word |-> k]
    PROVE  Framed(R, Append(sent, length)) /\ Ordered(R)
<1>0. PICK lenW, lenR, size : lenW = Len(W) /\ lenR = Len(R) /\ size = length + 2
    OBVIOUS
<1>1. /\ lenW \in Nat /\ size \in Nat /\ size >= 4 /\ lenR = lenW + size
      /\ n \in Nat /\ Len(sent) \in Nat /\ n > Len(sent)
  <2>1. Len(W) \in Nat /\ Len(sent) \in Nat /\ length \in Nat /\ length >= 2
      BY LenProperties, LengthAssumption DEF TypeOK, Lengths
  <2> QED BY <1>0, <2>1
<1>2. \A k \in 1 .. lenR :
          \/ k \in 1 .. lenW
          \/ k - lenW \in 1 .. size /\ lenW + (k - lenW) = k
    BY <1>1
<1>3. \A k \in 1 .. lenW : /\ R[k] = W[k] /\ k \in 1 .. lenR
                           /\ R[k].message \in 1 .. Len(sent) /\ R[k].message < n
  <2> SUFFICES ASSUME NEW k \in 1 .. lenW
               PROVE  /\ R[k] = W[k] /\ k \in 1 .. lenR
                      /\ R[k].message \in 1 .. Len(sent) /\ R[k].message < n
      OBVIOUS
  <2>1. R[k] = W[k] /\ W[k].message \in 1 .. Len(sent)
      BY <1>0, WordFacts
  <2> QED BY <1>1, <2>1
<1>4. \A k \in 1 .. lenR : k \notin 1 .. lenW => R[k] = [message |-> n, word |-> k - lenW]
    BY <1>0, <1>2
<1>5. /\ \A m \in 1 .. Len(sent) : Append(sent, length)[m] = sent[m]
      /\ Append(sent, length)[n] = length
      /\ Len(Append(sent, length)) = n
    BY DEF TypeOK
<1>6. Framed(R, Append(sent, length))
  <2> SUFFICES ASSUME NEW k \in 1 .. lenR
               PROVE  /\ R[k].message \in 1 .. n
                      /\ R[k].word \in 1 .. Append(sent, length)[R[k].message] + 2
                      /\ k - R[k].word >= 0
                      /\ k - R[k].word + Append(sent, length)[R[k].message] + 2 <= lenR
                      /\ \A p \in 1 .. Append(sent, length)[R[k].message] + 2 :
                             R[k - R[k].word + p] = [message |-> R[k].message, word |-> p]
      BY <1>0, <1>5 DEF Framed
  <2>1. CASE k \in 1 .. lenW
    <3>1. PICK m, w, s, of : m = R[k].message /\ w = R[k].word /\ s = k - w /\ of = sent[m] + 2
        OBVIOUS
    <3>2. m = W[k].message /\ w = W[k].word /\ k \in 1 .. Len(W)
        BY <1>0, <1>3, <2>1, <3>1
    <3>3. m \in 1 .. Len(sent) /\ sent[m] \in Nat /\ w \in 1 .. sent[m] + 2 /\ k - w >= 0
          /\ k - w + sent[m] + 2 <= Len(W)
        BY <3>2, WordFacts
    <3>4. \A p \in 1 .. sent[m] + 2 : W[k - w + p] = [message |-> m, word |-> p]
        BY <3>2, WordFacts
    <3>5. Append(sent, length)[m] = sent[m] /\ m \in 1 .. n
        BY <1>1, <1>5, <3>3
    <3>6. s \in Nat /\ w \in Nat /\ s + sent[m] + 2 <= lenW
      <4>1. s = k - w /\ k \in Nat /\ lenW = Len(W)
          BY <1>0, <3>1
      <4> QED BY <3>3, <4>1
    <3>7. ASSUME NEW p \in 1 .. sent[m] + 2 PROVE R[s + p] = [message |-> m, word |-> p]
      <4>1. s + p \in 1 .. lenW
        <5>1. lenW \in Nat /\ sent[m] \in Nat
            BY <1>1, <3>3
        <5> QED BY <3>6, <5>1
      <4> QED BY <1>3, <3>1, <3>4, <4>1
    <3>8. s + sent[m] + 2 <= lenR
      <4>1. lenW \in Nat /\ lenR \in Nat /\ lenW <= lenR /\ sent[m] \in Nat
          BY <1>1, <3>3
      <4> QED BY <3>6, <4>1
    <3> QED BY <3>1, <3>3, <3>5, <3>6, <3>7, <3>8
  <2>2. CASE k \notin 1 .. lenW
    <3>0. R[k] = [message |-> n, word |-> k - lenW]
        BY <1>4, <2>2
    <3>a. k - lenW \in 1 .. size
        BY <1>2, <2>2
    <3>1. R[k].message = n /\ R[k].word = k - lenW /\ k - lenW \in 1 .. size
        BY <3>0, <3>a
    <3>2. k - (k - lenW) = lenW /\ k \in Nat /\ n \in 1 .. n
        BY <1>1
    <3>3. \A p \in 1 .. size : R[lenW + p] = [message |-> n, word |-> p]
        BY <1>0
    <3>4. lenW >= 0 /\ lenW + size <= lenR
        BY <1>1
    <3>5. lenW + length + 2 <= lenR
        BY <1>0, <1>1, <3>4, LengthAssumption DEF Lengths
    <3>6. Append(sent, length)[R[k].message] = length
        BY <1>5, <3>1
    <3>7. k - R[k].word = lenW /\ lenW >= 0
        BY <3>1, <3>2, <3>4
    <3>8. R[k].message \in 1 .. n /\ R[k].word \in 1 .. length + 2
        BY <1>0, <3>1, <3>2
    <3>9. \A p \in 1 .. length + 2 : R[lenW + p] = [message |-> R[k].message, word |-> p]
        BY <1>0, <3>1, <3>3
    <3> QED BY <3>5, <3>6, <3>7, <3>8, <3>9
  <2> QED BY <2>1, <2>2
<1>7. Ordered(R)
  <2> SUFFICES ASSUME NEW k \in 1 .. lenR, NEW l \in 1 .. lenR, k < l
               PROVE  \/ R[k].message < R[l].message
                      \/ R[k].message = R[l].message /\ R[l].word = R[k].word + (l - k)
      BY <1>0 DEF Ordered
  <2>1. CASE l \in 1 .. lenW
    <3>1. k \in 1 .. lenW
        BY <1>1, <2>1
    <3>2. k \in 1 .. Len(W) /\ l \in 1 .. Len(W)
        BY <1>0, <2>1, <3>1
    <3>3. \/ W[k].message < W[l].message
          \/ W[k].message = W[l].message /\ W[l].word = W[k].word + (l - k)
        BY <3>2 DEF Ordered
    <3>4. R[k] = W[k] /\ R[l] = W[l]
        BY <1>3, <2>1, <3>1
    <3> QED BY <3>3, <3>4
  <2>2. CASE k \in 1 .. lenW /\ l \notin 1 .. lenW
    <3>1. R[l] = [message |-> n, word |-> l - lenW]
        BY <1>4, <2>2
    <3>2. R[l].message = n
        BY <3>1
    <3>3. R[k].message < n
        BY <1>3, <2>2
    <3> QED BY <3>2, <3>3
  <2>3. CASE k \notin 1 .. lenW /\ l \notin 1 .. lenW
    <3>1. (l - lenW) = (k - lenW) + (l - k)
        BY <1>1
    <3>2. R[k] = [message |-> n, word |-> k - lenW] /\ R[l] = [message |-> n, word |-> l - lenW]
        BY <1>4, <2>3
    <3>3. R[k].message = n /\ R[k].word = k - lenW /\ R[l].message = n /\ R[l].word = l - lenW
        BY <3>2
    <3> QED BY <3>1, <3>3
  <2> QED BY <2>1, <2>2, <2>3
<1> QED BY <1>6, <1>7

\* A line that is cut between two messages is framed.
LEMMA KeepPrefix ==
    ASSUME TypeOK, NEW W \in Seq(Words), Framed(W, sent), Ordered(W),
           NEW R \in Seq(Words), Len(R) <= Len(W), \A k \in 1 .. Len(R) : R[k] = W[k],
           ~EndsWithinMessage(R)
    PROVE  Framed(R, sent) /\ Ordered(R)
<1>0. PICK lenW, lenR : lenW = Len(W) /\ lenR = Len(R)
    OBVIOUS
<1>1. lenW \in Nat /\ lenR \in Nat /\ lenR <= lenW
    BY <1>0, LenProperties
<1>2. \A k \in 1 .. lenR : k \in 1 .. lenW /\ R[k] = W[k] /\ k \in Nat
    BY <1>0, <1>1
<1>3. Framed(R, sent)
  <2> SUFFICES ASSUME NEW k \in 1 .. lenR
               PROVE  /\ R[k].message \in 1 .. Len(sent)
                      /\ R[k].word \in 1 .. sent[R[k].message] + 2
                      /\ k - R[k].word >= 0
                      /\ k - R[k].word + sent[R[k].message] + 2 <= lenR
                      /\ \A p \in 1 .. sent[R[k].message] + 2 :
                             R[k - R[k].word + p] = [message |-> R[k].message, word |-> p]
      BY <1>0 DEF Framed
  <2>1. PICK m, w, s, size : m = R[k].message /\ w = R[k].word /\ s = k - w /\ size = sent[m] + 2
      OBVIOUS
  <2>2. m = W[k].message /\ w = W[k].word /\ k \in 1 .. Len(W)
      BY <1>0, <1>2, <2>1
  <2>3. m \in 1 .. Len(sent) /\ sent[m] \in Nat /\ w \in 1 .. sent[m] + 2 /\ k - w >= 0
        /\ k - w + sent[m] + 2 <= Len(W)
      BY <2>2, WordFacts
  <2>4. \A p \in 1 .. sent[m] + 2 : W[k - w + p] = [message |-> m, word |-> p]
      BY <2>2, WordFacts
  <2>5. s = k - w
      BY <2>1
  <2>6. size \in Nat /\ w \in Nat /\ w <= size /\ s \in Nat /\ s + size <= lenW
    <3>1. sent[m] \in Nat /\ k \in Nat /\ w \in Nat /\ w <= sent[m] + 2
        BY <1>2, <2>3
    <3>2. size = sent[m] + 2
        BY <2>1
    <3> QED BY <1>0, <2>3, <2>5, <3>1, <3>2
  <2>7. \A p \in 1 .. size : W[s + p] = [message |-> m, word |-> p]
      BY <2>1, <2>4
  \* Otherwise the last word would be one of this message, but not its last.
  <2>8. s + size <= lenR
    <3> SUFFICES ASSUME lenR < s + size PROVE FALSE
        BY <1>1, <2>6
    <3>1. lenR - s \in 1 .. size /\ lenR - s < size /\ s + (lenR - s) = lenR /\ lenR \in 1 .. lenR
      <4>1. k \in Nat /\ k <= lenR /\ w >= 1
          BY <1>2, <2>3
      <4>2. lenR - s >= 1 /\ lenR - s < size
          BY <1>1, <2>5, <2>6, <4>1
      <4>3. lenR - s \in Int /\ size \in Nat /\ s + (lenR - s) = lenR /\ lenR \in 1 .. lenR
          BY <1>1, <2>6, <4>1
      <4> QED BY <4>2, <4>3
    <3>2. W[lenR] = [message |-> m, word |-> lenR - s]
        BY <2>7, <3>1
    <3>3. R[lenR].message = m /\ R[lenR].word = lenR - s
        BY <1>2, <3>1, <3>2
    <3>4. R # <<>> /\ R[Len(R)].word < sent[R[Len(R)].message] + 2
      <4>1. lenR # 0
          BY <3>1
      <4> QED BY <1>0, <2>1, <3>1, <3>3, <4>1
    <3> QED BY <3>4 DEF EndsWithinMessage
  <2>9. ASSUME NEW p \in 1 .. size PROVE R[s + p] = [message |-> m, word |-> p]
    <3>1. s + p \in 1 .. lenR
        BY <1>1, <2>6, <2>8
    <3> QED BY <1>2, <2>7, <3>1
  <2>10. s + sent[m] + 2 <= lenR
    <3>1. size = sent[m] + 2
        BY <2>1
    <3>2. s \in Nat /\ sent[m] \in Nat
        BY <2>3, <2>6
    <3>3. s + sent[m] + 2 = s + size
        BY <3>1, <3>2
    <3> QED BY <2>8, <3>3
  <2> QED BY <2>1, <2>3, <2>9, <2>10
<1>4. Ordered(R)
    BY <1>0, <1>2 DEF Ordered
<1> QED BY <1>3, <1>4

-----------------------------------------------------------------------------
\* What has been forwarded carries the number of a message that was sent.
LEMMA ForwardedNumbers ==
    ASSUME TypeOK, ForwardedAsSent, ~torn, NEW i \in DOMAIN forwarded
    PROVE  forwarded[i][1].message \in 1 .. Len(sent)
<1>1. PICK m \in DOMAIN sent : forwarded[i] = Message(m, sent[m])
    BY DEF ForwardedAsSent
<1>2. sent[m] \in Lengths /\ m \in 1 .. Len(sent)
    BY ElementOfSeq DEF TypeOK
<1>3. 1 \in 1 .. sent[m] + 2
    BY <1>2, LengthAssumption DEF Lengths
<1>4. \A k \in 1 .. sent[m] + 2 : Message(m, sent[m])[k] = [message |-> m, word |-> k]
    BY <1>2, MessageType
<1>5. forwarded[i][1] = [message |-> m, word |-> 1]
    BY <1>1, <1>3, <1>4
<1> QED BY <1>2, <1>5

\* Sending puts a message at the end of the line.
LEMMA SendEffect ==
    ASSUME TypeOK, NEW length \in Lengths, Send(length)
    PROVE  /\ Line \in Seq(Words) /\ Len(Line) \in Nat /\ length + 2 \in Nat
           /\ Len(Line') = Len(Line) + length + 2
           /\ \A k \in 1 .. Len(Line) : Line'[k] = Line[k]
           /\ \A k \in 1 .. length + 2 :
                  Line'[Len(Line) + k] = [message |-> Len(sent) + 1, word |-> k]
<1> DEFINE n == Len(sent) + 1
           message == Message(n, length)
<1>1. /\ message \in Seq([message : {n}, word : 1 .. MaxLength + 2])
      /\ Len(message) = length + 2
      /\ \A k \in 1 .. length + 2 : message[k] = [message |-> n, word |-> k]
    BY MessageType
<1>2. Line' = data \o (stream \o message)
    BY DEF Send, assembly_line, Line
<1> HIDE DEF message, n
<1>3. PICK All : data \in Seq(All) /\ stream \in Seq(All) /\ message \in Seq(All)
  <2>1. PICK All : All = Words \cup [message : {n}, word : 1 .. MaxLength + 2]
      OBVIOUS
  <2>2. Seq(Words) \subseteq Seq(All) /\ Seq([message : {n}, word : 1 .. MaxLength + 2]) \subseteq Seq(All)
      BY <2>1, SeqMonotonic
  <2> QED BY <1>1, <2>2 DEF TypeOK
<1>4. Line \in Seq(Words) /\ Line \in Seq(All)
    BY <1>3, ConcatProperties DEF TypeOK, Line
<1>5. Line' = Line \o message
  <2>1. (data \o stream) \o message = data \o (stream \o message)
      BY ONLY <1>3, ConcatAssociative
  <2> QED BY <1>2, <2>1 DEF Line
<1>6. /\ Len(Line \o message) = Len(Line) + Len(message)
      /\ \A k \in 1 .. Len(Line) + Len(message) :
             (Line \o message)[k] = IF k <= Len(Line) THEN Line[k] ELSE message[k - Len(Line)]
    BY <1>3, <1>4, ConcatProperties
<1>7. Len(Line) \in Nat /\ length \in Nat /\ length + 2 \in Nat
    BY <1>4, LenProperties, LengthAssumption DEF Lengths
<1>8. Len(Line') = Len(Line) + length + 2
    BY <1>1, <1>5, <1>6, <1>7
<1>9. \A k \in 1 .. Len(Line) : Line'[k] = Line[k]
  <2>1. \A k \in 1 .. Len(Line) : k \in 1 .. Len(Line) + Len(message) /\ k <= Len(Line)
      BY <1>1, <1>7
  <2> QED BY <1>5, <1>6, <2>1
<1>10. ASSUME NEW k \in 1 .. length + 2 PROVE Line'[Len(Line) + k] = [message |-> n, word |-> k]
  <2>1. /\ Len(Line) + k \in 1 .. Len(Line) + Len(message)
        /\ ~(Len(Line) + k <= Len(Line)) /\ Len(Line) + k - Len(Line) = k
      BY <1>1, <1>7
  <2>2. Line'[Len(Line) + k] = message[k]
      BY <1>5, <1>6, <2>1
  <2> QED BY <1>1, <2>2
<1> QED BY <1>4, <1>7, <1>8, <1>9, <1>10 DEF n

\* The line stays framed.
LEMMA SendStep ==
    ASSUME IInv, ~torn, NEW length \in Lengths, Send(length)
    PROVE  LineInv' /\ ForwardedAsSent'
<1> DEFINE n == Len(sent) + 1
<1>0. TypeOK /\ Framed(Line, sent) /\ Ordered(Line) /\ DeclaredIsFronts /\ ForwardedBefore
      /\ ForwardedAsSent
    BY DEF IInv, LineInv
<1>1. /\ sent' = Append(sent, length)
      /\ data' = data /\ declared_payload_size' = declared_payload_size
      /\ forwarded' = forwarded /\ torn' = torn
    BY DEF Send, assembly_line
<1>2. /\ Len(sent) \in Nat /\ n \in Nat /\ n > Len(sent)
      /\ \A m \in 1 .. Len(sent) : sent'[m] = sent[m] /\ m < n /\ m \in 1 .. Len(sent')
      /\ DOMAIN sent = 1 .. Len(sent) /\ DOMAIN sent' = 1 .. Len(sent')
    BY <1>0, <1>1 DEF TypeOK
<1>5. /\ Line \in Seq(Words) /\ Len(Line) \in Nat /\ length + 2 \in Nat
      /\ Len(Line') = Len(Line) + length + 2
      /\ \A k \in 1 .. Len(Line) : Line'[k] = Line[k]
      /\ \A k \in 1 .. length + 2 : Line'[Len(Line) + k] = [message |-> n, word |-> k]
    BY <1>0, SendEffect
<1>6. Framed(Line', sent') /\ Ordered(Line')
  <2>1. PICK R : R = Line'
      OBVIOUS
  <2>2. /\ Len(R) = Len(Line) + length + 2
        /\ \A k \in 1 .. Len(Line) : R[k] = Line[k]
        /\ \A k \in 1 .. length + 2 : R[Len(Line) + k] = [message |-> n, word |-> k]
      BY <1>5, <2>1
  <2>3. Framed(R, Append(sent, length)) /\ Ordered(R)
      BY <1>0, <1>5, <2>2, AppendMessage
  <2> QED BY <1>1, <2>1, <2>3
<1>7. DeclaredIsFronts'
  <2> SUFFICES ASSUME declared_payload_size # 0
               PROVE  Len(data) >= 2 /\ declared_payload_size = sent'[data[1].message]
      BY <1>1 DEF DeclaredIsFronts
  <2>1. Len(data) >= 2 /\ declared_payload_size = sent[data[1].message]
      BY <1>0 DEF DeclaredIsFronts
  <2>2. data[1].message \in 1 .. Len(sent)
    <3>1. data[1] \in Words
      <4>1. data \in Seq(Words) /\ 1 \in 1 .. Len(data)
          BY <1>0, <2>1, LenProperties DEF TypeOK
      <4> QED BY <4>1, ElementOfSeq
    <3> QED BY <1>2, <3>1 DEF Words
  <2> QED BY <1>2, <2>1, <2>2
<1>8. ForwardedBefore'
  <2> SUFFICES ASSUME NEW i \in DOMAIN forwarded, NEW k \in 1 .. Len(Line')
               PROVE  forwarded[i][1].message < Line'[k].message
      BY <1>1 DEF ForwardedBefore
  <2>1. CASE k \in 1 .. Len(Line)
      BY <1>0, <1>5, <2>1 DEF ForwardedBefore
  <2>2. CASE k \notin 1 .. Len(Line)
    <3>1. k - Len(Line) \in 1 .. length + 2 /\ Len(Line) + (k - Len(Line)) = k
      <4>1. PICK lenL, lenR : lenL = Len(Line) /\ lenR = Len(Line')
          OBVIOUS
      <4>2. lenL \in Nat /\ length \in Nat /\ lenR = lenL + length + 2
          BY <1>5, <4>1, LengthAssumption DEF Lengths
      <4>3. k \in 1 .. lenR /\ k \notin 1 .. lenL
          BY <2>2, <4>1
      <4>4. k - lenL \in 1 .. length + 2 /\ lenL + (k - lenL) = k
          BY <4>2, <4>3
      <4> QED BY <4>1, <4>4
    <3>2. Line'[k] = [message |-> n, word |-> k - Len(Line)]
        BY <1>5, <3>1
    <3>3. forwarded[i][1].message < n
        BY <1>0, <1>2, ForwardedNumbers
    <3> QED BY <3>2, <3>3
  <2> QED BY <2>1, <2>2
<1>9. ForwardedAsSent'
  <2>1. ASSUME NEW i \in DOMAIN forwarded
        PROVE  \E m \in DOMAIN sent' : forwarded[i] = Message(m, sent'[m])
    <3>1. PICK m \in DOMAIN sent : forwarded[i] = Message(m, sent[m])
        BY <1>0 DEF ForwardedAsSent
    <3> QED BY <1>2, <3>1
  <2>2. \A i, j \in DOMAIN forwarded : i < j => forwarded[i][1].message < forwarded[j][1].message
      BY <1>0 DEF ForwardedAsSent
  <2>3. \A i \in DOMAIN forwarded : \E m \in DOMAIN sent' : forwarded[i] = (Message(m, sent[m]))'
      BY <1>1, <2>1 DEF Message
  <2> QED BY <1>1, <2>2, <2>3 DEF ForwardedAsSent, Message
<1> QED BY <1>6, <1>7, <1>8, <1>9 DEF LineInv

\* In a line that is intact, the length that is read is that of the message the
\* buffer begins with, and this message is what the buffer's first words are.
LEMMA FrontOfBuffer ==
    ASSUME IInv, ~torn, NEW n \in 1 .. MaxChunk, n <= Len(stream),
           NEW words, words = data \o SubSeq(stream, 1, n), Len(words) >= 2,
           NEW length \in Declared(words)
    PROVE  /\ words \in Seq(Words) /\ words[1] = Line[1] /\ 1 <= Len(Line)
           /\ words[1].message \in 1 .. Len(sent)
           /\ length = sent[words[1].message]
           /\ length \in Nat
           /\ length + 2 <= Len(words) =>
                  SubSeq(words, 1, length + 2) = Message(words[1].message, length)
<1>0. TypeOK /\ Framed(Line, sent) /\ DeclaredIsFronts
    BY DEF IInv, LineInv
<1>1. /\ words \in Seq(Words) /\ Line \in Seq(Words) /\ Len(words) = Len(data) + n
      /\ Len(Line) = Len(data) + Len(stream)
      /\ \A k \in 1 .. Len(words) : words[k] = Line[k]
      /\ \A k \in 1 .. Len(data) : data[k] = words[k]
    BY <1>0, Chunk
<1>2. /\ Len(words) \in Nat /\ Len(Line) \in Nat /\ 1 \in 1 .. Len(words) /\ 2 \in 1 .. Len(words)
      /\ 1 <= Len(Line) /\ Len(words) <= Len(Line)
  <2>1. Len(words) \in Nat /\ Len(data) \in Nat /\ Len(stream) \in Nat /\ n \in Nat
      BY <1>0, <1>1, ChunkAssumption, LenProperties DEF TypeOK
  <2> QED BY <1>1, <2>1
<1>3. PICK first : first = words[1].message
    OBVIOUS
<1>4. words[1] = Line[1] /\ first = Line[1].message
    BY <1>1, <1>2, <1>3
<1>5. /\ first \in 1 .. Len(sent) /\ sent[first] \in Nat /\ sent[first] >= 2
      /\ \A p \in 1 .. sent[first] + 2 : Line[p] = [message |-> first, word |-> p]
    BY <1>0, <1>1, <1>2, <1>4, FrontMessage
<1>6. length = sent[first]
  <2>1. CASE declared_payload_size # 0
    <3>1. length = sent[data[1].message] /\ Len(data) >= 2
        BY <1>0, <2>1 DEF Declared, DeclaredIsFronts
    <3>2. 1 \in 1 .. Len(data)
        BY <1>0, <3>1, LenProperties DEF TypeOK
    <3> QED BY <1>1, <1>3, <3>1, <3>2
  <2>2. CASE declared_payload_size = 0
    <3>1. 2 \in 1 .. sent[first] + 2
        BY <1>5
    <3>2. words[2] = [message |-> first, word |-> 2]
        BY <1>1, <1>2, <1>5, <3>1
    <3>3. length \in AsLength(words[2])
        BY <2>2 DEF Declared
    <3> QED BY <3>2, <3>3 DEF AsLength
  <2> QED BY <2>1, <2>2
<1>7. ASSUME length + 2 <= Len(words)
      PROVE  SubSeq(words, 1, length + 2) = Message(first, length)
  <2> DEFINE front == SubSeq(words, 1, length + 2)
  <2>1. length + 2 \in Nat
      BY <1>5, <1>6
  <2>2. /\ front \in Seq(Words) /\ Len(front) = length + 2
        /\ \A k \in 1 .. length + 2 : front[k] = words[k]
      BY <1>1, <1>7, <2>1, Cut
  <2>3. sent[first] \in Lengths
      BY <1>0, <1>5, ElementOfSeq DEF TypeOK
  <2>4. /\ Message(first, length) \in Seq([message : {first}, word : 1 .. MaxLength + 2])
        /\ Len(Message(first, length)) = length + 2
        /\ \A k \in 1 .. length + 2 : Message(first, length)[k] = [message |-> first, word |-> k]
      BY <1>6, <2>3, MessageType
  <2>5. \A k \in 1 .. length + 2 : front[k] = Message(first, length)[k]
    <3> SUFFICES ASSUME NEW k \in 1 .. length + 2 PROVE front[k] = Message(first, length)[k]
        OBVIOUS
    <3>1. k \in 1 .. Len(words)
        BY <1>2, <1>7, <2>1
    <3>2. front[k] = Line[k]
        BY <1>1, <2>2, <3>1
    <3>3. Line[k] = [message |-> first, word |-> k]
        BY <1>5, <1>6
    <3> QED BY <2>4, <3>2, <3>3
  <2> HIDE DEF front
  <2>6. PICK All : front \in Seq(All) /\ Message(first, length) \in Seq(All)
    <3>1. PICK All : All = Words \cup [message : {first}, word : 1 .. MaxLength + 2]
        OBVIOUS
    <3>2. /\ Seq(Words) \subseteq Seq(All)
          /\ Seq([message : {first}, word : 1 .. MaxLength + 2]) \subseteq Seq(All)
        BY <3>1, SeqMonotonic
    <3> QED BY <2>2, <2>4, <3>2
  <2>7. front = Message(first, length)
      BY <2>2, <2>4, <2>5, <2>6, SeqEqual
  <2> QED BY <2>7 DEF front
<1> QED BY <1>1, <1>2, <1>3, <1>4, <1>5, <1>6, <1>7

\* The line after a chunk: as it was, or without its first message.
SameLine == Line' = Line /\ forwarded' = forwarded

DropsFront ==
    LET first == Line[1].message
        L == sent[first] + 2
    IN  /\ 1 <= Len(Line) /\ first \in 1 .. Len(sent) /\ sent[first] \in Lengths
        /\ forwarded' = Append(forwarded, Message(first, sent[first]))
        /\ Line' \in Seq(Words) /\ Len(Line') = Len(Line) - L
        /\ \A k \in 1 .. Len(Line') : Line'[k] = Line[L + k]

\* A chunk leaves the line as it is, but for the message that is forwarded.
LEMMA ReceiveEffect ==
    ASSUME IInv, ~torn, NEW n \in 1 .. MaxChunk, Receive(n)
    PROVE  (SameLine \/ DropsFront) /\ DeclaredIsFronts'
<1>0. /\ TypeOK /\ Framed(Line, sent) /\ Ordered(Line) /\ DeclaredIsFronts /\ ForwardedBefore
      /\ ForwardedAsSent
    BY DEF IInv, LineInv
<1>1. PICK words, rest : /\ words = data \o SubSeq(stream, 1, n)
                         /\ rest = SubSeq(stream, n + 1, Len(stream))
    OBVIOUS
<1>2. n <= Len(stream) /\ stream' = rest /\ sent' = sent /\ torn' = torn
    BY <1>1 DEF Receive
<1>3. /\ words \in Seq(Words) /\ rest \in Seq(Words) /\ words \o rest = Line
      /\ Line \in Seq(Words) /\ Len(words) = Len(data) + n
      /\ \A k \in 1 .. Len(words) : words[k] = Line[k]
      /\ \A k \in 1 .. Len(data) : data[k] = words[k]
    BY <1>0, <1>1, <1>2, Chunk
<1>4. Len(words) \in Nat /\ Len(rest) \in Nat /\ Len(data) \in Nat /\ n \in Nat /\ Len(Line) \in Nat
    BY <1>0, <1>3, ChunkAssumption, LenProperties DEF TypeOK
<1>5. data' = words /\ forwarded' = forwarded => SameLine
    BY <1>2, <1>3 DEF Line, SameLine
<1>6. CASE Stored(words)
  <2>1. declared_payload_size = 0
      BY <1>0, <1>3, <1>4, <1>6, ChunkAssumption DEF Stored, DeclaredIsFronts
  <2> QED BY <1>5, <1>6, <2>1 DEF Stored, DeclaredIsFronts
<1>7. CASE Decoded(words)
  <2>1. PICK length \in Declared(words) : Incomplete(words, length) \/ ForwardFront(words, length)
      BY <1>7 DEF Decoded
  <2>2. PICK first : first = words[1].message
      OBVIOUS
  <2>3. /\ words[1] = Line[1] /\ 1 <= Len(Line)
        /\ first \in 1 .. Len(sent) /\ length = sent[first] /\ length \in Nat
        /\ length + 2 <= Len(words) => SubSeq(words, 1, length + 2) = Message(first, length)
        /\ Len(words) >= 2
      BY <1>1, <1>2, <1>7, <2>2, FrontOfBuffer DEF Decoded
  <2>4. CASE Incomplete(words, length)
    <3>1. DeclaredIsFronts'
        BY <1>2, <2>2, <2>3, <2>4 DEF Incomplete, DeclaredIsFronts
    <3> QED BY <1>5, <2>4, <3>1 DEF Incomplete
  <2>5. CASE ForwardFront(words, length)
    <3>1. PICK L, left : L = length + 2 /\ left = SubSeq(words, L + 1, Len(words))
        OBVIOUS
    <3>2. /\ L \in Nat /\ L <= Len(words) /\ L + 1 = length + 3
      <4>1. L = length + 2 /\ Len(words) >= length + 2
          BY <2>5, <3>1 DEF ForwardFront
      <4> QED BY SMTT(30), <1>4, <2>3, <4>1
    <3>3. /\ forwarded' = Append(forwarded, Message(first, length))
          /\ data' = left /\ declared_payload_size' = 0
        BY <1>4, <2>3, <2>5, <3>1, <3>2 DEF ForwardFront
    <3>4. /\ left \in Seq(Words) /\ Len(left) = Len(words) - L
          /\ \A k \in 1 .. Len(words) - L : left[k] = words[L + k]
        BY ZenonT(30), <1>3, <3>1, <3>2, Cut
    <3>5. PICK R : R = left \o rest
        OBVIOUS
    <3>6. /\ R \in Seq(Words) /\ Len(R) = Len(Line) - L
          /\ \A k \in 1 .. Len(R) : R[k] = Line[L + k]
      <4>1. /\ R \in Seq(Words) /\ Len(R) = Len(left) + Len(rest)
            /\ \A k \in 1 .. Len(left) + Len(rest) :
                   R[k] = IF k <= Len(left) THEN left[k] ELSE rest[k - Len(left)]
          BY <1>3, <3>4, <3>5, ConcatProperties
      <4>2. /\ Len(Line) = Len(words) + Len(rest)
            /\ \A k \in 1 .. Len(words) + Len(rest) :
                   Line[k] = IF k <= Len(words) THEN words[k] ELSE rest[k - Len(words)]
          BY <1>3, ConcatProperties
      <4>3. Len(R) = Len(Line) - L
          BY <1>4, <3>2, <3>4, <4>1, <4>2
      <4>4. ASSUME NEW k \in 1 .. Len(R) PROVE R[k] = Line[L + k]
        <5>0. PICK lenW, lenT, lenL :
                  lenW = Len(words) /\ lenT = Len(rest) /\ lenL = Len(left)
            OBVIOUS
        <5>1. /\ lenW \in Nat /\ lenT \in Nat /\ lenL = lenW - L /\ L \in Nat /\ L <= lenW
              /\ k \in 1 .. lenL + lenT
            BY <1>4, <3>2, <3>4, <4>1, <4>4, <5>0
        <5>2. L + k \in 1 .. lenW + lenT /\ k \in Nat /\ (k <= lenL <=> L + k <= lenW)
              /\ L + k - lenW = k - lenL
            BY <5>1
        <5>3. CASE k <= lenL
          <6>1. k \in 1 .. lenL
              BY <5>1, <5>3
          <6>2. R[k] = left[k] /\ left[k] = words[L + k]
              BY <3>4, <4>1, <5>0, <5>1, <5>3, <6>1
          <6>3. Line[L + k] = words[L + k]
              BY <4>2, <5>0, <5>2, <5>3
          <6> QED BY <6>2, <6>3
        <5>4. CASE ~(k <= lenL)
          <6>1. R[k] = rest[k - lenL]
              BY <4>1, <5>0, <5>1, <5>4
          <6>2. Line[L + k] = rest[L + k - lenW]
            <7>1. ~(L + k <= lenW)
                BY <5>2, <5>4
            <7>2. \A j \in 1 .. lenW + lenT : ~(j <= lenW) => Line[j] = rest[j - lenW]
                BY <4>2, <5>0
            <7>3. PICK j : j = L + k
                OBVIOUS
            <7>4. j \in 1 .. lenW + lenT /\ ~(j <= lenW)
                BY <5>2, <7>1, <7>3
            <7>5. Line[j] = rest[j - lenW]
                BY <7>2, <7>4
            <7> QED BY <5>1, <5>2, <7>3, <7>5
          <6> QED BY <5>2, <6>1, <6>2
        <5> QED BY <5>3, <5>4
      <4> QED BY <4>1, <4>3, <4>4
    <3>7. Line' = R
        BY <1>2, <3>3, <3>5 DEF Line
    <3>8. DeclaredIsFronts'
        BY <3>3 DEF DeclaredIsFronts
    <3>9. sent[first] \in Lengths
        BY <1>0, <2>3, ElementOfSeq DEF TypeOK
    <3>10. first = Line[1].message /\ L = sent[first] + 2
        BY <2>2, <2>3, <3>1
    <3>11. DropsFront
        BY <2>3, <3>3, <3>6, <3>7, <3>9, <3>10 DEF DropsFront
    <3> QED BY <3>8, <3>11
  <2> QED BY <2>1, <2>4, <2>5
<1>8. Stored(words) \/ Decoded(words)
    BY <1>0, <1>1, ReceiveCases
<1> QED BY <1>6, <1>7, <1>8

\* A chunk keeps the line framed and what was forwarded in order.
LEMMA ReceiveStep ==
    ASSUME IInv, ~torn, NEW n \in 1 .. MaxChunk, Receive(n)
    PROVE  LineInv' /\ ForwardedAsSent'
<1>0. /\ TypeOK /\ Framed(Line, sent) /\ Ordered(Line) /\ ForwardedBefore /\ ForwardedAsSent
      /\ Line \in Seq(Words) /\ Len(Line) \in Nat /\ sent' = sent
  <2>1. TypeOK /\ n <= Len(stream) /\ sent' = sent
      BY DEF IInv, Receive
  <2> QED BY <2>1, Chunk, LenProperties DEF IInv, LineInv
<1>1. (SameLine \/ DropsFront) /\ DeclaredIsFronts'
    BY ReceiveEffect
<1>2. CASE SameLine
  <2>1. Framed(Line, sent)' /\ Ordered(Line)' /\ ForwardedBefore'
      BY <1>0, <1>2 DEF SameLine, Framed, Ordered, ForwardedBefore
  <2>2. ForwardedAsSent'
      BY <1>0, <1>2 DEF SameLine, ForwardedAsSent, Message
  <2> QED BY <1>1, <2>1, <2>2 DEF LineInv
<1>3. CASE DropsFront
  <2>1. PICK first, L, R, length :
            /\ first = Line[1].message /\ length = sent[first] /\ L = length + 2 /\ R = Line'
      OBVIOUS
  <2>2. /\ 1 <= Len(Line) /\ first \in 1 .. Len(sent) /\ length \in Lengths
        /\ forwarded' = Append(forwarded, Message(first, length))
        /\ R \in Seq(Words) /\ Len(R) = Len(Line) - L
        /\ \A k \in 1 .. Len(R) : R[k] = Line[L + k]
      BY <1>3, <2>1 DEF DropsFront
  <2>3. length \in Nat /\ length >= 2 /\ L \in Nat /\ Len(R) \in Nat
    <3>1. length \in Nat /\ length >= 2
        BY <2>2, LengthAssumption DEF Lengths
    <3>2. L = length + 2
        BY <2>1
    <3>3. Len(R) \in Nat
        BY <2>2, LenProperties
    <3> QED BY <3>1, <3>2, <3>3
  <2>4. /\ Framed(R, sent) /\ Ordered(R)
        /\ \A k \in 1 .. Len(R) : first < R[k].message
    <3>1. /\ Len(R) = Len(Line) - (sent[Line[1].message] + 2)
          /\ \A k \in 1 .. Len(R) : R[k] = Line[sent[Line[1].message] + 2 + k]
        BY <2>1, <2>2
    <3> QED BY <1>0, <2>1, <2>2, <3>1, DropFront
  <2>5. /\ forwarded \in Seq(Seq(Words)) /\ Len(forwarded) \in Nat
        /\ DOMAIN forwarded = 1 .. Len(forwarded)
        /\ DOMAIN forwarded' = 1 .. Len(forwarded) + 1
        /\ \A i \in 1 .. Len(forwarded) : forwarded'[i] = forwarded[i]
        /\ forwarded'[Len(forwarded) + 1] = Message(first, length)
      BY <1>0, <2>2 DEF TypeOK
  <2>6. Message(first, length)[1].message = first
    <3>1. 1 \in 1 .. length + 2
        BY <2>3
    <3>2. \A k \in 1 .. length + 2 : Message(first, length)[k] = [message |-> first, word |-> k]
        BY <2>2, MessageType
    <3>3. Message(first, length)[1] = [message |-> first, word |-> 1]
        BY <3>1, <3>2
    <3> QED BY <3>3
  <2>7. \A i \in 1 .. Len(forwarded) : forwarded[i][1].message < first
    <3>1. 1 \in 1 .. Len(Line)
        BY <1>0, <2>2
    <3> QED BY <1>0, <2>1, <2>5, <3>1 DEF ForwardedBefore
  <2>8. ForwardedBefore'
    <3> SUFFICES ASSUME NEW i \in 1 .. Len(forwarded) + 1, NEW k \in 1 .. Len(R)
                 PROVE  forwarded'[i][1].message < R[k].message
        BY <2>1, <2>5 DEF ForwardedBefore
    <3>1. CASE i \in 1 .. Len(forwarded)
      <4>1. L + k \in 1 .. Len(Line) /\ R[k] = Line[L + k]
          BY <1>0, <2>2, <2>3
      <4> QED BY <1>0, <2>5, <3>1, <4>1 DEF ForwardedBefore
    <3>2. CASE i = Len(forwarded) + 1
        BY <2>4, <2>5, <2>6, <3>2
    <3> QED BY <2>5, <3>1, <3>2
  <2>9. ForwardedAsSent'
    <3>1. ASSUME NEW i \in 1 .. Len(forwarded) + 1
          PROVE  \E m \in DOMAIN sent : forwarded'[i] = Message(m, sent[m])
      <4>1. CASE i \in 1 .. Len(forwarded)
          BY <1>0, <2>5, <4>1 DEF ForwardedAsSent
      <4>2. CASE i = Len(forwarded) + 1
        <5>1. first \in DOMAIN sent
            BY <1>0, <2>2 DEF TypeOK
        <5> QED BY <2>1, <2>5, <4>2, <5>1
      <4> QED BY <2>5, <4>1, <4>2
    <3>2. ASSUME NEW i \in 1 .. Len(forwarded) + 1, NEW j \in 1 .. Len(forwarded) + 1, i < j
          PROVE  forwarded'[i][1].message < forwarded'[j][1].message
      <4>1. i \in 1 .. Len(forwarded)
          BY <2>5, <3>2
      <4>2. CASE j \in 1 .. Len(forwarded)
          BY <1>0, <2>5, <3>2, <4>1, <4>2 DEF ForwardedAsSent
      <4>3. CASE j = Len(forwarded) + 1
          BY <2>5, <2>6, <2>7, <4>1, <4>3
      <4> QED BY <2>5, <4>2, <4>3
    <3>3. \A i \in DOMAIN forwarded' : \E m \in DOMAIN sent' : forwarded'[i] = (Message(m, sent[m]))'
        BY <1>0, <2>5, <3>1 DEF Message
    <3> QED BY <2>5, <3>2, <3>3 DEF ForwardedAsSent, Message
  <2> QED BY <1>0, <1>1, <2>1, <2>4, <2>8, <2>9 DEF LineInv
<1> QED BY <1>1, <1>2, <1>3

\* A connection that ends between two messages leaves nothing torn in the buffer.
LEMMA DisconnectStep ==
    ASSUME IInv, ~torn, Disconnect
    PROVE  LineInv' /\ ForwardedAsSent'
<1>0. /\ TypeOK /\ Framed(Line, sent) /\ Ordered(Line) /\ DeclaredIsFronts /\ ForwardedBefore
      /\ ForwardedAsSent
    BY DEF IInv, LineInv
<1>1. /\ stream' = <<>> /\ torn' = (torn \/ EndsWithinMessage(data))
      /\ sent' = sent /\ data' = data /\ forwarded' = forwarded
      /\ declared_payload_size' = declared_payload_size
    BY DEF Disconnect, assembly_line
<1>2. ForwardedAsSent'
    BY <1>0, <1>1 DEF ForwardedAsSent, Message
<1>3. ASSUME ~EndsWithinMessage(data) PROVE LineInv'
  <2>1. data \in Seq(Words) /\ stream \in Seq(Words)
      BY <1>0 DEF TypeOK
  <2>2. Line' = data
      BY <1>1, <2>1, ConcatEmptySeq DEF Line
  <2>3. /\ Line \in Seq(Words) /\ Len(Line) = Len(data) + Len(stream)
        /\ \A k \in 1 .. Len(data) + Len(stream) :
               Line[k] = IF k <= Len(data) THEN data[k] ELSE stream[k - Len(data)]
      BY <2>1, ConcatProperties DEF Line
  <2>4. Len(data) \in Nat /\ Len(stream) \in Nat
      BY <2>1, LenProperties
  <2>5. \A k \in 1 .. Len(data) : k \in 1 .. Len(data) + Len(stream) /\ k <= Len(data)
      BY <2>4
  <2>6. Len(data) <= Len(Line)
      BY <2>3, <2>4
  <2>7. \A k \in 1 .. Len(data) : data[k] = Line[k] /\ k \in 1 .. Len(Line)
      BY <2>3, <2>5
  <2>8. Framed(data, sent) /\ Ordered(data)
      BY <1>0, <1>3, <2>1, <2>3, <2>6, <2>7, KeepPrefix
  <2>9. ForwardedBefore'
      BY <1>0, <1>1, <2>2, <2>7 DEF ForwardedBefore
  <2>10. DeclaredIsFronts'
      BY <1>0, <1>1 DEF DeclaredIsFronts
  <2> QED BY <1>1, <2>2, <2>8, <2>9, <2>10 DEF LineInv
<1>4. CASE EndsWithinMessage(data)
    BY <1>1, <1>2, <1>4 DEF LineInv
<1> QED BY <1>2, <1>3, <1>4

\* Every step keeps the line of an endpoint intact, until a connection ends
\* within a message.
LEMMA StepInv == IInv /\ [Next]_vars => IInv'
<1> SUFFICES ASSUME IInv, [Next]_vars PROVE IInv'
    OBVIOUS
<1>1. TypeOK'
    BY TypeStep DEF IInv
<1>2. torn => torn'
    BY DEF Next, Send, Receive, Disconnect, vars
<1>3. CASE torn
    BY <1>1, <1>2, <1>3 DEF IInv, LineInv, ForwardedAsSent
<1>4. CASE ~torn
  <2>1. ASSUME NEW length \in Lengths, Send(length) PROVE LineInv' /\ ForwardedAsSent'
      BY <1>4, <2>1, SendStep
  <2>2. ASSUME NEW n \in 1 .. MaxChunk, Receive(n) PROVE LineInv' /\ ForwardedAsSent'
      BY <1>4, <2>2, ReceiveStep
  <2>3. ASSUME Disconnect PROVE LineInv' /\ ForwardedAsSent'
      BY <1>4, <2>3, DisconnectStep
  <2>4. ASSUME UNCHANGED vars PROVE LineInv' /\ ForwardedAsSent'
    <3>1. Line' = Line /\ UNCHANGED <<sent, declared_payload_size, data, forwarded, torn>>
        BY <2>4 DEF vars, assembly_line, Line
    <3>2. LineInv'
        BY <3>1 DEF IInv, LineInv, Framed, Ordered, DeclaredIsFronts, ForwardedBefore
    <3>3. ForwardedAsSent'
        BY <3>1 DEF IInv, ForwardedAsSent, Message
    <3> QED BY <3>2, <3>3
  <2>5. LineInv' /\ ForwardedAsSent'
      BY <2>1, <2>2, <2>3, <2>4 DEF Next
  <2> QED BY <1>1, <2>5 DEF IInv
<1> QED BY <1>3, <1>4

\* As long as no connection ends within a message, forward() is called with
\* messages as they were sent and in the order they were sent in: for messages of
\* any length and however their bytes are cut into chunks.
THEOREM ForwardsWhatWasSent == Spec => []ForwardedAsSent
<1>1. IInv => ForwardedAsSent
    BY DEF IInv
<1> QED BY <1>1, InitInv, StepInv, PTL DEF Spec

-----------------------------------------------------------------------------
\* The next chunk finds a complete message and forwards it.
LEMMA WaitingIsForwarded ==
    ASSUME IInv, ~torn, IsComplete(data), data' # data, [Next]_vars
    PROVE  forwarded' = Append(forwarded, Message(data[1].message, sent[data[1].message]))
<1>0. TypeOK /\ Framed(Line, sent)
    BY DEF IInv, LineInv
<1>1. PICK n \in 1 .. MaxChunk : Receive(n)
    BY DEF Next, Send, Disconnect, vars, assembly_line
<1>2. PICK words : words = data \o SubSeq(stream, 1, n)
    OBVIOUS
<1>3. /\ n <= Len(stream) /\ words \in Seq(Words) /\ Len(words) = Len(data) + n
      /\ \A k \in 1 .. Len(data) : data[k] = words[k]
    BY <1>0, <1>1, <1>2, Chunk DEF Receive
<1>4. Len(data) \in Nat /\ Len(words) \in Nat /\ n \in Nat /\ Len(data) >= 1 /\ Len(words) >= Len(data)
  <2>1. data \in Seq(Words) /\ data # <<>>
      BY <1>0 DEF TypeOK, IsComplete
  <2>2. Len(data) \in Nat /\ Len(data) # 0
      BY <2>1, EmptySeq, LenProperties
  <2> QED BY <1>3, <2>2, ChunkAssumption
<1>5. PICK first : first = data[1].message
    OBVIOUS
<1>6. first = words[1].message /\ Len(data) >= sent[first] + 2
    BY <1>3, <1>4, <1>5 DEF IsComplete
<1>7. sent[first] \in Nat
  <2>1. words[1] \in Words
      BY <1>3, <1>4, ElementOfSeq
  <2>2. first \in 1 .. Len(sent)
      BY <1>0, <1>6, <2>1 DEF Words, TypeOK
  <2>3. sent[first] \in Lengths
      BY <1>0, <2>2, ElementOfSeq DEF TypeOK
  <2> QED BY <2>3, LengthAssumption DEF Lengths
<1>8. Len(words) >= sent[first] + 2 /\ Len(words) >= 2
    BY <1>4, <1>6, <1>7
<1>9. PICK length \in Declared(words) : Incomplete(words, length) \/ ForwardFront(words, length)
    BY <1>0, <1>1, <1>2, <1>4, <1>8, ReceiveCases DEF Stored, Decoded
<1>10. /\ length = sent[first] /\ length \in Nat
       /\ length + 2 <= Len(words) => SubSeq(words, 1, length + 2) = Message(first, length)
    BY <1>2, <1>3, <1>6, <1>8, FrontOfBuffer
<1>11. length + 2 <= Len(words)
    BY <1>4, <1>8, <1>10
<1>12. ForwardFront(words, length)
    BY <1>4, <1>9, <1>10, <1>11 DEF Incomplete
<1> QED BY <1>5, <1>10, <1>11, <1>12 DEF ForwardFront

\* A complete message that waits in the buffer is the one that the endpoint's next
\* chunk, whatever it holds, makes the stub forward.
THEOREM NextChunkForwards == Spec => WaitsForNextChunk
<1>1. IInv /\ [Next]_vars =>
          [ ~torn /\ IsComplete(data) /\ data' # data =>
                forwarded' = Append(forwarded, Message(data[1].message, sent[data[1].message])) ]_vars
    BY WaitingIsForwarded
<1> QED BY <1>1, InitInv, StepInv, PTL DEF Spec, WaitsForNextChunk
-----------------------------------------------------------------------------
\* What the channel holds, in terms of the line.
LEMMA ChannelOfLine ==
    ASSUME TypeOK
    PROVE  LET messages == [i \in DOMAIN sent |-> Message(i, sent[i])]
           IN  /\ messages \in Seq({Message(i, sent[i]) : i \in DOMAIN sent})
               /\ Len(messages) = Len(sent) /\ Len(sent) \in Nat
               /\ DOMAIN sent = 1 .. Len(sent)
               /\ \A i \in 1 .. Len(sent) : messages[i] = Message(i, sent[i])
<1>1. sent \in Seq(Lengths) /\ Len(sent) \in Nat /\ DOMAIN sent = 1 .. Len(sent)
    BY LenProperties DEF TypeOK
<1>2. PICK messages : messages = [i \in 1 .. Len(sent) |-> Message(i, sent[i])]
    OBVIOUS
<1>3. /\ DOMAIN messages = 1 .. Len(sent)
      /\ \A i \in 1 .. Len(sent) : messages[i] = Message(i, sent[i])
    BY <1>2
<1>4. messages \in [1 .. Len(sent) -> {Message(i, sent[i]) : i \in 1 .. Len(sent)}]
    BY <1>2
<1>5. messages \in Seq({Message(i, sent[i]) : i \in 1 .. Len(sent)}) /\ Len(messages) = Len(sent)
  <2>1. messages \in Seq({Message(i, sent[i]) : i \in 1 .. Len(sent)})
      BY <1>1, <1>4, SeqDef
  <2>2. Len(messages) \in Nat /\ DOMAIN messages = 1 .. Len(messages)
      BY <2>1, LenProperties
  <2> QED BY <1>1, <1>3, <2>1, <2>2
<1> QED BY <1>1, <1>2, <1>3, <1>5

\* An empty line is an empty channel.
LEMMA InitRefines == Init => Channel!Init
<1> SUFFICES ASSUME Init PROVE Channel!Init
    OBVIOUS
<1>1. sent = <<>> /\ forwarded = <<>> /\ torn = FALSE /\ Line = <<>>
    BY DEF Init, Line
<1>2. {Line[k].message : k \in DOMAIN Line} = {}
    BY <1>1
<1>3. [i \in DOMAIN sent |-> Message(i, sent[i])] = <<>>
    BY <1>1
<1> QED BY <1>1, <1>2, <1>3 DEF Channel!Init

\* The message that is sent is under way.
LEMMA SendRefines ==
    ASSUME IInv, NEW length \in Lengths, Send(length)
    PROVE  Channel!Send
<1> DEFINE messages == [i \in DOMAIN sent |-> Message(i, sent[i])]
           n == Len(sent) + 1
<1>1. /\ TypeOK /\ sent' = Append(sent, length) /\ Len(sent) < MaxSent
      /\ forwarded' = forwarded /\ torn' = torn
    BY DEF IInv, Send
<1>2. /\ Len(sent) \in Nat /\ DOMAIN sent = 1 .. Len(sent) /\ DOMAIN sent' = 1 .. n
      /\ \A i \in 1 .. Len(sent) : sent'[i] = sent[i]
      /\ sent'[n] = length /\ n \in 1 .. MaxSent
    BY <1>1, SentAssumption DEF TypeOK
<1>3. messages' = Append(messages, Message(n, length))
  <2>1. messages \in Seq({Message(i, sent[i]) : i \in DOMAIN sent}) /\ Len(messages) = Len(sent)
      BY <1>1, ChannelOfLine
  <2>2. PICK m : m = Message(n, length)
      OBVIOUS
  <2>3. Append(messages, m) = [i \in 1 .. n |-> IF i \in 1 .. Len(sent) THEN messages[i] ELSE m]
      BY <2>1, <1>2
  <2>4. messages' = [i \in 1 .. n |-> Message(i, sent'[i])]
      BY <1>2 DEF Message
  <2>5. \A i \in 1 .. n : Message(i, sent'[i]) = IF i \in 1 .. Len(sent) THEN messages[i] ELSE m
    <3> SUFFICES ASSUME NEW i \in 1 .. n
                 PROVE  Message(i, sent'[i]) = IF i \in 1 .. Len(sent) THEN messages[i] ELSE m
        OBVIOUS
    <3>1. i \in 1 .. Len(sent) \/ (i = n /\ i \notin 1 .. Len(sent))
        BY <1>2
    <3> QED BY <1>2, <2>2, <3>1
  <2> HIDE DEF messages
  <2> QED BY <2>2, <2>3, <2>4, <2>5
<1>4. Message(n, length) \in UNION {{Message(i, l) : l \in Lengths} : i \in 1 .. MaxSent}
    BY <1>2
<1>5. {Line[k].message : k \in DOMAIN Line}' = {Line[k].message : k \in DOMAIN Line} \union {n}
  <2>1. PICK before, after, size : before = Line /\ after = Line' /\ size = length + 2
      OBVIOUS
  <2>2. /\ before \in Seq(Words) /\ Len(before) \in Nat /\ size \in Nat /\ size >= 1
        /\ Len(after) = Len(before) + size
        /\ \A k \in 1 .. Len(before) : after[k] = before[k]
        /\ \A k \in 1 .. size : after[Len(before) + k] = [message |-> n, word |-> k]
    <3>1. length + 2 >= 1 /\ Len(Line') = Len(Line) + (length + 2)
        BY <1>1, SendEffect, LengthAssumption DEF Lengths
    <3> QED BY <1>1, <2>1, <3>1, SendEffect
  <2>3. DOMAIN before = 1 .. Len(before) /\ DOMAIN after = 1 .. Len(before) + size
    <3>1. Line' \in Seq(Words')
        BY <1>1, TypeStep, ConcatProperties DEF TypeOK, Line, Next
    <3> QED BY <2>1, <2>2, <3>1, LenProperties
  <2>4. ASSUME NEW k \in DOMAIN after PROVE after[k].message \in {before[l].message : l \in DOMAIN before} \union {n}
    <3>1. CASE k \in 1 .. Len(before)
        BY <2>2, <2>3, <3>1
    <3>2. CASE k \notin 1 .. Len(before)
      <4>1. k - Len(before) \in 1 .. size /\ Len(before) + (k - Len(before)) = k
          BY <2>2, <2>3, <3>2
      <4>2. after[k] = [message |-> n, word |-> k - Len(before)]
          BY <2>2, <4>1
      <4> QED BY <4>2
    <3> QED BY <3>1, <3>2
  <2>5. ASSUME NEW k \in DOMAIN before PROVE k \in DOMAIN after /\ after[k].message = before[k].message
      BY <2>2, <2>3
  <2>6. Len(before) + 1 \in DOMAIN after /\ after[Len(before) + 1].message = n
    <3>1. 1 \in 1 .. size /\ Len(before) + 1 \in 1 .. Len(before) + size
        BY <2>2
    <3>2. after[Len(before) + 1] = [message |-> n, word |-> 1]
        BY <2>2, <3>1
    <3> QED BY <2>3, <3>1, <3>2
  <2> HIDE DEF n
  <2>7. {after[k].message : k \in DOMAIN after} = {before[k].message : k \in DOMAIN before} \union {n}
      BY <2>4, <2>5, <2>6
  <2> QED BY <2>1, <2>7
<1>6. Len(messages) = Len(sent)
    BY <1>1, ChannelOfLine
<1> HIDE DEF messages
<1> QED BY <1>1, <1>3, <1>4, <1>5, <1>6 DEF Channel!Send, messages

\* A chunk is no step of the channel, but for the message that is delivered: it is
\* the first of those under way.
LEMMA ReceiveRefines ==
    ASSUME IInv, ~torn, NEW n \in 1 .. MaxChunk, Receive(n)
    PROVE  Channel!Deliver \/ UNCHANGED Channel!vars
<1> DEFINE messages == [i \in DOMAIN sent |-> Message(i, sent[i])]
           numbers == {Line[k].message : k \in DOMAIN Line}
<1>1. /\ TypeOK /\ Framed(Line, sent) /\ Ordered(Line)
      /\ n <= Len(stream) /\ sent' = sent /\ torn' = torn
    BY DEF IInv, LineInv, Receive
<1>2. messages' = messages
    BY <1>1 DEF Message
<1>3. Line \in Seq(Words) /\ Len(Line) \in Nat /\ DOMAIN Line = 1 .. Len(Line)
    BY <1>1, Chunk, LenProperties
<1>4. CASE SameLine
    BY <1>1, <1>2, <1>4 DEF SameLine, Channel!vars
<1>5. CASE DropsFront
  <2>1. PICK first, L, W, R :
            /\ first = Line[1].message /\ L = sent[first] + 2 /\ W = Line /\ R = Line'
      OBVIOUS
  <2>2. /\ 1 <= Len(W) /\ first \in 1 .. Len(sent) /\ sent[first] \in Lengths
        /\ forwarded' = Append(forwarded, Message(first, sent[first]))
        /\ R \in Seq(Words) /\ Len(R) = Len(W) - L
        /\ \A k \in 1 .. Len(R) : R[k] = W[L + k]
      BY <1>5, <2>1 DEF DropsFront
  <2>3. L \in Nat /\ L >= 1 /\ Len(R) \in Nat /\ DOMAIN R = 1 .. Len(R) /\ L <= Len(W)
        /\ 1 \in 1 .. Len(W) /\ first \in Nat
    <3>1. sent[first] \in Nat /\ Len(R) \in Nat /\ DOMAIN R = 1 .. Len(R) /\ Len(sent) \in Nat
        BY <1>1, <2>2, LenProperties, LengthAssumption DEF Lengths, TypeOK
    <3> QED BY SMTT(30), <1>3, <2>1, <2>2, <3>1
  <2>4. \A k \in 1 .. Len(R) : first < R[k].message
    <3>1. /\ Len(R) = Len(Line) - (sent[Line[1].message] + 2)
          /\ \A k \in 1 .. Len(R) : R[k] = Line[sent[Line[1].message] + 2 + k]
        BY <2>1, <2>2
    <3> QED BY <1>1, <1>3, <2>1, <2>2, <3>1, DropFront
  <2>5. \A k \in 1 .. L : W[k].message = first
    <3>1. \A p \in 1 .. sent[Line[1].message] + 2 : Line[p] = [message |-> Line[1].message, word |-> p]
        BY <1>1, <1>3, <2>1, <2>2, FrontMessage
    <3> SUFFICES ASSUME NEW p \in 1 .. L PROVE W[p].message = first
        OBVIOUS
    <3>2. W[p] = [message |-> first, word |-> p]
        BY <2>1, <3>1
    <3> QED BY <3>2
  <2>6. \A k \in 1 .. Len(W) : k \in 1 .. L \/ (k - L \in 1 .. Len(R) /\ R[k - L] = W[k])
    <3> SUFFICES ASSUME NEW k \in 1 .. Len(W), k \notin 1 .. L
                 PROVE  k - L \in 1 .. Len(R) /\ R[k - L] = W[k]
        OBVIOUS
    <3>1. k - L \in 1 .. Len(R) /\ L + (k - L) = k
      <4>1. W = Line /\ Len(W) \in Nat /\ Len(R) = Len(W) - L
          BY <1>3, <2>1, <2>2
      <4> QED BY <2>3, <4>1
    <3> QED BY <2>2, <3>1
  <2>7. \A k \in 1 .. Len(R) : L + k \in 1 .. Len(W) /\ R[k] = W[L + k]
    <3>1. \A k \in 1 .. Len(R) : L + k \in 1 .. Len(W)
      <4>1. W = Line /\ Len(W) \in Nat /\ Len(R) = Len(W) - L
          BY <1>3, <2>1, <2>2
      <4> QED BY <2>3, <4>1
    <3> QED BY <2>2, <3>1
  <2>8. W[1].message = first
      BY <2>1
  <2>9. \A k \in 1 .. Len(W) : W[k].message \in Nat
    <3>1. \A k \in 1 .. Len(W) : W[k] \in Words
        BY <1>3, <2>1, ElementOfSeq
    <3> QED BY SMTT(30), <1>1, <3>1, LenProperties DEF Words, TypeOK
  <2>10. {R[k].message : k \in 1 .. Len(R)} = {W[k].message : k \in 1 .. Len(W)} \ {first}
    <3>1. ASSUME NEW k \in 1 .. Len(R)
          PROVE  R[k].message \in {W[l].message : l \in 1 .. Len(W)} \ {first}
      <4>1. R[k].message # first
          BY <2>3, <2>4
      <4> QED BY <2>7, <4>1
    <3>2. ASSUME NEW k \in 1 .. Len(W), W[k].message # first
          PROVE  W[k].message \in {R[l].message : l \in 1 .. Len(R)}
        BY <2>5, <2>6, <3>2
    <3> QED BY <3>1, <3>2
  <2>11. first \in {W[k].message : k \in 1 .. Len(W)}
      BY <2>3, <2>8
  <2>12. \A j \in {W[k].message : k \in 1 .. Len(W)} : first <= j
    <3> SUFFICES ASSUME NEW k \in 1 .. Len(W) PROVE first <= W[k].message
        OBVIOUS
    <3>1. CASE k \in 1 .. L
        BY <2>3, <2>5, <3>1
    <3>2. CASE k \notin 1 .. L
        BY <2>3, <2>4, <2>6, <2>9, <3>2
    <3> QED BY <3>1, <3>2
  <2>13. numbers = {W[k].message : k \in 1 .. Len(W)} /\ numbers' = {R[k].message : k \in 1 .. Len(R)}
      BY <1>3, <2>1, <2>3
  <2>14. messages[first] = Message(first, sent[first])
      BY <1>1, <2>2, ChannelOfLine
  <2>15. /\ first \in numbers /\ \A j \in numbers : first <= j
         /\ forwarded' = Append(forwarded, messages[first])
         /\ numbers' = numbers \ {first}
      BY <2>2, <2>10, <2>11, <2>12, <2>13, <2>14
  <2> HIDE DEF messages, numbers
  <2>16. \E i \in numbers : /\ \A j \in numbers : i <= j
                            /\ forwarded' = Append(forwarded, messages[i])
                            /\ numbers' = numbers \ {i}
                            /\ messages' = messages /\ (~torn)' = ~torn
      BY <1>1, <1>2, <2>15
  <2> QED BY <2>16 DEF Channel!Deliver, messages, numbers
<1> QED BY <1>4, <1>5, ReceiveEffect

\* A lost connection cuts the channel, between two messages or within one.
LEMMA DisconnectRefines ==
    ASSUME IInv, ~torn, Disconnect
    PROVE  Channel!Lose \/ Channel!Tear
<1> DEFINE messages == [i \in DOMAIN sent |-> Message(i, sent[i])]
           numbers == {Line[k].message : k \in DOMAIN Line}
<1>1. /\ TypeOK /\ Framed(Line, sent) /\ Ordered(Line)
      /\ stream # <<>> /\ stream' = <<>> /\ torn' = (torn \/ EndsWithinMessage(data))
      /\ sent' = sent /\ data' = data /\ forwarded' = forwarded
    BY DEF IInv, LineInv, Disconnect, assembly_line
<1>2. messages' = messages
    BY <1>1 DEF Message
<1>3. PICK lenD, lenS, lenL : lenD = Len(data) /\ lenS = Len(stream) /\ lenL = Len(Line)
    OBVIOUS
<1>4. /\ data \in Seq(Words) /\ Line \in Seq(Words) /\ Line' = data
      /\ lenD \in Nat /\ lenS \in Nat /\ lenS >= 1 /\ lenL = lenD + lenS
      /\ DOMAIN Line = 1 .. lenL /\ DOMAIN data = 1 .. lenD
      /\ \A k \in 1 .. lenD : k \in 1 .. lenL /\ data[k] = Line[k]
  <2>1. data \in Seq(Words) /\ stream \in Seq(Words)
      BY <1>1 DEF TypeOK
  <2>2. /\ Line \in Seq(Words) /\ Len(Line) = Len(data) + Len(stream)
        /\ \A k \in 1 .. Len(data) + Len(stream) :
               Line[k] = IF k <= Len(data) THEN data[k] ELSE stream[k - Len(data)]
      BY <2>1, ConcatProperties DEF Line
  <2>3. Line' = data
      BY <1>1, <2>1, ConcatEmptySeq DEF Line
  <2>4. lenD \in Nat /\ lenS \in Nat /\ lenS >= 1
      BY <1>1, <1>3, <2>1, EmptySeq, LenProperties
  <2>5. lenL = lenD + lenS /\ DOMAIN Line = 1 .. lenL /\ DOMAIN data = 1 .. lenD
      BY <1>3, <2>1, <2>2, LenProperties
  <2>6. \A k \in 1 .. lenD : k \in 1 .. lenD + lenS /\ k <= lenD
      BY <2>4
  <2> QED BY <1>3, <2>1, <2>2, <2>3, <2>4, <2>5, <2>6
<1>5. CASE EndsWithinMessage(data)
  <2>1. 1 \in DOMAIN Line
      BY <1>4
  <2>2. numbers # {}
      BY <2>1
  <2> QED BY <1>1, <1>2, <1>5, <2>2 DEF Channel!Tear
<1>6. CASE ~EndsWithinMessage(data) /\ lenD = 0
  <2>1. numbers' = {}
      BY <1>4, <1>6
  <2>2. 0 \in 0 .. Len(messages) /\ 1 .. 0 = {}
      BY <1>1, ChannelOfLine
  <2>3. \E k \in 0 .. Len(messages) : numbers' = numbers \intersect 1 .. k
      BY <2>1, <2>2
  <2> HIDE DEF numbers, messages
  <2> QED BY <1>1, <1>2, <1>6, <2>3 DEF Channel!Lose, numbers, messages
<1>7. CASE ~EndsWithinMessage(data) /\ lenD # 0
  <2>1. PICK last, W : last = data[lenD].message /\ W = Line
      OBVIOUS
  <2>2. /\ lenD \in 1 .. lenD /\ lenD \in 1 .. lenL /\ W[lenD] = data[lenD]
        /\ data # <<>>
    <3>1. lenD \in 1 .. lenD
        BY <1>4, <1>7
    <3> QED BY <1>4, <2>1, <3>1
  <2>3. last \in 1 .. Len(sent) /\ Len(sent) \in Nat /\ sent[last] \in Nat
        /\ W[lenD].word = sent[last] + 2
    <3>1. lenD \in 1 .. Len(Line)
        BY <1>3, <2>2
    <3>2. /\ W[lenD].message \in 1 .. Len(sent) /\ Len(sent) \in Nat
          /\ sent[W[lenD].message] \in Nat
          /\ W[lenD].word \in 1 .. sent[W[lenD].message] + 2
        BY <1>1, <1>4, <2>1, <3>1, WordFacts
    <3>3. ~(data[lenD].word < sent[data[lenD].message] + 2)
        BY <1>3, <1>7, <2>2 DEF EndsWithinMessage
    <3> QED BY <2>1, <2>2, <3>2, <3>3
  <2>4. \A k \in 1 .. lenL : W[k].message \in Nat /\ W[k].message >= 1
                            /\ W[k].word <= sent[W[k].message] + 2 /\ W[k].word \in Nat
    <3> SUFFICES ASSUME NEW k \in 1 .. lenL
                 PROVE  W[k].message \in Nat /\ W[k].message >= 1
                        /\ W[k].word <= sent[W[k].message] + 2 /\ W[k].word \in Nat
        OBVIOUS
    <3>1. k \in 1 .. Len(Line)
        BY <1>3
    <3> QED BY <1>1, <1>4, <2>1, <3>1, WordFacts
  <2>5. \A k \in 1 .. lenD : W[k].message <= last
    <3> SUFFICES ASSUME NEW k \in 1 .. lenD, k # lenD PROVE W[k].message <= last
        BY <2>1, <2>2, <2>3
    <3>1. k < lenD /\ k \in 1 .. lenL
        BY <1>4
    <3>2. k \in 1 .. Len(Line) /\ lenD \in 1 .. Len(Line)
        BY <1>3, <2>2, <3>1
    <3>3. Line[k].message < Line[lenD].message \/ Line[k].message = Line[lenD].message
        BY <1>1, <3>1, <3>2 DEF Ordered
    <3>4. Line[lenD].message = last /\ W[k].message = Line[k].message
        BY <2>1, <2>2
    <3>5. W[k].message \in Nat /\ last \in Nat
        BY <2>3, <2>4, <3>1
    <3> QED BY <3>3, <3>4, <3>5
  <2>6. \A k \in 1 .. lenL : k \notin 1 .. lenD => last < W[k].message
    <3> SUFFICES ASSUME NEW k \in 1 .. lenL, k \notin 1 .. lenD, ~(last < W[k].message)
                 PROVE  FALSE
        OBVIOUS
    <3>1. lenD < k
        BY <1>4
    <3>2. W[k].message = last /\ W[k].word = W[lenD].word + (k - lenD)
        BY <1>1, <1>3, <2>1, <2>2, <3>1 DEF Ordered
    <3> QED BY SMTT(30), <1>4, <2>3, <2>4, <3>1, <3>2
  <2>7. {data[k].message : k \in 1 .. lenD} = {W[k].message : k \in 1 .. lenL} \intersect 1 .. last
    <3>1. ASSUME NEW k \in 1 .. lenD
          PROVE  data[k].message \in {W[l].message : l \in 1 .. lenL} \intersect 1 .. last
      <4>1. k \in 1 .. lenL /\ data[k].message = W[k].message
          BY <1>4, <2>1
      <4>2. W[k].message \in 1 .. last
          BY <2>3, <2>4, <2>5, <4>1
      <4> QED BY <4>1, <4>2
    <3>2. ASSUME NEW k \in 1 .. lenL, W[k].message \in 1 .. last
          PROVE  W[k].message \in {data[l].message : l \in 1 .. lenD}
      <4>1. k \in 1 .. lenD
          BY <2>3, <2>4, <2>6, <3>2
      <4> QED BY <1>4, <2>1, <4>1
    <3> QED BY <3>1, <3>2
  <2>8. last \in 0 .. Len(messages)
      BY <1>1, <2>3, ChannelOfLine
  <2>9. numbers = {W[k].message : k \in 1 .. lenL} /\ numbers' = {data[k].message : k \in 1 .. lenD}
      BY <1>4, <2>1
  <2> HIDE DEF numbers, messages
  <2>10. \E k \in 0 .. Len(messages) : numbers' = numbers \intersect 1 .. k
      BY <2>7, <2>8, <2>9
  <2> QED BY <1>1, <1>2, <1>7, <2>10 DEF Channel!Lose, numbers, messages
<1> QED BY <1>5, <1>6, <1>7

\* Every step is a step of the channel or none.
LEMMA StepRefines == IInv /\ [Next]_vars => [Channel!Next]_Channel!vars
<1> SUFFICES ASSUME IInv, [Next]_vars PROVE [Channel!Next]_Channel!vars
    OBVIOUS
<1>1. ASSUME NEW length \in Lengths, Send(length) PROVE Channel!Next
    BY <1>1, SendRefines DEF Channel!Next
<1>2. ASSUME UNCHANGED vars PROVE UNCHANGED Channel!vars
  <2>1. Line' = Line /\ sent' = sent /\ forwarded' = forwarded /\ torn' = torn
      BY <1>2 DEF vars, assembly_line, Line
  <2> QED BY <2>1 DEF Channel!vars, Message
<1>3. CASE torn /\ ~UNCHANGED vars
  <2>1. torn \in BOOLEAN /\ torn' \in BOOLEAN /\ torn'
    <3>1. TypeOK'
        BY TypeStep DEF IInv
    <3> QED BY <1>3, <3>1 DEF IInv, TypeOK, Next, Send, Receive, Disconnect
  <2>2. Channel!Garble
      BY <1>3, <2>1 DEF Channel!Garble
  <2> QED BY <2>2 DEF Channel!Next
<1>4. CASE ~torn
  <2>1. ASSUME NEW n \in 1 .. MaxChunk, Receive(n) PROVE [Channel!Next]_Channel!vars
      BY <1>4, <2>1, ReceiveRefines DEF Channel!Next
  <2>2. ASSUME Disconnect PROVE Channel!Next
      BY <1>4, <2>2, DisconnectRefines DEF Channel!Next
  <2> QED BY <1>1, <1>2, <2>1, <2>2 DEF Next
<1> QED BY <1>2, <1>3, <1>4

\* For messages of any length and any chunks, what the remote machine and forward()
\* see of the stream is a channel that delivers each message once, whole and in
\* order, and that only a connection lost within a message can break.
THEOREM RefinesChannel == Spec => ImplementsChannel
BY InitInv, StepInv, InitRefines, StepRefines, PTL DEF Spec, ImplementsChannel, Channel!Spec

-----------------------------------------------------------------------------
(* Induction and recursion over the natural numbers, with sets and         *)
(* functions for the predicates and steps.                                 *)

LEMMA Induction ==
    ASSUME NEW P, 0 \in P, \A n \in Nat : n \in P => n + 1 \in P
    PROVE  Nat \subseteq P
<1> DEFINE T == Nat \ P
<1>1. SUFFICES ASSUME T # {} PROVE FALSE
  OBVIOUS
<1>2. PICK x \in T : \A y \in T : ~(<<y, x>> \in OpToRel(<, Nat))
  BY <1>1, NatLessThanWellFounded, WFMin
<1>3. x \in Nat /\ x - 1 \in Nat /\ x - 1 < x /\ (x - 1) + 1 = x
  <2>1. x \in Nat /\ x # 0
    OBVIOUS
  <2> QED
    BY <2>1
<1>4. <<x - 1, x>> \in OpToRel(<, Nat)
  BY <1>2, <1>3 DEF OpToRel
<1> QED
  BY <1>2, <1>3, <1>4

\* The same for the numbers up to one.
LEMMA InductionUpTo ==
    ASSUME NEW P, NEW n \in Nat, 0 \in P, \A k \in 0 .. n - 1 : k \in P => k + 1 \in P
    PROVE  \A k \in 0 .. n : k \in P
<1> DEFINE T == {k \in Nat : k <= n => k \in P}
<1>1. 0 \in T /\ \A k \in Nat : k \in T => k + 1 \in T
  OBVIOUS
<1>2. Nat \subseteq T
  <2> HIDE DEF T
  <2> QED
    BY <1>1, Induction
<1> QED
  BY <1>2

\* A function that takes its values from one another, each from the one before.
Steps(step, n, S) == n \in Nat /\ step \in [1 .. n -> [S -> S]]
Iterated(f, step, n, S, a) ==
    f \in [0 .. n -> S] /\ f[0] = a /\ \A k \in 1 .. n : f[k] = step[k][f[k - 1]]

LEMMA Iteration ==
    ASSUME NEW S, NEW a \in S, NEW n, NEW step, Steps(step, n, S)
    PROVE  \E f : Iterated(f, step, n, S, a)
<1> USE DEF Steps
<1> DEFINE Q(m) == \E f \in [0 .. m -> S] : f[0] = a /\ \A k \in 1 .. m : f[k] = step[k][f[k - 1]]
           P == {m \in Nat : m <= n => Q(m)}
<1>1. Q(0)
  <2> DEFINE g == [k \in 0 .. 0 |-> a]
  <2>1. g \in [0 .. 0 -> S] /\ g[0] = a /\ \A k \in 1 .. 0 : FALSE
    OBVIOUS
  <2> QED
    BY <2>1
<1>2. ASSUME NEW m \in Nat, Q(m), m + 1 <= n PROVE Q(m + 1)
  <2>1. PICK f \in [0 .. m -> S] : f[0] = a /\ \A k \in 1 .. m : f[k] = step[k][f[k - 1]]
    BY <1>2
  <2> DEFINE g == [k \in 0 .. m + 1 |-> IF k = m + 1 THEN step[m + 1][f[m]] ELSE f[k]]
  <2>2. f[m] \in S /\ m + 1 \in 1 .. n
    BY <1>2
  <2>3. step[m + 1] \in [S -> S]
    BY <2>2
  <2>4. g \in [0 .. m + 1 -> S]
    BY <2>2, <2>3
  <2>5. g[0] = a
    BY <2>1
  <2>6. ASSUME NEW k \in 1 .. m + 1 PROVE g[k] = step[k][g[k - 1]]
    <3>1. CASE k = m + 1
      BY <3>1
    <3>2. CASE k \in 1 .. m
      BY <3>2, <2>1
    <3> QED
      BY <3>1, <3>2
  <2> HIDE DEF g
  <2> QED
    BY <2>4, <2>5, <2>6
<1> HIDE DEF Q
<1>3. 0 \in P /\ \A m \in Nat : m \in P => m + 1 \in P
  BY <1>1, <1>2
<1>4. n \in P
  BY <1>3, Induction
<1>5. Q(n)
  BY <1>4
<1> QED
  BY <1>5 DEF Q, Iterated

-----------------------------------------------------------------------------
(* The recursive functions of the model are what they say.                 *)

LEMMA QuotientsAre ==
    ASSUME NEW n \in Int, NEW size \in Nat
    PROVE  /\ Quotients(n, size) \in [0 .. size -> Int]
           /\ Quotients(n, size)[0] = n
           /\ \A k \in 1 .. size : Quotients(n, size)[k] = Quotients(n, size)[k - 1] \div 256
<1> DEFINE IsIt(q) == q = [k \in 0 .. size |-> IF k = 0 THEN n ELSE q[k - 1] \div 256]
           step == [k \in 1 .. size |-> [x \in Int |-> x \div 256]]
<1>1. size \in Nat /\ n \in Int /\ \A k \in 1 .. size, x \in Int : x \div 256 \in Int
  OBVIOUS
<1>2. Steps(step, size, Int)
  BY <1>1 DEF Steps
<1>3. \A k \in 1 .. size, x \in Int : step[k][x] = x \div 256
  OBVIOUS
<1> HIDE DEF step
<1>4. PICK f : Iterated(f, step, size, Int, n)
  BY <1>1, <1>2, Iteration
<1>5. ASSUME NEW k \in 0 .. size PROVE f[k] = IF k = 0 THEN n ELSE f[k - 1] \div 256
  <2>1. CASE k = 0
    BY <2>1, <1>4 DEF Iterated
  <2>2. CASE k # 0
    <3>1. k \in 1 .. size /\ k - 1 \in 0 .. size
      BY <1>1, <2>2
    <3>2. f[k - 1] \in Int /\ f[k] = step[k][f[k - 1]]
      BY <1>4, <3>1 DEF Iterated
    <3>3. step[k][f[k - 1]] = f[k - 1] \div 256
      BY <1>3, <3>1, <3>2
    <3> QED
      BY <2>2, <3>2, <3>3
  <2> QED
    BY <2>1, <2>2
<1>6. IsIt(f)
  BY <1>4, <1>5 DEF Iterated
<1>7. Quotients(n, size) = CHOOSE q : IsIt(q)
  BY Zenon DEF Quotients
<1>8. IsIt(Quotients(n, size))
  <2> HIDE DEF IsIt
  <2> QED
    BY <1>6, <1>7, Zenon
<1> DEFINE q == Quotients(n, size)
<1> HIDE DEF q
<1>9. q = [k \in 0 .. size |-> q[k]]
  BY <1>8 DEF q
<1>10. ASSUME NEW k \in 0 .. size PROVE q[k] = IF k = 0 THEN n ELSE q[k - 1] \div 256
  BY <1>8 DEF q
<1> HIDE DEF IsIt
<1>11. q[0] = n /\ \A k \in 1 .. size : q[k] = q[k - 1] \div 256
  BY <1>1, <1>10
<1> DEFINE P == {k \in Nat : k <= size => q[k] \in Int}
<1>12. 0 \in P
  BY <1>1, <1>11
<1>13. ASSUME NEW k \in Nat, k \in P PROVE k + 1 \in P
  <2> SUFFICES ASSUME k + 1 <= size PROVE q[k + 1] \in Int
    OBVIOUS
  <2>1. k + 1 \in 1 .. size /\ (k + 1) - 1 = k
    BY <1>1
  <2>2. q[k] \in Int
    BY <1>1, <1>13
  <2>3. q[k + 1] = q[k] \div 256
    BY <1>11, <2>1
  <2>4. q[k] \div 256 \in Int
    BY <1>1, <2>1, <2>2
  <2> QED
    BY <2>3, <2>4
<1>14. \A k \in 0 .. size : q[k] \in Int
  <2> HIDE DEF P
  <2>1. Nat \subseteq P
    BY <1>12, <1>13, Induction
  <2> QED
    BY <1>1, <2>1 DEF P
<1>15. q \in [0 .. size -> Int]
  BY <1>9, <1>14
<1> QED
  BY <1>11, <1>15 DEF q

LEMMA NumbersAre ==
    ASSUME NEW bytes \in Seq(Int)
    PROVE  /\ Numbers(bytes) \in [0 .. Len(bytes) -> Int]
           /\ Numbers(bytes)[0] = 0
           /\ \A k \in 1 .. Len(bytes) : Numbers(bytes)[k] = Numbers(bytes)[k - 1] * 256 + bytes[k]
<1> DEFINE IsIt(q) == q = [k \in 0 .. Len(bytes) |-> IF k = 0 THEN 0 ELSE q[k - 1] * 256 + bytes[k]]
           step == [k \in 1 .. Len(bytes) |-> [x \in Int |-> x * 256 + bytes[k]]]
<1>1. Len(bytes) \in Nat /\ 0 \in Int /\ \A k \in 1 .. Len(bytes), x \in Int : x * 256 + bytes[k] \in Int
  OBVIOUS
<1>2. Steps(step, Len(bytes), Int)
  BY <1>1 DEF Steps
<1>3. \A k \in 1 .. Len(bytes), x \in Int : step[k][x] = x * 256 + bytes[k]
  OBVIOUS
<1> HIDE DEF step
<1>4. PICK f : Iterated(f, step, Len(bytes), Int, 0)
  BY <1>1, <1>2, Iteration
<1>5. ASSUME NEW k \in 0 .. Len(bytes) PROVE f[k] = IF k = 0 THEN 0 ELSE f[k - 1] * 256 + bytes[k]
  <2>1. CASE k = 0
    BY <2>1, <1>4 DEF Iterated
  <2>2. CASE k # 0
    <3>1. k \in 1 .. Len(bytes) /\ k - 1 \in 0 .. Len(bytes)
      BY <1>1, <2>2
    <3>2. f[k - 1] \in Int /\ f[k] = step[k][f[k - 1]]
      BY <1>4, <3>1 DEF Iterated
    <3>3. step[k][f[k - 1]] = f[k - 1] * 256 + bytes[k]
      BY <1>3, <3>1, <3>2
    <3> QED
      BY <2>2, <3>2, <3>3
  <2> QED
    BY <2>1, <2>2
<1>6. IsIt(f)
  BY <1>4, <1>5 DEF Iterated
<1>7. Numbers(bytes) = CHOOSE q : IsIt(q)
  BY Zenon DEF Numbers
<1>8. IsIt(Numbers(bytes))
  <2> HIDE DEF IsIt
  <2> QED
    BY <1>6, <1>7, Zenon
<1> DEFINE q == Numbers(bytes)
<1> HIDE DEF q
<1>9. q = [k \in 0 .. Len(bytes) |-> q[k]]
  BY <1>8 DEF q
<1>10. ASSUME NEW k \in 0 .. Len(bytes) PROVE q[k] = IF k = 0 THEN 0 ELSE q[k - 1] * 256 + bytes[k]
  BY <1>8 DEF q
<1> HIDE DEF IsIt
<1>11. q[0] = 0 /\ \A k \in 1 .. Len(bytes) : q[k] = q[k - 1] * 256 + bytes[k]
  BY <1>1, <1>10
<1> DEFINE P == {k \in Nat : k <= Len(bytes) => q[k] \in Int}
<1>12. 0 \in P
  BY <1>1, <1>11
<1>13. ASSUME NEW k \in Nat, k \in P PROVE k + 1 \in P
  <2> SUFFICES ASSUME k + 1 <= Len(bytes) PROVE q[k + 1] \in Int
    OBVIOUS
  <2>1. k + 1 \in 1 .. Len(bytes) /\ (k + 1) - 1 = k
    BY <1>1
  <2>2. q[k] \in Int
    BY <1>1, <1>13
  <2>3. q[k + 1] = q[k] * 256 + bytes[k + 1]
    BY <1>11, <2>1
  <2>4. q[k] * 256 + bytes[k + 1] \in Int
    BY <1>1, <2>1, <2>2
  <2> QED
    BY <2>3, <2>4
<1>14. \A k \in 0 .. Len(bytes) : q[k] \in Int
  <2> HIDE DEF P
  <2>1. Nat \subseteq P
    BY <1>12, <1>13, Induction
  <2> QED
    BY <1>1, <2>1 DEF P
<1>15. q \in [0 .. Len(bytes) -> Int]
  BY <1>9, <1>14
<1> QED
  BY <1>11, <1>15 DEF q

LEMMA SumsAre ==
    ASSUME NEW numbers \in Seq(Nat)
    PROVE  /\ Sums(numbers) \in [0 .. Len(numbers) -> Nat]
           /\ Sums(numbers)[0] = 0
           /\ \A k \in 1 .. Len(numbers) : Sums(numbers)[k] = Sums(numbers)[k - 1] + numbers[k]
<1> DEFINE IsIt(q) == q = [k \in 0 .. Len(numbers) |-> IF k = 0 THEN 0 ELSE q[k - 1] + numbers[k]]
           step == [k \in 1 .. Len(numbers) |-> [x \in Nat |-> x + numbers[k]]]
<1>1. Len(numbers) \in Nat /\ 0 \in Nat /\ \A k \in 1 .. Len(numbers), x \in Nat : x + numbers[k] \in Nat
  OBVIOUS
<1>2. Steps(step, Len(numbers), Nat)
  BY <1>1 DEF Steps
<1>3. \A k \in 1 .. Len(numbers), x \in Nat : step[k][x] = x + numbers[k]
  OBVIOUS
<1> HIDE DEF step
<1>4. PICK f : Iterated(f, step, Len(numbers), Nat, 0)
  BY <1>1, <1>2, Iteration
<1>5. ASSUME NEW k \in 0 .. Len(numbers) PROVE f[k] = IF k = 0 THEN 0 ELSE f[k - 1] + numbers[k]
  <2>1. CASE k = 0
    BY <2>1, <1>4 DEF Iterated
  <2>2. CASE k # 0
    <3>1. k \in 1 .. Len(numbers) /\ k - 1 \in 0 .. Len(numbers)
      BY <1>1, <2>2
    <3>2. f[k - 1] \in Nat /\ f[k] = step[k][f[k - 1]]
      BY <1>4, <3>1 DEF Iterated
    <3>3. step[k][f[k - 1]] = f[k - 1] + numbers[k]
      BY <1>3, <3>1, <3>2
    <3> QED
      BY <2>2, <3>2, <3>3
  <2> QED
    BY <2>1, <2>2
<1>6. IsIt(f)
  BY <1>4, <1>5 DEF Iterated
<1>7. Sums(numbers) = CHOOSE q : IsIt(q)
  BY Zenon DEF Sums
<1>8. IsIt(Sums(numbers))
  <2> HIDE DEF IsIt
  <2> QED
    BY <1>6, <1>7, Zenon
<1> DEFINE q == Sums(numbers)
<1> HIDE DEF q
<1>9. q = [k \in 0 .. Len(numbers) |-> q[k]]
  BY <1>8 DEF q
<1>10. ASSUME NEW k \in 0 .. Len(numbers) PROVE q[k] = IF k = 0 THEN 0 ELSE q[k - 1] + numbers[k]
  BY <1>8 DEF q
<1> HIDE DEF IsIt
<1>11. q[0] = 0 /\ \A k \in 1 .. Len(numbers) : q[k] = q[k - 1] + numbers[k]
  BY <1>1, <1>10
<1> DEFINE P == {k \in Nat : k <= Len(numbers) => q[k] \in Nat}
<1>12. 0 \in P
  BY <1>1, <1>11
<1>13. ASSUME NEW k \in Nat, k \in P PROVE k + 1 \in P
  <2> SUFFICES ASSUME k + 1 <= Len(numbers) PROVE q[k + 1] \in Nat
    OBVIOUS
  <2>1. k + 1 \in 1 .. Len(numbers) /\ (k + 1) - 1 = k
    BY <1>1
  <2>2. q[k] \in Nat
    BY <1>1, <1>13
  <2>3. q[k + 1] = q[k] + numbers[k + 1]
    BY <1>11, <2>1
  <2>4. q[k] + numbers[k + 1] \in Nat
    BY <1>1, <2>1, <2>2
  <2> QED
    BY <2>3, <2>4
<1>14. \A k \in 0 .. Len(numbers) : q[k] \in Nat
  <2> HIDE DEF P
  <2>1. Nat \subseteq P
    BY <1>12, <1>13, Induction
  <2> QED
    BY <1>1, <2>1 DEF P
<1>15. q \in [0 .. Len(numbers) -> Nat]
  BY <1>9, <1>14
<1> QED
  BY <1>11, <1>15 DEF q

\* The others have values of no single set.
LEMMA CursorsAre ==
    ASSUME NEW of, NEW in, NEW at, NEW limit \in Nat
    PROVE  \E f : /\ f = [k \in 0 .. limit |-> IF k = 0 THEN at ELSE of.read[in][f[k - 1]].next]
                 /\ Cursors(of, in, at, limit) = f
<1> DEFINE IsIt(m, f) == f = [k \in 0 .. m |-> IF k = 0 THEN at ELSE of.read[in][f[k - 1]].next]
           Q(m) == \E f : IsIt(m, f)
           P == {m \in Nat : m >= 0 => Q(m)}
<1>1. Q(0)
  <2>1. IsIt(0, [k \in 0 .. 0 |-> at])
    OBVIOUS
  <2> QED
    BY <2>1
<1>2. ASSUME NEW m \in Nat, m >= 0, Q(m) PROVE Q(m + 1)
  <2>1. PICK f : IsIt(m, f)
    BY <1>2
  <2>0. \A k \in 0 .. m : f[k] = IF k = 0 THEN at ELSE of.read[in][f[k - 1]].next
    BY <2>1
  <2> DEFINE g == [k \in 0 .. m + 1 |-> IF k = m + 1 THEN of.read[in][f[m]].next ELSE f[k]]
  <2>5. /\ g[m + 1] = of.read[in][f[m]].next /\ \A k \in 0 .. m : g[k] = f[k]
        /\ g = [k \in 0 .. m + 1 |-> g[k]]
    <3>1. m + 1 \in 0 .. m + 1 /\ \A k \in 0 .. m : k \in 0 .. m + 1 /\ k # m + 1
      BY <1>2
    <3> QED
      BY <3>1
  <2> HIDE DEF g
  <2>2. ASSUME NEW k \in 0 .. m + 1 PROVE g[k] = IF k = 0 THEN at ELSE of.read[in][g[k - 1]].next
    <3>1. CASE k = 0
      <4>1. k \in 0 .. m
        BY <3>1, <1>2
      <4> QED
        BY <3>1, <4>1, <2>0, <2>5
    <3>2. CASE k \in 1 .. m
      <4>1. k - 1 \in 0 .. m /\ k \in 0 .. m /\ k # m + 1 /\ k - 1 # m + 1 /\ k - 1 \in 0 .. m + 1
        BY <3>2
      <4>2. g[k] = f[k] /\ g[k - 1] = f[k - 1]
        BY <4>1, <2>5
      <4>3. k # 0
        BY <3>2
      <4>4. f[k] = of.read[in][f[k - 1]].next
        BY <2>0, <4>1, <4>3
      <4> QED
        BY <4>2, <4>3, <4>4
    <3>3. CASE k = m + 1
      <4>1. k - 1 = m /\ k # 0
        <5>1. m >= 0 /\ m \in Nat
          BY <1>2
        <5> QED
          BY <5>1, <3>3
      <4>2. g[k - 1] = f[m]
        <5>1. m \in 0 .. m
          BY <1>2
        <5> QED
          BY <4>1, <5>1, <2>5
      <4>3. g[k] = of.read[in][f[m]].next
        BY <3>3, <2>5
      <4> QED
        BY <3>3, <4>1, <4>2, <4>3
    <3> QED
      BY <3>1, <3>2, <3>3
  <2>4. IsIt(m + 1, g)
    BY <2>2, <2>5
  <2> QED
    BY <2>4
<1> HIDE DEF Q
<1>3. 0 \in P /\ \A m \in Nat : m \in P => m + 1 \in P
  <2>1. 0 \in P
    BY <1>1
  <2>2. ASSUME NEW m \in Nat, m \in P PROVE m + 1 \in P
    <3>1. CASE m >= 0
      BY <3>1, <2>2, <1>2
    <3>2. CASE m < 0
      BY <3>2, <1>1
    <3> QED
      BY <3>1, <3>2
  <2> QED
    BY <2>1, <2>2
<1>4. limit \in P
  <2> HIDE DEF P
  <2> QED
    BY <1>3, Induction
<1>5. \E f : IsIt(limit, f)
  <2>1. Q(limit)
    BY <1>4
  <2> QED
    BY <2>1, Zenon DEF Q
<1> DEFINE f == CHOOSE f : IsIt(limit, f)
<1>6. IsIt(limit, f)
  BY <1>5, Zenon
<1>7. Cursors(of, in, at, limit) = f
  BY Zenon DEF Cursors
<1> QED
  BY <1>6, <1>7

LEMMA FlattenIs ==
    ASSUME NEW parts, Len(parts) \in Nat \ {0}
    PROVE  \E f : /\ f = [k \in 1 .. Len(parts) |-> IF k = 1 THEN parts[k] ELSE f[k - 1] \o parts[k]]
                 /\ FlattenSeq(parts) = f[Len(parts)]
<1> DEFINE IsIt(m, f) == f = [k \in 1 .. m |-> IF k = 1 THEN parts[k] ELSE f[k - 1] \o parts[k]]
           Q(m) == \E f : IsIt(m, f)
           P == {m \in Nat : m >= 1 => Q(m)}
<1>1. Q(1)
  <2>1. IsIt(1, [k \in 1 .. 1 |-> parts[k]])
    OBVIOUS
  <2> QED
    BY <2>1
<1>2. ASSUME NEW m \in Nat, m >= 1, Q(m) PROVE Q(m + 1)
  <2>1. PICK f : IsIt(m, f)
    BY <1>2
  <2>0. \A k \in 1 .. m : f[k] = IF k = 1 THEN parts[k] ELSE f[k - 1] \o parts[k]
    BY <2>1
  <2> DEFINE g == [k \in 1 .. m + 1 |-> IF k = m + 1 THEN f[m] \o parts[(m + 1)] ELSE f[k]]
  <2>5. /\ g[m + 1] = f[m] \o parts[(m + 1)] /\ \A k \in 1 .. m : g[k] = f[k]
        /\ g = [k \in 1 .. m + 1 |-> g[k]]
    <3>1. m + 1 \in 1 .. m + 1 /\ \A k \in 1 .. m : k \in 1 .. m + 1 /\ k # m + 1
      BY <1>2
    <3> QED
      BY <3>1
  <2> HIDE DEF g
  <2>2. ASSUME NEW k \in 1 .. m + 1 PROVE g[k] = IF k = 1 THEN parts[k] ELSE g[k - 1] \o parts[k]
    <3>1. CASE k = 1
      <4>1. k \in 1 .. m
        BY <3>1, <1>2
      <4> QED
        BY <3>1, <4>1, <2>0, <2>5
    <3>2. CASE k \in 2 .. m
      <4>1. k - 1 \in 1 .. m /\ k \in 1 .. m /\ k # m + 1 /\ k - 1 # m + 1 /\ k - 1 \in 1 .. m + 1
        BY <3>2
      <4>2. g[k] = f[k] /\ g[k - 1] = f[k - 1]
        BY <4>1, <2>5
      <4>3. k # 1
        BY <3>2
      <4>4. f[k] = f[k - 1] \o parts[k]
        BY <2>0, <4>1, <4>3
      <4> QED
        BY <4>2, <4>3, <4>4
    <3>3. CASE k = m + 1
      <4>1. k - 1 = m /\ k # 1
        <5>1. m >= 1 /\ m \in Nat
          BY <1>2
        <5> QED
          BY <5>1, <3>3
      <4>2. g[k - 1] = f[m]
        <5>1. m \in 1 .. m
          BY <1>2
        <5> QED
          BY <4>1, <5>1, <2>5
      <4>3. g[k] = f[m] \o parts[(m + 1)]
        BY <3>3, <2>5
      <4> QED
        BY <3>3, <4>1, <4>2, <4>3
    <3> QED
      BY <3>1, <3>2, <3>3
  <2>4. IsIt(m + 1, g)
    BY <2>2, <2>5
  <2> QED
    BY <2>4
<1> HIDE DEF Q
<1>3. 0 \in P /\ \A m \in Nat : m \in P => m + 1 \in P
  <2>1. 0 \in P
    BY <1>1
  <2>2. ASSUME NEW m \in Nat, m \in P PROVE m + 1 \in P
    <3>1. CASE m >= 1
      BY <3>1, <2>2, <1>2
    <3>2. CASE m < 1
      BY <3>2, <1>1
    <3> QED
      BY <3>1, <3>2
  <2> QED
    BY <2>1, <2>2
<1>4. Len(parts) \in P
  <2> HIDE DEF P
  <2> QED
    BY <1>3, Induction
<1>5. \E f : IsIt(Len(parts), f)
  <2>1. Q(Len(parts))
    BY <1>4
  <2> QED
    BY <2>1, Zenon DEF Q
<1> DEFINE f == CHOOSE f : IsIt(Len(parts), f)
<1>6. IsIt(Len(parts), f)
  BY <1>5, Zenon
<1>7. FlattenSeq(parts) = f[Len(parts)]
  BY Zenon DEF FlattenSeq
<1> QED
  BY <1>6, <1>7

LEMMA StructIs ==
    ASSUME NEW fields, Len(fields) \in Nat \ {0}
    PROVE  \E f : /\ f = [k \in 1 .. Len(fields) |-> IF k = 1 THEN fields[1] ELSE Both(f[k - 1], fields[k])]
                 /\ Struct(fields) = f[Len(fields)]
<1> DEFINE IsIt(m, f) == f = [k \in 1 .. m |-> IF k = 1 THEN fields[1] ELSE Both(f[k - 1], fields[k])]
           Q(m) == \E f : IsIt(m, f)
           P == {m \in Nat : m >= 1 => Q(m)}
<1>1. Q(1)
  <2>1. IsIt(1, [k \in 1 .. 1 |-> fields[1]])
    OBVIOUS
  <2> QED
    BY <2>1
<1>2. ASSUME NEW m \in Nat, m >= 1, Q(m) PROVE Q(m + 1)
  <2>1. PICK f : IsIt(m, f)
    BY <1>2
  <2>0. \A k \in 1 .. m : f[k] = IF k = 1 THEN fields[1] ELSE Both(f[k - 1], fields[k])
    BY <2>1
  <2> DEFINE g == [k \in 1 .. m + 1 |-> IF k = m + 1 THEN Both(f[m], fields[(m + 1)]) ELSE f[k]]
  <2>5. /\ g[m + 1] = Both(f[m], fields[(m + 1)]) /\ \A k \in 1 .. m : g[k] = f[k]
        /\ g = [k \in 1 .. m + 1 |-> g[k]]
    <3>1. m + 1 \in 1 .. m + 1 /\ \A k \in 1 .. m : k \in 1 .. m + 1 /\ k # m + 1
      BY <1>2
    <3> QED
      BY <3>1
  <2> HIDE DEF g
  <2>2. ASSUME NEW k \in 1 .. m + 1 PROVE g[k] = IF k = 1 THEN fields[1] ELSE Both(g[k - 1], fields[k])
    <3>1. CASE k = 1
      <4>1. k \in 1 .. m
        BY <3>1, <1>2
      <4> QED
        BY <3>1, <4>1, <2>0, <2>5
    <3>2. CASE k \in 2 .. m
      <4>1. k - 1 \in 1 .. m /\ k \in 1 .. m /\ k # m + 1 /\ k - 1 # m + 1 /\ k - 1 \in 1 .. m + 1
        BY <3>2
      <4>2. g[k] = f[k] /\ g[k - 1] = f[k - 1]
        BY <4>1, <2>5
      <4>3. k # 1
        BY <3>2
      <4>4. f[k] = Both(f[k - 1], fields[k])
        BY <2>0, <4>1, <4>3
      <4> QED
        BY <4>2, <4>3, <4>4
    <3>3. CASE k = m + 1
      <4>1. k - 1 = m /\ k # 1
        <5>1. m >= 1 /\ m \in Nat
          BY <1>2
        <5> QED
          BY <5>1, <3>3
      <4>2. g[k - 1] = f[m]
        <5>1. m \in 1 .. m
          BY <1>2
        <5> QED
          BY <4>1, <5>1, <2>5
      <4>3. g[k] = Both(f[m], fields[(m + 1)])
        BY <3>3, <2>5
      <4> QED
        BY <3>3, <4>1, <4>2, <4>3
    <3> QED
      BY <3>1, <3>2, <3>3
  <2>4. IsIt(m + 1, g)
    BY <2>2, <2>5
  <2> QED
    BY <2>4
<1> HIDE DEF Q
<1>3. 0 \in P /\ \A m \in Nat : m \in P => m + 1 \in P
  <2>1. 0 \in P
    BY <1>1
  <2>2. ASSUME NEW m \in Nat, m \in P PROVE m + 1 \in P
    <3>1. CASE m >= 1
      BY <3>1, <2>2, <1>2
    <3>2. CASE m < 1
      BY <3>2, <1>1
    <3> QED
      BY <3>1, <3>2
  <2> QED
    BY <2>1, <2>2
<1>4. Len(fields) \in P
  <2> HIDE DEF P
  <2> QED
    BY <1>3, Induction
<1>5. \E f : IsIt(Len(fields), f)
  <2>1. Q(Len(fields))
    BY <1>4
  <2> QED
    BY <2>1, Zenon DEF Q
<1> DEFINE f == CHOOSE f : IsIt(Len(fields), f)
<1>6. IsIt(Len(fields), f)
  BY <1>5, Zenon
<1>7. Struct(fields) = f[Len(fields)]
  BY Zenon DEF Struct
<1> QED
  BY <1>6, <1>7

LEMMA StructValueIs ==
    ASSUME NEW values, Len(values) \in Nat \ {0}
    PROVE  \E f : /\ f = [k \in 1 .. Len(values) |-> IF k = 1 THEN values[1] ELSE <<f[k - 1], values[k]>>]
                 /\ StructValue(values) = f[Len(values)]
<1> DEFINE IsIt(m, f) == f = [k \in 1 .. m |-> IF k = 1 THEN values[1] ELSE <<f[k - 1], values[k]>>]
           Q(m) == \E f : IsIt(m, f)
           P == {m \in Nat : m >= 1 => Q(m)}
<1>1. Q(1)
  <2>1. IsIt(1, [k \in 1 .. 1 |-> values[1]])
    OBVIOUS
  <2> QED
    BY <2>1
<1>2. ASSUME NEW m \in Nat, m >= 1, Q(m) PROVE Q(m + 1)
  <2>1. PICK f : IsIt(m, f)
    BY <1>2
  <2>0. \A k \in 1 .. m : f[k] = IF k = 1 THEN values[1] ELSE <<f[k - 1], values[k]>>
    BY <2>1
  <2> DEFINE g == [k \in 1 .. m + 1 |-> IF k = m + 1 THEN <<f[m], values[(m + 1)]>> ELSE f[k]]
  <2>5. /\ g[m + 1] = <<f[m], values[(m + 1)]>> /\ \A k \in 1 .. m : g[k] = f[k]
        /\ g = [k \in 1 .. m + 1 |-> g[k]]
    <3>1. m + 1 \in 1 .. m + 1 /\ \A k \in 1 .. m : k \in 1 .. m + 1 /\ k # m + 1
      BY <1>2
    <3> QED
      BY <3>1
  <2> HIDE DEF g
  <2>2. ASSUME NEW k \in 1 .. m + 1 PROVE g[k] = IF k = 1 THEN values[1] ELSE <<g[k - 1], values[k]>>
    <3>1. CASE k = 1
      <4>1. k \in 1 .. m
        BY <3>1, <1>2
      <4> QED
        BY <3>1, <4>1, <2>0, <2>5
    <3>2. CASE k \in 2 .. m
      <4>1. k - 1 \in 1 .. m /\ k \in 1 .. m /\ k # m + 1 /\ k - 1 # m + 1 /\ k - 1 \in 1 .. m + 1
        BY <3>2
      <4>2. g[k] = f[k] /\ g[k - 1] = f[k - 1]
        BY <4>1, <2>5
      <4>3. k # 1
        BY <3>2
      <4>4. f[k] = <<f[k - 1], values[k]>>
        BY <2>0, <4>1, <4>3
      <4> QED
        BY <4>2, <4>3, <4>4
    <3>3. CASE k = m + 1
      <4>1. k - 1 = m /\ k # 1
        <5>1. m >= 1 /\ m \in Nat
          BY <1>2
        <5> QED
          BY <5>1, <3>3
      <4>2. g[k - 1] = f[m]
        <5>1. m \in 1 .. m
          BY <1>2
        <5> QED
          BY <4>1, <5>1, <2>5
      <4>3. g[k] = <<f[m], values[(m + 1)]>>
        BY <3>3, <2>5
      <4> QED
        BY <3>3, <4>1, <4>2, <4>3
    <3> QED
      BY <3>1, <3>2, <3>3
  <2>4. IsIt(m + 1, g)
    BY <2>2, <2>5
  <2> QED
    BY <2>4
<1> HIDE DEF Q
<1>3. 0 \in P /\ \A m \in Nat : m \in P => m + 1 \in P
  <2>1. 0 \in P
    BY <1>1
  <2>2. ASSUME NEW m \in Nat, m \in P PROVE m + 1 \in P
    <3>1. CASE m >= 1
      BY <3>1, <2>2, <1>2
    <3>2. CASE m < 1
      BY <3>2, <1>1
    <3> QED
      BY <3>1, <3>2
  <2> QED
    BY <2>1, <2>2
<1>4. Len(values) \in P
  <2> HIDE DEF P
  <2> QED
    BY <1>3, Induction
<1>5. \E f : IsIt(Len(values), f)
  <2>1. Q(Len(values))
    BY <1>4
  <2> QED
    BY <2>1, Zenon DEF Q
<1> DEFINE f == CHOOSE f : IsIt(Len(values), f)
<1>6. IsIt(Len(values), f)
  BY <1>5, Zenon
<1>7. StructValue(values) = f[Len(values)]
  BY Zenon DEF StructValue
<1> QED
  BY <1>6, <1>7

-----------------------------------------------------------------------------
(* Numbers.                                                                *)

\* 1, 256, 65536, ...
Powers(n) ==
    LET power[k \in 0 .. n] == IF k = 0 THEN 1 ELSE power[k - 1] * 256
    IN  power

\* How many numbers that many bytes can say.
Capacity(size) == Powers(size)[size]

LEMMA PowersAre ==
    ASSUME NEW n \in Nat
    PROVE  /\ Powers(n) \in [0 .. n -> (Nat \ {0})]
           /\ Powers(n)[0] = 1
           /\ \A k \in 1 .. n : Powers(n)[k] = Powers(n)[k - 1] * 256
<1> DEFINE IsIt(q) == q = [k \in 0 .. n |-> IF k = 0 THEN 1 ELSE q[k - 1] * 256]
           step == [k \in 1 .. n |-> [x \in (Nat \ {0}) |-> x * 256]]
<1>1. n \in Nat /\ 1 \in (Nat \ {0}) /\ \A k \in 1 .. n, x \in (Nat \ {0}) : x * 256 \in (Nat \ {0})
  OBVIOUS
<1>2. Steps(step, n, (Nat \ {0}))
  BY <1>1 DEF Steps
<1>3. \A k \in 1 .. n, x \in (Nat \ {0}) : step[k][x] = x * 256
  OBVIOUS
<1> HIDE DEF step
<1>4. PICK f : Iterated(f, step, n, (Nat \ {0}), 1)
  BY <1>1, <1>2, Iteration
<1>5. ASSUME NEW k \in 0 .. n PROVE f[k] = IF k = 0 THEN 1 ELSE f[k - 1] * 256
  <2>1. CASE k = 0
    BY <2>1, <1>4 DEF Iterated
  <2>2. CASE k # 0
    <3>1. k \in 1 .. n /\ k - 1 \in 0 .. n
      BY <1>1, <2>2
    <3>2. f[k - 1] \in (Nat \ {0}) /\ f[k] = step[k][f[k - 1]]
      BY <1>4, <3>1 DEF Iterated
    <3>3. step[k][f[k - 1]] = f[k - 1] * 256
      BY <1>3, <3>1, <3>2
    <3> QED
      BY <2>2, <3>2, <3>3
  <2> QED
    BY <2>1, <2>2
<1>6. IsIt(f)
  BY <1>4, <1>5 DEF Iterated
<1>7. Powers(n) = CHOOSE q : IsIt(q)
  BY Zenon DEF Powers
<1>8. IsIt(Powers(n))
  <2> HIDE DEF IsIt
  <2> QED
    BY <1>6, <1>7, Zenon
<1> DEFINE q == Powers(n)
<1> HIDE DEF q
<1>9. q = [k \in 0 .. n |-> q[k]]
  BY <1>8 DEF q
<1>10. ASSUME NEW k \in 0 .. n PROVE q[k] = IF k = 0 THEN 1 ELSE q[k - 1] * 256
  BY <1>8 DEF q
<1> HIDE DEF IsIt
<1>11. q[0] = 1 /\ \A k \in 1 .. n : q[k] = q[k - 1] * 256
  BY <1>1, <1>10
<1> DEFINE P == {k \in Nat : q[k] \in (Nat \ {0})}
<1>12. 0 \in P
  BY <1>1, <1>11
<1>13. ASSUME NEW k \in 0 .. n - 1, k \in P PROVE k + 1 \in P
  <2>1. k + 1 \in 1 .. n /\ (k + 1) - 1 = k
    BY <1>1
  <2>2. q[k + 1] = q[k] * 256
    BY <1>11, <2>1
  <2> QED
    BY <1>1, <1>13, <2>1, <2>2
<1>14. \A k \in 0 .. n : q[k] \in (Nat \ {0})
  <2> HIDE DEF P
  <2>1. \A k \in 0 .. n : k \in P
    BY <1>1, <1>12, <1>13, InductionUpTo
  <2> QED
    BY <2>1 DEF P
<1>15. q \in [0 .. n -> (Nat \ {0})]
  BY <1>9, <1>14
<1> QED
  BY <1>11, <1>15 DEF q

\* A number that fits has a byte left when all but one were taken from it.
LEMMA FirstByte ==
    ASSUME NEW size \in Nat \ {0}, NEW n \in 0 .. Capacity(size) - 1
    PROVE  Quotients(n, size)[size - 1] \in 0 .. 255
<1> DEFINE q == Quotients(n, size)
           p == Powers(size)
           P == {k \in Nat : 0 <= q[k] /\ q[k] < p[size - k]}
<1>1. p \in [0 .. size -> Nat \ {0}] /\ p[0] = 1 /\ \A k \in 1 .. size : p[k] = p[k - 1] * 256
  <2>1. size \in Nat
    OBVIOUS
  <2>2. p \in [0 .. size -> Nat \ {0}]
    BY <2>1, PowersAre
  <2>3. p[0] = 1
    BY <2>1, PowersAre
  <2>4. \A k \in 1 .. size : p[k] = p[k - 1] * 256
    BY <2>1, PowersAre
  <2> QED
    BY <2>2, <2>3, <2>4, Zenon
<1>2. n \in Int /\ 0 <= n /\ n < p[size]
  BY <1>1 DEF Capacity
<1>3. q \in [0 .. size -> Int] /\ q[0] = n /\ \A k \in 1 .. size : q[k] = q[k - 1] \div 256
  <2>1. size \in Nat
    OBVIOUS
  <2>2. q \in [0 .. size -> Int]
    BY <1>2, <2>1, QuotientsAre
  <2>3. q[0] = n
    BY <1>2, <2>1, QuotientsAre
  <2>4. \A k \in 1 .. size : q[k] = q[k - 1] \div 256
    BY <1>2, <2>1, QuotientsAre
  <2> QED
    BY <2>2, <2>3, <2>4, Zenon
<1> HIDE DEF p, q
<1>4. 0 \in P
  BY <1>2, <1>3
<1>5. ASSUME NEW k \in 0 .. size - 1, k \in P PROVE k + 1 \in P
  <2>1. k + 1 \in 1 .. size /\ (k + 1) - 1 = k /\ size - k \in 1 .. size /\ (size - k) - 1 = size - (k + 1)
        /\ size - (k + 1) \in 0 .. size /\ k \in 0 .. size
    OBVIOUS
  <2>2. q[k] \in Int /\ q[k + 1] = q[k] \div 256
    BY <1>3, <2>1
  <2>3. p[size - (k + 1)] \in Nat /\ p[size - k] = p[size - (k + 1)] * 256
    BY <1>1, <2>1
  <2>4. ASSUME NEW x \in Int, NEW y \in Nat, 0 <= x, x < y * 256 PROVE 0 <= x \div 256 /\ x \div 256 < y
    BY <2>4
  <2> QED
    BY <1>5, <2>2, <2>3, <2>4
<1>6. \A k \in 0 .. size : k \in P
  <2> HIDE DEF P
  <2> QED
    BY <1>4, <1>5, InductionUpTo
<1>7. size - 1 \in 0 .. size /\ size - (size - 1) = 1 /\ p[1] = 256
  BY <1>1
<1>8. q[size - 1] \in Int /\ 0 <= q[size - 1] /\ q[size - 1] < 256
  BY <1>3, <1>6, <1>7
<1> QED
  BY <1>8 DEF q

\* Of a signed one, the first byte has the sign.
LEMMA SignedFirstByte ==
    ASSUME NEW size \in Nat \ {0}, NEW n \in Int,
           -(128 * Powers(size)[size - 1]) <= n, n < 128 * Powers(size)[size - 1]
    PROVE  Quotients(n, size)[size - 1] \in -128 .. 127
<1> DEFINE q == Quotients(n, size)
           p == Powers(size)
           P == {k \in Nat : -(128 * p[size - 1 - k]) <= q[k] /\ q[k] < 128 * p[size - 1 - k]}
<1>1. p \in [0 .. size -> Nat \ {0}] /\ p[0] = 1 /\ \A k \in 1 .. size : p[k] = p[k - 1] * 256
  BY PowersAre
<1>2. -(128 * p[size - 1]) <= n /\ n < 128 * p[size - 1]
  OBVIOUS
<1>3. q \in [0 .. size -> Int] /\ q[0] = n /\ \A k \in 1 .. size : q[k] = q[k - 1] \div 256
  <2>1. size \in Nat
    OBVIOUS
  <2>2. q \in [0 .. size -> Int]
    BY <2>1, QuotientsAre
  <2>3. q[0] = n
    BY <2>1, QuotientsAre
  <2>4. \A k \in 1 .. size : q[k] = q[k - 1] \div 256
    BY <2>1, QuotientsAre
  <2> QED
    BY <2>2, <2>3, <2>4, Zenon
<1> HIDE DEF p, q
<1>4. 0 \in P
  BY <1>2, <1>3
<1>5. ASSUME NEW k \in 0 .. (size - 1) - 1, k \in P PROVE k + 1 \in P
  <2>1. k + 1 \in 1 .. size /\ (k + 1) - 1 = k /\ size - 1 - k \in 1 .. size /\ k \in 0 .. size
        /\ (size - 1 - k) - 1 = size - 1 - (k + 1) /\ size - 1 - (k + 1) \in 0 .. size
    OBVIOUS
  <2>2. q[k] \in Int /\ q[k + 1] = q[k] \div 256
    BY <1>3, <2>1
  <2>3. p[size - 1 - (k + 1)] \in Nat /\ p[size - 1 - k] = p[size - 1 - (k + 1)] * 256
    BY <1>1, <2>1
  <2>4. ASSUME NEW x \in Int, NEW y \in Nat, -(128 * (y * 256)) <= x, x < 128 * (y * 256)
        PROVE  -(128 * y) <= x \div 256 /\ x \div 256 < 128 * y
    BY <2>4
  <2> QED
    BY <1>5, <2>2, <2>3, <2>4
<1>6. \A k \in 0 .. size - 1 : k \in P
  <2> HIDE DEF P
  <2>1. size - 1 \in Nat
    OBVIOUS
  <2> QED
    BY <1>4, <1>5, <2>1, InductionUpTo
<1>7. size - 1 \in 0 .. size - 1 /\ size - 1 \in 0 .. size /\ (size - 1) - (size - 1) = 0
  OBVIOUS
<1>8. q[size - 1] \in Int /\ -128 <= q[size - 1] /\ q[size - 1] < 128
  BY <1>1, <1>3, <1>6, <1>7
<1> QED
  BY <1>8 DEF q

LEMMA BytesAreWire ==
    ASSUME NEW n \in Int, NEW size \in Nat
    PROVE  /\ Bytes(n, size) \in Wire /\ Len(Bytes(n, size)) = size
           /\ \A i \in 1 .. size : Bytes(n, size)[i] = Quotients(n, size)[size - i] % 256
<1> DEFINE q == Quotients(n, size)
<1>1. q \in [0 .. size -> Int]
  <2>1. size \in Nat
    OBVIOUS
  <2>2. q \in [0 .. size -> Int]
    BY <2>1, QuotientsAre
  <2>3. q[0] = n
    BY <2>1, QuotientsAre
  <2>4. \A k \in 1 .. size : q[k] = q[k - 1] \div 256
    BY <2>1, QuotientsAre
  <2> QED
    BY <2>2, <2>3, <2>4, Zenon
<1> HIDE DEF q
<1>2. ASSUME NEW i \in 1 .. size PROVE q[size - i] % 256 \in 0 .. 255
  <2>1. q[size - i] \in Int
    BY <1>1
  <2> QED
    BY <2>1
<1>3. Bytes(n, size) = [i \in 1 .. size |-> q[size - i] % 256]
  BY DEF Bytes, q
<1>4. Bytes(n, size) \in Seq(0 .. 255) /\ Len(Bytes(n, size)) = size
  BY <1>2, <1>3
<1>5. \A i \in 1 .. size : Bytes(n, size)[i] = q[size - i] % 256
  BY <1>3
<1> QED
  BY <1>4, <1>5 DEF Wire, q

\* The bytes of a number, of which the first is taken for what was left of it, say that
\* number: after each of them, what was left of it when the others had been taken.
LEMMA NumberOfBytes ==
    ASSUME NEW n \in Int, NEW size \in Nat \ {0}, NEW bytes \in Seq(Int), Len(bytes) = size,
           bytes[1] = Quotients(n, size)[size - 1],
           \A i \in 2 .. size : bytes[i] = Quotients(n, size)[size - i] % 256
    PROVE  Number(bytes) = n
<1> DEFINE q == Quotients(n, size)
           number == Numbers(bytes)
           P == {k \in Nat : k >= 1 => number[k] = q[size - k]}
<1>1. q \in [0 .. size -> Int] /\ q[0] = n /\ \A k \in 1 .. size : q[k] = q[k - 1] \div 256
  <2>1. size \in Nat
    OBVIOUS
  <2>2. q \in [0 .. size -> Int]
    BY <2>1, QuotientsAre
  <2>3. q[0] = n
    BY <2>1, QuotientsAre
  <2>4. \A k \in 1 .. size : q[k] = q[k - 1] \div 256
    BY <2>1, QuotientsAre
  <2> QED
    BY <2>2, <2>3, <2>4, Zenon
<1>2. number \in [0 .. size -> Int] /\ number[0] = 0
      /\ \A k \in 1 .. size : number[k] = number[k - 1] * 256 + bytes[k]
  <2>1. number \in [0 .. Len(bytes) -> Int]
    BY NumbersAre
  <2>2. number[0] = 0
    BY NumbersAre
  <2>3. \A k \in 1 .. Len(bytes) : number[k] = number[k - 1] * 256 + bytes[k]
    BY NumbersAre
  <2> HIDE DEF number
  <2> QED
    BY <2>1, <2>2, <2>3
<1>3. bytes[1] = q[size - 1] /\ \A i \in 2 .. size : bytes[i] = q[size - i] % 256
  OBVIOUS
<1>0. Number(bytes) = number[size]
  BY DEF Number
<1> HIDE DEF q, number
<1>4. 0 \in P
  OBVIOUS
<1>5. ASSUME NEW k \in 0 .. size - 1, k \in P PROVE k + 1 \in P
  <2>1. k + 1 \in 1 .. size /\ (k + 1) - 1 = k /\ k \in 0 .. size
    OBVIOUS
  <2>2. number[k + 1] = number[k] * 256 + bytes[k + 1]
    BY <1>2, <2>1
  <2>3. CASE k = 0
    <3>1. number[1] = bytes[1]
      <4>1. bytes[1] \in Int
        OBVIOUS
      <4> QED
        <5>1. number[0] = 0 /\ 0 + 1 = 1 /\ number[0 + 1] = number[0] * 256 + bytes[0 + 1]
          BY <1>2, <2>2, <2>3
        <5> QED
          BY <4>1, <5>1
    <3> QED
      BY <1>3, <2>3, <3>1
  <2>4. CASE k # 0
    <3>1. k + 1 \in 2 .. size /\ size - k \in 1 .. size /\ (size - k) - 1 = size - (k + 1)
          /\ size - (k + 1) \in 0 .. size
      BY <2>4
    <3>2. number[k] = q[size - k] /\ bytes[k + 1] = q[size - (k + 1)] % 256
      BY <1>3, <1>5, <2>4, <3>1
    <3>3. q[size - k] = q[size - (k + 1)] \div 256 /\ q[size - (k + 1)] \in Int
      BY <1>1, <3>1
    <3>4. ASSUME NEW x \in Int PROVE (x \div 256) * 256 + (x % 256) = x
      OBVIOUS
    <3>5. number[k + 1] = q[size - (k + 1)]
      <4> DEFINE y == q[size - (k + 1)]
      <4>1. y \in Int /\ number[k] = y \div 256 /\ bytes[k + 1] = y % 256
        BY <3>2, <3>3
      <4> HIDE DEF y
      <4>2. number[k + 1] = (y \div 256) * 256 + (y % 256)
        <5>1. number[k] * 256 = (y \div 256) * 256
          BY <4>1
        <5> QED
          BY <2>2, <4>1, <5>1
      <4>3. number[k + 1] = y
        BY <3>4, <4>1, <4>2, Zenon
      <4> QED
        BY <4>3 DEF y
    <3> QED
      BY <3>5
  <2> QED
    BY <2>3, <2>4
<1>6. \A k \in 0 .. size : k \in P
  <2> HIDE DEF P
  <2> QED
    BY <1>4, <1>5, InductionUpTo
<1>7. size \in 0 .. size /\ size >= 1 /\ size - size = 0
  OBVIOUS
<1> QED
  BY <1>0, <1>1, <1>6, <1>7

-----------------------------------------------------------------------------
(* What it means that values survive.                                      *)

\* The bytes are found in the input from the cursor on.
Lies(bytes, in, at) ==
    /\ at \in Nat \ {0}
    /\ at + Len(bytes) - 1 <= Len(in)
    /\ \A k \in 1 .. Len(bytes) : in[at + k - 1] = bytes[k]

\* What is read where the bytes lie, from whatever input: the value, up to the cursor
\* behind them.
Reads(t, bytes, value) ==
    \A in \in Wire, at \in Nat :
        Lies(bytes, in, at) => t.read[in][at] = [value |-> value, next |-> at + Len(bytes)]

\* Each of the values is written to as many bytes as are measured, at least one, and
\* read back from them.
Sound(t, values) ==
    /\ t.static \in BOOLEAN
    /\ t.static => t.size \in Nat \ {0}
    /\ values \subseteq DOMAIN t.write
    /\ \A v \in values :
           /\ t.write[v] \in Wire /\ Len(t.write[v]) > 0
           /\ t.measure[v] = Len(t.write[v])
           /\ t.static => Len(t.write[v]) = t.size
           /\ Reads(t, t.write[v], v)

LEMMA WireOfNumbers ==
    ASSUME NEW bytes \in Wire
    PROVE  /\ bytes \in Seq(Int) /\ Len(bytes) \in Nat /\ DOMAIN bytes = 1 .. Len(bytes)
           /\ \A i \in 1 .. Len(bytes) : bytes[i] \in 0 .. 255
<1>1. bytes \in Seq(0 .. 255)
  BY DEF Wire
<1>2. Len(bytes) \in Nat /\ DOMAIN bytes = 1 .. Len(bytes)
  BY <1>1, LenProperties
<1>3. \A i \in 1 .. Len(bytes) : bytes[i] \in 0 .. 255
  BY <1>1, ElementOfSeq
<1>4. 0 .. 255 \subseteq Int
  OBVIOUS
<1>5. bytes \in Seq(Int)
  BY <1>1, <1>4, SeqMonotonic
<1> QED
  BY <1>1, <1>2, <1>3, <1>5

\* What lies between two places of the input.
LEMMA CutOut ==
    ASSUME NEW in \in Wire, NEW from \in Nat \ {0}, NEW to \in Int, from <= to + 1, to <= Len(in)
    PROVE  /\ SubSeq(in, from, to) \in Wire /\ Len(SubSeq(in, from, to)) = to - from + 1
           /\ \A k \in 1 .. to - from + 1 : SubSeq(in, from, to)[k] = in[from + k - 1]
<1>1. Len(in) \in Nat /\ \A i \in 1 .. Len(in) : in[i] \in 0 .. 255
  BY WireOfNumbers
<1>2. \A i \in from .. to : in[i] \in 0 .. 255
  BY <1>1
<1>3. from \in Int
  OBVIOUS
<1> DEFINE s == SubSeq(in, from, to)
<1>4. s \in Seq(0 .. 255)
  BY <1>2, <1>3, SubSeqProperties
<1>5. Len(s) = IF from <= to THEN to - from + 1 ELSE 0
  BY <1>2, <1>3, SubSeqProperties
<1>6. \A k \in 1 .. to - from + 1 : s[k] = in[from + k - 1]
  BY <1>2, <1>3, SubSeqProperties
<1> HIDE DEF s
<1>7. s \in Wire /\ Len(s) = to - from + 1
  BY <1>4, <1>5 DEF Wire
<1> QED
  BY <1>6, <1>7 DEF s

LEMMA LiesThere ==
    ASSUME NEW bytes \in Wire, NEW in \in Wire, NEW at, Lies(bytes, in, at)
    PROVE  SubSeq(in, at, at + Len(bytes) - 1) = bytes
<1>1. at \in Nat \ {0} /\ at + Len(bytes) - 1 <= Len(in)
      /\ \A k \in 1 .. Len(bytes) : in[at + k - 1] = bytes[k]
  BY DEF Lies
<1>2. Len(bytes) \in Nat /\ Len(in) \in Nat
  BY WireOfNumbers
<1> DEFINE to == at + Len(bytes) - 1
           s == SubSeq(in, at, to)
<1>3. to \in Int /\ at <= to + 1 /\ to <= Len(in) /\ to - at + 1 = Len(bytes)
  BY <1>1, <1>2
<1> HIDE DEF to
<1>4. s \in Wire /\ Len(s) = Len(bytes) /\ \A k \in 1 .. Len(bytes) : s[k] = in[at + k - 1]
  BY <1>1, <1>3, CutOut
<1> HIDE DEF s
<1>5. s \in Seq(0 .. 255) /\ bytes \in Seq(0 .. 255)
  BY <1>4 DEF Wire
<1>6. \A k \in 1 .. Len(bytes) : s[k] = bytes[k]
  BY <1>1, <1>4
<1>7. s = bytes
  BY <1>4, <1>5, <1>6, SeqEqual
<1> QED
  BY <1>7 DEF s, to

LEMMA LiesInParts ==
    ASSUME NEW a \in Wire, NEW b \in Wire, NEW in, NEW at, Lies(a \o b, in, at), Len(in) \in Nat
    PROVE  Lies(a, in, at) /\ Lies(b, in, at + Len(a))
<1>1. /\ Len(a) \in Nat /\ Len(b) \in Nat /\ Len(a \o b) = Len(a) + Len(b)
      /\ \A k \in 1 .. Len(a) : (a \o b)[k] = a[k]
      /\ \A k \in 1 .. Len(b) : (a \o b)[Len(a) + k] = b[k]
  BY DEF Wire
<1>2. at \in Nat \ {0} /\ at + (Len(a) + Len(b)) - 1 <= Len(in)
      /\ \A k \in 1 .. Len(a) + Len(b) : in[at + k - 1] = (a \o b)[k]
  BY <1>1 DEF Lies
<1>3. ASSUME NEW k \in 1 .. Len(a) PROVE in[at + k - 1] = a[k]
  BY <1>1, <1>2
<1>4. ASSUME NEW k \in 1 .. Len(b) PROVE in[(at + Len(a)) + k - 1] = b[k]
  <2>1. Len(a) + k \in 1 .. Len(a) + Len(b) /\ at + (Len(a) + k) - 1 = (at + Len(a)) + k - 1
    BY <1>1, <1>2
  <2>2. in[at + (Len(a) + k) - 1] = (a \o b)[Len(a) + k]
    BY <1>2, <2>1
  <2> QED
    BY <1>1, <2>1, <2>2
<1>5. at + Len(a) \in Nat \ {0} /\ at + Len(a) - 1 <= Len(in) /\ (at + Len(a)) + Len(b) - 1 <= Len(in)
  BY <1>1, <1>2
<1> QED
  BY <1>2, <1>3, <1>4, <1>5 DEF Lies

LEMMA LengthRead ==
    ASSUME NEW field \in Nat \ {0}, NEW n \in 0 .. Capacity(field) - 1,
           NEW in \in Wire, NEW at, Lies(Bytes(n, field), in, at)
    PROVE  ReadLength(field, in, at) = n
<1>1. Capacity(field) \in Nat
  BY PowersAre DEF Capacity
<1>2. n \in Int /\ field \in Nat
  BY <1>1
<1> DEFINE bytes == Bytes(n, field)
           q == Quotients(n, field)
<1>3. bytes \in Wire /\ Len(bytes) = field /\ \A i \in 1 .. field : bytes[i] = q[field - i] % 256
  BY <1>2, BytesAreWire
<1>4. Lies(bytes, in, at)
  OBVIOUS
<1>5. q[field - 1] \in 0 .. 255
  BY FirstByte
<1>6. SubSeq(in, at, at + field - 1) = bytes
  <2> HIDE DEF bytes
  <2> QED
    BY <1>3, <1>4, LiesThere
<1>7. Number(bytes) = n
  <2> HIDE DEF bytes
  <2>1. bytes[1] = q[field - 1]
    <3>1. 1 \in 1 .. field
      BY <1>2
    <3>2. bytes[1] = q[field - 1] % 256
      BY <1>3, <3>1
    <3> QED
      BY <1>5, <3>2
  <2>2. bytes \in Seq(Int)
    BY <1>3, WireOfNumbers
  <2>3. \A i \in 2 .. field : bytes[i] = q[field - i] % 256
    BY <1>2, <1>3
  <2> QED
    BY <1>2, <1>3, <2>1, <2>2, <2>3, NumberOfBytes
<1> QED
  BY <1>6, <1>7 DEF ReadLength

-----------------------------------------------------------------------------
(* Integers, enums and floats.                                             *)

IntegerValues(size, signed) ==
    IF signed THEN {v \in Int : /\ -(128 * Powers(size)[size - 1]) <= v
                                /\ v < 128 * Powers(size)[size - 1]}
    ELSE 0 .. Capacity(size) - 1

LEMMA IntegerRead ==
    ASSUME NEW size \in Nat \ {0}, NEW signed \in BOOLEAN, NEW v \in IntegerValues(size, signed),
           NEW in \in Wire, NEW at, Lies(Bytes(v, size), in, at)
    PROVE  ReadInteger(size, signed, in, at) = [value |-> v, next |-> at + size]
<1>1. Capacity(size) \in Nat
  BY PowersAre DEF Capacity
<1>2. v \in Int /\ size \in Nat
  BY <1>1 DEF IntegerValues
<1> DEFINE bytes == Bytes(v, size)
           top == Quotients(v, size)[size - 1]
           first == IF signed /\ bytes[1] >= 128 THEN bytes[1] - 256 ELSE bytes[1]
           read == <<first>> \o Tail(bytes)
<1>3. bytes \in Wire /\ Len(bytes) = size
      /\ \A i \in 1 .. size : bytes[i] = Quotients(v, size)[size - i] % 256
  BY <1>2, BytesAreWire
<1>4. Lies(bytes, in, at)
  OBVIOUS
<1> HIDE DEF bytes
<1>5. SubSeq(in, at, at + size - 1) = bytes
  BY <1>3, <1>4, LiesThere
<1>6. first = top /\ first \in Int
  <2>1. 1 \in 1 .. size
    BY <1>2
  <2>2. bytes[1] = top % 256
    BY <1>3, <2>1
  <2>3. CASE signed
    <3>1. -(128 * Powers(size)[size - 1]) <= v /\ v < 128 * Powers(size)[size - 1]
      BY <2>3 DEF IntegerValues
    <3>2. top \in -128 .. 127
      BY <1>2, <3>1, SignedFirstByte
    <3> HIDE DEF top
    <3> QED
      BY <2>2, <2>3, <3>2
  <2>4. CASE ~signed
    <3>1. v \in 0 .. Capacity(size) - 1
      BY <2>4 DEF IntegerValues
    <3>2. top \in 0 .. 255
      BY <3>1, FirstByte
    <3> HIDE DEF top
    <3> QED
      BY <2>2, <2>4, <3>2
  <2> QED
    BY <2>3, <2>4
<1> HIDE DEF first
<1>7. /\ read \in Seq(Int) /\ Len(read) = size /\ read[1] = first
      /\ \A i \in 2 .. size : read[i] = bytes[i]
  <2>1. bytes \in Seq(Int) /\ bytes # <<>>
    BY <1>2, <1>3, WireOfNumbers
  <2>2. Tail(bytes) \in Seq(Int) /\ Len(Tail(bytes)) = size - 1
        /\ \A i \in 1 .. size - 1 : Tail(bytes)[i] = bytes[i + 1]
    BY <1>3, <2>1
  <2>3. <<first>> \in Seq(Int) /\ Len(<<first>>) = 1 /\ <<first>>[1] = first
    BY <1>6
  <2> QED
    BY <2>2, <2>3, <1>2
<1>8. Number(read) = v
  <2> HIDE DEF read
  <2>1. read[1] = Quotients(v, size)[size - 1]
    BY <1>6, <1>7
  <2>2. \A i \in 2 .. size : read[i] = Quotients(v, size)[size - i] % 256
    BY <1>2, <1>3, <1>7
  <2> QED
    BY <1>2, <1>7, <2>1, <2>2, NumberOfBytes
<1> QED
  BY <1>5, <1>8 DEF ReadInteger, first

\* An integer of any width, signed or not, is read back as it was written.
THEOREM IntegersSurvive ==
    ASSUME NEW size \in Nat \ {0}, NEW signed \in BOOLEAN
    PROVE  Sound(Integer(size, signed), IntegerValues(size, signed))
<1> DEFINE t == Integer(size, signed)
<1>1. Capacity(size) \in Nat /\ size \in Nat
  BY PowersAre DEF Capacity
<1>2. IntegerValues(size, signed) \subseteq Int
  BY <1>1 DEF IntegerValues
<1>3. t.static = TRUE /\ t.size = size /\ DOMAIN t.write = Int
  BY DEF Integer
<1>4. \A v \in Int : t.write[v] = Bytes(v, size) /\ t.measure[v] = size
  BY DEF Integer
<1>5. \A in \in Wire, at \in Nat : t.read[in][at] = ReadInteger(size, signed, in, at)
  BY DEF Integer
<1> HIDE DEF t
<1>6. ASSUME NEW v \in IntegerValues(size, signed)
      PROVE  t.write[v] \in Wire /\ Len(t.write[v]) = size
  BY <1>1, <1>2, <1>4, BytesAreWire
<1>7. ASSUME NEW v \in IntegerValues(size, signed), NEW in \in Wire, NEW at \in Nat,
             Lies(t.write[v], in, at)
      PROVE  t.read[in][at] = [value |-> v, next |-> at + Len(t.write[v])]
  <2>1. Lies(Bytes(v, size), in, at)
    BY <1>2, <1>4, <1>7
  <2> QED
    BY <1>5, <1>6, <2>1, IntegerRead
<1>8. \A v \in IntegerValues(size, signed) : Reads(t, t.write[v], v)
  BY <1>7 DEF Reads
<1>9. Sound(t, IntegerValues(size, signed))
  <2>1. t.static => t.size \in Nat \ {0}
    BY <1>3
  <2>2. IntegerValues(size, signed) \subseteq DOMAIN t.write
    BY <1>2, <1>3
  <2>3. ASSUME NEW v \in IntegerValues(size, signed)
        PROVE  /\ t.write[v] \in Wire /\ Len(t.write[v]) > 0
               /\ t.measure[v] = Len(t.write[v])
               /\ t.static => Len(t.write[v]) = t.size
    BY <1>1, <1>2, <1>3, <1>4, <1>6
  <2> QED
    BY <1>3, <1>8, <2>1, <2>2, <2>3 DEF Sound
<1> QED
  BY <1>9 DEF t

-----------------------------------------------------------------------------
(* Strings.                                                                *)

LEMMA JoinedWire ==
    ASSUME NEW a \in Wire, NEW b \in Wire
    PROVE  a \o b \in Wire /\ Len(a \o b) = Len(a) + Len(b)
  BY DEF Wire

\* What is written of a string whose mark need not be the one it should be.
MarkedString(field, mark, v) == Bytes(Len(mark) + Len(v) + 1, field) \o mark \o v \o <<0>>

LEMMA MarkedStringIsWire ==
    ASSUME NEW field \in Nat, NEW mark \in Wire, NEW v \in Wire, Len(mark) = 3
    PROVE  MarkedString(field, mark, v) \in Wire /\ Len(MarkedString(field, mark, v)) = field + Len(v) + 4
<1>1. <<0>> \in Wire /\ Len(<<0>>) = 1
  BY DEF Wire
<1>2. Len(v) \in Nat
  BY WireOfNumbers
<1> DEFINE b == Bytes(Len(mark) + Len(v) + 1, field)
<1>3. b \in Wire /\ Len(b) = field
  BY <1>2, BytesAreWire
<1> HIDE DEF b
<1>4. b \o mark \in Wire /\ Len(b \o mark) = field + 3
  BY <1>3, JoinedWire
<1>5. b \o mark \o v \in Wire /\ Len(b \o mark \o v) = field + 3 + Len(v)
  BY <1>4, JoinedWire
<1>6. b \o mark \o v \o <<0>> \in Wire /\ Len(b \o mark \o v \o <<0>>) = field + 3 + Len(v) + 1
  BY <1>1, <1>5, JoinedWire
<1> QED
  BY <1>2, <1>6 DEF MarkedString, b

\* The text if the mark is the right one, and the same next cursor if it is not.
StringIsRead(field, n, mark, v, in, at) ==
    ReadString(field, n, in, at) =
        [value |-> IF mark = bom_utf8 THEN v ELSE <<>>, next |-> at + (field + Len(v) + 4)]

LEMMA StringRead ==
    ASSUME NEW field \in Nat, NEW n, NEW mark \in Wire, NEW v \in Wire, Len(mark) = 3,
           field = 0 => n = Len(v), field # 0 => Len(v) + 4 < Capacity(field),
           NEW in \in Wire, NEW at, Lies(MarkedString(field, mark, v), in, at)
    PROVE  StringIsRead(field, n, mark, v, in, at)
<1>1. <<0>> \in Wire /\ Len(<<0>>) = 1 /\ Len(bom_utf8) = 3
  BY DEF Wire, bom_utf8
<1>2. Len(v) \in Nat /\ Len(in) \in Nat
  BY WireOfNumbers
<1> DEFINE length == Len(v) + 4
           b == Bytes(length, field)
           start == at + field
<1>3. b \in Wire /\ Len(b) = field
  BY <1>2, BytesAreWire
<1>4. Len(mark) + Len(v) + 1 = length
  BY <1>2
<1>5. Lies(b \o mark \o v \o <<0>>, in, at)
  BY <1>4 DEF MarkedString
<1> HIDE DEF b
<1>6. b \o mark \in Wire /\ Len(b \o mark) = field + 3
  BY <1>3, JoinedWire
<1>7. b \o mark \o v \in Wire /\ Len(b \o mark \o v) = field + 3 + Len(v)
  BY <1>6, JoinedWire
<1>8. Lies(b \o mark \o v, in, at) /\ Lies(<<0>>, in, at + (field + 3 + Len(v)))
  BY <1>1, <1>2, <1>5, <1>7, LiesInParts
<1>9. Lies(b \o mark, in, at) /\ Lies(v, in, at + (field + 3))
  BY <1>2, <1>6, <1>8, LiesInParts
<1>10. Lies(b, in, at) /\ Lies(mark, in, start)
  BY <1>2, <1>3, <1>9, LiesInParts
<1>11. at \in Nat \ {0}
  BY <1>10 DEF Lies
<1>12. SubSeq(in, start, start + Len(bom_utf8) - 1) = mark
  BY <1>1, <1>10, LiesThere
<1>13. SubSeq(in, start + Len(bom_utf8), start + length - 2) = v
  <2>1. SubSeq(in, at + (field + 3), at + (field + 3) + Len(v) - 1) = v
    BY <1>9, LiesThere
  <2>2. at + (field + 3) = start + Len(bom_utf8) /\ at + (field + 3) + Len(v) - 1 = start + length - 2
    BY <1>1, <1>2, <1>11
  <2> QED
    BY <2>1, <2>2
<1>14. (IF field = 0 THEN Len(bom_utf8) + n + 1 ELSE ReadLength(field, in, at)) = length
  <2>1. CASE field = 0
    BY <1>1, <1>2, <2>1
  <2>2. CASE field # 0
    <3>1. Capacity(field) \in Nat
      BY PowersAre DEF Capacity
    <3>2. length \in 0 .. Capacity(field) - 1
      BY <1>2, <2>2, <3>1
    <3>3. ReadLength(field, in, at) = length
      <4> HIDE DEF length
      <4> QED
        BY <1>10, <2>2, <3>2, LengthRead DEF b
    <3> QED
      BY <2>2, <3>3
  <2> QED
    BY <2>1, <2>2
<1>15. start + length = at + (field + Len(v) + 4)
  BY <1>2, <1>11
<1> HIDE DEF start, length
<1> QED
  BY <1>12, <1>13, <1>14, <1>15 DEF StringIsRead, ReadString, start

StringValues(field) == {v \in Wire : Len(v) + 4 < Capacity(field)}

\* A string is read back as it was written, if its length fits its length field.
THEOREM StringsSurvive ==
    ASSUME NEW field \in Nat \ {0}
    PROVE  Sound(DynamicString(field), StringValues(field))
<1> DEFINE t == DynamicString(field)
<1>1. t.static = FALSE /\ DOMAIN t.write = Wire
  BY DEF DynamicString
<1>2. \A v \in Wire : t.write[v] = WriteString(field, v) /\ t.measure[v] = StringSize(field, Len(v))
  BY DEF DynamicString
<1>3. \A in \in Wire, at \in Nat : t.read[in][at] = ReadString(field, 0, in, at)
  BY DEF DynamicString
<1> HIDE DEF t
<1>4. bom_utf8 \in Wire /\ Len(bom_utf8) = 3
  BY DEF bom_utf8, Wire
<1>5. ASSUME NEW v \in StringValues(field)
      PROVE  /\ t.write[v] \in Wire /\ Len(t.write[v]) > 0
             /\ t.measure[v] = Len(t.write[v])
             /\ Reads(t, t.write[v], v)
  <2>1. v \in Wire /\ Len(v) \in Nat /\ Len(v) + 4 < Capacity(field)
    BY WireOfNumbers DEF StringValues
  <2>2. t.write[v] = MarkedString(field, bom_utf8, v)
    BY <1>2, <2>1 DEF MarkedString, WriteString
  <2>3. t.write[v] \in Wire /\ Len(t.write[v]) = field + Len(v) + 4
    BY <1>4, <2>1, <2>2, MarkedStringIsWire
  <2>4. t.measure[v] = field + 3 + Len(v) + 1
    BY <1>2, <1>4, <2>1 DEF StringSize
  <2>5. ASSUME NEW in \in Wire, NEW at \in Nat, Lies(t.write[v], in, at)
        PROVE  t.read[in][at] = [value |-> v, next |-> at + Len(t.write[v])]
    <3>1. Lies(MarkedString(field, bom_utf8, v), in, at)
      BY <2>2, <2>5
    <3>2. ReadString(field, 0, in, at) = [value |-> v, next |-> at + (field + Len(v) + 4)]
      <4>1. StringIsRead(field, 0, bom_utf8, v, in, at)
        BY <1>4, <2>1, <3>1, StringRead
      <4> QED
        BY <4>1 DEF StringIsRead
    <3> QED
      BY <1>3, <2>3, <3>2
  <2>6. Reads(t, t.write[v], v)
    BY <2>5 DEF Reads
  <2> QED
    BY <2>1, <2>3, <2>4, <2>6
<1>6. StringValues(field) \subseteq DOMAIN t.write
  BY <1>1 DEF StringValues
<1>7. Sound(t, StringValues(field))
  BY <1>1, <1>5, <1>6 DEF Sound
<1> QED
  BY <1>7 DEF t
FixedStringValues(n) == [1 .. n -> 0 .. 255]

LEMMA TextsFill ==
    ASSUME NEW n \in Nat, NEW v \in FixedStringValues(n)
    PROVE  v \in Wire /\ Len(v) = n /\ Filled(n, v, 0) = v
<1>1. v \in Wire /\ Len(v) = n
  BY DEF FixedStringValues, Wire
<1>2. v = [i \in 1 .. n |-> v[i]]
  BY DEF FixedStringValues
<1> QED
  BY <1>1, <1>2 DEF Filled

\* The same for a string of a fixed length, with a length field or without.
THEOREM FixedStringsSurvive ==
    ASSUME NEW n \in Nat, NEW field \in Nat, field # 0 => n + 4 < Capacity(field)
    PROVE  Sound(FixedString(n, field), FixedStringValues(n))
<1> DEFINE t == FixedString(n, field)
           values == FixedStringValues(n)
<1>1. t.static = TRUE /\ t.size = StringSize(field, n) /\ DOMAIN t.write = values
  BY DEF FixedString, FixedStringValues
<1>2. \A v \in values : t.write[v] = WriteString(field, v) /\ t.measure[v] = StringSize(field, n)
  BY DEF FixedString, FixedStringValues
<1>3. \A in \in Wire, at \in Nat :
          t.read[in][at] = [ReadString(field, n, in, at) EXCEPT !.value = Filled(n, @, 0)]
  BY DEF FixedString
<1> HIDE DEF t
<1>4. bom_utf8 \in Wire /\ Len(bom_utf8) = 3
  BY DEF bom_utf8, Wire
<1>5. StringSize(field, n) = field + n + 4 /\ StringSize(field, n) \in Nat \ {0}
  BY <1>4 DEF StringSize
<1>6. ASSUME NEW v \in values
      PROVE  /\ t.write[v] \in Wire /\ Len(t.write[v]) > 0
             /\ t.measure[v] = Len(t.write[v])
             /\ t.static => Len(t.write[v]) = t.size
             /\ Reads(t, t.write[v], v)
  <2>1. v \in Wire /\ Len(v) = n /\ Filled(n, v, 0) = v
    BY TextsFill
  <2>2. t.write[v] = MarkedString(field, bom_utf8, v)
    BY <1>2 DEF MarkedString, WriteString
  <2>3. t.write[v] \in Wire /\ Len(t.write[v]) = field + n + 4
    <3>1. /\ MarkedString(field, bom_utf8, v) \in Wire
          /\ Len(MarkedString(field, bom_utf8, v)) = field + Len(v) + 4
      BY <1>4, <2>1, MarkedStringIsWire
    <3> QED
      BY <2>1, <2>2, <3>1
  <2>4. ASSUME NEW in \in Wire, NEW at \in Nat, Lies(t.write[v], in, at)
        PROVE  t.read[in][at] = [value |-> v, next |-> at + Len(t.write[v])]
    <3>1. Lies(MarkedString(field, bom_utf8, v), in, at)
      BY <2>2, <2>4
    <3>2. StringIsRead(field, n, bom_utf8, v, in, at)
      BY <1>4, <2>1, <3>1, StringRead
    <3>3. ReadString(field, n, in, at) = [value |-> v, next |-> at + (field + n + 4)]
      BY <2>1, <3>2 DEF StringIsRead
    <3> QED
      BY <1>3, <2>1, <2>3, <3>3
  <2>5. Reads(t, t.write[v], v)
    BY <2>4 DEF Reads
  <2> QED
    BY <1>1, <1>2, <1>5, <2>3, <2>5
<1>7. Sound(t, values)
  BY <1>1, <1>5, <1>6 DEF Sound
<1> QED
  BY <1>7 DEF t

\* A string whose mark is another one is read as a blank one, up to the same cursor:
\* whatever follows is read as if the mark had been right.
THEOREM ForeignMarksAreSkipped ==
    ASSUME NEW field \in Nat \ {0}, NEW v \in StringValues(field),
           NEW mark \in Wire, Len(mark) = 3, mark # bom_utf8
    PROVE  Reads(DynamicString(field), MarkedString(field, mark, v), DynamicString(field).blank)
<1> DEFINE t == DynamicString(field)
           bytes == MarkedString(field, mark, v)
<1>1. t.blank = <<>> /\ \A in \in Wire, at \in Nat : t.read[in][at] = ReadString(field, 0, in, at)
  BY DEF DynamicString
<1> HIDE DEF t
<1>2. v \in Wire /\ Len(v) \in Nat /\ Len(v) + 4 < Capacity(field)
  BY WireOfNumbers DEF StringValues
<1>3. Len(bytes) = field + Len(v) + 4
  BY <1>2, MarkedStringIsWire
<1>4. ASSUME NEW in \in Wire, NEW at \in Nat, Lies(bytes, in, at)
      PROVE  t.read[in][at] = [value |-> t.blank, next |-> at + Len(bytes)]
  <2>1. StringIsRead(field, 0, mark, v, in, at)
    BY <1>2, <1>4, StringRead
  <2>2. ReadString(field, 0, in, at) = [value |-> <<>>, next |-> at + (field + Len(v) + 4)]
    BY <2>1 DEF StringIsRead
  <2> QED
    BY <1>1, <1>3, <2>2
<1>5. Reads(t, bytes, t.blank)
  BY <1>4 DEF Reads
<1> QED
  BY <1>5 DEF t

\* The same for a string of a fixed length.
THEOREM ForeignMarksOfFixedStringsAreSkipped ==
    ASSUME NEW n \in Nat, NEW field \in Nat, field # 0 => n + 4 < Capacity(field),
           NEW v \in FixedStringValues(n), NEW mark \in Wire, Len(mark) = 3, mark # bom_utf8
    PROVE  Reads(FixedString(n, field), MarkedString(field, mark, v), FixedString(n, field).blank)
<1> DEFINE t == FixedString(n, field)
           bytes == MarkedString(field, mark, v)
<1>1. /\ t.blank = Filled(n, <<>>, 0)
      /\ \A in \in Wire, at \in Nat :
             t.read[in][at] = [ReadString(field, n, in, at) EXCEPT !.value = Filled(n, @, 0)]
  BY DEF FixedString
<1> HIDE DEF t
<1>2. v \in Wire /\ Len(v) = n
  BY TextsFill
<1>3. Len(bytes) = field + n + 4
  BY <1>2, MarkedStringIsWire
<1>4. ASSUME NEW in \in Wire, NEW at \in Nat, Lies(bytes, in, at)
      PROVE  t.read[in][at] = [value |-> t.blank, next |-> at + Len(bytes)]
  <2>1. StringIsRead(field, n, mark, v, in, at)
    BY <1>2, <1>4, StringRead
  <2>2. ReadString(field, n, in, at) = [value |-> <<>>, next |-> at + (field + n + 4)]
    BY <1>2, <2>1 DEF StringIsRead
  <2> QED
    BY <1>1, <1>3, <2>2
<1>5. Reads(t, bytes, t.blank)
  BY <1>4 DEF Reads
<1> QED
  BY <1>5 DEF t

-----------------------------------------------------------------------------
(* Structs.                                                                *)

LEMMA InductionFromOne ==
    ASSUME NEW P, NEW n \in Nat \ {0}, 1 \in P, \A k \in 1 .. n - 1 : k \in P => k + 1 \in P
    PROVE  n \in P
<1> DEFINE T == {j \in Nat : j + 1 \in P}
<1>1. n - 1 \in Nat /\ 0 \in T
  OBVIOUS
<1>2. ASSUME NEW j \in 0 .. (n - 1) - 1, j \in T PROVE j + 1 \in T
  <2>1. j + 1 \in 1 .. n - 1 /\ j + 1 \in P
    BY <1>2
  <2> QED
    BY <2>1
<1>3. n - 1 \in T
  <2> HIDE DEF T
  <2>1. \A k \in 0 .. n - 1 : k \in T
    BY <1>1, <1>2, InductionUpTo
  <2> QED
    BY <1>1, <2>1
<1> QED
  BY <1>3

LEMMA BothReads ==
    ASSUME NEW a, NEW b, NEW x \in Wire, NEW y \in Wire, NEW u, NEW w,
           Reads(a, x, u), Reads(b, y, w)
    PROVE  Reads(Both(a, b), x \o y, <<u, w>>)
<1> DEFINE t == Both(a, b)
<1>1. \A in \in Wire, at \in Nat :
          t.read[in][at] =
              [value |-> <<a.read[in][at].value, b.read[in][a.read[in][at].next].value>>,
               next |-> b.read[in][a.read[in][at].next].next]
  BY DEF Both
<1> HIDE DEF t
<1>2. Len(x) \in Nat /\ Len(y) \in Nat /\ Len(x \o y) = Len(x) + Len(y)
  BY WireOfNumbers, JoinedWire
<1>3. ASSUME NEW in \in Wire, NEW at \in Nat, Lies(x \o y, in, at)
      PROVE  t.read[in][at] = [value |-> <<u, w>>, next |-> at + Len(x \o y)]
  <2>1. Len(in) \in Nat
    BY WireOfNumbers
  <2>2. Lies(x, in, at) /\ Lies(y, in, at + Len(x))
    BY <1>3, <2>1, LiesInParts
  <2>3. a.read[in][at] = [value |-> u, next |-> at + Len(x)]
    BY <2>2 DEF Reads
  <2>4. at + Len(x) \in Nat
    BY <1>2
  <2>5. b.read[in][at + Len(x)] = [value |-> w, next |-> (at + Len(x)) + Len(y)]
    BY <2>2, <2>4 DEF Reads
  <2>6. (at + Len(x)) + Len(y) = at + Len(x \o y)
    BY <1>2
  <2>7. a.read[in][at].value = u /\ a.read[in][at].next = at + Len(x)
    BY <2>3
  <2>8. /\ b.read[in][a.read[in][at].next].value = w
        /\ b.read[in][a.read[in][at].next].next = at + Len(x \o y)
    BY <2>5, <2>6, <2>7
  <2> QED
    BY <1>1, <2>7, <2>8
<1>4. Reads(t, x \o y, <<u, w>>)
  BY <1>3 DEF Reads
<1> QED
  BY <1>4 DEF t

\* What is known of a type and the bytes of one value.
Writes(t, v, bytes) ==
    /\ t.static \in BOOLEAN
    /\ v \in DOMAIN t.write
    /\ bytes \in Wire /\ Len(bytes) > 0
    /\ t.write[v] = bytes
    /\ t.measure[v] = Len(bytes)
    /\ t.static => t.size = Len(bytes)

LEMMA BothWrite ==
    ASSUME NEW a, NEW b, NEW x, NEW y, NEW u, NEW w, Writes(a, u, x), Writes(b, w, y)
    PROVE  Writes(Both(a, b), <<u, w>>, x \o y)
<1> DEFINE t == Both(a, b)
           v == <<u, w>>
<1>1. /\ t.static = (a.static /\ b.static)
      /\ t.size = IF a.static /\ b.static THEN a.size + b.size ELSE 0
      /\ DOMAIN t.write = (DOMAIN a.write) \X (DOMAIN b.write)
  BY DEF Both
<1>2. u \in DOMAIN a.write /\ w \in DOMAIN b.write
  BY DEF Writes
<1>3. v \in (DOMAIN a.write) \X (DOMAIN b.write) /\ v[1] = u /\ v[2] = w
  BY <1>2
<1>4. t.write[v] = a.write[u] \o b.write[w] /\ t.measure[v] = a.measure[u] + b.measure[w]
  BY <1>2 DEF Both
<1> HIDE DEF t, v
<1>5. x \in Wire /\ y \in Wire /\ Len(x) > 0 /\ Len(y) > 0
  BY DEF Writes
<1>6. x \o y \in Wire /\ Len(x \o y) = Len(x) + Len(y) /\ Len(x) \in Nat /\ Len(y) \in Nat
  BY <1>5, JoinedWire, WireOfNumbers
<1>7. t.static \in BOOLEAN /\ v \in DOMAIN t.write
  BY <1>1, <1>3
<1>8. t.write[v] = x \o y
  BY <1>4 DEF Writes
<1>9. t.measure[v] = Len(x \o y)
  BY <1>4, <1>6 DEF Writes
<1>10. t.static => t.size = Len(x \o y)
  BY <1>1, <1>6 DEF Writes
<1>11. Len(x \o y) > 0
  BY <1>5, <1>6
<1>12. Writes(t, v, x \o y)
  BY <1>6, <1>7, <1>8, <1>9, <1>10, <1>11 DEF Writes
<1> QED
  BY <1>12 DEF t, v

\* Parts, one behind the other.
LEMMA StructReads ==
    ASSUME NEW fields, NEW parts, NEW values, NEW n \in Nat \ {0},
           Len(fields) = n, Len(parts) = n, Len(values) = n,
           \A i \in 1 .. n : parts[i] \in Wire /\ Reads(fields[i], parts[i], values[i])
    PROVE  FlattenSeq(parts) \in Wire /\ Reads(Struct(fields), FlattenSeq(parts), StructValue(values))
<1>1. PICK f : /\ f = [k \in 1 .. n |-> IF k = 1 THEN fields[1] ELSE Both(f[k - 1], fields[k])]
               /\ Struct(fields) = f[n]
  BY StructIs
<1>2. PICK p : /\ p = [k \in 1 .. n |-> IF k = 1 THEN parts[k] ELSE p[k - 1] \o parts[k]]
               /\ FlattenSeq(parts) = p[n]
  BY FlattenIs
<1>3. PICK g : /\ g = [k \in 1 .. n |-> IF k = 1 THEN values[1] ELSE <<g[k - 1], values[k]>>]
               /\ StructValue(values) = g[n]
  BY StructValueIs
<1> DEFINE Q(k) == p[k] \in Wire /\ Reads(f[k], p[k], g[k])
<1>4. Q(1)
  <2>1. 1 \in 1 .. n
    OBVIOUS
  <2>2. f[1] = fields[1] /\ p[1] = parts[1] /\ g[1] = values[1]
    BY <1>1, <1>2, <1>3, <2>1
  <2> QED
    BY <2>1, <2>2
<1>5. ASSUME NEW k \in 1 .. n - 1, Q(k) PROVE Q(k + 1)
  <2>1. k + 1 \in 1 .. n /\ k + 1 # 1 /\ (k + 1) - 1 = k
    OBVIOUS
  <2>2. f[k + 1] = Both(f[k], fields[k + 1])
    BY <1>1, <2>1
  <2>3. p[k + 1] = p[k] \o parts[k + 1]
    BY <1>2, <2>1
  <2>4. g[k + 1] = <<g[k], values[k + 1]>>
    BY <1>3, <2>1
  <2>5. parts[k + 1] \in Wire /\ Reads(fields[k + 1], parts[k + 1], values[k + 1])
    BY <2>1
  <2>6. p[k + 1] \in Wire
    BY <1>5, <2>3, <2>5, JoinedWire
  <2>7. Reads(f[k + 1], p[k + 1], g[k + 1])
    BY <1>5, <2>2, <2>3, <2>4, <2>5, BothReads
  <2> QED
    BY <2>6, <2>7
<1> DEFINE P == {k \in 1 .. n : Q(k)}
<1> HIDE DEF Q
<1>6. Q(n)
  <2>1. 1 \in P /\ \A k \in 1 .. n - 1 : k \in P => k + 1 \in P
    BY <1>4, <1>5
  <2> HIDE DEF P
  <2>2. n \in P
    BY <2>1, InductionFromOne
  <2> QED
    BY <2>2 DEF P
<1> QED
  BY <1>1, <1>2, <1>3, <1>6 DEF Q

LEMMA StructWrites ==
    ASSUME NEW fields, NEW parts, NEW values, NEW n \in Nat \ {0},
           Len(fields) = n, Len(parts) = n, Len(values) = n,
           \A i \in 1 .. n : Writes(fields[i], values[i], parts[i])
    PROVE  Writes(Struct(fields), StructValue(values), FlattenSeq(parts))
<1>1. PICK f : /\ f = [k \in 1 .. n |-> IF k = 1 THEN fields[1] ELSE Both(f[k - 1], fields[k])]
               /\ Struct(fields) = f[n]
  BY StructIs
<1>2. PICK p : /\ p = [k \in 1 .. n |-> IF k = 1 THEN parts[k] ELSE p[k - 1] \o parts[k]]
               /\ FlattenSeq(parts) = p[n]
  BY FlattenIs
<1>3. PICK g : /\ g = [k \in 1 .. n |-> IF k = 1 THEN values[1] ELSE <<g[k - 1], values[k]>>]
               /\ StructValue(values) = g[n]
  BY StructValueIs
<1> DEFINE Q(k) == Writes(f[k], g[k], p[k])
<1>4. Q(1)
  <2>1. 1 \in 1 .. n
    OBVIOUS
  <2>2. f[1] = fields[1] /\ p[1] = parts[1] /\ g[1] = values[1]
    BY <1>1, <1>2, <1>3, <2>1
  <2> QED
    BY <2>1, <2>2
<1>5. ASSUME NEW k \in 1 .. n - 1, Q(k) PROVE Q(k + 1)
  <2>1. k + 1 \in 1 .. n /\ k + 1 # 1 /\ (k + 1) - 1 = k
    OBVIOUS
  <2>2. f[k + 1] = Both(f[k], fields[k + 1])
    BY <1>1, <2>1
  <2>3. p[k + 1] = p[k] \o parts[k + 1]
    BY <1>2, <2>1
  <2>4. g[k + 1] = <<g[k], values[k + 1]>>
    BY <1>3, <2>1
  <2> QED
    BY <1>5, <2>1, <2>2, <2>3, <2>4, BothWrite
<1> DEFINE P == {k \in 1 .. n : Q(k)}
<1> HIDE DEF Q
<1>6. Q(n)
  <2>1. 1 \in P /\ \A k \in 1 .. n - 1 : k \in P => k + 1 \in P
    BY <1>4, <1>5
  <2> HIDE DEF P
  <2>2. n \in P
    BY <2>1, InductionFromOne
  <2> QED
    BY <2>2 DEF P
<1> QED
  BY <1>1, <1>2, <1>3, <1>6 DEF Q

LEMMA StructSize ==
    ASSUME NEW fields, NEW n \in Nat \ {0}, Len(fields) = n,
           \A i \in 1 .. n : /\ fields[i].static \in BOOLEAN
                             /\ fields[i].static => fields[i].size \in Nat \ {0}
    PROVE  /\ Struct(fields).static \in BOOLEAN
           /\ Struct(fields).static => Struct(fields).size \in Nat \ {0}
<1>1. PICK f : /\ f = [k \in 1 .. n |-> IF k = 1 THEN fields[1] ELSE Both(f[k - 1], fields[k])]
               /\ Struct(fields) = f[n]
  BY StructIs
<1> DEFINE Q(k) == f[k].static \in BOOLEAN /\ (f[k].static => f[k].size \in Nat \ {0})
           P == {k \in 1 .. n : Q(k)}
<1>2. Q(1)
  <2>1. 1 \in 1 .. n
    OBVIOUS
  <2>2. f[1] = fields[1]
    BY <1>1, <2>1
  <2> QED
    BY <2>1, <2>2
<1>3. ASSUME NEW k \in 1 .. n - 1, Q(k) PROVE Q(k + 1)
  <2>1. k + 1 \in 1 .. n /\ k + 1 # 1 /\ (k + 1) - 1 = k
    OBVIOUS
  <2>2. f[k + 1] = Both(f[k], fields[k + 1])
    BY <1>1, <2>1
  <2> DEFINE a == f[k]
             b == fields[k + 1]
  <2>3. /\ Both(a, b).static = (a.static /\ b.static)
        /\ Both(a, b).size = IF a.static /\ b.static THEN a.size + b.size ELSE 0
    BY DEF Both
  <2>4. a.static \in BOOLEAN /\ (a.static => a.size \in Nat \ {0})
    BY <1>3
  <2>5. b.static \in BOOLEAN /\ (b.static => b.size \in Nat \ {0})
    BY <2>1
  <2> HIDE DEF a, b
  <2>6. Both(a, b).static \in BOOLEAN /\ (Both(a, b).static => Both(a, b).size \in Nat \ {0})
    BY <2>3, <2>4, <2>5
  <2> QED
    BY <2>2, <2>6 DEF a, b
<1> HIDE DEF Q
<1>4. Q(n)
  <2>1. 1 \in P /\ \A k \in 1 .. n - 1 : k \in P => k + 1 \in P
    BY <1>2, <1>3
  <2> HIDE DEF P
  <2>2. n \in P
    BY <2>1, InductionFromOne
  <2> QED
    BY <2>2 DEF P
<1> QED
  BY <1>1, <1>4 DEF Q

LEMMA SoundOnes ==
    ASSUME NEW t, NEW V, NEW v \in V, Sound(t, V)
    PROVE  /\ Writes(t, v, t.write[v]) /\ Reads(t, t.write[v], v)
           /\ t.static \in BOOLEAN /\ (t.static => t.size \in Nat \ {0})
  BY DEF Sound, Writes

LEMMA SoundTogether ==
    ASSUME NEW t, NEW V, t.static \in BOOLEAN, t.static => t.size \in Nat \ {0},
           \A v \in V : Writes(t, v, t.write[v]) /\ Reads(t, t.write[v], v)
    PROVE  Sound(t, V)
<1>1. V \subseteq DOMAIN t.write
  BY DEF Writes
<1>2. ASSUME NEW v \in V
      PROVE  /\ t.write[v] \in Wire /\ Len(t.write[v]) > 0
             /\ t.measure[v] = Len(t.write[v])
             /\ t.static => Len(t.write[v]) = t.size
             /\ Reads(t, t.write[v], v)
  BY DEF Writes
<1> QED
  BY <1>1, <1>2 DEF Sound

\* The structs all of whose fields have one of their values.
Fieldwise(n, V) == {v \in [1 .. n -> UNION {V[i] : i \in 1 .. n}] : \A i \in 1 .. n : v[i] \in V[i]}

LEMMA StructValueSurvives ==
    ASSUME NEW fields, NEW values, NEW n \in Nat \ {0}, Len(fields) = n, Len(values) = n,
           \A i \in 1 .. n : /\ Writes(fields[i], values[i], fields[i].write[values[i]])
                             /\ Reads(fields[i], fields[i].write[values[i]], values[i])
    PROVE  LET t == Struct(fields)
               v == StructValue(values)
           IN  Writes(t, v, t.write[v]) /\ Reads(t, t.write[v], v)
<1> DEFINE t == Struct(fields)
           v == StructValue(values)
           parts == [i \in 1 .. n |-> fields[i].write[values[i]]]
           bytes == FlattenSeq(parts)
<1>1. parts \in Seq(Wire) /\ Len(parts) = n
  <2>1. \A i \in 1 .. n : fields[i].write[values[i]] \in Wire
    BY DEF Writes
  <2>2. parts \in [1 .. n -> Wire]
    BY <2>1
  <2> QED
    BY <2>2
<1>2. ASSUME NEW i \in 1 .. n
      PROVE  parts[i] \in Wire /\ Writes(fields[i], values[i], parts[i]) /\ Reads(fields[i], parts[i], values[i])
  BY DEF Writes
<1> HIDE DEF parts
<1>3. Writes(t, v, bytes)
  BY <1>1, <1>2, StructWrites
<1>4. Reads(t, bytes, v)
  BY <1>1, <1>2, StructReads
<1> HIDE DEF t, v, bytes
<1>5. t.write[v] = bytes
  BY <1>3 DEF Writes
<1>6. Writes(t, v, t.write[v]) /\ Reads(t, t.write[v], v)
  BY <1>3, <1>4, <1>5
<1> QED
  BY <1>6 DEF t, v

\* A struct is read back if its fields are, as is a struct of structs.
THEOREM StructsSurvive ==
    ASSUME NEW fields, NEW V, NEW n \in Nat \ {0}, Len(fields) = n,
           \A i \in 1 .. n : Sound(fields[i], V[i])
    PROVE  Sound(Struct(fields), {StructValue(v) : v \in Fieldwise(n, V)})
<1> DEFINE t == Struct(fields)
<1>1. t.static \in BOOLEAN /\ (t.static => t.size \in Nat \ {0})
  <2>1. \A i \in 1 .. n : /\ fields[i].static \in BOOLEAN
                          /\ fields[i].static => fields[i].size \in Nat \ {0}
    BY DEF Sound
  <2> QED
    BY <2>1, StructSize
<1>2. ASSUME NEW v \in Fieldwise(n, V)
      PROVE  LET u == StructValue(v) IN Writes(t, u, t.write[u]) /\ Reads(t, t.write[u], u)
  <2>1. \A i \in 1 .. n : v[i] \in V[i]
    BY DEF Fieldwise
  <2>2. Len(v) = n
    BY DEF Fieldwise
  <2>3. \A i \in 1 .. n : /\ Writes(fields[i], v[i], fields[i].write[v[i]])
                          /\ Reads(fields[i], fields[i].write[v[i]], v[i])
    BY <2>1, SoundOnes
  <2> QED
    BY <2>2, <2>3, StructValueSurvives
<1> HIDE DEF t
<1>3. \A u \in {StructValue(v) : v \in Fieldwise(n, V)} : Writes(t, u, t.write[u]) /\ Reads(t, t.write[u], u)
  BY <1>2
<1>4. Sound(t, {StructValue(v) : v \in Fieldwise(n, V)})
  BY <1>1, <1>3, SoundTogether
<1> QED
  BY <1>4 DEF t

-----------------------------------------------------------------------------
(* The arguments of a call.                                                *)

LEMMA LiesFromTheBeginning ==
    ASSUME NEW in \in Wire
    PROVE  Lies(in, in, 1)
<1>1. Len(in) \in Nat
  BY WireOfNumbers
<1>2. \A k \in 1 .. Len(in) : in[1 + k - 1] = in[k]
  BY <1>1
<1>3. 1 + Len(in) - 1 <= Len(in)
  BY <1>1
<1> QED
  BY <1>2, <1>3 DEF Lies

\* serialize() fills the buffer that serialize_dry_run() measured, and deserialize()
\* returns what was written, up to the end: of any number of arguments, of any types
\* whose values survive one by one.
THEOREM ArgumentsSurvive ==
    ASSUME NEW types, NEW values, NEW V, NEW n \in Nat \ {0},
           Len(types) = n, DOMAIN types = 1 .. n, Len(values) = n,
           \A i \in 1 .. n : Sound(types[i], V[i]) /\ values[i] \in V[i]
    PROVE  ReadsBack(types, values) /\ FillsBuffer(types, values)
<1> DEFINE t == Struct(types)
           v == StructValue(values)
           in == t.write[v]
<1>1. \A i \in 1 .. n : /\ Writes(types[i], values[i], types[i].write[values[i]])
                        /\ Reads(types[i], types[i].write[values[i]], values[i])
  BY SoundOnes
<1>2. Writes(t, v, in) /\ Reads(t, in, v)
  BY <1>1, StructValueSurvives
<1>3. in = serialize(types, values) /\ deserialize(types, in) = t.read[in][1]
      /\ serialize_dry_run(types, values) = t.measure[v]
  BY DEF serialize, deserialize, serialize_dry_run
<1>4. \A i \in 1 .. n : types[i].static => types[i].size = Len(types[i].write[values[i]])
  BY <1>1 DEF Writes
<1> HIDE DEF t, v, in
<1>5. in \in Wire /\ Len(in) = t.measure[v] /\ Len(in) \in Nat
  BY <1>2, WireOfNumbers DEF Writes
<1>6. t.read[in][1] = [value |-> v, next |-> Len(in) + 1]
  <2>1. Lies(in, in, 1)
    BY <1>5, LiesFromTheBeginning
  <2>2. t.read[in][1] = [value |-> v, next |-> 1 + Len(in)]
    BY <1>2, <1>5, <2>1 DEF Reads
  <2> QED
    BY <1>5, <2>2
<1>7. ReadsBack(types, values)
  BY <1>3, <1>6 DEF ReadsBack, v
<1>8. FillsBuffer(types, values)
  BY <1>3, <1>4, <1>5 DEF FillsBuffer
<1> QED
  BY <1>7, <1>8

\* One byte changed.
Within(a, at, byte) == a \in Wire /\ at \in 1 .. Len(a) /\ byte \in 0 .. 255

LEMMA ReplacedIsWire ==
    ASSUME NEW a, NEW at, NEW byte, Within(a, at, byte)
    PROVE  ReplaceAt(a, at, byte) \in Wire /\ Len(ReplaceAt(a, at, byte)) = Len(a)
<1>1. a \in Seq(0 .. 255) /\ at \in 1 .. Len(a) /\ byte \in 0 .. 255
  BY DEF Within, Wire
<1>2. [a EXCEPT ![at] = byte] \in Seq(0 .. 255) /\ Len([a EXCEPT ![at] = byte]) = Len(a)
  BY <1>1, ExceptSeq
<1> QED
  BY <1>2 DEF ReplaceAt, Wire

LEMMA Replaced ==
    ASSUME NEW a \in Wire, NEW at, NEW byte, NEW k \in 1 .. Len(a)
    PROVE  ReplaceAt(a, at, byte)[k] = IF k = at THEN byte ELSE a[k]
<1>1. k \in DOMAIN a
  BY WireOfNumbers
<1> QED
  BY <1>1 DEF ReplaceAt

LEMMA JoinedBytes ==
    ASSUME NEW a \in Wire, NEW b \in Wire
    PROVE  /\ a \o b \in Wire /\ Len(a \o b) = Len(a) + Len(b)
           /\ \A k \in 1 .. Len(a) + Len(b) : (a \o b)[k] = IF k <= Len(a) THEN a[k] ELSE b[k - Len(a)]
<1>1. a \in Seq(0 .. 255) /\ b \in Seq(0 .. 255)
  BY DEF Wire
<1>2. a \o b \in Seq(0 .. 255) /\ Len(a \o b) = Len(a) + Len(b)
  BY <1>1, ConcatProperties
<1>3. \A k \in 1 .. Len(a) + Len(b) : (a \o b)[k] = IF k <= Len(a) THEN a[k] ELSE b[k - Len(a)]
  BY <1>1, ConcatProperties
<1> QED
  BY <1>2, <1>3 DEF Wire

LEMMA ReplacedInJoined ==
    ASSUME NEW a, NEW b, NEW at, NEW byte, Within(a, at, byte), b \in Wire
    PROVE  ReplaceAt(a, at, byte) \o b = ReplaceAt(a \o b, at, byte)
<1> DEFINE c == ReplaceAt(a, at, byte)
           d == a \o b
           e == ReplaceAt(d, at, byte)
           s == c \o b
<1>0. a \in Wire /\ at \in 1 .. Len(a) /\ byte \in 0 .. 255
  BY DEF Within
<1>1. c \in Wire /\ Len(c) = Len(a) /\ \A k \in 1 .. Len(a) : c[k] = IF k = at THEN byte ELSE a[k]
  <2>1. c \in Wire /\ Len(c) = Len(a)
    BY ReplacedIsWire
  <2>2. \A k \in 1 .. Len(a) : c[k] = IF k = at THEN byte ELSE a[k]
    BY <1>0, Replaced
  <2> QED
    BY <2>1, <2>2
<1>2. Len(a) \in Nat /\ Len(b) \in Nat
  BY <1>0, WireOfNumbers
<1>3. d \in Wire /\ Len(d) = Len(a) + Len(b)
      /\ \A k \in 1 .. Len(a) + Len(b) : d[k] = IF k <= Len(a) THEN a[k] ELSE b[k - Len(a)]
  BY <1>0, JoinedBytes
<1> HIDE DEF c, d
<1>4. Within(d, at, byte)
  <2>1. at \in 1 .. Len(d)
    BY <1>0, <1>2, <1>3
  <2> QED
    BY <1>0, <1>3, <2>1 DEF Within
<1>5. e \in Wire /\ Len(e) = Len(d) /\ \A k \in 1 .. Len(d) : e[k] = IF k = at THEN byte ELSE d[k]
  <2>1. e \in Wire /\ Len(e) = Len(d)
    BY <1>4, ReplacedIsWire
  <2>2. \A k \in 1 .. Len(d) : e[k] = IF k = at THEN byte ELSE d[k]
    BY <1>3, Replaced
  <2> QED
    BY <2>1, <2>2
<1>6. s \in Wire /\ Len(s) = Len(c) + Len(b)
      /\ \A k \in 1 .. Len(c) + Len(b) : s[k] = IF k <= Len(c) THEN c[k] ELSE b[k - Len(c)]
  BY <1>1, JoinedBytes
<1> HIDE DEF e, s
<1>7. Len(s) = Len(e)
  BY <1>1, <1>3, <1>5, <1>6
<1>8. ASSUME NEW k \in 1 .. Len(s) PROVE s[k] = e[k]
  <2>1. k \in 1 .. Len(a) + Len(b) /\ k \in 1 .. Len(d) /\ k \in 1 .. Len(c) + Len(b)
    BY <1>1, <1>3, <1>6
  <2>2. e[k] = IF k = at THEN byte ELSE d[k]
    BY <1>5, <2>1
  <2>3. d[k] = IF k <= Len(a) THEN a[k] ELSE b[k - Len(a)]
    BY <1>3, <2>1
  <2>4. s[k] = IF k <= Len(a) THEN c[k] ELSE b[k - Len(a)]
    BY <1>1, <1>6, <2>1
  <2>5. CASE k <= Len(a)
    <3>1. k \in 1 .. Len(a)
      BY <1>2, <2>1, <2>5
    <3> QED
      BY <1>1, <2>2, <2>3, <2>4, <2>5, <3>1
  <2>6. CASE ~(k <= Len(a))
    <3>1. k # at
      BY <1>0, <1>2, <2>1, <2>6
    <3> QED
      BY <2>2, <2>3, <2>4, <2>6, <3>1
  <2> QED
    BY <2>5, <2>6
<1>9. s = e
  BY <1>5, <1>6, <1>7, <1>8, SeqEqual DEF Wire
<1> QED
  BY <1>9 DEF s, e, c, d

\* One byte changed in the first part.
OneChanged(parts, other, n, at, byte) ==
    /\ n \in Nat \ {0} /\ Len(parts) = n /\ Len(other) = n
    /\ \A i \in 1 .. n : parts[i] \in Wire
    /\ at \in 1 .. Len(parts[1]) /\ byte \in 0 .. 255
    /\ other[1] = ReplaceAt(parts[1], at, byte)
    /\ \A i \in 2 .. n : other[i] = parts[i]

LEMMA ReplacedInFirst ==
    ASSUME NEW parts, NEW other, NEW n, NEW at, NEW byte, OneChanged(parts, other, n, at, byte)
    PROVE  ReplaceAt(FlattenSeq(parts), at, byte) = FlattenSeq(other)
<1> USE DEF OneChanged
<1>1. PICK p : /\ p = [k \in 1 .. n |-> IF k = 1 THEN parts[k] ELSE p[k - 1] \o parts[k]]
               /\ FlattenSeq(parts) = p[n]
  BY FlattenIs
<1>2. PICK q : /\ q = [k \in 1 .. n |-> IF k = 1 THEN other[k] ELSE q[k - 1] \o other[k]]
               /\ FlattenSeq(other) = q[n]
  BY FlattenIs
<1> DEFINE Q(k) == p[k] \in Wire /\ at \in 1 .. Len(p[k]) /\ q[k] = ReplaceAt(p[k], at, byte)
           P == {k \in 1 .. n : Q(k)}
<1>3. Q(1)
  <2>1. 1 \in 1 .. n
    OBVIOUS
  <2>2. p[1] = parts[1] /\ q[1] = other[1]
    BY <1>1, <1>2, <2>1
  <2> QED
    BY <2>1, <2>2
<1>4. ASSUME NEW k \in 1 .. n - 1, Q(k) PROVE Q(k + 1)
  <2>1. k + 1 \in 1 .. n /\ k + 1 \in 2 .. n /\ k + 1 # 1 /\ (k + 1) - 1 = k
    OBVIOUS
  <2>2. p[k + 1] = p[k] \o parts[k + 1]
    BY <1>1, <2>1
  <2>3. q[k + 1] = q[k] \o parts[k + 1]
    BY <1>2, <2>1
  <2> DEFINE a == p[k]
             b == parts[k + 1]
  <2>4. a \in Wire /\ b \in Wire /\ at \in 1 .. Len(a)
    BY <1>4, <2>1
  <2>5. a \o b \in Wire /\ at \in 1 .. Len(a \o b)
    <3> HIDE DEF a, b
    <3>1. a \o b \in Wire /\ Len(a \o b) = Len(a) + Len(b) /\ Len(a) \in Nat /\ Len(b) \in Nat
      BY <2>4, JoinedWire, WireOfNumbers
    <3> QED
      BY <2>4, <3>1
  <2>6. ReplaceAt(a, at, byte) \o b = ReplaceAt(a \o b, at, byte)
    <3> HIDE DEF a, b
    <3>1. Within(a, at, byte)
      BY <2>4 DEF Within
    <3> QED
      BY <2>4, <3>1, ReplacedInJoined
  <2> QED
    BY <1>4, <2>2, <2>3, <2>5, <2>6
<1> HIDE DEF Q
<1>5. Q(n)
  <2>1. 1 \in P /\ \A k \in 1 .. n - 1 : k \in P => k + 1 \in P
    BY <1>3, <1>4
  <2> HIDE DEF P
  <2>2. n \in P
    BY <2>1, InductionFromOne
  <2> QED
    BY <2>2 DEF P
<1> QED
  BY <1>1, <1>2, <1>5 DEF Q

Behind(a, b, i, at, byte) == byte \in 0 .. 255 /\ a \in Wire /\ b \in Wire /\ i \in 1 .. Len(b) /\ at = Len(a) + i

LEMMA ReplacedBehind ==
    ASSUME NEW a, NEW b, NEW i, NEW at, NEW byte, Behind(a, b, i, at, byte)
    PROVE  ReplaceAt(a \o b, at, byte) = a \o ReplaceAt(b, i, byte)
<1> DEFINE c == ReplaceAt(b, i, byte)
           d == a \o b
           e == ReplaceAt(d, at, byte)
           s == a \o c
<1>0. byte \in 0 .. 255 /\ a \in Wire /\ b \in Wire /\ i \in 1 .. Len(b) /\ at = Len(a) + i
  BY DEF Behind
<1>1. c \in Wire /\ Len(c) = Len(b)
  <2>1. Within(b, i, byte)
    BY <1>0 DEF Within
  <2> QED
    BY <2>1, ReplacedIsWire
<1>2. \A k \in 1 .. Len(b) : c[k] = IF k = i THEN byte ELSE b[k]
  BY <1>0, Replaced
<1>3. Len(a) \in Nat /\ Len(b) \in Nat
  BY <1>0, WireOfNumbers
<1>4. d \in Wire /\ Len(d) = Len(a) + Len(b)
      /\ \A k \in 1 .. Len(a) + Len(b) : d[k] = IF k <= Len(a) THEN a[k] ELSE b[k - Len(a)]
  BY <1>0, JoinedBytes
<1> HIDE DEF c, d
<1>5. Within(d, at, byte)
  <2>1. at \in 1 .. Len(d)
    BY <1>0, <1>3, <1>4
  <2> QED
    BY <1>0, <1>4, <2>1 DEF Within
<1>6. e \in Wire /\ Len(e) = Len(d)
  BY <1>5, ReplacedIsWire
<1>7. \A k \in 1 .. Len(d) : e[k] = IF k = at THEN byte ELSE d[k]
  <2>1. d \in Wire
    BY <1>4
  <2> QED
    BY <2>1, Replaced
<1>8. s \in Wire /\ Len(s) = Len(a) + Len(c)
      /\ \A k \in 1 .. Len(a) + Len(c) : s[k] = IF k <= Len(a) THEN a[k] ELSE c[k - Len(a)]
  BY <1>0, <1>1, JoinedBytes
<1> HIDE DEF e, s
<1>9. Len(s) = Len(e)
  BY <1>1, <1>4, <1>6, <1>8
<1>10. ASSUME NEW k \in 1 .. Len(s) PROVE s[k] = e[k]
  <2>1. k \in 1 .. Len(a) + Len(b) /\ k \in 1 .. Len(d) /\ k \in 1 .. Len(a) + Len(c)
    BY <1>1, <1>4, <1>8
  <2>2. e[k] = IF k = at THEN byte ELSE d[k]
    BY <1>7, <2>1
  <2>3. d[k] = IF k <= Len(a) THEN a[k] ELSE b[k - Len(a)]
    BY <1>4, <2>1
  <2>4. s[k] = IF k <= Len(a) THEN a[k] ELSE c[k - Len(a)]
    BY <1>8, <2>1
  <2>5. CASE k <= Len(a)
    <3>1. k # at
      BY <1>0, <1>3, <2>1, <2>5
    <3> QED
      BY <2>2, <2>3, <2>4, <2>5, <3>1
  <2>6. CASE ~(k <= Len(a))
    <3>1. k - Len(a) \in 1 .. Len(b) /\ (k - Len(a) = i <=> k = at)
      BY <1>0, <1>3, <2>1, <2>6
    <3>2. c[k - Len(a)] = IF k = at THEN byte ELSE b[k - Len(a)]
      BY <1>2, <3>1
    <3> QED
      BY <2>2, <2>3, <2>4, <2>6, <3>2
  <2> QED
    BY <2>5, <2>6
<1>11. s = e
  BY <1>6, <1>8, <1>9, <1>10, SeqEqual DEF Wire
<1> QED
  BY <1>11 DEF s, e, c, d

InMark(field, v, i, at, byte) ==
    /\ field \in Nat /\ v \in Wire /\ i \in 1 .. 3 /\ at = field + i
    /\ byte \in 0 .. 255 /\ byte \notin {239, 187, 191}

LEMMA ForeignMark ==
    ASSUME NEW field, NEW v, NEW i, NEW at, NEW byte, InMark(field, v, i, at, byte)
    PROVE  \E mark \in Wire :
               /\ Len(mark) = 3 /\ mark # bom_utf8
               /\ ReplaceAt(MarkedString(field, bom_utf8, v), at, byte) = MarkedString(field, mark, v)
<1> DEFINE bom == bom_utf8
           mark == ReplaceAt(bom, i, byte)
           b == Bytes(Len(v) + 4, field)
           zero == <<0>>
           x == b \o bom
           y == x \o v
<1>0. /\ field \in Nat /\ v \in Wire /\ i \in 1 .. 3 /\ at = field + i
      /\ byte \in 0 .. 255 /\ byte \notin {239, 187, 191}
  BY DEF InMark
<1>1. bom \in Wire /\ Len(bom) = 3
  BY DEF bom_utf8, Wire
<1>2. i \in 1 .. Len(bom) /\ bom[i] # byte
  BY <1>0 DEF bom_utf8
<1> HIDE DEF bom
<1>3. mark \in Wire /\ Len(mark) = 3
  <2>1. Within(bom, i, byte)
    BY <1>0, <1>1, <1>2 DEF Within
  <2>2. mark \in Wire /\ Len(mark) = Len(bom)
    BY <2>1, ReplacedIsWire
  <2> QED
    BY <1>1, <2>2
<1>4. mark # bom
  <2>1. mark[i] = byte
    <3>1. i \in DOMAIN bom
      BY <1>1, <1>2, WireOfNumbers
    <3> QED
      BY <3>1 DEF ReplaceAt
  <2> QED
    BY <1>2, <2>1
<1>5. Len(v) \in Nat
  BY <1>0, WireOfNumbers
<1>6. b \in Wire /\ Len(b) = field
  <2>1. Len(v) + 4 \in Nat
    BY <1>5
  <2> QED
    BY <1>0, <2>1, BytesAreWire
<1>7. zero \in Wire
  BY DEF Wire
<1>8. /\ MarkedString(field, bom, v) = b \o bom \o v \o zero
      /\ MarkedString(field, mark, v) = b \o mark \o v \o zero
  <2>1. Len(bom) + Len(v) + 1 = Len(v) + 4 /\ Len(mark) + Len(v) + 1 = Len(v) + 4
    BY <1>1, <1>3, <1>5
  <2> QED
    BY <2>1 DEF MarkedString
<1> HIDE DEF b, zero
<1>9. x \in Wire /\ Len(x) = field + 3
  <2>1. x \in Wire /\ Len(x) = Len(b) + Len(bom)
    <3>1. b \in Wire /\ bom \in Wire
      BY <1>1, <1>6
    <3> QED
      BY <3>1, JoinedBytes
  <2> QED
    BY <1>1, <1>6, <2>1
<1>10. ReplaceAt(x, at, byte) = b \o mark
  <2>1. Behind(b, bom, i, at, byte)
    BY <1>0, <1>1, <1>2, <1>6 DEF Behind
  <2> QED
    BY <2>1, ReplacedBehind
<1> HIDE DEF x, mark
<1>11. y \in Wire /\ Len(y) = Len(x) + Len(v)
  <2>1. x \in Wire /\ v \in Wire
    BY <1>0, <1>9
  <2> QED
    BY <2>1, JoinedBytes
<1>12. Within(x, at, byte) /\ Within(y, at, byte)
  <2>1. at \in 1 .. Len(x)
    BY <1>0, <1>9
  <2>2. at \in 1 .. Len(y)
    BY <1>0, <1>5, <1>9, <1>11
  <2> QED
    BY <1>0, <1>9, <1>11, <2>1, <2>2 DEF Within
<1>13. ReplaceAt(y, at, byte) = b \o mark \o v
  <2>1. ReplaceAt(x, at, byte) \o v = ReplaceAt(x \o v, at, byte)
    BY <1>0, <1>12, ReplacedInJoined
  <2> QED
    BY <1>10, <2>1
<1> HIDE DEF y
<1>14. ReplaceAt(y \o zero, at, byte) = b \o mark \o v \o zero
  <2>1. ReplaceAt(y, at, byte) \o zero = ReplaceAt(y \o zero, at, byte)
    BY <1>7, <1>12, ReplacedInJoined
  <2> QED
    BY <1>13, <2>1
<1>15. ReplaceAt(MarkedString(field, bom, v), at, byte) = MarkedString(field, mark, v)
  BY <1>8, <1>14 DEF x, y
<1> QED
  BY <1>3, <1>4, <1>15 DEF bom

\* A type of strings, and the values that fit its length field.
IsString(t, V, field) ==
    \/ /\ field # 0
       /\ t = DynamicString(field) /\ V = StringValues(field)
    \/ \E n \in Nat : /\ field # 0 => n + 4 < Capacity(field)
                      /\ t = FixedString(n, field) /\ V = FixedStringValues(n)

LEMMA EitherString ==
    ASSUME NEW t, NEW V, NEW field \in Nat, IsString(t, V, field), NEW v \in V
    PROVE  /\ Sound(t, V) /\ v \in Wire /\ t.write[v] = MarkedString(field, bom_utf8, v)
           /\ \A mark \in Wire : Len(mark) = 3 /\ mark # bom_utf8 =>
                  Reads(t, MarkedString(field, mark, v), t.blank)
<1>1. CASE field # 0 /\ t = DynamicString(field) /\ V = StringValues(field)
  <2>1. Sound(t, V)
    BY <1>1, StringsSurvive
  <2>2. v \in Wire
    BY <1>1 DEF StringValues
  <2>3. t.write[v] = WriteString(field, v)
    BY <1>1, <2>2 DEF DynamicString
  <2>4. \A mark \in Wire : Len(mark) = 3 /\ mark # bom_utf8 =>
            Reads(t, MarkedString(field, mark, v), t.blank)
    BY <1>1, ForeignMarksAreSkipped
  <2> QED
    BY <2>1, <2>2, <2>3, <2>4 DEF WriteString, MarkedString
<1>2. ASSUME NEW n \in Nat, field # 0 => n + 4 < Capacity(field),
             t = FixedString(n, field), V = FixedStringValues(n)
      PROVE  /\ Sound(t, V) /\ v \in Wire /\ t.write[v] = MarkedString(field, bom_utf8, v)
             /\ \A mark \in Wire : Len(mark) = 3 /\ mark # bom_utf8 =>
                    Reads(t, MarkedString(field, mark, v), t.blank)
  <2>1. Sound(t, V)
    BY <1>2, FixedStringsSurvive
  <2>2. v \in Wire
    BY <1>2, TextsFill
  <2>3. t.write[v] = WriteString(field, v)
    BY <1>2 DEF FixedString, FixedStringValues
  <2>4. \A mark \in Wire : Len(mark) = 3 /\ mark # bom_utf8 =>
            Reads(t, MarkedString(field, mark, v), t.blank)
    BY <1>2, ForeignMarksOfFixedStringsAreSkipped
  <2> QED
    BY <2>1, <2>2, <2>3, <2>4 DEF WriteString, MarkedString
<1> QED
  BY <1>1, <1>2 DEF IsString

\* Whatever follows a string with a foreign mark is read as if the mark had been right,
\* whichever byte of the mark it is.
THEOREM ArgumentsSurviveForeignMark ==
    ASSUME NEW types, NEW values, NEW V, NEW n \in Nat \ {0}, NEW S, NEW field \in Nat, NEW i \in 1 .. 3,
           types \in Seq(S), Len(types) = n, values \in Seq(UNION {V[k] : k \in 1 .. n}), Len(values) = n,
           \A k \in 1 .. n : Sound(types[k], V[k]) /\ values[k] \in V[k],
           IsString(types[1], V[1], field)
    PROVE  SkipsForeignMark(types, values, field + i)
<1> DEFINE t == Struct(types)
           v == StructValue(values)
           parts == [k \in 1 .. n |-> types[k].write[values[k]]]
           read == <<Head(types).blank>> \o Tail(values)
           at == field + i
           byte == 254
<1>0. byte \in 0 .. 255 /\ byte \notin {239, 187, 191}
  OBVIOUS
<1> HIDE DEF byte
<1>1. \A k \in 1 .. n : /\ Writes(types[k], values[k], types[k].write[values[k]])
                        /\ Reads(types[k], types[k].write[values[k]], values[k])
  BY SoundOnes
<1>2. parts \in Seq(Wire) /\ Len(parts) = n /\ \A k \in 1 .. n : parts[k] = types[k].write[values[k]]
  <2>1. \A k \in 1 .. n : types[k].write[values[k]] \in Wire
    BY <1>1 DEF Writes
  <2>2. parts \in [1 .. n -> Wire]
    BY <2>1
  <2> QED
    BY <2>2
<1> HIDE DEF parts
<1>3. 1 \in 1 .. n /\ values[1] \in V[1]
  OBVIOUS
<1>4. values[1] \in Wire /\ parts[1] = MarkedString(field, bom_utf8, values[1])
      /\ \A mark \in Wire : Len(mark) = 3 /\ mark # bom_utf8 =>
             Reads(types[1], MarkedString(field, mark, values[1]), types[1].blank)
  BY <1>2, <1>3, EitherString
<1>5. PICK mark \in Wire :
          /\ Len(mark) = 3 /\ mark # bom_utf8
          /\ ReplaceAt(parts[1], at, byte) = MarkedString(field, mark, values[1])
  <2>1. \E mark \in Wire :
            /\ Len(mark) = 3 /\ mark # bom_utf8
            /\ ReplaceAt(MarkedString(field, bom_utf8, values[1]), at, byte) = MarkedString(field, mark, values[1])
    <3>1. InMark(field, values[1], i, at, byte)
      BY <1>0, <1>4 DEF InMark
    <3> HIDE DEF at
    <3> QED
      BY <3>1, ForeignMark
  <2> QED
    BY <1>4, <2>1
<1> DEFINE other == [k \in 1 .. n |-> IF k = 1 THEN MarkedString(field, mark, values[1]) ELSE parts[k]]
<1>6. /\ MarkedString(field, mark, values[1]) \in Wire
      /\ Reads(types[1], MarkedString(field, mark, values[1]), types[1].blank)
  BY <1>4, <1>5, MarkedStringIsWire
<1>7. /\ Len(other) = n /\ other[1] = ReplaceAt(parts[1], at, byte)
      /\ \A k \in 2 .. n : other[k] = parts[k]
      /\ \A k \in 1 .. n : other[k] \in Wire
  <2>1. \A k \in 1 .. n : parts[k] \in Wire
    BY <1>2, ElementOfSeq
  <2>2. other \in [1 .. n -> Wire]
    BY <1>6, <2>1
  <2>3. other \in Seq(Wire) /\ Len(other) = n
    BY <2>2
  <2> QED
    BY <1>3, <1>5, <2>2, <2>3
<1>8. Len(read) = n /\ read[1] = types[1].blank /\ \A k \in 2 .. n : read[k] = values[k]
  <2> DEFINE T == UNION {V[k] : k \in 1 .. n}
             head == types[1].blank
             tail == Tail(values)
             X == T \cup {head}
  <2>1. Head(types) = types[1]
    OBVIOUS
  <2>2. tail \in Seq(T) /\ Len(tail) = n - 1 /\ \A k \in 1 .. n - 1 : tail[k] = values[k + 1]
    OBVIOUS
  <2>3. tail \in Seq(X) /\ <<head>> \in Seq(X) /\ Len(<<head>>) = 1 /\ <<head>>[1] = head
    <3> HIDE DEF T, tail
    <3>1. T \subseteq X
      OBVIOUS
    <3> QED
      BY <2>2, <3>1, SeqMonotonic
  <2> HIDE DEF head, tail, T, X
  <2>4. Len(<<head>> \o tail) = 1 + (n - 1)
        /\ \A k \in 1 .. 1 + (n - 1) : (<<head>> \o tail)[k] = IF k <= 1 THEN <<head>>[k] ELSE tail[k - 1]
    BY <2>2, <2>3, ConcatProperties
  <2>5. \A k \in 2 .. n : (<<head>> \o tail)[k] = values[k]
    BY <2>2, <2>4
  <2> QED
    BY <2>1, <2>3, <2>4, <2>5 DEF head, tail
<1>9. \A k \in 1 .. n : other[k] \in Wire /\ Reads(types[k], other[k], read[k])
  <2> HIDE DEF read
  <2>1. ASSUME NEW k \in 2 .. n PROVE Reads(types[k], other[k], read[k])
    <3>1. k \in 1 .. n
      BY <2>1
    <3>2. other[k] = types[k].write[values[k]] /\ read[k] = values[k]
      BY <1>2, <1>7, <1>8, <3>1
    <3> QED
      BY <1>1, <3>1, <3>2
  <2>2. Reads(types[1], other[1], read[1])
    BY <1>5, <1>6, <1>7, <1>8
  <2>3. ASSUME NEW k \in 1 .. n PROVE Reads(types[k], other[k], read[k])
    <3>1. CASE k = 1
      BY <2>2, <3>1
    <3>2. CASE k \in 2 .. n
      BY <2>1, <3>2
    <3> QED
      BY <3>1, <3>2
  <2> QED
    BY <1>7, <2>3
<1> HIDE DEF other, read
<1> DEFINE in == FlattenSeq(other)
<1>10. in \in Wire /\ Reads(t, in, StructValue(read))
  BY <1>7, <1>8, <1>9, StructReads
<1>11. in = ReplaceAt(serialize(types, values), at, byte)
  <2>1. serialize(types, values) = FlattenSeq(parts)
    <3>1. \A k \in 1 .. n : Writes(types[k], values[k], parts[k])
      BY <1>1, <1>2
    <3>2. Writes(t, v, FlattenSeq(parts))
      BY <1>2, <3>1, StructWrites
    <3> QED
      BY <3>2 DEF Writes, serialize
  <2>2. at \in 1 .. Len(parts[1])
    <3>1. Len(parts[1]) = field + Len(values[1]) + 4 /\ Len(values[1]) \in Nat
      <4>1. bom_utf8 \in Wire /\ Len(bom_utf8) = 3
        BY DEF bom_utf8, Wire
      <4> QED
        <5>1. Len(MarkedString(field, bom_utf8, values[1])) = field + Len(values[1]) + 4
          BY <1>4, <4>1, MarkedStringIsWire
        <5>2. Len(values[1]) \in Nat
          BY <1>4, WireOfNumbers
        <5> QED
          BY <1>4, <5>1, <5>2
    <3> QED
      BY <3>1
  <2>3. \A k \in 1 .. n : parts[k] \in Wire
    BY <1>2, ElementOfSeq
  <2> HIDE DEF at
  <2>4. ReplaceAt(FlattenSeq(parts), at, byte) = FlattenSeq(other)
    <3>2. n \in Nat \ {0} /\ Len(parts) = n /\ Len(other) = n
      BY <1>2, <1>7
    <3>3. OneChanged(parts, other, n, at, byte)
      BY <1>0, <1>7, <2>2, <2>3, <3>2 DEF OneChanged
    <3> QED
      BY <3>3, ReplacedInFirst
  <2> QED
    BY <2>1, <2>4
<1> HIDE DEF t, in
<1>12. t.read[in][1] = [value |-> StructValue(read), next |-> 1 + Len(in)]
  BY <1>10, LiesFromTheBeginning DEF Reads
<1>13. 1 + Len(in) = Len(in) + 1
  BY <1>10, WireOfNumbers
<1> QED
  BY <1>11, <1>12, <1>13 DEF SkipsForeignMark, deserialize, t, read, byte

-----------------------------------------------------------------------------
(* Arrays.                                                                 *)

LEMMA WholeQuotient ==
    ASSUME NEW n \in Nat, NEW size \in Nat \ {0}
    PROVE  (n * size) \div size = n
  OBVIOUS

LEMMA OneMore ==
    ASSUME NEW n \in Nat, NEW size \in Nat
    PROVE  (n + 1) * size = n * size + size
  OBVIOUS

\* The elements as bytes, how many these are, and where each begins and the last ends.
Parts(of, v) == [i \in DOMAIN v |-> of.write[v[i]]]
Sizes(of, v) == [i \in DOMAIN v |-> of.measure[v[i]]]
Offsets(of, v) == Sums(Sizes(of, v))

LEMMA PartsAre ==
    ASSUME NEW of, NEW V, Sound(of, V), NEW v \in Seq(V)
    PROVE  /\ Len(v) \in Nat /\ DOMAIN v = 1 .. Len(v) /\ Len(Parts(of, v)) = Len(v)
           /\ \A k \in 1 .. Len(v) :
                  /\ v[k] \in V /\ Parts(of, v)[k] = of.write[v[k]]
                  /\ Parts(of, v)[k] \in Wire /\ Len(Parts(of, v)[k]) = of.measure[v[k]]
                  /\ of.measure[v[k]] \in Nat \ {0}
                  /\ of.static => of.measure[v[k]] = of.size
                  /\ Reads(of, Parts(of, v)[k], v[k])
<1> DEFINE n == Len(v)
           parts == Parts(of, v)
<1>1. n \in Nat /\ DOMAIN v = 1 .. n
  BY LenProperties
<1>2. \A k \in 1 .. n : v[k] \in V
  BY ElementOfSeq
<1>3. parts = [k \in 1 .. n |-> of.write[v[k]]]
  BY <1>1 DEF Parts
<1> HIDE DEF n, parts
<1>4. \A k \in 1 .. n : parts[k] = of.write[v[k]]
  BY <1>3
<1>5. ASSUME NEW k \in 1 .. n
      PROVE  /\ parts[k] \in Wire /\ Len(parts[k]) = of.measure[v[k]]
             /\ of.measure[v[k]] \in Nat \ {0}
             /\ of.static => of.measure[v[k]] = of.size
             /\ Reads(of, parts[k], v[k])
  <2>1. /\ parts[k] \in Wire /\ Len(parts[k]) > 0 /\ of.measure[v[k]] = Len(parts[k])
        /\ of.static => Len(parts[k]) = of.size
        /\ Reads(of, parts[k], v[k])
    BY <1>2, <1>4 DEF Sound
  <2>2. Len(parts[k]) \in Nat
    BY <2>1, WireOfNumbers
  <2> QED
    BY <2>1, <2>2
<1>6. Len(parts) = n
  <2>1. parts \in [1 .. n -> Wire]
    BY <1>3, <1>5
  <2> QED
    BY <1>1, <2>1
<1> QED
  BY <1>1, <1>2, <1>4, <1>5, <1>6 DEF n, parts

LEMMA OffsetsAre ==
    ASSUME NEW of, NEW V, Sound(of, V), NEW v \in Seq(V)
    PROVE  /\ Offsets(of, v) \in [0 .. Len(v) -> Nat]
           /\ Offsets(of, v)[0] = 0 /\ ElementsSize(of, v) = Offsets(of, v)[Len(v)]
           /\ \A k \in 1 .. Len(v) : Offsets(of, v)[k] = Offsets(of, v)[k - 1] + of.measure[v[k]]
<1> DEFINE n == Len(v)
           sizes == Sizes(of, v)
<1>1. n \in Nat /\ DOMAIN v = 1 .. n /\ \A k \in 1 .. n : of.measure[v[k]] \in Nat
  BY PartsAre
<1>2. sizes = [k \in 1 .. n |-> of.measure[v[k]]]
  BY <1>1 DEF Sizes
<1>3. sizes \in Seq(Nat) /\ Len(sizes) = n
  <2>1. sizes \in [1 .. n -> Nat]
    BY <1>1, <1>2
  <2> QED
    BY <1>1, <2>1
<1>4. \A k \in 1 .. n : sizes[k] = of.measure[v[k]]
  BY <1>2
<1>5. ElementsSize(of, v) = Offsets(of, v)[n]
  BY <1>3 DEF ElementsSize, SumOf, Sizes, Offsets
<1> HIDE DEF n, sizes
<1>6. Sums(sizes) \in [0 .. n -> Nat] /\ Sums(sizes)[0] = 0
  BY <1>3, SumsAre
<1>7. \A k \in 1 .. n : Sums(sizes)[k] = Sums(sizes)[k - 1] + sizes[k]
  BY <1>3, SumsAre
<1> QED
  BY <1>4, <1>5, <1>6, <1>7 DEF n, sizes, Offsets

\* Each element begins behind the one before.
LEMMA OffsetsGrow ==
    ASSUME NEW of, NEW V, Sound(of, V), NEW v \in Seq(V)
    PROVE  \A k \in 0 .. Len(v) :
               /\ k <= Offsets(of, v)[k]
               /\ \A j \in 0 .. k - 1 : Offsets(of, v)[j] < Offsets(of, v)[k]
               /\ of.static => Offsets(of, v)[k] = k * of.size
<1> DEFINE n == Len(v)
           s == Offsets(of, v)
           Q(k) == /\ k <= s[k]
                   /\ \A j \in 0 .. k - 1 : s[j] < s[k]
                   /\ of.static => s[k] = k * of.size
           P == {k \in 0 .. n : Q(k)}
<1>1. n \in Nat
  BY PartsAre
<1>2. \A k \in 1 .. n : /\ of.measure[v[k]] \in Nat \ {0}
                        /\ of.static => of.measure[v[k]] = of.size
  BY PartsAre
<1>3. s \in [0 .. n -> Nat] /\ s[0] = 0
  BY OffsetsAre
<1>4. \A k \in 1 .. n : s[k] = s[k - 1] + of.measure[v[k]]
  BY OffsetsAre
<1>5. of.static => of.size \in Nat \ {0}
  BY DEF Sound
<1> HIDE DEF n, s
<1>6. Q(0)
  BY <1>3, <1>5
<1>7. ASSUME NEW k \in 0 .. n - 1, Q(k) PROVE Q(k + 1)
  <2>1. k + 1 \in 1 .. n /\ (k + 1) - 1 = k /\ k \in 0 .. n /\ k + 1 \in 0 .. n
    BY <1>1
  <2>2. s[k + 1] = s[k] + of.measure[v[k + 1]]
    BY <1>4, <2>1
  <2>3. of.measure[v[k + 1]] \in Nat \ {0} /\ (of.static => of.measure[v[k + 1]] = of.size)
    BY <1>2, <2>1
  <2>4. s[k] \in Nat /\ s[k + 1] \in Nat
    BY <1>3, <2>1
  <2>5. k + 1 <= s[k + 1]
    BY <1>7, <2>2, <2>3, <2>4
  <2>6. ASSUME NEW j \in 0 .. (k + 1) - 1 PROVE s[j] < s[k + 1]
    <3>1. CASE j = k
      BY <2>2, <2>3, <2>4, <3>1
    <3>2. CASE j \in 0 .. k - 1
      <4>0. s[j] < s[k]
        BY <1>7, <3>2
      <4>1. s[j] < s[k] /\ j \in 0 .. n
        BY <1>1, <2>1, <3>2, <4>0
      <4>2. s[j] \in Nat
        BY <1>3, <4>1
      <4> QED
        BY <2>2, <2>3, <2>4, <4>1, <4>2
    <3> QED
      BY <3>1, <3>2
  <2>7. ASSUME of.static PROVE s[k + 1] = (k + 1) * of.size
    <3>1. of.size \in Nat /\ k \in Nat /\ s[k] = k * of.size
      BY <1>5, <1>7, <2>7
    <3>2. s[k + 1] = k * of.size + of.size
      BY <2>2, <2>3, <2>7, <3>1
    <3> QED
      BY <3>1, <3>2, OneMore
  <2> QED
    BY <2>5, <2>6, <2>7
<1> HIDE DEF Q
<1>8. \A k \in 0 .. n : Q(k)
  <2>1. 0 \in P
    BY <1>1, <1>6
  <2>2. ASSUME NEW k \in 0 .. n - 1, k \in P PROVE k + 1 \in P
    <3>1. k + 1 \in 0 .. n
      BY <1>1
    <3> QED
      BY <1>7, <2>2, <3>1
  <2> HIDE DEF P
  <2>3. \A k \in 0 .. n : k \in P
    BY <1>1, <2>1, <2>2, InductionUpTo
  <2> QED
    BY <2>3 DEF P
<1> QED
  BY <1>8 DEF Q, n, s

\* One behind the other, the elements fill what was measured, and lie at their offsets.
LEMMA PartsFlattened ==
    ASSUME NEW of, NEW V, Sound(of, V), NEW v \in Seq(V)
    PROVE  /\ FlattenSeq(Parts(of, v)) \in Wire
           /\ Len(FlattenSeq(Parts(of, v))) = ElementsSize(of, v)
           /\ \A in \in Wire, start \in Nat : Lies(FlattenSeq(Parts(of, v)), in, start) =>
                  \A k \in 1 .. Len(v) : Lies(Parts(of, v)[k], in, start + Offsets(of, v)[k - 1])
<1> DEFINE n == Len(v)
           parts == Parts(of, v)
           s == Offsets(of, v)
<1>1. n \in Nat /\ Len(parts) = n
  BY PartsAre
<1>2. \A k \in 1 .. n : parts[k] \in Wire /\ Len(parts[k]) = of.measure[v[k]]
  BY PartsAre
<1>3. s \in [0 .. n -> Nat] /\ s[0] = 0 /\ ElementsSize(of, v) = s[n]
  BY OffsetsAre
<1>4. \A k \in 1 .. n : s[k] = s[k - 1] + of.measure[v[k]]
  BY OffsetsAre
<1>5. CASE n = 0
  <2>1. parts = <<>>
    <3>1. DOMAIN v = 1 .. n
      BY PartsAre
    <3>2. parts = [i \in {} |-> of.write[v[i]]]
      BY <1>5, <3>1 DEF Parts
    <3> QED
      BY <3>2
  <2>2. FlattenSeq(parts) = <<>>
    BY <2>1 DEF FlattenSeq
  <2>3. <<>> \in Wire /\ Len(<<>>) = 0
    BY DEF Wire
  <2>4. ~ \E k : k \in 1 .. n
    BY <1>5
  <2> HIDE DEF parts, s, n
  <2> QED
    BY <1>3, <1>5, <2>2, <2>3, <2>4 DEF parts, n
<1>6. CASE n # 0
  <2>1. PICK p : /\ p = [k \in 1 .. n |-> IF k = 1 THEN parts[k] ELSE p[k - 1] \o parts[k]]
                 /\ FlattenSeq(parts) = p[n]
    BY <1>1, <1>6, FlattenIs
  <2> HIDE DEF parts, s, n
  <2>2. n \in Nat \ {0} /\ 1 \in 1 .. n
    BY <1>1, <1>6
  <2>3. p[1] = parts[1]
    BY <2>1, <2>2
  <2>4. ASSUME NEW k \in 1 .. n - 1
        PROVE  /\ p[k + 1] = p[k] \o parts[k + 1]
               /\ k \in 0 .. n /\ k + 1 \in 1 .. n /\ parts[k + 1] \in Wire /\ s[k] \in Nat
               /\ s[k + 1] = s[k] + Len(parts[k + 1])
    <3>1. k + 1 \in 1 .. n /\ k + 1 # 1 /\ (k + 1) - 1 = k /\ k \in 0 .. n
      BY <1>1
    <3> QED
      BY <1>2, <1>3, <1>4, <2>1, <3>1
  <2> DEFINE Q(k) == /\ p[k] \in Wire /\ Len(p[k]) = s[k]
                     /\ \A in \in Wire, start \in Nat : Lies(p[k], in, start) =>
                            \A j \in 1 .. k : Lies(parts[j], in, start + s[j - 1])
             P == {k \in 1 .. n : Q(k)}
  <2>5. Q(1)
    <3>1. s[1] = Len(parts[1]) /\ parts[1] \in Wire
      <4>1. s[1] = s[1 - 1] + of.measure[v[1]]
        BY <1>4, <2>2
      <4>2. s[1 - 1] = 0
        BY <1>3
      <4>3. parts[1] \in Wire /\ Len(parts[1]) = of.measure[v[1]] /\ Len(parts[1]) \in Nat
        BY <1>2, <2>2, WireOfNumbers
      <4> QED
        BY <4>1, <4>2, <4>3
    <3>2. ASSUME NEW in \in Wire, NEW start \in Nat, Lies(p[1], in, start), NEW j \in 1 .. 1
          PROVE  Lies(parts[j], in, start + s[j - 1])
      <4>1. j = 1 /\ s[j - 1] = 0 /\ start + 0 = start
        BY <1>3, <3>2 DEF Lies
      <4> QED
        BY <2>3, <3>2, <4>1
    <3> QED
      BY <2>3, <3>1, <3>2
  <2>6. ASSUME NEW k \in 1 .. n - 1, Q(k) PROVE Q(k + 1)
    <3>1. p[k + 1] \in Wire /\ Len(p[k + 1]) = s[k + 1]
      <4>1. p[k + 1] \in Wire /\ Len(p[k + 1]) = Len(p[k]) + Len(parts[k + 1])
        BY <2>4, <2>6, JoinedWire
      <4> QED
        BY <2>4, <2>6, <4>1
    <3>2. ASSUME NEW in \in Wire, NEW start \in Nat, Lies(p[k + 1], in, start), NEW j \in 1 .. k + 1
          PROVE  Lies(parts[j], in, start + s[j - 1])
      <4>1. Lies(p[k], in, start) /\ Lies(parts[k + 1], in, start + Len(p[k]))
        <5>1. p[k] \in Wire /\ parts[k + 1] \in Wire /\ Len(in) \in Nat
          BY <2>4, <2>6, WireOfNumbers
        <5>2. Lies(p[k] \o parts[k + 1], in, start)
          BY <2>4, <3>2
        <5> QED
          BY <5>1, <5>2, LiesInParts
      <4>2. CASE j = k + 1
        <5>1. j - 1 = k
          BY <4>2
        <5> QED
          BY <2>6, <4>1, <4>2, <5>1
      <4>3. CASE j \in 1 .. k
        BY <2>6, <4>1, <4>3
      <4> QED
        BY <4>2, <4>3
    <3> QED
      BY <3>1, <3>2
  <2> HIDE DEF Q
  <2>7. Q(n)
    <3>1. 1 \in P /\ \A k \in 1 .. n - 1 : k \in P => k + 1 \in P
      BY <2>2, <2>4, <2>5, <2>6
    <3> HIDE DEF P
    <3>2. n \in P
      BY <2>2, <3>1, InductionFromOne
    <3> QED
      BY <3>2 DEF P
  <2> QED
    BY <1>3, <2>1, <2>7 DEF Q, n, parts, s
<1> QED
  BY <1>5, <1>6

\* The count stops at the first cursor that reaches the end.
CountsTo(end, cursor, limit, n) ==
    /\ limit \in Nat /\ n \in 0 .. limit /\ end \in Nat
    /\ cursor[n] = end
    /\ \A k \in 0 .. n - 1 : cursor[k] \in Int /\ cursor[k] < end

LEMMA CountIs ==
    ASSUME NEW end, NEW cursor, NEW limit, NEW n, CountsTo(end, cursor, limit, n)
    PROVE  CountUntil(end, cursor, limit) = n
<1> USE DEF CountsTo
<1> DEFINE Is(m) == /\ m = limit \/ cursor[m] >= end
                    /\ \A k \in 0 .. m - 1 : cursor[k] < end
<1>1. n \in 0 .. limit /\ Is(n)
  OBVIOUS
<1>2. ASSUME NEW m \in 0 .. limit, Is(m) PROVE m = n
  <2>1. CASE m < n
    <3>1. m \in 0 .. n - 1 /\ m # limit
      BY <2>1
    <3>2. cursor[m] \in Int /\ cursor[m] < end /\ cursor[m] >= end
      BY <1>2, <3>1
    <3> QED
      BY <3>2
  <2>2. CASE n < m
    <3>1. n \in 0 .. m - 1
      BY <2>2
    <3>2. end < end
      BY <1>2, <3>1
    <3> QED
      BY <3>2
  <2> QED
    BY <2>1, <2>2
<1>3. CountUntil(end, cursor, limit) = CHOOSE m \in 0 .. limit : Is(m)
  BY DEF CountUntil
<1> HIDE DEF Is
<1>4. (CHOOSE m \in 0 .. limit : Is(m)) = n
  BY <1>1, <1>2
<1> QED
  BY <1>3, <1>4

\* The elements lie in the input, and their number or how many bytes they are is known.
Found(of, V, v, field, length, limit, in, start) ==
    /\ Sound(of, V) /\ v \in Seq(V) /\ in \in Wire /\ start \in Nat
    /\ limit \in Nat /\ Len(v) <= limit
    /\ field = 0 => Len(v) = limit
    /\ field # 0 => length = ElementsSize(of, v)
    /\ Lies(FlattenSeq(Parts(of, v)), in, start)

LEMMA CursorsFollow ==
    ASSUME NEW of, NEW V, NEW v, NEW field, NEW length, NEW limit, NEW in, NEW start,
           Found(of, V, v, field, length, limit, in, start)
    PROVE  \A k \in 0 .. Len(v) :
               /\ Cursors(of, in, start, limit)[k] = start + Offsets(of, v)[k]
               /\ k # 0 => of.read[in][Cursors(of, in, start, limit)[k - 1]].value = v[k]
<1> DEFINE n == Len(v)
           parts == Parts(of, v)
           s == Offsets(of, v)
           c == Cursors(of, in, start, limit)
           Q(k) == /\ c[k] = start + s[k]
                   /\ k # 0 => of.read[in][c[k - 1]].value = v[k]
           P == {k \in 0 .. n : Q(k)}
<1>1. Sound(of, V) /\ v \in Seq(V) /\ in \in Wire /\ start \in Nat /\ limit \in Nat /\ Len(v) <= limit
      /\ Lies(FlattenSeq(parts), in, start)
  BY DEF Found
<1>2. n \in Nat /\ \A k \in 1 .. n : /\ Len(parts[k]) = of.measure[v[k]] /\ Reads(of, parts[k], v[k])
  BY <1>1, PartsAre
<1>3. s \in [0 .. n -> Nat] /\ s[0] = 0
  BY <1>1, OffsetsAre
<1>4. \A k \in 1 .. n : s[k] = s[k - 1] + of.measure[v[k]]
  BY <1>1, OffsetsAre
<1>5. \A k \in 1 .. n : Lies(parts[k], in, start + s[k - 1])
  BY <1>1, PartsFlattened
<1>6. PICK f : /\ f = [k \in 0 .. limit |-> IF k = 0 THEN start ELSE of.read[in][f[k - 1]].next]
               /\ c = f
  BY <1>1, CursorsAre
<1>7. n <= limit
  BY <1>1
<1> HIDE DEF n, parts, s, c
<1>8. Q(0)
  BY <1>1, <1>3, <1>6
<1>9. ASSUME NEW k \in 0 .. n - 1, Q(k) PROVE Q(k + 1)
  <2>1. k + 1 \in 1 .. n /\ (k + 1) - 1 = k /\ k \in 0 .. n /\ k + 1 \in 0 .. limit /\ k + 1 # 0
    BY <1>1, <1>2, <1>7
  <2>2. c[k + 1] = of.read[in][c[k]].next
    BY <1>6, <2>1
  <2>3. Lies(parts[k + 1], in, start + s[k])
    BY <1>5, <2>1
  <2>4. start + s[k] \in Nat /\ s[k] \in Nat
    BY <1>1, <1>3, <2>1
  <2>5. of.read[in][start + s[k]] = [value |-> v[k + 1], next |-> (start + s[k]) + Len(parts[k + 1])]
    BY <1>1, <1>2, <2>1, <2>3, <2>4 DEF Reads
  <2>6. (start + s[k]) + Len(parts[k + 1]) = start + s[k + 1]
    <3>1. s[k + 1] = s[k] + Len(parts[k + 1])
      BY <1>2, <1>4, <2>1
    <3>2. s[k + 1] \in Nat
      BY <1>3, <2>1
    <3>3. Len(parts[k + 1]) \in Nat
      BY <1>1, <2>1, PartsAre DEF n, parts
    <3> QED
      BY <1>1, <2>4, <3>1, <3>2, <3>3
  <2>7. c[k] = start + s[k]
    BY <1>9
  <2> QED
    BY <2>1, <2>2, <2>5, <2>6, <2>7
<1> HIDE DEF Q
<1>10. \A k \in 0 .. n : Q(k)
  <2>1. 0 \in P
    BY <1>2, <1>8
  <2>2. ASSUME NEW k \in 0 .. n - 1, k \in P PROVE k + 1 \in P
    <3>1. k + 1 \in 0 .. n
      BY <1>2
    <3> QED
      BY <1>9, <2>2, <3>1
  <2> HIDE DEF P
  <2>3. \A k \in 0 .. n : k \in P
    BY <1>2, <2>1, <2>2, InductionUpTo
  <2> QED
    BY <2>3 DEF P
<1> QED
  BY <1>10 DEF Q, n, s, c

LEMMA ElementsRead ==
    ASSUME NEW of, NEW V, NEW v, NEW field, NEW length, NEW limit, NEW in, NEW start,
           Found(of, V, v, field, length, limit, in, start)
    PROVE  ReadElements(of, field, length, limit, in, start) =
               [value |-> v, next |-> start + ElementsSize(of, v)]
<1> DEFINE n == Len(v)
           s == Offsets(of, v)
           cursor == Cursors(of, in, start, limit)
           fitting == length \div of.size
           count == IF field = 0 THEN limit
                    ELSE IF of.static THEN IF fitting < limit THEN fitting ELSE limit
                    ELSE CountUntil(start + length, cursor, limit)
<1>1. Sound(of, V) /\ v \in Seq(V) /\ in \in Wire /\ start \in Nat /\ limit \in Nat /\ n <= limit
      /\ (field = 0 => n = limit) /\ (field # 0 => length = ElementsSize(of, v))
  BY DEF Found
<1>2. n \in Nat /\ DOMAIN v = 1 .. n
  BY <1>1, PartsAre
<1>3. s \in [0 .. n -> Nat] /\ ElementsSize(of, v) = s[n]
  BY <1>1, OffsetsAre
<1>4. \A k \in 0 .. n : /\ \A j \in 0 .. k - 1 : s[j] < s[k]
                        /\ of.static => s[k] = k * of.size
  BY <1>1, OffsetsGrow
<1>5. \A k \in 0 .. n : cursor[k] = start + s[k] /\ (k # 0 => of.read[in][cursor[k - 1]].value = v[k])
  BY CursorsFollow
<1>6. s[n] \in Nat /\ n \in 0 .. n
  BY <1>2, <1>3
<1>7. count = n
  <2>1. CASE field = 0
    BY <1>1, <2>1
  <2>2. CASE field # 0 /\ of.static
    <3>1. of.size \in Nat \ {0}
      BY <1>1, <2>2 DEF Sound
    <3>2. length = n * of.size
      BY <1>1, <1>3, <1>4, <1>6, <2>2
    <3>3. fitting = n
      BY <1>2, <3>1, <3>2, WholeQuotient
    <3> HIDE DEF fitting, n
    <3> QED
      BY <1>1, <1>2, <2>2, <3>3
  <2>3. CASE field # 0 /\ ~of.static
    <3>1. length = s[n]
      BY <1>1, <1>3, <2>3
    <3> DEFINE end == start + length
    <3>2. CountsTo(end, cursor, limit, n)
      <4> HIDE DEF n, s, cursor
      <4>1. end \in Nat /\ cursor[n] = end
        BY <1>1, <1>5, <1>6, <3>1
      <4>2. ASSUME NEW k \in 0 .. n - 1 PROVE cursor[k] \in Int /\ cursor[k] < end
        <5>1. k \in 0 .. n /\ s[k] < s[n]
          BY <1>2, <1>4, <1>6
        <5>2. cursor[k] = start + s[k] /\ s[k] \in Nat
          BY <1>3, <1>5, <5>1
        <5> QED
          BY <1>1, <1>6, <3>1, <5>1, <5>2
      <4> HIDE DEF end
      <4> QED
        BY <1>1, <1>2, <4>1, <4>2 DEF CountsTo
    <3>3. CountUntil(end, cursor, limit) = n
      <4> HIDE DEF end, cursor, n
      <4> QED
        BY <3>2, CountIs
    <3> HIDE DEF cursor, n
    <3> QED
      BY <2>3, <3>3
  <2> QED
    BY <1>1, <2>1, <2>2, <2>3 DEF Sound
<1>8. ReadElements(of, field, length, limit, in, start) =
          [value |-> [i \in 1 .. count |-> of.read[in][cursor[i - 1]].value], next |-> cursor[count]]
  BY DEF ReadElements
<1> HIDE DEF count, cursor, n, s
<1>9. [i \in 1 .. n |-> of.read[in][cursor[i - 1]].value] = v
  <2>1. \A i \in 1 .. n : of.read[in][cursor[i - 1]].value = v[i]
    BY <1>2, <1>5
  <2>2. v = [i \in 1 .. n |-> v[i]]
    BY <1>1, <1>2
  <2> QED
    BY <2>1, <2>2
<1>10. cursor[n] = start + ElementsSize(of, v)
  BY <1>3, <1>5, <1>6
<1> QED
  BY <1>7, <1>8, <1>9, <1>10

LEMMA ArrayWritten ==
    ASSUME NEW of, NEW V, Sound(of, V), NEW v \in Seq(V), NEW field \in Nat
    PROVE  /\ WriteArray(of, field, v) = Bytes(ElementsSize(of, v), field) \o FlattenSeq(Parts(of, v))
           /\ WriteArray(of, field, v) \in Wire
           /\ Len(WriteArray(of, field, v)) = field + ElementsSize(of, v)
           /\ ElementsSize(of, v) \in Nat
<1> DEFINE size == ElementsSize(of, v)
           b == Bytes(size, field)
           flat == FlattenSeq(Parts(of, v))
<1>1. WriteArray(of, field, v) = b \o flat
  BY DEF WriteArray, Parts
<1>2. flat \in Wire /\ Len(flat) = size
  BY PartsFlattened
<1>3. size \in Nat
  BY <1>2, WireOfNumbers
<1> HIDE DEF flat, size
<1>4. b \in Wire /\ Len(b) = field
  BY <1>3, BytesAreWire
<1> HIDE DEF b
<1>5. b \o flat \in Wire /\ Len(b \o flat) = Len(b) + Len(flat)
  BY <1>2, <1>4, JoinedWire
<1>6. WriteArray(of, field, v) \in Wire /\ Len(WriteArray(of, field, v)) = field + size
  BY <1>1, <1>2, <1>4, <1>5
<1> QED
  BY <1>1, <1>3, <1>6 DEF b, flat, size

\* An array that lies in the input, and how many elements at most are read.
ArrayThere(of, V, v, field, limit, in, at) ==
    /\ Sound(of, V) /\ v \in Seq(V) /\ in \in Wire /\ at \in Nat
    /\ field \in Nat /\ (field # 0 => ElementsSize(of, v) < Capacity(field))
    /\ limit = Len(v) \/ (field # 0 /\ limit = ElementsSize(of, v))
    /\ Lies(WriteArray(of, field, v), in, at)

\* It is read: its length, if it has one, and its elements.
ArrayIsRead(of, v, field, limit, in, at) ==
    /\ field # 0 => ReadLength(field, in, at) = ElementsSize(of, v)
    /\ ReadElements(of, field, ReadLength(field, in, at), limit, in, at + field) =
           [value |-> v, next |-> at + Len(WriteArray(of, field, v))]

LEMMA ArrayRead ==
    ASSUME NEW of, NEW V, NEW v, NEW field, NEW limit, NEW in, NEW at,
           ArrayThere(of, V, v, field, limit, in, at)
    PROVE  ArrayIsRead(of, v, field, limit, in, at)
<1> DEFINE size == ElementsSize(of, v)
           b == Bytes(size, field)
           flat == FlattenSeq(Parts(of, v))
           start == at + field
           length == ReadLength(field, in, at)
<1>1. /\ Sound(of, V) /\ v \in Seq(V) /\ in \in Wire /\ at \in Nat
      /\ field \in Nat /\ (field # 0 => size < Capacity(field))
      /\ limit = Len(v) \/ (field # 0 /\ limit = size)
      /\ Lies(WriteArray(of, field, v), in, at)
  BY DEF ArrayThere
<1>2. WriteArray(of, field, v) = b \o flat /\ Len(WriteArray(of, field, v)) = field + size /\ size \in Nat
  BY <1>1, ArrayWritten
<1>3. flat \in Wire /\ Len(flat) = size
  BY <1>1, PartsFlattened
<1>4. b \in Wire /\ Len(b) = field
  <2> HIDE DEF size
  <2> QED
    BY <1>1, <1>2, BytesAreWire
<1>5. Len(v) \in Nat /\ Len(v) <= size
  <2>1. Len(v) \in Nat
    BY <1>1, PartsAre
  <2>2. Len(v) <= Offsets(of, v)[Len(v)]
    BY <1>1, <2>1, OffsetsGrow
  <2>3. size = Offsets(of, v)[Len(v)]
    BY <1>1, OffsetsAre
  <2> QED
    BY <2>1, <2>2, <2>3
<1> HIDE DEF size, flat
<1>6. Lies(b, in, at) /\ Lies(flat, in, start)
  <2>1. Len(in) \in Nat
    BY <1>1, WireOfNumbers
  <2> HIDE DEF b
  <2>2. Lies(b \o flat, in, at)
    BY <1>1, <1>2
  <2>3. Lies(b, in, at) /\ Lies(flat, in, at + Len(b))
    BY <1>3, <1>4, <2>1, <2>2, LiesInParts
  <2> QED
    BY <1>4, <2>3
<1>7. ASSUME field # 0 PROVE length = size
  <2>1. Capacity(field) \in Nat /\ field \in Nat \ {0}
    BY <1>1, <1>7, PowersAre DEF Capacity
  <2>2. size \in 0 .. Capacity(field) - 1
    BY <1>1, <1>2, <1>7, <2>1
  <2> QED
    BY <1>1, <1>6, <2>1, <2>2, LengthRead
<1> HIDE DEF b, length
<1>8. Found(of, V, v, field, length, limit, in, start)
  <2>1. start \in Nat /\ limit \in Nat /\ Len(v) <= limit /\ (field = 0 => Len(v) = limit)
    BY <1>1, <1>2, <1>5
  <2> HIDE DEF start
  <2> QED
    BY <1>1, <1>6, <1>7, <2>1 DEF Found, size, flat
<1>9. ReadElements(of, field, length, limit, in, start) = [value |-> v, next |-> start + size]
  BY <1>8, ElementsRead DEF size
<1>10. start + size = at + Len(WriteArray(of, field, v))
  BY <1>1, <1>2
<1> QED
  BY <1>7, <1>9, <1>10 DEF ArrayIsRead, length, size

ArrayValues(of, V, field) == {v \in Seq(V) : ElementsSize(of, v) < Capacity(field)}

\* An array is read back if its elements are and the bytes of them fit its length
\* field: as many as were written, whether they are counted by their size or until
\* the length is used up.
THEOREM ArraysSurvive ==
    ASSUME NEW of, NEW V, Sound(of, V), NEW field \in Nat \ {0}
    PROVE  Sound(DynamicArray(of, field), ArrayValues(of, V, field))
<1> DEFINE t == DynamicArray(of, field)
<1>1. t.static = FALSE /\ DOMAIN t.write = Seq(DOMAIN of.write)
  BY DEF DynamicArray
<1>2. \A v \in Seq(DOMAIN of.write) :
          t.write[v] = WriteArray(of, field, v) /\ t.measure[v] = field + ElementsSize(of, v)
  BY DEF DynamicArray
<1>3. ASSUME NEW in \in Wire, NEW at \in Nat
      PROVE  t.read[in][at] = ReadElements(of, field, ReadLength(field, in, at),
                                           ReadLength(field, in, at), in, at + field)
  BY DEF DynamicArray
<1> HIDE DEF t
<1>4. V \subseteq DOMAIN of.write
  BY DEF Sound
<1>5. ASSUME NEW v \in ArrayValues(of, V, field)
      PROVE  Writes(t, v, t.write[v]) /\ Reads(t, t.write[v], v)
  <2>1. v \in Seq(V) /\ ElementsSize(of, v) < Capacity(field)
    BY DEF ArrayValues
  <2>2. v \in Seq(DOMAIN of.write)
    BY <1>4, <2>1, SeqMonotonic
  <2>3. t.write[v] = WriteArray(of, field, v) /\ t.measure[v] = field + ElementsSize(of, v)
    BY <1>2, <2>2
  <2>4. /\ WriteArray(of, field, v) \in Wire
        /\ Len(WriteArray(of, field, v)) = field + ElementsSize(of, v)
        /\ ElementsSize(of, v) \in Nat
    BY <2>1, ArrayWritten
  <2>5. Len(WriteArray(of, field, v)) > 0
    BY <2>4
  <2>6. Writes(t, v, t.write[v])
    BY <1>1, <2>2, <2>3, <2>4, <2>5 DEF Writes
  <2>7. ASSUME NEW in \in Wire, NEW at \in Nat, Lies(t.write[v], in, at)
        PROVE  t.read[in][at] = [value |-> v, next |-> at + Len(t.write[v])]
    <3> DEFINE limit == ElementsSize(of, v)
    <3>1. ArrayThere(of, V, v, field, limit, in, at)
      BY <2>1, <2>3, <2>7 DEF ArrayThere
    <3>2. ArrayIsRead(of, v, field, limit, in, at)
      <4> HIDE DEF limit
      <4> QED
        BY <3>1, ArrayRead
    <3>3. /\ ReadLength(field, in, at) = limit
          /\ ReadElements(of, field, ReadLength(field, in, at), limit, in, at + field) =
                 [value |-> v, next |-> at + Len(WriteArray(of, field, v))]
      BY <3>2 DEF ArrayIsRead
    <3> HIDE DEF limit
    <3> QED
      BY <1>3, <2>3, <3>3
  <2>8. Reads(t, t.write[v], v)
    BY <2>7 DEF Reads
  <2> QED
    BY <2>6, <2>8
<1>6. Sound(t, ArrayValues(of, V, field))
  <2>1. t.static \in BOOLEAN /\ (t.static => t.size \in Nat \ {0})
    BY <1>1
  <2> QED
    BY <1>5, <2>1, SoundTogether
<1> QED
  BY <1>6 DEF t

FixedArrayValues(of, V, n, field) ==
    {v \in [1 .. n -> V] : field # 0 => ElementsSize(of, v) < Capacity(field)}

\* The same for an array of a fixed length, with a length field or without, if it is
\* not written to no bytes at all.
THEOREM FixedArraysSurvive ==
    ASSUME NEW of, NEW V, Sound(of, V), NEW n \in Nat, NEW field \in Nat, n + field > 0
    PROVE  Sound(FixedArray(of, n, field), FixedArrayValues(of, V, n, field))
<1> DEFINE t == FixedArray(of, n, field)
           values == FixedArrayValues(of, V, n, field)
<1>1. /\ t.static = of.static /\ t.size = IF of.static THEN field + n * of.size ELSE 0
      /\ DOMAIN t.write = [1 .. n -> DOMAIN of.write]
  BY DEF FixedArray
<1>2. \A v \in [1 .. n -> DOMAIN of.write] :
          t.write[v] = WriteArray(of, field, v) /\ t.measure[v] = field + ElementsSize(of, v)
  BY DEF FixedArray
<1>3. ASSUME NEW in \in Wire, NEW at \in Nat
      PROVE  t.read[in][at] =
                 [ReadElements(of, field, ReadLength(field, in, at), n, in, at + field)
                     EXCEPT !.value = Filled(n, @, of.blank)]
  BY DEF FixedArray
<1> HIDE DEF t
<1>4. V \subseteq DOMAIN of.write /\ of.static \in BOOLEAN /\ (of.static => of.size \in Nat \ {0})
  BY DEF Sound
<1>5. t.static \in BOOLEAN /\ (t.static => t.size \in Nat \ {0})
  <2>1. ASSUME of.static PROVE field + n * of.size \in Nat \ {0}
    <3>1. of.size \in Nat \ {0}
      BY <1>4, <2>1
    <3>2. n * of.size \in Nat /\ (n > 0 => n * of.size > 0)
      BY <3>1
    <3> QED
      BY <3>2
  <2> QED
    BY <1>1, <1>4, <2>1
<1>6. ASSUME NEW v \in values
      PROVE  Writes(t, v, t.write[v]) /\ Reads(t, t.write[v], v)
  <2>1. v \in [1 .. n -> V] /\ (field # 0 => ElementsSize(of, v) < Capacity(field))
    BY DEF FixedArrayValues
  <2>2. v \in [1 .. n -> DOMAIN of.write] /\ v \in Seq(V) /\ Len(v) = n
    BY <1>4, <2>1
  <2>3. t.write[v] = WriteArray(of, field, v) /\ t.measure[v] = field + ElementsSize(of, v)
    BY <1>2, <2>2
  <2>4. /\ WriteArray(of, field, v) \in Wire
        /\ Len(WriteArray(of, field, v)) = field + ElementsSize(of, v)
        /\ ElementsSize(of, v) \in Nat
    BY <2>2, ArrayWritten
  <2>5. n <= ElementsSize(of, v) /\ (of.static => ElementsSize(of, v) = n * of.size)
    <3>1. n \in 0 .. Len(v) /\ ElementsSize(of, v) = Offsets(of, v)[n]
      BY <2>2, OffsetsAre
    <3> QED
      BY <2>2, <3>1, OffsetsGrow
  <2>6. Len(WriteArray(of, field, v)) > 0
    BY <2>4, <2>5
  <2>7. t.static => t.size = Len(WriteArray(of, field, v))
    BY <1>1, <2>4, <2>5
  <2>8. Writes(t, v, t.write[v])
    BY <1>1, <1>5, <2>2, <2>3, <2>4, <2>6, <2>7 DEF Writes
  <2>9. ASSUME NEW in \in Wire, NEW at \in Nat, Lies(t.write[v], in, at)
        PROVE  t.read[in][at] = [value |-> v, next |-> at + Len(t.write[v])]
    <3>1. ArrayThere(of, V, v, field, n, in, at)
      BY <2>1, <2>2, <2>3, <2>9 DEF ArrayThere
    <3>2. ReadElements(of, field, ReadLength(field, in, at), n, in, at + field) =
              [value |-> v, next |-> at + Len(WriteArray(of, field, v))]
      BY <3>1, ArrayRead DEF ArrayIsRead
    <3>3. Filled(n, v, of.blank) = v
      <4>1. v = [i \in 1 .. n |-> v[i]]
        BY <2>1
      <4> QED
        BY <2>2, <4>1 DEF Filled
    <3> QED
      BY <1>3, <2>3, <3>2, <3>3
  <2>10. Reads(t, t.write[v], v)
    BY <2>9 DEF Reads
  <2> QED
    BY <2>8, <2>10
<1>7. Sound(t, values)
  BY <1>5, <1>6, SoundTogether
<1> QED
  BY <1>7 DEF t

-----------------------------------------------------------------------------
(* The samples.                                                            *)

LEMMA LeastCapacity ==
    ASSUME NEW field \in Nat \ {0}
    PROVE  Capacity(field) \in Nat /\ Capacity(field) >= 256
<1>1. Powers(field) \in [0 .. field -> (Nat \ {0})]
  BY PowersAre
<1>2. Powers(field)[field] = Powers(field)[field - 1] * 256
  BY PowersAre
<1>3. Powers(field)[field - 1] \in Nat \ {0}
  BY <1>1
<1> QED
  BY <1>2, <1>3 DEF Capacity

LEMMA Capacities ==
    /\ Powers(2)[1] = 256 /\ Powers(4)[3] = 16777216
    /\ Capacity(1) = 256 /\ Capacity(2) = 65536 /\ Capacity(4) = 4294967296
<1>2. Powers(1)[0] = 1 /\ Powers(1)[1] = Powers(1)[0] * 256
  <2>1. \A k \in 1 .. 1 : Powers(1)[k] = Powers(1)[k - 1] * 256
    BY PowersAre
  <2> QED
    BY <2>1, PowersAre
<1>3. Powers(2)[0] = 1 /\ Powers(2)[1] = Powers(2)[0] * 256 /\ Powers(2)[2] = Powers(2)[1] * 256
  <2>1. \A k \in 1 .. 2 : Powers(2)[k] = Powers(2)[k - 1] * 256
    BY PowersAre
  <2> QED
    BY <2>1, PowersAre
<1>4. /\ Powers(4)[0] = 1 /\ Powers(4)[1] = Powers(4)[0] * 256 /\ Powers(4)[2] = Powers(4)[1] * 256
      /\ Powers(4)[3] = Powers(4)[2] * 256 /\ Powers(4)[4] = Powers(4)[3] * 256
  <2>1. \A k \in 1 .. 4 : Powers(4)[k] = Powers(4)[k - 1] * 256
    BY PowersAre
  <2> QED
    BY <2>1, PowersAre
<1> QED
  BY <1>2, <1>3, <1>4, SMT DEF Capacity

\* A sample of a type that survives, and where the mark of a string is.
Surviving(sample) ==
    \E V : /\ Sound(sample.type, V) /\ sample.value \in V
           /\ sample.mark > 0 =>
                  \E field \in Nat, i \in 1 .. 3 : sample.mark = field + i /\ IsString(sample.type, V, field)

AreSurviving(samples) ==
    /\ \E S : samples \in Seq(S)
    /\ \A i \in 1 .. Len(samples) : Surviving(samples[i])

LEMMA OfSurvive ==
    ASSUME NEW type, NEW V, Sound(type, V), NEW values, NEW S, values \in Seq(S),
           \A i \in 1 .. Len(values) : values[i] \in V
    PROVE  AreSurviving(Of(type, values))
<1>1. Len(values) \in Nat /\ DOMAIN values = 1 .. Len(values)
  BY LenProperties
<1> DEFINE samples == Of(type, values)
<1>2. samples = [i \in 1 .. Len(values) |-> [type |-> type, value |-> values[i], mark |-> 0]]
  BY <1>1 DEF Of
<1> HIDE DEF samples
<1>3. samples \in Seq({samples[i] : i \in 1 .. Len(values)}) /\ Len(samples) = Len(values)
  BY <1>1, <1>2
<1>4. ASSUME NEW i \in 1 .. Len(samples) PROVE Surviving(samples[i])
  <2>1. samples[i] = [type |-> type, value |-> values[i], mark |-> 0] /\ values[i] \in V
    BY <1>2, <1>3
  <2> QED
    BY <2>1 DEF Surviving
<1>5. AreSurviving(samples)
  BY <1>3, <1>4 DEF AreSurviving
<1> QED
  BY <1>5 DEF samples

LEMMA MarkedSurvive ==
    ASSUME NEW type, NEW V, NEW field \in Nat, IsString(type, V, field), Sound(type, V),
           NEW values, NEW S, values \in Seq(S), \A i \in 1 .. Len(values) : values[i] \in V
    PROVE  AreSurviving(Marked(type, field, values))
<1>1. Len(values) \in Nat /\ DOMAIN values = 1 .. Len(values)
  BY LenProperties
<1> DEFINE samples == Marked(type, field, values)
<1>2. samples = [i \in 1 .. Len(values) |-> [type |-> type, value |-> values[i], mark |-> field + 1]]
  BY <1>1 DEF Marked
<1> HIDE DEF samples
<1>3. samples \in Seq({samples[i] : i \in 1 .. Len(values)}) /\ Len(samples) = Len(values)
  BY <1>1, <1>2
<1>4. ASSUME NEW i \in 1 .. Len(samples) PROVE Surviving(samples[i])
  <2>1. samples[i] = [type |-> type, value |-> values[i], mark |-> field + 1] /\ values[i] \in V
    BY <1>2, <1>3
  <2>2. 1 \in 1 .. 3
    OBVIOUS
  <2> QED
    BY <2>1, <2>2 DEF Surviving
<1>5. AreSurviving(samples)
  BY <1>3, <1>4 DEF AreSurviving
<1> QED
  BY <1>5 DEF samples

LEMMA JoinedSurvive ==
    ASSUME NEW a, NEW b, AreSurviving(a), AreSurviving(b)
    PROVE  AreSurviving(a \o b)
<1>1. PICK S : a \in Seq(S)
  BY DEF AreSurviving
<1>2. PICK T : b \in Seq(T)
  BY DEF AreSurviving
<1> DEFINE U == S \cup T
           c == a \o b
<1>3. a \in Seq(U) /\ b \in Seq(U)
  BY <1>1, <1>2, SeqMonotonic
<1> HIDE DEF U
<1>4. c \in Seq(U) /\ Len(c) = Len(a) + Len(b) /\ Len(a) \in Nat /\ Len(b) \in Nat
      /\ \A i \in 1 .. Len(a) + Len(b) : c[i] = IF i <= Len(a) THEN a[i] ELSE b[i - Len(a)]
  BY <1>3, ConcatProperties, LenProperties
<1> HIDE DEF c
<1>5. ASSUME NEW i \in 1 .. Len(c) PROVE Surviving(c[i])
  <2>1. CASE i <= Len(a)
    <3>1. i \in 1 .. Len(a) /\ c[i] = a[i]
      BY <1>4, <2>1
    <3> QED
      BY <3>1 DEF AreSurviving
  <2>2. CASE ~(i <= Len(a))
    <3>1. i - Len(a) \in 1 .. Len(b) /\ c[i] = b[i - Len(a)]
      BY <1>4, <2>2
    <3> QED
      BY <3>1 DEF AreSurviving
  <2> QED
    BY <2>1, <2>2
<1>6. AreSurviving(c)
  BY <1>4, <1>5 DEF AreSurviving
<1> QED
  BY <1>6 DEF c

LEMMA FlattenedSurvive ==
    ASSUME NEW parts, NEW n \in Nat \ {0}, Len(parts) = n, \A i \in 1 .. n : AreSurviving(parts[i])
    PROVE  AreSurviving(FlattenSeq(parts))
<1>1. PICK p : /\ p = [k \in 1 .. n |-> IF k = 1 THEN parts[k] ELSE p[k - 1] \o parts[k]]
               /\ FlattenSeq(parts) = p[n]
  BY FlattenIs
<1> DEFINE P == {k \in 1 .. n : AreSurviving(p[k])}
<1>2. 1 \in P
  BY <1>1
<1>3. ASSUME NEW k \in 1 .. n - 1, k \in P PROVE k + 1 \in P
  <2>1. k + 1 \in 1 .. n /\ k + 1 # 1 /\ (k + 1) - 1 = k
    OBVIOUS
  <2>2. p[k + 1] = p[k] \o parts[k + 1]
    BY <1>1, <2>1
  <2> QED
    BY <1>3, <2>1, <2>2, JoinedSurvive
<1> HIDE DEF P
<1>4. n \in P
  BY <1>2, <1>3, InductionFromOne
<1> QED
  BY <1>1, <1>4 DEF P

LEMMA UnsignedSurvive ==
    ASSUME NEW size \in Nat \ {0}
    PROVE  Sound(Integer(size, FALSE), IntegerValues(size, FALSE))
  BY IntegersSurvive, Zenon

LEMMA SignedSurvive ==
    ASSUME NEW size \in Nat \ {0}
    PROVE  Sound(Integer(size, TRUE), IntegerValues(size, TRUE))
  BY IntegersSurvive, Zenon

LEMMA TwoOf == ASSUME NEW S, NEW a \in S, NEW b \in S PROVE <<a, b>> \in Seq(S)
  OBVIOUS

LEMMA ThreeOf == ASSUME NEW S, NEW a \in S, NEW b \in S, NEW c \in S PROVE <<a, b, c>> \in Seq(S)
  OBVIOUS

LEMMA NumeralsSurvive == AreSurviving(Numerals)
<1>1. AreSurviving(Of(uint8, <<0, 255>>))
  <2> DEFINE V == IntegerValues(1, FALSE)
             values == <<0, 255>>
  <2>1. 0 \in V /\ 255 \in V
    BY Capacities, SMT DEF IntegerValues
  <2>2. values \in Seq(V)
    <3> HIDE DEF V
    <3> QED
      BY <2>1, TwoOf
  <2>3. Sound(uint8, V)
    <3>1. 1 \in Nat \ {0}
      OBVIOUS
    <3>2. Sound(Integer(1, FALSE), IntegerValues(1, FALSE))
      BY <3>1, UnsignedSurvive, Zenon
    <3> QED
      BY <3>2, Zenon DEF uint8
  <2> HIDE DEF V, values
  <2>4. \A i \in 1 .. Len(values) : values[i] \in V
    BY <2>2, ElementOfSeq
  <2>5. AreSurviving(Of(uint8, values))
    BY <2>2, <2>3, <2>4, OfSurvive
  <2> QED
    BY <2>5, SMT DEF values
<1>2. AreSurviving(Of(int16, <<-32768, -2, 258>>))
  <2> DEFINE V == IntegerValues(2, TRUE)
             values == <<-32768, -2, 258>>
  <2>1. -32768 \in V /\ -2 \in V /\ 258 \in V
    BY Capacities, SMT DEF IntegerValues
  <2>2. values \in Seq(V)
    <3> HIDE DEF V
    <3> QED
      BY <2>1, ThreeOf
  <2>3. Sound(int16, V)
    <3>1. 2 \in Nat \ {0}
      OBVIOUS
    <3>2. Sound(Integer(2, TRUE), IntegerValues(2, TRUE))
      BY <3>1, SignedSurvive, Zenon
    <3> QED
      BY <3>2, Zenon DEF int16
  <2> HIDE DEF V, values
  <2>4. \A i \in 1 .. Len(values) : values[i] \in V
    BY <2>2, ElementOfSeq
  <2>5. AreSurviving(Of(int16, values))
    BY <2>2, <2>3, <2>4, OfSurvive
  <2> QED
    BY <2>5, SMT DEF values
<1>3. AreSurviving(Of(uint32, <<16909060, 2147483647>>))
  <2> DEFINE V == IntegerValues(4, FALSE)
             values == <<16909060, 2147483647>>
  <2>1. 16909060 \in V /\ 2147483647 \in V
    BY Capacities, SMT DEF IntegerValues
  <2>2. values \in Seq(V)
    <3> HIDE DEF V
    <3> QED
      BY <2>1, TwoOf
  <2>3. Sound(uint32, V)
    <3>1. 4 \in Nat \ {0}
      OBVIOUS
    <3>2. Sound(Integer(4, FALSE), IntegerValues(4, FALSE))
      BY <3>1, UnsignedSurvive, Zenon
    <3> QED
      BY <3>2, Zenon DEF uint32
  <2> HIDE DEF V, values
  <2>4. \A i \in 1 .. Len(values) : values[i] \in V
    BY <2>2, ElementOfSeq
  <2>5. AreSurviving(Of(uint32, values))
    BY <2>2, <2>3, <2>4, OfSurvive
  <2> QED
    BY <2>5, SMT DEF values
<1>4. AreSurviving(Of(Float(4), <<1069547520, -1073741824>>))
  <2> DEFINE V == IntegerValues(4, TRUE)
             values == <<1069547520, -1073741824>>
  <2>1. 1069547520 \in V /\ -1073741824 \in V
    BY Capacities, SMT DEF IntegerValues
  <2>2. values \in Seq(V)
    <3> HIDE DEF V
    <3> QED
      BY <2>1, TwoOf
  <2>3. Sound(Float(4), V)
    <3>1. 4 \in Nat \ {0}
      OBVIOUS
    <3>2. Sound(Integer(4, TRUE), IntegerValues(4, TRUE))
      BY <3>1, SignedSurvive, Zenon
    <3> QED
      BY <3>2, Zenon DEF Float
  <2> HIDE DEF V, values
  <2>4. \A i \in 1 .. Len(values) : values[i] \in V
    BY <2>2, ElementOfSeq
  <2>5. AreSurviving(Of(Float(4), values))
    BY <2>2, <2>3, <2>4, OfSurvive
  <2> QED
    BY <2>5, SMT DEF values
<1> DEFINE a == Of(uint8, <<0, 255>>)
           b == Of(int16, <<-32768, -2, 258>>)
           c == Of(uint32, <<16909060, 2147483647>>)
           d == Of(Float(4), <<1069547520, -1073741824>>)
<1>5. Numerals = a \o b \o c \o d
  BY SMT DEF Numerals
<1>6. AreSurviving(a) /\ AreSurviving(b) /\ AreSurviving(c) /\ AreSurviving(d)
  BY <1>1, <1>2, <1>3, <1>4, SMT
<1> HIDE DEF a, b, c, d
<1>7. AreSurviving(a \o b)
  BY <1>6, JoinedSurvive
<1>8. AreSurviving(a \o b \o c)
  BY <1>6, <1>7, JoinedSurvive
<1>9. AreSurviving(a \o b \o c \o d)
  BY <1>6, <1>8, JoinedSurvive
<1> QED
  BY <1>5, <1>9

\* Texts that any length field holds.
LEMMA ShortTexts ==
    ASSUME NEW field \in Nat \ {0}
    PROVE  \A v \in Wire : Len(v) <= 251 => v \in StringValues(field)
<1>1. Capacity(field) \in Nat /\ Capacity(field) >= 256
  BY LeastCapacity
<1>2. \A v \in Wire : Len(v) \in Nat
  BY WireOfNumbers
<1> QED
  BY <1>1, <1>2 DEF StringValues

LEMMA StringSamples ==
    ASSUME NEW field \in Nat \ {0}, NEW values \in Seq(StringValues(field))
    PROVE  AreSurviving(Marked(DynamicString(field), field, values))
<1> DEFINE t == DynamicString(field)
           V == StringValues(field)
<1>1. Sound(t, V)
  BY StringsSurvive
<1>2. IsString(t, V, field) /\ field \in Nat
  BY DEF IsString
<1>3. \A i \in 1 .. Len(values) : values[i] \in V
  BY ElementOfSeq
<1> HIDE DEF t, V
<1>4. AreSurviving(Marked(t, field, values))
  BY <1>1, <1>2, <1>3, MarkedSurvive DEF V
<1> QED
  BY <1>4 DEF t

LEMMA FixedStringSamples ==
    ASSUME NEW n \in 0 .. 251, NEW field \in Nat, NEW values \in Seq(FixedStringValues(n))
    PROVE  AreSurviving(Marked(FixedString(n, field), field, values))
<1> DEFINE t == FixedString(n, field)
           V == FixedStringValues(n)
<1>1. n \in Nat /\ (field # 0 => n + 4 < Capacity(field))
  <2>1. ASSUME field # 0 PROVE n + 4 < Capacity(field)
    <3>1. Capacity(field) \in Nat /\ Capacity(field) >= 256
      BY <2>1, LeastCapacity
    <3> QED
      BY <3>1
  <2> QED
    BY <2>1
<1>2. Sound(t, V)
  BY <1>1, FixedStringsSurvive
<1>3. IsString(t, V, field)
  BY <1>1 DEF IsString
<1>4. \A i \in 1 .. Len(values) : values[i] \in V
  BY ElementOfSeq
<1> HIDE DEF t, V
<1>5. AreSurviving(Marked(t, field, values))
  BY <1>2, <1>3, <1>4, MarkedSurvive DEF V
<1> QED
  BY <1>5 DEF t

LEMMA TextsSurvive == AreSurviving(Texts)
<1>1. <<>> \in Wire /\ Len(<<>>) <= 251 /\ <<104, 105>> \in Wire /\ Len(<<104, 105>>) <= 251
  BY DEF Wire
<1> DEFINE dynamic == [i \in 1 .. 3 |->
               LET field == <<1, 2, 4>>[i] IN Marked(DynamicString(field), field, <<<<>>, <<104, 105>>>>)]
           fixed == [i \in 1 .. 4 |->
               LET field == <<0, 1, 2, 4>>[i] IN Marked(FixedString(2, field), field, <<<<0, 0>>, <<104, 105>>>>)]
           long == [i \in 1 .. 251 |-> 65]
<1>2. AreSurviving(FlattenSeq(dynamic))
  <2>1. ASSUME NEW field \in Nat \ {0}
        PROVE  AreSurviving(Marked(DynamicString(field), field, <<<<>>, <<104, 105>>>>))
    <3>1. <<>> \in StringValues(field) /\ <<104, 105>> \in StringValues(field)
      <4>1. \A v \in Wire : Len(v) <= 251 => v \in StringValues(field)
        BY ShortTexts
      <4> QED
        BY <1>1, <4>1
    <3>2. <<<<>>, <<104, 105>>>> \in Seq(StringValues(field))
      BY <3>1
    <3> QED
      BY <3>2, StringSamples
  <2>2. ASSUME NEW i \in 1 .. 3 PROVE AreSurviving(dynamic[i])
    <3>1. <<1, 2, 4>>[i] \in Nat \ {0}
      OBVIOUS
    <3> QED
      BY <2>1, <3>1
  <2>3. Len(dynamic) = 3 /\ 3 \in Nat \ {0}
    OBVIOUS
  <2> HIDE DEF dynamic
  <2> QED
    BY <2>2, <2>3, FlattenedSurvive
<1>3. AreSurviving(Marked(DynamicString(1), 1, <<long>>))
  <2>1. long \in Wire /\ Len(long) <= 251
    BY DEF Wire
  <2> HIDE DEF long
  <2>2. 1 \in Nat \ {0} /\ long \in StringValues(1)
    <3>1. \A v \in Wire : Len(v) <= 251 => v \in StringValues(1)
      BY ShortTexts
    <3> QED
      BY <2>1, <3>1
  <2>3. <<long>> \in Seq(StringValues(1))
    BY <2>2
  <2> QED
    BY <2>2, <2>3, StringSamples
<1>4. AreSurviving(FlattenSeq(fixed))
  <2>1. ASSUME NEW field \in Nat
        PROVE  AreSurviving(Marked(FixedString(2, field), field, <<<<0, 0>>, <<104, 105>>>>))
    <3>1. <<0, 0>> \in FixedStringValues(2) /\ <<104, 105>> \in FixedStringValues(2)
      BY DEF FixedStringValues
    <3>2. <<<<0, 0>>, <<104, 105>>>> \in Seq(FixedStringValues(2)) /\ 2 \in 0 .. 251
      BY <3>1
    <3> QED
      BY <3>2, FixedStringSamples
  <2>2. ASSUME NEW i \in 1 .. 4 PROVE AreSurviving(fixed[i])
    <3>1. <<0, 1, 2, 4>>[i] \in Nat
      OBVIOUS
    <3> QED
      BY <2>1, <3>1
  <2>3. Len(fixed) = 4 /\ 4 \in Nat \ {0}
    OBVIOUS
  <2> HIDE DEF fixed
  <2> QED
    BY <2>2, <2>3, FlattenedSurvive
<1>5. Texts = FlattenSeq(dynamic) \o Marked(DynamicString(1), 1, <<long>>) \o FlattenSeq(fixed)
  BY DEF Texts
<1> DEFINE a == FlattenSeq(dynamic)
           b == Marked(DynamicString(1), 1, <<long>>)
           c == FlattenSeq(fixed)
<1>6. AreSurviving(a) /\ AreSurviving(b) /\ AreSurviving(c) /\ Texts = a \o b \o c
  BY <1>2, <1>3, <1>4, <1>5
<1> HIDE DEF a, b, c
<1>7. AreSurviving(a \o b)
  BY <1>6, JoinedSurvive
<1>8. AreSurviving(a \o b \o c)
  BY <1>6, <1>7, JoinedSurvive
<1> QED
  BY <1>6, <1>8

LEMMA FewElements ==
    ASSUME NEW of, NEW V, Sound(of, V), NEW v \in Seq(V)
    PROVE  /\ Len(v) = 0 => ElementsSize(of, v) = 0
           /\ Len(v) = 2 => ElementsSize(of, v) = of.measure[v[1]] + of.measure[v[2]]
           /\ Len(v) = 3 => ElementsSize(of, v) = of.measure[v[1]] + of.measure[v[2]] + of.measure[v[3]]
<1> DEFINE n == Len(v)
           s == Offsets(of, v)
<1>1. s[0] = 0 /\ ElementsSize(of, v) = s[n]
  BY OffsetsAre
<1>2. \A k \in 1 .. n : s[k] = s[k - 1] + of.measure[v[k]]
  BY OffsetsAre
<1>3. \A k \in 1 .. n : of.measure[v[k]] \in Nat \ {0}
  BY PartsAre
<1> HIDE DEF n, s
<1>4. CASE n = 0
  BY <1>1, <1>4 DEF n
<1>5. CASE n = 2
  <2>1. s[1] = s[0] + of.measure[v[1]] /\ s[2] = s[1] + of.measure[v[2]]
    BY <1>2, <1>5
  <2>2. of.measure[v[1]] \in Nat
    BY <1>3, <1>5
  <2> QED
    BY <1>1, <1>5, <2>1, <2>2 DEF n
<1>6. CASE n = 3
  <2>1. s[1] = s[0] + of.measure[v[1]] /\ s[2] = s[1] + of.measure[v[2]] /\ s[3] = s[2] + of.measure[v[3]]
    BY <1>2, <1>6
  <2>2. of.measure[v[1]] \in Nat
    BY <1>3, <1>6
  <2> QED
    BY <1>1, <1>6, <2>1, <2>2 DEF n
<1> QED
  BY <1>4, <1>5, <1>6 DEF n

\* Arrays that any length field holds.
ShortArrays(of, V) == {v \in Seq(V) : ElementsSize(of, v) \in 0 .. 255}

LEMMA ShortFits ==
    ASSUME NEW field \in Nat \ {0}, NEW n \in 0 .. 255
    PROVE  n < Capacity(field)
<1>1. Capacity(field) \in Nat /\ Capacity(field) >= 256
  BY LeastCapacity
<1> QED
  BY <1>1

LEMMA ArraySamples ==
    ASSUME NEW of, NEW V, Sound(of, V), NEW field \in Nat \ {0}, NEW values \in Seq(ShortArrays(of, V))
    PROVE  AreSurviving(Of(DynamicArray(of, field), values))
<1> DEFINE t == DynamicArray(of, field)
           W == ArrayValues(of, V, field)
<1>1. Sound(t, W)
  BY ArraysSurvive
<1>2. \A i \in 1 .. Len(values) : values[i] \in W
  <2>2. ASSUME NEW v \in ShortArrays(of, V) PROVE v \in W
    <3>1. v \in Seq(V) /\ ElementsSize(of, v) \in 0 .. 255
      BY DEF ShortArrays
    <3>2. ElementsSize(of, v) < Capacity(field)
      BY <3>1, ShortFits
    <3> QED
      BY <3>1, <3>2 DEF ArrayValues
  <2> HIDE DEF W
  <2> QED
    BY <2>2, ElementOfSeq
<1> HIDE DEF t, W
<1>3. AreSurviving(Of(t, values))
  BY <1>1, <1>2, OfSurvive
<1> QED
  BY <1>3 DEF t

LEMMA FixedArraySample ==
    ASSUME NEW of, NEW V, Sound(of, V), NEW n \in Nat \ {0}, NEW field \in Nat,
           NEW v \in [1 .. n -> V], v \in ShortArrays(of, V)
    PROVE  AreSurviving(Of(FixedArray(of, n, field), <<v>>))
<1> DEFINE t == FixedArray(of, n, field)
           W == FixedArrayValues(of, V, n, field)
           values == <<v>>
<1>1. n \in Nat /\ n + field > 0
  OBVIOUS
<1>2. Sound(t, W)
  BY <1>1, FixedArraysSurvive
<1>3. v \in W
  <2>1. ASSUME field # 0 PROVE ElementsSize(of, v) < Capacity(field)
    <3>1. ElementsSize(of, v) \in 0 .. 255 /\ field \in Nat \ {0}
      BY <2>1 DEF ShortArrays
    <3> QED
      BY <3>1, ShortFits
  <2> QED
    BY <2>1 DEF FixedArrayValues
<1> HIDE DEF t, W
<1>4. values \in Seq(W)
  BY <1>3
<1> HIDE DEF values
<1>5. \A i \in 1 .. Len(values) : values[i] \in W
  BY <1>4, ElementOfSeq
<1>6. AreSurviving(Of(t, values))
  BY <1>2, <1>4, <1>5, OfSurvive
<1> QED
  BY <1>6 DEF t, values

U16 == IntegerValues(2, FALSE)

LEMMA Uint16Survives == Sound(uint16, U16) /\ uint16.static = TRUE /\ uint16.size = 2
<1>1. 2 \in Nat \ {0}
  OBVIOUS
<1>2. Sound(Integer(2, FALSE), IntegerValues(2, FALSE))
  BY <1>1, UnsignedSurvive, Zenon
<1>3. Sound(uint16, U16)
  BY <1>2, Zenon DEF uint16, U16
<1>4. uint16.static = TRUE /\ uint16.size = 2
  BY DEF uint16, Integer
<1> QED
  BY <1>3, <1>4

LEMMA InU16 == U16 = 0 .. Capacity(2) - 1 /\ Capacity(2) \in Nat /\ Capacity(2) >= 65536
<1>1. U16 = 0 .. Capacity(2) - 1
  BY DEF U16, IntegerValues
<1>2. Capacity(2) = 65536
  BY Capacities
<1> QED
  BY <1>1, <1>2, SMT

LEMMA StaticElements ==
    ASSUME NEW of, NEW V, Sound(of, V), of.static, NEW v \in Seq(V)
    PROVE  ElementsSize(of, v) = Len(v) * of.size /\ Len(v) \in Nat
<1>1. Len(v) \in Nat
  BY LenProperties
<1>2. Len(v) \in 0 .. Len(v)
  BY <1>1
<1>3. Offsets(of, v)[Len(v)] = Len(v) * of.size
  BY <1>2, OffsetsGrow
<1>4. ElementsSize(of, v) = Offsets(of, v)[Len(v)]
  BY OffsetsAre
<1> QED
  BY <1>1, <1>3, <1>4

LEMMA NumberArrays ==
    /\ <<>> \in ShortArrays(uint16, U16)
    /\ <<1, 258>> \in ShortArrays(uint16, U16) /\ <<1, 258>> \in [1 .. 2 -> U16]
<1>1. 1 \in U16 /\ 258 \in U16
  BY InU16, SMT
<1> DEFINE none == <<>>
           two == <<1, 258>>
<1>2. none \in Seq(U16) /\ Len(none) = 0
  OBVIOUS
<1>3. two \in Seq(U16)
  BY <1>1, TwoOf
<1>4. Len(two) = 2 /\ DOMAIN two = 1 .. 2
  OBVIOUS
<1> HIDE DEF none, two
<1>5. ASSUME NEW v \in Seq(U16), NEW n \in 0 .. 2, Len(v) = n PROVE v \in ShortArrays(uint16, U16)
  <2>1. ElementsSize(uint16, v) = Len(v) * uint16.size
    BY Uint16Survives, StaticElements
  <2>2. ElementsSize(uint16, v) = n * 2
    BY <1>5, <2>1, Uint16Survives
  <2> QED
    BY <2>2 DEF ShortArrays
<1>6. none \in ShortArrays(uint16, U16)
  <2>1. 0 \in 0 .. 2
    OBVIOUS
  <2> QED
    BY <1>2, <1>5, <2>1
<1>8. two \in ShortArrays(uint16, U16)
  <2>1. 2 \in 0 .. 2
    OBVIOUS
  <2> QED
    BY <1>3, <1>4, <1>5, <2>1
<1>7. two \in [1 .. 2 -> U16]
  BY <1>3, <1>4, LenProperties
<1> QED
  BY <1>6, <1>7, <1>8 DEF none, two

\* The sizes of the texts in the samples.
LEMMA TextSizes ==
    ASSUME NEW field \in Nat \ {0}
    PROVE  /\ <<>> \in StringValues(field) /\ DynamicString(field).measure[<<>>] = field + 4
           /\ <<104>> \in StringValues(field) /\ DynamicString(field).measure[<<104>>] = field + 5
           /\ <<104, 105>> \in StringValues(field) /\ DynamicString(field).measure[<<104, 105>>] = field + 6
<1>1. Len(bom_utf8) = 3
  BY DEF bom_utf8
<1>2. ASSUME NEW v \in Wire, NEW n \in 0 .. 2, Len(v) = n
      PROVE  v \in StringValues(field) /\ DynamicString(field).measure[v] = field + 4 + n
  <2>1. v \in StringValues(field)
    BY <1>2, ShortTexts
  <2>2. DynamicString(field).measure[v] = field + Len(bom_utf8) + Len(v) + 1
    BY DEF DynamicString, StringSize
  <2> QED
    BY <1>1, <1>2, <2>1, <2>2
<1> DEFINE a == <<>>
           b == <<104>>
           c == <<104, 105>>
<1>3. a \in Wire /\ Len(a) = 0
  BY DEF Wire
<1>4. b \in Wire /\ Len(b) = 1
  BY DEF Wire
<1>5. c \in Wire /\ Len(c) = 2
  BY DEF Wire
<1> HIDE DEF a, b, c
<1>6. 0 \in 0 .. 2 /\ 1 \in 0 .. 2 /\ 2 \in 0 .. 2
  OBVIOUS
<1>7. a \in StringValues(field) /\ DynamicString(field).measure[a] = field + 4 + 0
  BY <1>2, <1>3, <1>6
<1>8. b \in StringValues(field) /\ DynamicString(field).measure[b] = field + 4 + 1
  BY <1>2, <1>4, <1>6
<1>9. c \in StringValues(field) /\ DynamicString(field).measure[c] = field + 4 + 2
  BY <1>2, <1>5, <1>6
<1>10. /\ a \in StringValues(field) /\ DynamicString(field).measure[a] = field + 4
       /\ b \in StringValues(field) /\ DynamicString(field).measure[b] = field + 5
       /\ c \in StringValues(field) /\ DynamicString(field).measure[c] = field + 6
  BY <1>7, <1>8, <1>9
<1> QED
  BY <1>10 DEF a, b, c

LEMMA TextArrays ==
    /\ <<>> \in ShortArrays(DynamicString(1), StringValues(1))
    /\ <<<<104>>, <<>>, <<104, 105>>>> \in ShortArrays(DynamicString(1), StringValues(1))
    /\ <<<<104>>, <<>>>> \in ShortArrays(DynamicString(2), StringValues(2))
    /\ <<<<104>>, <<>>>> \in [1 .. 2 -> StringValues(2)]
<1> DEFINE a == <<104>>
           b == <<>>
           c == <<104, 105>>
           none == <<>>
           two == <<a, b>>
           three == <<a, b, c>>
           t1 == DynamicString(1)
           t2 == DynamicString(2)
           V1 == StringValues(1)
           V2 == StringValues(2)
<1>0. 1 \in Nat \ {0} /\ 2 \in Nat \ {0}
  OBVIOUS
<1>1. Sound(t1, V1) /\ Sound(t2, V2)
  BY <1>0, StringsSurvive
<1>2. /\ a \in V1 /\ t1.measure[a] = 1 + 5
      /\ b \in V1 /\ t1.measure[b] = 1 + 4
      /\ c \in V1 /\ t1.measure[c] = 1 + 6
  BY <1>0, TextSizes
<1>3. /\ a \in V2 /\ t2.measure[a] = 2 + 5
      /\ b \in V2 /\ t2.measure[b] = 2 + 4
  BY <1>0, TextSizes
<1> HIDE DEF a, b, c, t1, t2, V1, V2
<1>4. none \in Seq(V1) /\ Len(none) = 0
  OBVIOUS
<1>5. three \in Seq(V1) /\ Len(three) = 3 /\ three[1] = a /\ three[2] = b /\ three[3] = c
  BY <1>2, ThreeOf
<1>6. two \in Seq(V2) /\ Len(two) = 2 /\ two[1] = a /\ two[2] = b /\ two \in [1 .. 2 -> V2]
  BY <1>3, TwoOf
<1> HIDE DEF none, two, three
<1>7. ElementsSize(t1, none) = 0
  BY <1>1, <1>4, FewElements
<1>8. ElementsSize(t1, three) = t1.measure[three[1]] + t1.measure[three[2]] + t1.measure[three[3]]
  BY <1>1, <1>5, FewElements
<1>9. ElementsSize(t2, two) = t2.measure[two[1]] + t2.measure[two[2]]
  BY <1>1, <1>6, FewElements
<1>10. none \in ShortArrays(t1, V1)
  BY <1>4, <1>7 DEF ShortArrays
<1>11. three \in ShortArrays(t1, V1)
  <2>1. ElementsSize(t1, three) = 18
    BY <1>2, <1>5, <1>8
  <2> QED
    BY <1>5, <2>1 DEF ShortArrays
<1>12. two \in ShortArrays(t2, V2)
  <2>1. ElementsSize(t2, two) = 13
    BY <1>3, <1>6, <1>9
  <2> QED
    BY <1>6, <2>1 DEF ShortArrays
<1> QED
  BY <1>6, <1>10, <1>11, <1>12 DEF none, two, three, t1, t2, V1, V2, a, b, c

LEMMA ArraysOfSamplesSurvive == AreSurviving(Arrays)
<1> DEFINE numbers == <<1, 258>>
           words == <<<<104>>, <<>>, <<104, 105>>>>
           pair == <<<<104>>, <<>>>>
           p1 == [i \in 1 .. 3 |-> Of(DynamicArray(uint16, <<1, 2, 4>>[i]), <<<<>>, numbers>>)]
           p2 == [i \in 1 .. 2 |-> Of(DynamicArray(DynamicString(1), <<1, 4>>[i]), <<<<>>, words>>)]
           p3 == [i \in 1 .. 4 |-> Of(FixedArray(uint16, 2, <<0, 1, 2, 4>>[i]), <<numbers>>)]
           p4 == [i \in 1 .. 3 |-> Of(FixedArray(DynamicString(2), 2, <<0, 1, 4>>[i]), <<pair>>)]
<1>1. Arrays = FlattenSeq(p1) \o FlattenSeq(p2) \o FlattenSeq(p3) \o FlattenSeq(p4)
  BY DEF Arrays
<1>2. /\ <<>> \in ShortArrays(uint16, U16) /\ numbers \in ShortArrays(uint16, U16)
      /\ numbers \in [1 .. 2 -> U16]
  BY NumberArrays
<1>3. /\ <<>> \in ShortArrays(DynamicString(1), StringValues(1))
      /\ words \in ShortArrays(DynamicString(1), StringValues(1))
      /\ pair \in ShortArrays(DynamicString(2), StringValues(2))
      /\ pair \in [1 .. 2 -> StringValues(2)]
  BY TextArrays
<1>4. Sound(DynamicString(1), StringValues(1)) /\ Sound(DynamicString(2), StringValues(2))
  <2>1. 1 \in Nat \ {0} /\ 2 \in Nat \ {0}
    OBVIOUS
  <2> QED
    BY <2>1, StringsSurvive
<1>5. Sound(uint16, U16)
  BY Uint16Survives
<1> HIDE DEF numbers, words, pair
<1>6. AreSurviving(FlattenSeq(p1))
  <2>1. ASSUME NEW i \in 1 .. 3 PROVE AreSurviving(p1[i])
    <3>1. <<1, 2, 4>>[i] \in Nat \ {0}
      OBVIOUS
    <3>2. <<<<>>, numbers>> \in Seq(ShortArrays(uint16, U16))
      BY <1>2, TwoOf
    <3>3. AreSurviving(Of(DynamicArray(uint16, <<1, 2, 4>>[i]), <<<<>>, numbers>>))
      BY <1>5, <3>1, <3>2, ArraySamples
    <3> QED
      BY <3>3
  <2>2. Len(p1) = 3 /\ 3 \in Nat \ {0}
    OBVIOUS
  <2> HIDE DEF p1
  <2> QED
    BY <2>1, <2>2, FlattenedSurvive
<1>7. AreSurviving(FlattenSeq(p2))
  <2>1. ASSUME NEW i \in 1 .. 2 PROVE AreSurviving(p2[i])
    <3>1. <<1, 4>>[i] \in Nat \ {0}
      OBVIOUS
    <3>2. <<<<>>, words>> \in Seq(ShortArrays(DynamicString(1), StringValues(1)))
      BY <1>3, TwoOf
    <3>3. AreSurviving(Of(DynamicArray(DynamicString(1), <<1, 4>>[i]), <<<<>>, words>>))
      BY <1>4, <3>1, <3>2, ArraySamples
    <3> QED
      BY <3>3
  <2>2. Len(p2) = 2 /\ 2 \in Nat \ {0}
    OBVIOUS
  <2> HIDE DEF p2
  <2> QED
    BY <2>1, <2>2, FlattenedSurvive
<1>8. AreSurviving(FlattenSeq(p3))
  <2>1. ASSUME NEW i \in 1 .. 4 PROVE AreSurviving(p3[i])
    <3>1. <<0, 1, 2, 4>>[i] \in Nat /\ 2 \in Nat \ {0}
      OBVIOUS
    <3>2. AreSurviving(Of(FixedArray(uint16, 2, <<0, 1, 2, 4>>[i]), <<numbers>>))
      BY <1>2, <1>5, <3>1, FixedArraySample
    <3> QED
      BY <3>2
  <2>2. Len(p3) = 4 /\ 4 \in Nat \ {0}
    OBVIOUS
  <2> HIDE DEF p3
  <2> QED
    BY <2>1, <2>2, FlattenedSurvive
<1>9. AreSurviving(FlattenSeq(p4))
  <2>1. ASSUME NEW i \in 1 .. 3 PROVE AreSurviving(p4[i])
    <3>1. <<0, 1, 4>>[i] \in Nat /\ 2 \in Nat \ {0}
      OBVIOUS
    <3>2. AreSurviving(Of(FixedArray(DynamicString(2), 2, <<0, 1, 4>>[i]), <<pair>>))
      BY <1>3, <1>4, <3>1, FixedArraySample
    <3> QED
      BY <3>2
  <2>2. Len(p4) = 3 /\ 3 \in Nat \ {0}
    OBVIOUS
  <2> HIDE DEF p4
  <2> QED
    BY <2>1, <2>2, FlattenedSurvive
<1> HIDE DEF p1, p2, p3, p4
<1>10. AreSurviving(FlattenSeq(p1) \o FlattenSeq(p2) \o FlattenSeq(p3) \o FlattenSeq(p4))
  BY <1>6, <1>7, <1>8, <1>9, JoinedSurvive
<1> QED
  BY <1>1, <1>10

-----------------------------------------------------------------------------
(* The samples of structs.                                                 *)

LEMMA SoundOfOne ==
    ASSUME NEW t, NEW V, Sound(t, V), NEW v \in V
    PROVE  Sound(t, {v})
  BY DEF Sound

LEMMA SoundOfTwo ==
    ASSUME NEW t, NEW v, NEW w, Sound(t, {v}), Sound(t, {w})
    PROVE  Sound(t, {v, w})
<1>1. t.static \in BOOLEAN /\ (t.static => t.size \in Nat \ {0})
  BY DEF Sound
<1>2. v \in {v} /\ w \in {w}
  OBVIOUS
<1>3. ASSUME NEW u \in {v, w} PROVE Writes(t, u, t.write[u]) /\ Reads(t, t.write[u], u)
  <2>1. CASE u = v
    BY <1>2, <2>1, SoundOnes
  <2>2. CASE u = w
    BY <1>2, <2>2, SoundOnes
  <2> QED
    BY <2>1, <2>2
<1> QED
  BY <1>1, <1>3, SoundTogether

LEMMA StructSurvives ==
    ASSUME NEW fields, NEW values, NEW n \in Nat \ {0}, Len(fields) = n, Len(values) = n,
           \A i \in 1 .. n : Sound(fields[i], {values[i]})
    PROVE  Sound(Struct(fields), {StructValue(values)})
<1> DEFINE t == Struct(fields)
           v == StructValue(values)
<1>1. ASSUME NEW i \in 1 .. n
      PROVE  /\ Writes(fields[i], values[i], fields[i].write[values[i]])
             /\ Reads(fields[i], fields[i].write[values[i]], values[i])
             /\ fields[i].static \in BOOLEAN
             /\ fields[i].static => fields[i].size \in Nat \ {0}
  <2>1. values[i] \in {values[i]} /\ Sound(fields[i], {values[i]})
    OBVIOUS
  <2> QED
    BY <2>1, SoundOnes
<1>2. t.static \in BOOLEAN /\ (t.static => t.size \in Nat \ {0})
  BY <1>1, StructSize
<1>3. Writes(t, v, t.write[v]) /\ Reads(t, t.write[v], v)
  BY <1>1, StructValueSurvives
<1> HIDE DEF t, v
<1>4. \A u \in {v} : Writes(t, u, t.write[u]) /\ Reads(t, t.write[u], u)
  BY <1>3
<1>5. Sound(t, {v})
  BY <1>2, <1>4, SoundTogether
<1> QED
  BY <1>5 DEF t, v

LEMMA OneSurvives ==
    ASSUME NEW t, NEW v, Sound(t, {v})
    PROVE  AreSurviving(Of(t, <<v>>))
<1> DEFINE values == <<v>>
<1>1. values \in Seq({v})
  OBVIOUS
<1> HIDE DEF values
<1>2. \A i \in 1 .. Len(values) : values[i] \in {v}
  BY <1>1, ElementOfSeq
<1>3. AreSurviving(Of(t, values))
  BY <1>1, <1>2, OfSurvive
<1> QED
  BY <1>3 DEF values

LEMMA TwoSurvive ==
    ASSUME NEW t, NEW v, NEW w, Sound(t, {v}), Sound(t, {w})
    PROVE  AreSurviving(Of(t, <<v, w>>))
<1> DEFINE values == <<v, w>>
<1>1. values \in Seq({v, w})
  OBVIOUS
<1> HIDE DEF values
<1>2. \A i \in 1 .. Len(values) : values[i] \in {v, w}
  BY <1>1, ElementOfSeq
<1>3. Sound(t, {v, w})
  BY SoundOfTwo
<1>4. AreSurviving(Of(t, values))
  BY <1>1, <1>2, <1>3, OfSurvive
<1> QED
  BY <1>4 DEF values

LEMMA Uint8Value ==
    ASSUME NEW v \in 0 .. 255
    PROVE  Sound(uint8, {v}) /\ Sound(Enum(1), {v})
<1>1. 1 \in Nat \ {0}
  OBVIOUS
<1>2. Sound(Integer(1, FALSE), IntegerValues(1, FALSE))
  BY <1>1, UnsignedSurvive, Zenon
<1>3. v \in IntegerValues(1, FALSE)
  BY Capacities, SMT DEF IntegerValues
<1>4. Sound(Integer(1, FALSE), {v})
  BY <1>2, <1>3, SoundOfOne, Zenon
<1> QED
  BY <1>4, Zenon DEF uint8, Enum

LEMMA Uint16Value ==
    ASSUME NEW v \in U16
    PROVE  Sound(uint16, {v})
  BY Uint16Survives, SoundOfOne

U32 == IntegerValues(4, FALSE)

LEMMA Uint32Value ==
    ASSUME NEW v \in U32
    PROVE  Sound(uint32, {v})
<1>1. 4 \in Nat \ {0}
  OBVIOUS
<1>2. Sound(Integer(4, FALSE), IntegerValues(4, FALSE))
  BY <1>1, UnsignedSurvive, Zenon
<1>3. Sound(uint32, U32)
  BY <1>2, Zenon DEF uint32, U32
<1> QED
  BY <1>3, SoundOfOne

LEMMA StructOfTwo ==
    ASSUME NEW s, NEW t, NEW v, NEW w, Sound(s, {v}), Sound(t, {w})
    PROVE  Sound(Struct(<<s, t>>), {StructValue(<<v, w>>)})
<1> DEFINE fields == <<s, t>>
           values == <<v, w>>
<1>1. Len(fields) = 2 /\ Len(values) = 2 /\ 2 \in Nat \ {0}
  OBVIOUS
<1>2. \A i \in 1 .. 2 : Sound(fields[i], {values[i]})
  OBVIOUS
<1> HIDE DEF fields, values
<1>3. Sound(Struct(fields), {StructValue(values)})
  BY <1>1, <1>2, StructSurvives
<1> QED
  BY <1>3 DEF fields, values

LEMMA StructOfFour ==
    ASSUME NEW t, NEW a, NEW b, NEW c, NEW d,
           Sound(t, {a}), Sound(t, {b}), Sound(t, {c}), Sound(t, {d})
    PROVE  Sound(Struct(<<t, t, t, t>>), {StructValue(<<a, b, c, d>>)})
<1> DEFINE fields == <<t, t, t, t>>
           values == <<a, b, c, d>>
<1>1. Len(fields) = 4 /\ Len(values) = 4 /\ 4 \in Nat \ {0}
  OBVIOUS
<1>2. \A i \in 1 .. 4 : Sound(fields[i], {values[i]})
  OBVIOUS
<1> HIDE DEF fields, values
<1>3. Sound(Struct(fields), {StructValue(values)})
  BY <1>1, <1>2, StructSurvives
<1> QED
  BY <1>3 DEF fields, values

LEMMA StructOfSeven ==
    ASSUME NEW s1, NEW s2, NEW s3, NEW s4, NEW s5, NEW s6, NEW s7,
           NEW v1, NEW v2, NEW v3, NEW v4, NEW v5, NEW v6, NEW v7,
           Sound(s1, {v1}), Sound(s2, {v2}), Sound(s3, {v3}), Sound(s4, {v4}),
           Sound(s5, {v5}), Sound(s6, {v6}), Sound(s7, {v7})
    PROVE  Sound(Struct(<<s1, s2, s3, s4, s5, s6, s7>>), {StructValue(<<v1, v2, v3, v4, v5, v6, v7>>)})
<1> DEFINE fields == <<s1, s2, s3, s4, s5, s6, s7>>
           values == <<v1, v2, v3, v4, v5, v6, v7>>
<1>1. Len(fields) = 7 /\ Len(values) = 7 /\ 7 \in Nat \ {0}
  OBVIOUS
<1>2. ASSUME NEW i \in 1 .. 7 PROVE Sound(fields[i], {values[i]})
  <2>1. i = 1 \/ i = 2 \/ i = 3 \/ i = 4 \/ i = 5 \/ i = 6 \/ i = 7
    OBVIOUS
  <2>2. CASE i = 1
    <3>1. fields[1] = s1 /\ values[1] = v1
      OBVIOUS
    <3> HIDE DEF fields, values
    <3> QED
      BY <2>2, <3>1
  <2>3. CASE i = 2
    <3>1. fields[2] = s2 /\ values[2] = v2
      OBVIOUS
    <3> HIDE DEF fields, values
    <3> QED
      BY <2>3, <3>1
  <2>4. CASE i = 3
    <3>1. fields[3] = s3 /\ values[3] = v3
      OBVIOUS
    <3> HIDE DEF fields, values
    <3> QED
      BY <2>4, <3>1
  <2>5. CASE i = 4
    <3>1. fields[4] = s4 /\ values[4] = v4
      OBVIOUS
    <3> HIDE DEF fields, values
    <3> QED
      BY <2>5, <3>1
  <2>6. CASE i = 5
    <3>1. fields[5] = s5 /\ values[5] = v5
      OBVIOUS
    <3> HIDE DEF fields, values
    <3> QED
      BY <2>6, <3>1
  <2>7. CASE i = 6
    <3>1. fields[6] = s6 /\ values[6] = v6
      OBVIOUS
    <3> HIDE DEF fields, values
    <3> QED
      BY <2>7, <3>1
  <2>8. CASE i = 7
    <3>1. fields[7] = s7 /\ values[7] = v7
      OBVIOUS
    <3> HIDE DEF fields, values
    <3> QED
      BY <2>8, <3>1
  <2> HIDE DEF fields, values
  <2> QED
    BY <2>1, <2>2, <2>3, <2>4, <2>5, <2>6, <2>7, <2>8
<1> HIDE DEF fields, values
<1>3. Sound(Struct(fields), {StructValue(values)})
  BY <1>1, <1>2, StructSurvives
<1> QED
  BY <1>3 DEF fields, values

LEMMA HeaderSurvives ==
    AreSurviving(Of(someip_header,
        <<StructValue(<<StructValue(<<4096, 258>>), 8, StructValue(<<1, 65535>>), 1, 2, 128, 0>>)>>))
<1>1. 4096 \in U16 /\ 258 \in U16 /\ 1 \in U16 /\ 65535 \in U16
  BY InU16, SMT
<1>2. 8 \in U32
  BY Capacities, SMT DEF U32, IntegerValues
<1>3. Sound(uint16, {4096}) /\ Sound(uint16, {258}) /\ Sound(uint16, {1}) /\ Sound(uint16, {65535})
  BY <1>1, Uint16Value
<1>4. Sound(uint32, {8})
  BY <1>2, Uint32Value
<1>5. Sound(uint8, {1}) /\ Sound(uint8, {2}) /\ Sound(Enum(1), {128}) /\ Sound(uint8, {0})
  <2>1. 1 \in 0 .. 255 /\ 2 \in 0 .. 255 /\ 128 \in 0 .. 255 /\ 0 \in 0 .. 255
    OBVIOUS
  <2> QED
    BY <2>1, Uint8Value
<1> DEFINE id == Struct(<<uint16, uint16>>)
           message == StructValue(<<4096, 258>>)
           request == StructValue(<<1, 65535>>)
<1>6. Sound(id, {message}) /\ Sound(id, {request})
  BY <1>3, StructOfTwo
<1> HIDE DEF id, message, request
<1>7. Sound(Struct(<<id, uint32, id, uint8, uint8, Enum(1), uint8>>),
            {StructValue(<<message, 8, request, 1, 2, 128, 0>>)})
  BY <1>4, <1>5, <1>6, StructOfSeven
<1>8. AreSurviving(Of(Struct(<<id, uint32, id, uint8, uint8, Enum(1), uint8>>),
                      <<StructValue(<<message, 8, request, 1, 2, 128, 0>>)>>))
  BY <1>7, OneSurvives
<1> QED
  BY <1>8 DEF someip_header, id, message, request

LEMMA EnvelopeSurvives ==
    AreSurviving(Of(ipc_header, <<StructValue(<<[i \in 1 .. 13 |-> 96 + i], 1, 5, 0, 258, 0, 2424>>)>>))
<1> DEFINE path == [i \in 1 .. 13 |-> 96 + i]
           text == FixedString(13, 4)
<1>1. path \in FixedStringValues(13)
  BY DEF FixedStringValues
<1>2. Sound(text, FixedStringValues(13))
  <2>1. 13 \in Nat /\ 4 \in Nat /\ 4 \in Nat \ {0}
    OBVIOUS
  <2>2. 13 + 4 < Capacity(4)
    <3>1. Capacity(4) \in Nat /\ Capacity(4) >= 256
      BY <2>1, LeastCapacity
    <3> QED
      BY <3>1
  <2> QED
    BY <2>1, <2>2, FixedStringsSurvive
<1> HIDE DEF path, text
<1>3. Sound(text, {path})
  BY <1>1, <1>2, SoundOfOne
<1>4. 0 \in U16 /\ 258 \in U16 /\ 2424 \in U16
  BY InU16, SMT
<1>5. Sound(uint16, {0}) /\ Sound(uint16, {258}) /\ Sound(uint16, {2424})
  BY <1>4, Uint16Value
<1>6. Sound(uint8, {1}) /\ Sound(Enum(1), {5}) /\ Sound(uint8, {0})
  <2>1. 1 \in 0 .. 255 /\ 5 \in 0 .. 255 /\ 0 \in 0 .. 255
    OBVIOUS
  <2> QED
    BY <2>1, Uint8Value
<1>7. Sound(Struct(<<text, uint8, Enum(1), uint8, uint16, uint16, uint16>>),
            {StructValue(<<path, 1, 5, 0, 258, 0, 2424>>)})
  BY <1>3, <1>5, <1>6, StructOfSeven
<1>8. AreSurviving(Of(Struct(<<text, uint8, Enum(1), uint8, uint16, uint16, uint16>>),
                      <<StructValue(<<path, 1, 5, 0, 258, 0, 2424>>)>>))
  BY <1>7, OneSurvives
<1> QED
  BY <1>8 DEF ipc_header, path, text

LEMMA RegistrationSurvives ==
    AreSurviving(Of(register_message, <<StructValue(<<<<>>, 258>>), StructValue(<<<<104, 105>>, 258>>)>>))
<1> DEFINE none == <<>>
           name == <<104, 105>>
           text == DynamicString(4)
           V == StringValues(4)
<1>1. Sound(text, V) /\ none \in V /\ name \in V
  <2>1. 4 \in Nat \ {0}
    OBVIOUS
  <2> QED
    BY <2>1, TextSizes, StringsSurvive
<1>2. 258 \in U16
  BY InU16, SMT
<1> HIDE DEF none, name, text, V
<1>3. Sound(text, {none}) /\ Sound(text, {name})
  BY <1>1, SoundOfOne
<1>4. Sound(uint16, {258})
  BY <1>2, Uint16Value
<1>5. /\ Sound(Struct(<<text, uint16>>), {StructValue(<<none, 258>>)})
      /\ Sound(Struct(<<text, uint16>>), {StructValue(<<name, 258>>)})
  BY <1>3, <1>4, StructOfTwo
<1>6. AreSurviving(Of(Struct(<<text, uint16>>), <<StructValue(<<none, 258>>), StructValue(<<name, 258>>)>>))
  BY <1>5, TwoSurvive
<1> QED
  BY <1>6 DEF register_message, none, name, text

\* The size of a service's configuration is known at compile time.
LEMMA ConfigurationSize == service_configuration.static = TRUE /\ service_configuration.size = 8
<1> DEFINE fields == <<uint16, uint16, uint16, uint16>>
<1>1. Len(fields) = 4 /\ fields[1] = uint16 /\ fields[2] = uint16 /\ fields[3] = uint16 /\ fields[4] = uint16
  OBVIOUS
<1>2. service_configuration = Struct(fields)
  BY DEF service_configuration
<1> HIDE DEF fields
<1>3. PICK f : /\ f = [k \in 1 .. 4 |-> IF k = 1 THEN fields[1] ELSE Both(f[k - 1], fields[k])]
               /\ Struct(fields) = f[4]
  <2>1. Len(fields) \in Nat \ {0}
    BY <1>1
  <2> QED
    BY <1>1, <2>1, StructIs
<1>4. \A k \in 1 .. 4 : f[k] = IF k = 1 THEN fields[1] ELSE Both(f[k - 1], fields[k])
  BY <1>3
<1>5. f[1] = uint16 /\ f[2] = Both(f[1], uint16) /\ f[3] = Both(f[2], uint16) /\ f[4] = Both(f[3], uint16)
  BY <1>1, <1>4
<1>6. ASSUME NEW a, NEW b, NEW n \in Nat, b = Both(a, uint16), a.static = TRUE, a.size = n
      PROVE  b.static = TRUE /\ b.size = n + 2
  <2>1. /\ Both(a, uint16).static = (a.static /\ uint16.static)
        /\ Both(a, uint16).size = IF a.static /\ uint16.static THEN a.size + uint16.size ELSE 0
    BY DEF Both
  <2> QED
    BY <1>6, <2>1, Uint16Survives
<1>7. f[1].static = TRUE /\ f[1].size = 2
  BY <1>5, Uint16Survives
<1>8. f[2].static = TRUE /\ f[2].size = 4
  <2> DEFINE a == f[1]
             b == f[2]
  <2>1. b = Both(a, uint16) /\ a.static = TRUE /\ a.size = 2 /\ 2 \in Nat
    BY <1>5, <1>7
  <2> HIDE DEF a, b
  <2>2. b.static = TRUE /\ b.size = 2 + 2
    BY <1>6, <2>1
  <2> QED
    BY <2>2 DEF b
<1>9. f[3].static = TRUE /\ f[3].size = 6
  <2> DEFINE a == f[2]
             b == f[3]
  <2>1. b = Both(a, uint16) /\ a.static = TRUE /\ a.size = 4 /\ 4 \in Nat
    BY <1>5, <1>8
  <2> HIDE DEF a, b
  <2>2. b.static = TRUE /\ b.size = 4 + 2
    BY <1>6, <2>1
  <2> QED
    BY <2>2 DEF b
<1>10. f[4].static = TRUE /\ f[4].size = 8
  <2> DEFINE a == f[3]
             b == f[4]
  <2>1. b = Both(a, uint16) /\ a.static = TRUE /\ a.size = 6 /\ 6 \in Nat
    BY <1>5, <1>9
  <2> HIDE DEF a, b
  <2>2. b.static = TRUE /\ b.size = 6 + 2
    BY <1>6, <2>1
  <2> QED
    BY <2>2 DEF b
<1> QED
  BY <1>2, <1>3, <1>10

LEMMA OffersSurvive ==
    AreSurviving(Of(offer_message,
        <<<<>>, <<StructValue(<<1, 2, 3, 258>>), StructValue(<<5, 6, 7, 65535>>)>>>>))
<1> DEFINE v == StructValue(<<1, 2, 3, 258>>)
           w == StructValue(<<5, 6, 7, 65535>>)
           none == <<>>
           two == <<v, w>>
           of == service_configuration
           V == {v, w}
<1>1. 1 \in U16 /\ 2 \in U16 /\ 3 \in U16 /\ 258 \in U16
  BY InU16, SMT
<1>2. 5 \in U16 /\ 6 \in U16 /\ 7 \in U16 /\ 65535 \in U16
  BY InU16, SMT
<1>3. Sound(of, {v})
  <2>1. Sound(uint16, {1}) /\ Sound(uint16, {2}) /\ Sound(uint16, {3}) /\ Sound(uint16, {258})
    BY <1>1, Uint16Value
  <2>2. Sound(Struct(<<uint16, uint16, uint16, uint16>>), {StructValue(<<1, 2, 3, 258>>)})
    BY <2>1, StructOfFour
  <2> QED
    BY <2>2 DEF service_configuration
<1>4. Sound(of, {w})
  <2>1. Sound(uint16, {5}) /\ Sound(uint16, {6}) /\ Sound(uint16, {7}) /\ Sound(uint16, {65535})
    BY <1>2, Uint16Value
  <2>2. Sound(Struct(<<uint16, uint16, uint16, uint16>>), {StructValue(<<5, 6, 7, 65535>>)})
    BY <2>1, StructOfFour
  <2> QED
    BY <2>2 DEF service_configuration
<1> HIDE DEF v, w
<1>5. none \in Seq(V) /\ Len(none) = 0 /\ two \in Seq(V) /\ Len(two) = 2
  OBVIOUS
<1>6. of.static = TRUE /\ of.size = 8
  BY ConfigurationSize
<1>7. Sound(of, V)
  BY <1>3, <1>4, SoundOfTwo
<1> HIDE DEF none, two, of, V
<1>8. ElementsSize(of, none) = 0
  <2>1. ElementsSize(of, none) = Len(none) * of.size
    BY <1>5, <1>6, <1>7, StaticElements
  <2> QED
    BY <1>5, <1>6, <2>1
<1>9. ElementsSize(of, two) = 16
  <2>1. ElementsSize(of, two) = Len(two) * of.size
    BY <1>5, <1>6, <1>7, StaticElements
  <2> QED
    BY <1>5, <1>6, <2>1
<1>10. none \in ShortArrays(of, V)
  BY <1>5, <1>8 DEF ShortArrays
<1>11. two \in ShortArrays(of, V)
  BY <1>5, <1>9 DEF ShortArrays
<1>12. <<none, two>> \in Seq(ShortArrays(of, V)) /\ 4 \in Nat \ {0}
  BY <1>10, <1>11, TwoOf
<1>13. AreSurviving(Of(DynamicArray(of, 4), <<none, two>>))
  BY <1>7, <1>12, ArraySamples
<1> QED
  BY <1>13 DEF offer_message, of, none, two, v, w

LEMMA StructsOfSamplesSurvive == AreSurviving(Structs)
  BY HeaderSurvives, EnvelopeSurvives, RegistrationSurvives, OffersSurvive, JoinedSurvive DEF Structs

LEMMA SamplesSurvive == AreSurviving(Samples)
  BY NumeralsSurvive, TextsSurvive, ArraysOfSamplesSurvive, StructsOfSamplesSurvive, JoinedSurvive DEF Samples

-----------------------------------------------------------------------------
(* The specification of the layers: its arguments are samples and do not   *)
(* change.                                                                 *)

ArgumentsOK ==
    layer = "values" => \E a, b \in DOMAIN Samples : arguments = <<a, b>>

LEMMA SamplesStay == ProtocolSpec => []ArgumentsOK
<1>1. ProtocolInit => ArgumentsOK
  <2> DEFINE D == DOMAIN Samples
  <2>1. \A x \in D \X D : \E a, b \in D : x = <<a, b>>
    OBVIOUS
  <2> HIDE DEF D
  <2> QED
    BY <2>1 DEF ProtocolInit, ArgumentsOK, D
<1>2. ArgumentsOK /\ [ProtocolNext]_<<vars, calculator, layer, arguments>> => ArgumentsOK'
  <2> SUFFICES ASSUME ArgumentsOK, [ProtocolNext]_<<vars, calculator, layer, arguments>>
               PROVE  ArgumentsOK'
    OBVIOUS
  <2>1. layer' = layer /\ arguments' = arguments
    BY DEF ProtocolNext
  <2>2. Samples' = Samples
    BY DEF Samples
  <2> QED
    BY <2>1, <2>2 DEF ArgumentsOK
<1> QED
  BY <1>1, <1>2, PTL DEF ProtocolSpec

LEMMA PairSurvives ==
    ASSUME NEW a \in DOMAIN Samples, NEW b \in DOMAIN Samples, arguments = <<a, b>>
    PROVE  \E V : /\ Types \in Seq({Types[1], Types[2]}) /\ Len(Types) = 2
                  /\ Values \in Seq(V[1] \cup V[2]) /\ Len(Values) = 2
                  /\ \A i \in 1 .. 2 : Sound(Types[i], V[i]) /\ Values[i] \in V[i]
                  /\ Samples[a].mark > 0 =>
                         \E field \in Nat, i \in 1 .. 3 :
                             Samples[a].mark = field + i /\ IsString(Types[1], V[1], field)
<1>1. Surviving(Samples[a]) /\ Surviving(Samples[b])
  <2>1. PICK S : Samples \in Seq(S)
    BY SamplesSurvive DEF AreSurviving
  <2>2. DOMAIN Samples = 1 .. Len(Samples)
    BY <2>1, LenProperties
  <2> QED
    BY <2>2, SamplesSurvive DEF AreSurviving
<1> DEFINE x == Samples[a]
           y == Samples[b]
<1>2. /\ Types = [i \in 1 .. 2 |-> IF i = 1 THEN x.type ELSE y.type]
      /\ Values = [i \in 1 .. 2 |-> IF i = 1 THEN x.value ELSE y.value]
  BY DEF Types, Values
<1> HIDE DEF x, y
<1>3. PICK V1 : /\ Sound(x.type, V1) /\ x.value \in V1
                /\ x.mark > 0 => \E field \in Nat, i \in 1 .. 3 : x.mark = field + i /\ IsString(x.type, V1, field)
  BY <1>1 DEF Surviving, x
<1>4. PICK V2 : Sound(y.type, V2) /\ y.value \in V2
  BY <1>1 DEF Surviving, y
<1> DEFINE V == [i \in 1 .. 2 |-> IF i = 1 THEN V1 ELSE V2]
<1>5. V[1] = V1 /\ V[2] = V2
  OBVIOUS
<1> HIDE DEF V
<1>6. Types[1] = x.type /\ Types[2] = y.type /\ Values[1] = x.value /\ Values[2] = y.value
  BY <1>2
<1>7. Types \in Seq({Types[1], Types[2]}) /\ Len(Types) = 2
  BY <1>2
<1>8. Values \in Seq(V[1] \cup V[2]) /\ Len(Values) = 2
  BY <1>2, <1>3, <1>4, <1>5
<1>9. ASSUME NEW i \in 1 .. 2 PROVE Sound(Types[i], V[i]) /\ Values[i] \in V[i]
  <2>1. CASE i = 1
    BY <1>3, <1>5, <1>6, <2>1
  <2>2. CASE i = 2
    BY <1>4, <1>5, <1>6, <2>2
  <2> QED
    BY <2>1, <2>2
<1>10. x.mark > 0 => \E field \in Nat, i \in 1 .. 3 : x.mark = field + i /\ IsString(Types[1], V[1], field)
  BY <1>3, <1>5, <1>6
<1> QED
  BY <1>7, <1>8, <1>9, <1>10 DEF x

\* Every sample, behind every other one, is read back as it was written, up to the
\* end of the buffer that the dry run measured.
THEOREM SamplesAreReadBack == ProtocolSpec => []RoundTrip
<1>1. ArgumentsOK => RoundTrip
  <2> SUFFICES ASSUME ArgumentsOK, layer = "values"
               PROVE  ReadsBack(Types, Values) /\ FillsBuffer(Types, Values)
    BY DEF RoundTrip
  <2>1. PICK a, b \in DOMAIN Samples : arguments = <<a, b>>
    BY DEF ArgumentsOK
  <2>2. PICK V : /\ Types \in Seq({Types[1], Types[2]}) /\ Len(Types) = 2 /\ Len(Values) = 2
                 /\ \A i \in 1 .. 2 : Sound(Types[i], V[i]) /\ Values[i] \in V[i]
    BY <2>1, PairSurvives
  <2>3. DOMAIN Types = 1 .. 2 /\ 2 \in Nat \ {0}
    BY <2>2, LenProperties
  <2> QED
    BY <2>2, <2>3, ArgumentsSurvive
<1> QED
  BY <1>1, SamplesStay, PTL

\* Whatever sample is behind a string with a foreign mark is read as if that had been
\* right, and the string as a blank one.
THEOREM MarksOfSamplesAreSkipped == ProtocolSpec => []ForeignMarkSkipped
<1>1. ArgumentsOK => ForeignMarkSkipped
  <2> SUFFICES ASSUME ArgumentsOK, layer = "values", Samples[arguments[1]].mark > 0
               PROVE  SkipsForeignMark(Types, Values, Samples[arguments[1]].mark)
    BY DEF ForeignMarkSkipped
  <2>1. PICK a, b \in DOMAIN Samples : arguments = <<a, b>>
    BY DEF ArgumentsOK
  <2>2. arguments[1] = a
    BY <2>1
  <2>3. PICK V : /\ Types \in Seq({Types[1], Types[2]}) /\ Len(Types) = 2
                 /\ Values \in Seq(V[1] \cup V[2]) /\ Len(Values) = 2
                 /\ \A i \in 1 .. 2 : Sound(Types[i], V[i]) /\ Values[i] \in V[i]
                 /\ \E field \in Nat, i \in 1 .. 3 :
                        Samples[a].mark = field + i /\ IsString(Types[1], V[1], field)
    BY <2>1, <2>2, PairSurvives
  <2>4. PICK field \in Nat, i \in 1 .. 3 : Samples[a].mark = field + i /\ IsString(Types[1], V[1], field)
    BY <2>3
  <2>5. V[1] \cup V[2] = UNION {V[k] : k \in 1 .. 2}
    <3>1. 1 .. 2 = {1, 2}
      OBVIOUS
    <3> QED
      BY <3>1
  <2>6. Values \in Seq(UNION {V[k] : k \in 1 .. 2}) /\ 2 \in Nat \ {0}
    BY <2>3, <2>5
  <2>7. SkipsForeignMark(Types, Values, field + i)
    BY <2>3, <2>4, <2>6, ArgumentsSurviveForeignMark
  <2> QED
    BY <2>2, <2>4, <2>7
<1> QED
  BY <1>1, SamplesStay, PTL
=============================================================================
