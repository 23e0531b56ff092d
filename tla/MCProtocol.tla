------------------------------ MODULE MCProtocol ------------------------------
(***************************************************************************)
(* Three layers of the SOME/IP protocol that share no state, each checked  *)
(* by itself: how values become bytes, how messages are cut out of a       *)
(* stream of bytes, and how calls and answers find each other.  A behaviour*)
(* is about the one of them that "layer" says; the others do nothing.      *)
(***************************************************************************)
EXTENDS Reassembly, CalculatorState, Serdes

\* The precision is asked for and set: a sum tells nothing that these do not.
MCCalls == {[method |-> "get", argument |-> 0], [method |-> "set", argument |-> 3]}

C == INSTANCE Calculator


VARIABLES
    layer,      \* "values", "stream" or "calls"
    arguments   \* of serialize(): which of the samples below

-----------------------------------------------------------------------------
(* Values to serialize: numbers at the limits of their types, texts and    *)
(* arrays that are empty, of one element, and, with a length field of one  *)
(* byte, as long as it can say; length fields of all sizes.  A sample of a *)
(* string has the index of its mark.                                       *)

Of(type, values) == [i \in DOMAIN values |-> [type |-> type, value |-> values[i], mark |-> 0]]

Marked(type, field, values) ==
    [i \in DOMAIN values |-> [type |-> type, value |-> values[i], mark |-> field + 1]]

int16 == Integer(2, TRUE)

Numerals ==
    Of(uint8, <<0, 255>>) \o Of(int16, <<-32768, -2, 258>>)
    \o Of(uint32, <<16909060, 2147483647>>)
    \o Of(Float(4), <<1069547520, -1073741824>>)      \* 1.5, -2

Texts ==
    FlattenSeq([i \in 1 .. 3 |->
        LET field == <<1, 2, 4>>[i] IN Marked(DynamicString(field), field, <<<<>>, <<104, 105>>>>)])
    \o Marked(DynamicString(1), 1, <<[i \in 1 .. 251 |-> 65]>>)
    \o FlattenSeq([i \in 1 .. 4 |->
        LET field == <<0, 1, 2, 4>>[i] IN Marked(FixedString(2, field), field, <<<<0, 0>>, <<104, 105>>>>)])

Arrays ==
    FlattenSeq([i \in 1 .. 3 |-> Of(DynamicArray(uint16, <<1, 2, 4>>[i]), <<<<>>, <<1, 258>>>>)])
    \o FlattenSeq([i \in 1 .. 2 |->
        Of(DynamicArray(DynamicString(1), <<1, 4>>[i]), <<<<>>, <<<<104>>, <<>>, <<104, 105>>>>>>)])
    \o FlattenSeq([i \in 1 .. 4 |-> Of(FixedArray(uint16, 2, <<0, 1, 2, 4>>[i]), <<<<1, 258>>>>)])
    \o FlattenSeq([i \in 1 .. 3 |->
        Of(FixedArray(DynamicString(2), 2, <<0, 1, 4>>[i]), <<<<<<104>>, <<>>>>>>)])

Structs ==
    Of(someip_header,
       <<StructValue(<<StructValue(<<4096, 258>>), 8, StructValue(<<1, 65535>>), 1, 2, 128, 0>>)>>)
    \o Of(ipc_header, <<StructValue(<<[i \in 1 .. 13 |-> 96 + i], 1, 5, 0, 258, 0, 2424>>)>>)
    \o Of(register_message, <<StructValue(<<<<>>, 258>>), StructValue(<<<<104, 105>>, 258>>)>>)
    \o Of(offer_message,
          <<<<>>, <<StructValue(<<1, 2, 3, 258>>), StructValue(<<5, 6, 7, 65535>>)>>>>)

Samples == Numerals \o Texts \o Arrays \o Structs

ProtocolInit ==
    /\ Init /\ C!Init
    /\ layer \in {"values", "stream", "calls"}
    /\ arguments \in IF layer = "values" THEN (DOMAIN Samples) \X (DOMAIN Samples) ELSE {<<>>}

ProtocolNext ==
    \/ layer = "stream" /\ Next /\ UNCHANGED <<calculator, layer, arguments>>
    \/ layer = "calls" /\ C!Next /\ UNCHANGED <<vars, layer, arguments>>

ProtocolSpec ==
    /\ ProtocolInit /\ [][ProtocolNext]_<<vars, calculator, layer, arguments>>
    /\ C!Fairness

-----------------------------------------------------------------------------
Types == [i \in DOMAIN arguments |-> Samples[arguments[i]].type]
Values == [i \in DOMAIN arguments |-> Samples[arguments[i]].value]

\* deserialize() returns what serialize() was given and its cursor is where the next
\* value begins; serialize() has filled the buffer serialize_dry_run() measured (the
\* callers allocate and send that many bytes), no less and no more.
RoundTrip == layer = "values" => ReadsBack(Types, Values) /\ FillsBuffer(Types, Values)

\* What a string with a foreign byte order mark is followed by is read all the same.
ForeignMarkSkipped ==
    layer = "values" =>
        LET mark == Samples[arguments[1]].mark
        IN  mark > 0 => SkipsForeignMark(Types, Values, mark)
=============================================================================
