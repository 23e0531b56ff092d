-------------------------------- MODULE Serdes --------------------------------
(***************************************************************************)
(* The serialization of values: serialize(), deserialize() and             *)
(* serialize_dry_run() for the types of SOME/IP, as functions between      *)
(* values and sequences of bytes.  A cursor is the index of a byte.        *)
(*                                                                         *)
(* A type is a record of what the code's templates are for it:             *)
(*   static   is there a _serialize_dry_run<T>() without an argument, and  *)
(*   size     what it returns (0 if there is none);                        *)
(*   blank    T{};                                                         *)
(*   measure  _serialize_dry_run(v);                                       *)
(*   write    the bytes that _serialize() writes of v;                     *)
(*   read     what _deserialize<T>() reads from the bytes "in" at a cursor,*)
(*            and the cursor behind it.                                    *)
(* Types of arrays and structs are made of those of their elements and     *)
(* fields, as the templates instantiate each other.  An enum is the integer*)
(* it stands for and a float the one its bits are; the length fields of    *)
(* strings and arrays have any size, 0 for none.  A struct has none, as    *)
(* configured: it is its fields one behind the other, and its value the    *)
(* pair of the last one and all before.                                    *)
(***************************************************************************)
EXTENDS Integers, SequencesExt

Wire == Seq(0 .. 255)

bom_utf8 == <<239, 187, 191>>

\* The sums of the first numbers, of none to all.
Sums(numbers) ==
    LET sum[i \in 0 .. Len(numbers)] == IF i = 0 THEN 0 ELSE sum[i - 1] + numbers[i]
    IN  sum

SumOf(numbers) == Sums(numbers)[Len(numbers)]

-----------------------------------------------------------------------------
(* Numbers.                                                                *)

\* What is left of a number as its bytes are taken from it, the last one first.
Quotients(n, size) ==
    LET quotient[k \in 0 .. size] == IF k = 0 THEN n ELSE quotient[k - 1] \div 256
    IN  quotient

\* The last bytes of a number, most significant first: negative ones in two's
\* complement, those that are too large without what does not fit.
Bytes(n, size) == [i \in 1 .. size |-> Quotients(n, size)[size - i] % 256]

\* The numbers that the first bytes are, of none to all.
Numbers(bytes) ==
    LET number[k \in 0 .. Len(bytes)] == IF k = 0 THEN 0 ELSE number[k - 1] * 256 + bytes[k]
    IN  number

Number(bytes) == Numbers(bytes)[Len(bytes)]

ReadInteger(size, signed, in, at) ==
    LET bytes == SubSeq(in, at, at + size - 1)
        first == IF signed /\ bytes[1] >= 128 THEN bytes[1] - 256 ELSE bytes[1]
    IN  [value |-> Number(<<first>> \o Tail(bytes)), next |-> at + size]

Integer(size, signed) ==
    [static |-> TRUE, size |-> size, blank |-> 0,
     measure |-> [v \in Int |-> size],
     write |-> [v \in Int |-> Bytes(v, size)],
     read |-> [in \in Wire |-> [at \in Nat |-> ReadInteger(size, signed, in, at)]]]

Enum(size) == Integer(size, FALSE)
Float(size) == Integer(size, TRUE)

ReadLength(field, in, at) == Number(SubSeq(in, at, at + field - 1))

-----------------------------------------------------------------------------
(* Strings: a mark, the text, and a zero.                                  *)

StringSize(field, length) == field + Len(bom_utf8) + length + 1

\* mutant: the length is that of the text alone
TextLength(field, v) == Bytes(Len(v) + 1, field) \o bom_utf8 \o v \o <<0>>

WriteString(field, v) == Bytes(Len(bom_utf8) + Len(v) + 1, field) \o bom_utf8 \o v \o <<0>>

\* mutant: of a string with another mark the mark is not skipped
ReadStringMarkStays(field, n, in, at) ==
    LET start == at + field
        length == IF field = 0 THEN Len(bom_utf8) + n + 1 ELSE ReadLength(field, in, at)
        marked == SubSeq(in, start, start + Len(bom_utf8) - 1) = bom_utf8
    IN  [value |-> IF marked THEN SubSeq(in, start + Len(bom_utf8), start + length - 2) ELSE <<>>,
         next |-> IF marked THEN start + length ELSE start + length - Len(bom_utf8)]

\* "skip bom + text, return blank string".  n is the length of one that has no field.
ReadString(field, n, in, at) ==
    LET start == at + field
        length == IF field = 0 THEN Len(bom_utf8) + n + 1 ELSE ReadLength(field, in, at)
        marked == SubSeq(in, start, start + Len(bom_utf8) - 1) = bom_utf8
    IN  [value |-> IF marked THEN SubSeq(in, start + Len(bom_utf8), start + length - 2) ELSE <<>>,
         next |-> start + length]

DynamicString(field) ==
    [static |-> FALSE, size |-> 0, blank |-> <<>>,
     measure |-> [v \in Wire |-> StringSize(field, Len(v))],
     write |-> [v \in Wire |-> WriteString(field, v)],
     read |-> [in \in Wire |-> [at \in Nat |-> ReadString(field, 0, in, at)]]]

\* What was sent of a value of n parts; the others keep their default.
Filled(n, sent, default) == [i \in 1 .. n |-> IF i <= Len(sent) THEN sent[i] ELSE default]

\* (The code knows the static size only, which is the same for all.)
FixedString(n, field) ==
    [static |-> TRUE, size |-> StringSize(field, n), blank |-> Filled(n, <<>>, 0),
     measure |-> [v \in [1 .. n -> 0 .. 255] |-> StringSize(field, n)],
     write |-> [v \in [1 .. n -> 0 .. 255] |-> WriteString(field, v)],
     read |-> [in \in Wire |-> [at \in Nat |->
                 LET text == ReadString(field, n, in, at)
                 IN  [text EXCEPT !.value = Filled(n, @, 0)]]]]

-----------------------------------------------------------------------------
(* Arrays: their elements, one behind the other.                           *)

ElementsSize(of, v) == SumOf([i \in DOMAIN v |-> of.measure[v[i]]])

WriteArray(of, field, v) ==
    Bytes(ElementsSize(of, v), field) \o FlattenSeq([i \in DOMAIN v |-> of.write[v[i]]])

\* Where the elements begin when they are read from "at" on.
Cursors(of, in, at, limit) ==
    LET cursor[i \in 0 .. limit] == IF i = 0 THEN at ELSE of.read[in][cursor[i - 1]].next
    IN  cursor

\* How many elements of different sizes are read: as many as the length counts bytes
\* of.  (One that ends beyond it, which nothing here writes, would make the rest wrap
\* around.)
CountUntil(end, cursor, limit) ==
    CHOOSE n \in 0 .. limit :
        /\ n = limit \/ cursor[n] >= end
        /\ \A k \in 0 .. n - 1 : cursor[k] < end

\* limit is the length of an array that has a fixed one.
ReadElements(of, field, length, limit, in, start) ==
    LET cursor == Cursors(of, in, start, limit)
        fitting == length \div of.size
        count == IF field = 0 THEN limit
                 ELSE IF of.static THEN IF fitting < limit THEN fitting ELSE limit
                 ELSE CountUntil(start + length, cursor, limit)
    IN  [value |-> [i \in 1 .. count |-> of.read[in][cursor[i - 1]].value], next |-> cursor[count]]

\* Every element has a byte at least, so that the length bounds their number.
DynamicArray(of, field) ==
    [static |-> FALSE, size |-> 0, blank |-> <<>>,
     measure |-> [v \in Seq(DOMAIN of.write) |-> field + ElementsSize(of, v)],
     write |-> [v \in Seq(DOMAIN of.write) |-> WriteArray(of, field, v)],
     read |-> [in \in Wire |-> [at \in Nat |->
                 LET length == ReadLength(field, in, at)
                 IN  ReadElements(of, field, length, length, in, at + field)]]]

FixedArray(of, n, field) ==
    [static |-> of.static, size |-> IF of.static THEN field + n * of.size ELSE 0,
     blank |-> Filled(n, <<>>, of.blank),
     measure |-> [v \in [1 .. n -> DOMAIN of.write] |-> field + ElementsSize(of, v)],
     write |-> [v \in [1 .. n -> DOMAIN of.write] |-> WriteArray(of, field, v)],
     read |-> [in \in Wire |-> [at \in Nat |->
                 LET length == ReadLength(field, in, at)
                     sent == ReadElements(of, field, length, n, in, at + field)
                 IN  [sent EXCEPT !.value = Filled(n, @, of.blank)]]]]

-----------------------------------------------------------------------------
(* Structs, and the arguments of a call, which are treated in the same way.*)

\* Every struct declares a static dry run (aggregates.hpp:202), also one that has a
\* field of a dynamic size, for which it does not compile; an array of such structs
\* therefore does not compile either (arrays.hpp:71).  Here it is one that is read
\* by its length, which is more than the code allows.
Both(first, last) ==
    LET static == first.static /\ last.static
        Values == (DOMAIN first.write) \X (DOMAIN last.write)
    IN  [static |-> static, size |-> IF static THEN first.size + last.size ELSE 0,
         blank |-> <<first.blank, last.blank>>,
         measure |-> [v \in Values |-> first.measure[v[1]] + last.measure[v[2]]],
         write |-> [v \in Values |-> first.write[v[1]] \o last.write[v[2]]],
         read |-> [in \in Wire |-> [at \in Nat |->
                     LET one == first.read[in][at]
                         two == last.read[in][one.next]
                     IN  [value |-> <<one.value, two.value>>, next |-> two.next]]]]

\* The fields in the order in which _visit_fields calls the visitor.
Struct(fields) ==
    LET upTo[i \in 1 .. Len(fields)] == IF i = 1 THEN fields[1] ELSE Both(upTo[i - 1], fields[i])
    IN  upTo[Len(fields)]

StructValue(values) ==
    LET upTo[i \in 1 .. Len(values)] == IF i = 1 THEN values[1] ELSE <<upTo[i - 1], values[i]>>
    IN  upTo[Len(values)]

-----------------------------------------------------------------------------
(* The interface: any number of arguments, each with its type.             *)

serialize(types, values) == Struct(types).write[StructValue(values)]

deserialize(types, in) == Struct(types).read[in][1]

\* What the caller's buffer is allocated by.
serialize_dry_run(types, values) == Struct(types).measure[StructValue(values)]

-----------------------------------------------------------------------------
(* The types the programs exchange.                                        *)

uint8 == Integer(1, FALSE)
uint16 == Integer(2, FALSE)
uint32 == Integer(4, FALSE)

\* someip::types::message_header_t
someip_header ==
    Struct(<<Struct(<<uint16, uint16>>), uint32, Struct(<<uint16, uint16>>),
             uint8, uint8, Enum(1), uint8>>)

\* ipc::types::message_header_t
ipc_header == Struct(<<FixedString(13, 4), uint8, Enum(1), uint8, uint16, uint16, uint16>>)
register_message == Struct(<<DynamicString(4), uint16>>)
service_configuration == Struct(<<uint16, uint16, uint16, uint16>>)
offer_message == DynamicArray(service_configuration, 4)

-----------------------------------------------------------------------------
\* What was written is read back, of any types in any order, and the cursor ends
\* behind the last byte: every length field that is read leads to where the next
\* value begins.
ReadsBack(types, values) ==
    LET in == serialize(types, values)
    IN  deserialize(types, in) = [value |-> StructValue(values), next |-> Len(in) + 1]

\* What is written fills the buffer the dry run was asked the size of, and neither
\* exceeds it nor leaves a part that is sent unwritten; so does the size that is
\* known at compile time.
FillsBuffer(types, values) ==
    /\ Len(serialize(types, values)) = serialize_dry_run(types, values)
    /\ \A i \in DOMAIN types : types[i].static => types[i].size = Len(types[i].write[values[i]])

\* A string whose mark, which is at the given index, was another one is read as a
\* blank one; the values behind it are read as if it had been right.
SkipsForeignMark(types, values, mark) ==
    LET in == ReplaceAt(serialize(types, values), mark, 254)
    IN  deserialize(types, in) =
            [value |-> StructValue(<<Head(types).blank>> \o Tail(values)), next |-> Len(in) + 1]
=============================================================================
