----------------------------- MODULE DataStream -----------------------------
(***************************************************************************)
(* Typed values in a row of bytes (utils/data_stream.c): requests,         *)
(* responses, their headers, and the records on disk. A value is pushed    *)
(* with its type in front, and popped by a reader who expects a type; a    *)
(* pop that fails leaves the data alone.                                   *)
(*                                                                         *)
(* Data is counted in fields: a type, a number, a length and a character   *)
(* take one each. A stream may end anywhere.                               *)
(***************************************************************************)
EXTENDS Integers, Sequences

\* __DataType, in the order of the enumeration.
Types == <<"I32", "U32", "U64", "STR", "SLICE_I32", "SLICE_U32",
           "SLICE_U64", "SLICE_I64", "SLICE_STR">>
Tag(type) == (CHOOSE i \in DOMAIN Types : Types[i] = type) - 1

Numbers == {"I32", "U32", "U64"}
Slices  == {"SLICE_I32", "SLICE_U32", "SLICE_U64", "SLICE_I64"}

\* What is read beyond the end of the data.
Beyond == -1

\* DataStreamResult, as far as a pop sets it: success, wrong_value_type,
\* wrong_value_format.
WithData(data) == [data |-> data, lastResult |-> "success"]

-----------------------------------------------------------------------------
\* The fields of a value, as DataStream_Push<Type> lays them out.

EncodeNumber(type, v) == <<Tag(type), v>>
EncodeStr(v) == <<Tag("STR"), Len(v)>> \o v
EncodeSlice(type, v) == <<Tag(type), Len(v)>> \o v

\* The fields of the first i strings of a slice.
StrFields(v) ==
    LET fields[i \in 0 .. Len(v)] ==
          IF i = 0 THEN <<>> ELSE fields[i - 1] \o (<<Len(v[i])>> \o v[i])
    IN  fields

EncodeSliceStr(v) == <<Tag("SLICE_STR"), Len(v)>> \o StrFields(v)[Len(v)]

Encode(type, v) ==
    CASE type \in Numbers -> EncodeNumber(type, v)
      [] type = "STR" -> EncodeStr(v)
      [] type \in Slices -> EncodeSlice(type, v)
      [] type = "SLICE_STR" -> EncodeSliceStr(v)

\* The data of a new stream after each of the pushes, one per type.
Pushed(shape, values) ==
    LET data[n \in 0 .. Len(shape)] ==
          IF n = 0 THEN <<>> ELSE data[n - 1] \o Encode(shape[n], values[n])
    IN  data

PushAll(shape, values) == Pushed(shape, values)[Len(shape)]

-----------------------------------------------------------------------------
\* DataStream_Pop<Type>: [value, stream].

\* What a pop returns when it fails. Mutant: an error code, for numbers.
ErrorCode(type) == IF type \in Numbers THEN Beyond ELSE <<>>
Zero(type) == IF type \in Numbers THEN 0 ELSE <<>>

Refused(s, type, result) ==
    [value |-> Zero(type), stream |-> [s EXCEPT !.lastResult = result]]
Taken(s, value, n) ==
    [value |-> value, stream |-> WithData(SubSeq(s.data, n + 1, Len(s.data)))]

\* The fields a pop demands before it looks at the type: PopU32 asks for one.
Demanded(type) == IF type = "U32" THEN 1 ELSE 2

\* Where a string ends whose length comes after the first begin fields.
StrEnd(data, begin) ==
    IF begin = Beyond \/ Len(data) < begin + 1 THEN Beyond
    ELSE IF Len(data) < begin + 1 + data[begin + 1] THEN Beyond
    ELSE begin + 1 + data[begin + 1]

\* Where the i-th string of a slice ends, or Beyond.
StrEnds(data) ==
    LET end[i \in 0 .. data[2]] == IF i = 0 THEN 2 ELSE StrEnd(data, end[i - 1])
    IN  end

PopNumber(s, type) ==
    Taken(s, IF Len(s.data) < 2 THEN Beyond ELSE s.data[2], 2)

\* PopStr, PopSliceI32 and its like: the length, then as many fields.
PopCounted(s, type) ==
    LET n == 2 + s.data[2] IN
    IF Len(s.data) < n THEN Refused(s, type, "wrong_value_format")
    ELSE Taken(s, SubSeq(s.data, 3, n), n)

PopSliceStr(s) ==
    LET end == StrEnds(s.data)
        n == s.data[2]
    IN
    IF end[n] = Beyond THEN Refused(s, "SLICE_STR", "wrong_value_format")
    ELSE Taken(s, [i \in 1 .. n |-> SubSeq(s.data, end[i - 1] + 2, end[i])], end[n])

Pop(s, type) ==
    IF Len(s.data) < Demanded(type) THEN Refused(s, type, "wrong_value_format")
    ELSE IF s.data[1] # Tag(type) THEN Refused(s, type, "wrong_value_type")
    ELSE CASE type \in Numbers -> PopNumber(s, type)
           [] type \in Slices \cup {"STR"} -> PopCounted(s, type)
           [] type = "SLICE_STR" -> PopSliceStr(s)

\* One pop per type, as a deserializer does: [values, stream] after each. The
\* result that is left is the last one.
PopNext(taken, type) ==
    LET p == Pop(taken.stream, type)
    IN  [values |-> Append(taken.values, p.value), stream |-> p.stream]

Popped(s, shape) ==
    LET taken[n \in 0 .. Len(shape)] ==
          IF n = 0 THEN [values |-> <<>>, stream |-> s] ELSE PopNext(taken[n - 1], shape[n])
    IN  taken

PopAll(s, shape) == Popped(s, shape)[Len(shape)]

Parsed(p) == p.stream.lastResult = "success"

-----------------------------------------------------------------------------
\* Mutant: the limit is missed by one.
LimitedOneShort(data, maxLen) == SubSeq(data, 1, IF Len(data) < maxLen THEN Len(data) ELSE maxLen - 1)

\* DataStream_Read: at most maxLen of a file.
Limited(data, maxLen) == SubSeq(data, 1, IF Len(data) < maxLen THEN Len(data) ELSE maxLen)

=============================================================================
