------------------------------ MODULE Decoder ------------------------------
(* src/idl/decoder.rs: instruction data and account data, byte by byte, into *)
(* JSON, guided by the types of the IDL.  The widths of the integers and the *)
(* range of a byte are scaled down; everything else is as in the code.       *)
(*                                                                           *)
(* A type of the IDL is [k |-> kind] with `of' for vec, option and array,    *)
(* `len' for array and `fields' for a nested struct.  A JSON value is the    *)
(* sequence of its nodes, an array or object before its members; a node is   *)
(* [j |-> shape, v |-> content], and the content of an array or object the   *)
(* number of its members.  64- and 128-bit integers are decimal strings in   *)
(* JSON, and strings of this program besides: shape "decimal".               *)
EXTENDS Integers, Sequences, SequencesExt

CONSTANTS
    Radix,    \* bound: how many values a byte has
    Width,    \* Width[k]: bytes of the fixed-width type k
    Depth,    \* Depth[ty]: how deep the types within ty nest
    DiscLen,  \* bytes of a discriminator
    NotUtf8   \* the bytes that make a string invalid

Byte == 0..(Radix - 1)

Signed  == {"i8", "i16", "i32", "i64", "i128"}
Small   == {"u8", "u16", "u32", "i8", "i16", "i32"}   \* JSON numbers
Big     == {"u64", "u128", "i64", "i128"}             \* JSON strings
Floats  == {"f32", "f64"}
Fixed   == {"bool", "publicKey"} \cup Small \cup Big \cup Floats

Known == Fixed \cup {"string", "bytes", "vec", "array", "option", "struct"}

Type == DOMAIN Depth   \* the types of the IDL and those they are made of

ASSUME DecoderAssumption ==
    /\ Radix \in Nat /\ Radix >= 2
    /\ Width \in [Fixed -> Nat \ {0}] /\ Width["bool"] = 1 /\ Width["u8"] = 1
    /\ DiscLen \in Nat
    /\ Depth \in [Type -> Nat]
    /\ \A ty \in Type :
         /\ ty.k \in {"vec", "array", "option"} =>
              ty.of \in Type /\ Depth[ty.of] < Depth[ty]
         /\ ty.k = "array" => ty.len \in Nat
         /\ ty.k = "struct" => /\ ty.fields \in Seq(Type)
                              /\ \A part \in Range(ty.fields) : Depth[part] < Depth[ty]

LenWidth == Width["u32"]   \* of the length of a vec, a string, bytes

Json(shape, content) == <<[j |-> shape, v |-> content]>>
Null == Json("null", <<>>)

Shape(json) == Head(json).j
Content(json) == Head(json).v

(* How many numbers so many bytes tell apart.                                *)
Power[n \in Nat] == IF n = 0 THEN 1 ELSE Radix * Power[n - 1]

(* Little endian.                                                            *)
Number(bytes) ==
    LET number[i \in 0..Len(bytes)] ==
            IF i = 0 THEN 0 ELSE number[i - 1] + bytes[i] * Power[i - 1]
    IN  number[Len(bytes)]

(* The bytes of a fixed-width type as JSON.  A NaN, here the pattern of all  *)
(* ones, is not a JSON number.                                               *)
Scalar(k, bytes) ==
    LET n == Number(bytes)
        range == Power[Len(bytes)]
        int == IF k \in Signed /\ n >= range \div 2 THEN n - range ELSE n
    IN  CASE k = "bool"      -> Json("bool", n # 0)
          [] k \in Small     -> Json("number", int)
          [] k \in Big       -> Json("decimal", int)
          [] k \in Floats    -> IF n = range - 1 THEN Null ELSE Json("float", n)
          [] k = "publicKey" -> Json("key", bytes)
-----------------------------------------------------------------------------
(* What a read leaves: the value and the position of the Reader.             *)
Got(value, pos) == [val |-> value, pos |-> pos]

Slice(data, pos, n) == SubSeq(data, pos + 1, pos + n)

Has(data, pos, n) == pos + n <= Len(data)

(* Mutant of ReadFixed: what is missing reads as zero.                       *)
ReadFixedZero(k, data, pos) ==
    IF Has(data, pos, Width[k])
    THEN Got(Scalar(k, Slice(data, pos, Width[k])), pos + Width[k])
    ELSE Got(Scalar(k, [i \in 1..Width[k] |-> 0]), pos)

(* read_u8 .. read_pubkey: a read that does not fit gives null and stays.    *)
ReadFixed(k, data, pos) ==
    IF Has(data, pos, Width[k])
    THEN Got(Scalar(k, Slice(data, pos, Width[k])), pos + Width[k])
    ELSE Got(Null, pos)

(* read_u32().unwrap_or(0), the length of a vec or of bytes.                 *)
ReadLen(data, pos) ==
    IF Has(data, pos, LenWidth)
    THEN [len |-> Number(Slice(data, pos, LenWidth)), pos |-> pos + LenWidth]
    ELSE [len |-> 0, pos |-> pos]

(* read_string, and "bytes" of decode_primitive_str: without a length bytes  *)
(* are empty, a string is null.                                              *)
ReadText(k, data, pos) ==
    LET n == ReadLen(data, pos)
        text == Slice(data, n.pos, n.len)
    IN  IF k = "string" /\ ~Has(data, pos, LenWidth) THEN Got(Null, pos)
        ELSE IF ~Has(data, n.pos, n.len) THEN Got(Null, n.pos)
        ELSE Got(IF k = "bytes" THEN Json("hex", text)
                 ELSE IF Range(text) \cap NotUtf8 = {} THEN Json("string", text)
                 ELSE Null,
                 n.pos + n.len)

(* Mutant of DecodeAll: a field of unknown type is left out.                 *)
DecodeAllKnown(decode, types, pos) ==
    LET known == SelectSeq(types, LAMBDA ty : ty.k \in Known)
        at[i \in 0..Len(known)] ==
            IF i = 0 THEN pos ELSE decode[known[i]][at[i - 1]].pos
    IN  [val |-> [i \in DOMAIN known |-> decode[known[i]][at[i - 1]].val],
         pos |-> at[Len(known)]]

(* One after the other, each from where the one before stopped: at[i] is the *)
(* position behind the i-th.  decode[ty][pos] is what decode_type gives.     *)
DecodeAll(decode, types, pos) ==
    LET at[i \in 0..Len(types)] ==
            IF i = 0 THEN pos ELSE decode[types[i]][at[i - 1]].pos
    IN  [val |-> [i \in DOMAIN types |-> decode[types[i]][at[i - 1]].val],
         pos |-> at[Len(types)]]

Group(shape, got) ==
    Got(Json(shape, Len(got.val)) \o FlattenSeq(got.val), got.pos)

(* decode_type.  A type it cannot decode ("defined") takes all that is left; *)
(* a primitive it does not know takes nothing.                               *)
DecodeType(decode, ty, data, pos) ==
    CASE ty.k \in Fixed -> ReadFixed(ty.k, data, pos)
      [] ty.k \in {"string", "bytes"} -> ReadText(ty.k, data, pos)
      [] ty.k = "vec" ->
           LET n == ReadLen(data, pos)
           IN  Group("array", DecodeAll(decode, [i \in 1..n.len |-> ty.of], n.pos))
      [] ty.k = "array" ->
           Group("array", DecodeAll(decode, [i \in 1..ty.len |-> ty.of], pos))
      [] ty.k = "option" ->
           LET tag == ReadFixed("u8", data, pos)
           IN  IF Shape(tag.val) = "null" \/ Content(tag.val) = 0 THEN Got(Null, tag.pos)
               ELSE decode[ty.of][tag.pos]
      [] ty.k \in {"defined", "OptionBool"} ->
           IF pos < Len(data)
           THEN Got(Json("raw", Slice(data, pos, Len(data) - pos)), Len(data))
           ELSE Got(Null, pos)
      [] ty.k = "struct" -> Group("object", DecodeAll(decode, ty.fields, pos))
      [] OTHER -> Got(Null, pos)

Decoding(data) ==
    LET decode[ty \in Type] == [pos \in Nat |-> DecodeType(decode, ty, data, pos)]
    IN  decode
-----------------------------------------------------------------------------
(* IxDecoder::new and AccountDecoder::new.  An entry gives the discriminator *)
(* or leaves it to the hash of its name.  A negative member of entry.disc    *)
(* stands for whatever is no u64: it is dropped before they are counted.     *)
DiscOf(entry) ==
    LET bytes == FlattenSeq([i \in DOMAIN entry.disc |->
                     IF entry.disc[i] < 0 THEN <<>> ELSE <<entry.disc[i] % Radix>>])
    IN  IF Len(bytes) = DiscLen THEN bytes ELSE entry.hash

(* The handlers that take `data', the first of which decodes it.             *)
Matching(entries, data) ==
    {i \in DOMAIN entries : /\ Len(data) >= DiscLen
                            /\ DiscOf(entries[i]) = Slice(data, 0, DiscLen)}

DecodeFields(entry, data) ==
    DecodeAll(Decoding(SubSeq(data, DiscLen + 1, Len(data))), entry.fields, 0).val
=============================================================================
