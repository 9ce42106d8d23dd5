------------------------------ MODULE TypedRow ------------------------------
(* From the bytes a program wrote to a row of its typed table: IxDecoder or  *)
(* AccountDecoder, then upsert_ix_typed or upsert_account_typed, whose       *)
(* bind_value chooses the type of each parameter from the shape of the JSON, *)
(* while schema.rs chose the type of the column from the IDL.  PostgreSQL    *)
(* decides whether the one can be assigned to the other.                     *)
EXTENDS Decoder

CONSTANTS
    Value,    \* Value[ty]: what programs write of type ty
    Entries,  \* Entries[kind]: the IDL's entries of kind "ix" or "acc"
    Messages, \* Messages[kind]: what programs send, [entry, vals]
    Pads,     \* the bytes that may follow it
    JunkLen,  \* bound: the length of data no such program wrote
    Digit,    \* the byte of the character 0
    Sign,     \* the byte of a sign, + or -
    Nul       \* the byte PostgreSQL takes in no text

VARIABLES
    kind,      \* "ix" or "acc"
    sent,      \* the message the data encodes, or NoMessage
    data,      \* the bytes that arrive
    blockTime, \* whether the node knew the block's time
    pc, entry, \* where the row stands; the handler's entry
    vals,      \* the decoded JSON, field by field
    stale,     \* the fields whose placeholder has another type in the cache
    row        \* how the fields read back from the table

vars == <<kind, sent, data, blockTime, pc, entry, vals, stale, row>>

Entry == [disc : Seq(Int), hash : [1..DiscLen -> Byte], fields : Seq(Type)]

(* What a value of a type is; an option is the sequence of what is present.  *)
Fit(ty, v) ==
    CASE ty.k = "bool" -> v \in BOOLEAN
      [] ty.k \in Signed -> LET half == Power[Width[ty.k]] \div 2 IN v \in -half..(half - 1)
      [] ty.k \in (Small \cup Big \cup Floats) \ Signed -> v \in 0..(Power[Width[ty.k]] - 1)
      [] ty.k = "publicKey" -> v \in [1..Width[ty.k] -> Byte]
      [] ty.k = "vec" -> v \in Seq(Value[ty.of]) /\ Len(v) < Power[LenWidth]
      [] ty.k = "array" -> v \in [1..ty.len -> Value[ty.of]]
      [] ty.k = "option" -> v \in Seq(Value[ty.of]) /\ Len(v) <= 1
      [] ty.k = "struct" -> /\ v = [i \in DOMAIN ty.fields |-> v[i]]
                            /\ \A i \in DOMAIN v : v[i] \in Value[ty.fields[i]]
      [] OTHER -> /\ v \in Seq(Byte) /\ Len(v) < Power[LenWidth]
                  /\ ty.k = "string" => Range(v) \cap NotUtf8 = {}

ASSUME TypedRowAssumption ==
    /\ DOMAIN Value = Type /\ \A ty \in Type : \A v \in Value[ty] : Fit(ty, v)
    /\ \A k \in DOMAIN Entries : Entries[k] \in Seq(Entry)
    /\ \A k \in DOMAIN Entries : \A m \in Messages[k] :
         LET types == Entries[k][m.entry].fields
         IN  /\ m.entry \in DOMAIN Entries[k]
             /\ DOMAIN m.vals = DOMAIN types
             /\ \A i \in DOMAIN types : m.vals[i] \in Value[types[i]]
    /\ Pads \subseteq Seq(Byte) /\ JunkLen \in Nat
    /\ {Digit, Sign, Nul} \subseteq Byte /\ Nul \notin {Digit, Sign} /\ Digit # Sign

NoMessage == [entry |-> 0, vals |-> <<>>]

Fields == Entries[kind][entry].fields
-----------------------------------------------------------------------------
(* Borsh, as the programs write it.                                          *)
ToBytes(n, w) == [i \in 1..w |-> (n \div Power[i - 1]) % Radix]

(* The i-th part of a vec, an array, an option that is present or a struct.  *)
Part(ty, i) == IF ty.k = "struct" THEN ty.fields[i] ELSE ty.of

Encode[ty \in Type] == [v \in Value[ty] |->
    LET parts == FlattenSeq([i \in DOMAIN v |-> Encode[Part(ty, i)][v[i]]])
    IN  CASE ty.k = "bool" -> <<IF v THEN 1 ELSE 0>>
          [] ty.k \in Small \cup Big \cup Floats -> ToBytes(v, Width[ty.k])
          [] ty.k \in {"string", "bytes"} -> ToBytes(Len(v), LenWidth) \o v
          [] ty.k = "vec" -> ToBytes(Len(v), LenWidth) \o parts
          [] ty.k \in {"array", "struct"} -> parts
          [] ty.k = "option" -> <<Len(v)>> \o parts
          [] OTHER -> v]

EncodeAll(types, v) == FlattenSeq([i \in DOMAIN types |-> Encode[types[i]][v[i]]])

(* The JSON that value should be read as.                                    *)
Meaning[ty \in Type] == [v \in Value[ty] |->
    LET parts == FlattenSeq([i \in DOMAIN v |-> Meaning[Part(ty, i)][v[i]]])
    IN  CASE ty.k \in Big -> Json("decimal", v)
          [] ty.k \in Small -> Json("number", v)
          [] ty.k \in Floats -> Scalar(ty.k, ToBytes(v, Width[ty.k]))
          [] ty.k = "bytes" -> Json("hex", v)
          [] ty.k = "publicKey" -> Json("key", v)
          [] ty.k \in {"vec", "array"} -> Json("array", Len(v)) \o parts
          [] ty.k = "option" -> IF v = <<>> THEN Null ELSE parts
          [] ty.k = "struct" -> Json("object", Len(v)) \o parts
          [] OTHER -> Json(ty.k, v)]

(* The message as it arrives: whole, cut off or followed by a pad; or junk.  *)
Arrivals(k, m) ==
    LET e == Entries[k][m.entry]
        all == DiscOf(e) \o EncodeAll(e.fields, m.vals)
    IN  {SubSeq(all, 1, n) : n \in DiscLen..Len(all)} \cup {all \o p : p \in Pads}

Junk == UNION {[1..n -> Byte] : n \in 0..JunkLen}

Init ==
    /\ kind \in DOMAIN Entries
    /\ \/ sent \in Messages[kind] /\ data \in Arrivals(kind, sent)
       \/ sent = NoMessage /\ data \in Junk
    /\ blockTime \in BOOLEAN
    /\ pc = "arrived" /\ entry = 0 /\ vals = <<>> /\ stale = {} /\ row = <<>>
-----------------------------------------------------------------------------
(* type_to_string and idl_type_to_pg: the column of a field.                 *)
ColumnType[ty \in Type] ==
    CASE ty.k = "option" -> ColumnType[ty.of]
      [] ty.k \in {"bool", "OptionBool"} -> "BOOLEAN"
      [] ty.k \in Small -> "INTEGER"
      [] ty.k \in {"u64", "i64"} -> "BIGINT"
      [] ty.k \in {"u128", "i128"} -> "NUMERIC"
      [] ty.k = "f32" -> "REAL"
      [] ty.k = "f64" -> "DOUBLE PRECISION"
      [] ty.k \in {"string", "publicKey"} -> "TEXT"
      [] ty.k = "bytes" -> "BYTEA"
      [] OTHER -> "JSONB"

MaxOf(k) == Power[Width[k]] \div 2 - 1
Fits(k, n) == -MaxOf(k) - 1 <= n /\ n <= MaxOf(k)

Param(type, value) == [pg |-> type, v |-> value]

(* Mutant of IsInteger: big integers stay text.                              *)
IsIntegerNever(json) == FALSE

(* Digits, which may follow a sign.                                          *)
IsNumeral(text) ==
    LET digits == IF text # <<>> /\ Head(text) = Sign THEN Tail(text) ELSE text
    IN  digits # <<>> /\ Range(digits) = {Digit}

(* A string that parses as an i64.                                           *)
IsInteger(json) ==
    \/ Shape(json) = "decimal" /\ Fits("i64", Content(json))
    \/ Shape(json) = "string" /\ IsNumeral(Content(json))

(* Mutant of IsFlag: an opaque value is a boolean, however long.             *)
IsFlagAnyLength(json) == Shape(json) = "raw"

(* An opaque value of one byte.                                              *)
IsFlag(json) == Shape(json) = "raw" /\ Len(Content(json)) = 1

(* bind_value.                                                               *)
BindValue(json) ==
    LET shape == Shape(json)
        v == Content(json)
    IN  CASE shape = "bool" -> Param("bool", v)
          [] IsFlag(json) -> Param("bool", v = <<1>>)
          [] shape = "number" -> Param("int8", v)
          [] shape = "float" -> Param("float8", v)
          [] IsInteger(json) -> Param("int8", IF shape = "decimal" THEN v ELSE 0)
          [] shape \in {"decimal", "string", "key", "hex"} /\ ~IsInteger(json) ->
               Param("text", json)
          [] OTHER -> Param("jsonb", json)

(* PostgreSQL's assignment casts: the columns a parameter may be put into.   *)
Numeric == {"INTEGER", "BIGINT", "NUMERIC", "REAL", "DOUBLE PRECISION"}
Casts == [bool   |-> {"BOOLEAN", "TEXT"},
          int8   |-> Numeric \cup {"TEXT"},
          float8 |-> Numeric \cup {"TEXT"},
          text   |-> {"TEXT"},
          jsonb  |-> {"JSONB", "TEXT"}]

HasNul(json) ==
    \E i \in DOMAIN json : json[i].j = "string" /\ Nul \in Range(json[i].v)

Accepts(column, param) ==
    /\ column \in Casts[param.pg]
    /\ column = "INTEGER" => Fits("i32", param.v)
    /\ param.pg \in {"text", "jsonb"} => ~HasNul(param.v)

(* What to_jsonb then shows.  A jsonb null in a TEXT column is the word.     *)
ReadsBack(column, param) ==
    CASE param.pg = "int8" -> IF column = "TEXT" THEN Json("string", <<Digit>>)
                              ELSE Json("number", param.v)
      [] param.pg = "bool" -> Json("bool", param.v)
      [] param.pg = "float8" -> Json("float", param.v)
      [] param.pg \in {"text", "jsonb"} ->
           IF column = "TEXT" /\ Shape(param.v) = "null" THEN Json("word", "null")
           ELSE param.v
-----------------------------------------------------------------------------
(* No handler has the discriminator, or the data is shorter than one.        *)
NoHandler ==
    /\ pc = "arrived" /\ Matching(Entries[kind], data) = {}
    /\ pc' = "unknown"
    /\ UNCHANGED <<kind, sent, data, blockTime, entry, vals, stale, row>>

(* Mutant of Decode: the last handler of the discriminator wins.             *)
DecodeByLast ==
    /\ pc = "arrived"
    /\ \E i \in Matching(Entries[kind], data) :
         /\ \A j \in Matching(Entries[kind], data) : j <= i
         /\ entry' = i /\ vals' = DecodeFields(Entries[kind][i], data)
    /\ pc' = "decoded"
    /\ UNCHANGED <<kind, sent, data, blockTime, stale, row>>

(* IxDecoder::decode and AccountDecoder::decode.                             *)
Decode ==
    /\ pc = "arrived"
    /\ \E i \in Matching(Entries[kind], data) :
         /\ \A j \in Matching(Entries[kind], data) : i <= j
         /\ entry' = i /\ vals' = DecodeFields(Entries[kind][i], data)
    /\ pc' = "decoded"
    /\ UNCHANGED <<kind, sent, data, blockTime, stale, row>>

(* The fields the INSERT names: upsert_ix_typed leaves nulls out,            *)
(* upsert_account_typed does not.                                            *)
Inserted == {i \in DOMAIN vals : kind = "acc" \/ Shape(vals[i]) # "null"}

Column(i) == ColumnType[Fields[i]]

(* sqlx prepares a statement once per SQL text, for the parameter types of   *)
(* the first row that PostgreSQL can cast, and sends it the bytes of every   *)
(* later one.  Only a TEXT column takes parameters of several types, and     *)
(* these fields are bound with more than one; in any other column, what does *)
(* not fit the cached statement would be refused by a fresh one too.         *)
Unsteady == {i \in Inserted : /\ Column(i) = "TEXT"
                              /\ kind = "acc" \/ Shape(vals[i]) = "string"}

(* What PostgreSQL makes of bytes of another type, if it takes them.         *)
Misread == Json("misread", <<>>)

(* What a row has for a field if so many are misread.                        *)
Taken(i, misread) ==
    IF i \in misread THEN Misread
    ELSE IF i \in Inserted THEN ReadsBack(Column(i), BindValue(vals[i]))
    ELSE Null

(* An instruction's block_time is bound by its JSON too, null as jsonb.      *)
Refused(fields) ==
    \/ kind = "ix" /\ ~blockTime
    \/ \E i \in fields : ~Accepts(Column(i), BindValue(vals[i]))

InsertRow ==
    /\ pc = "decoded"
    /\ stale' \in SUBSET Unsteady
    /\ ~Refused(Inserted \ stale')
    /\ row' = [i \in DOMAIN vals |-> Taken(i, stale')]
    /\ pc' = "stored"
    /\ UNCHANGED <<kind, sent, data, blockTime, entry, vals>>

(* PostgreSQL answers with an error, which dooms the chunk.                  *)
InsertRefused ==
    /\ pc = "decoded"
    /\ stale' \in SUBSET Unsteady
    /\ Refused(Inserted \ stale') \/ stale' # {}
    /\ pc' = "refused"
    /\ UNCHANGED <<kind, sent, data, blockTime, entry, vals, row>>

Next == NoHandler \/ Decode \/ InsertRow \/ InsertRefused

Spec == Init /\ [][Next]_vars
-----------------------------------------------------------------------------
TypeOK ==
    /\ pc \in {"arrived", "unknown", "decoded", "stored", "refused"}
    /\ pc \in {"decoded", "stored", "refused"} =>
         entry \in DOMAIN Entries[kind] /\ Len(vals) = Len(Fields)
    /\ stale \subseteq DOMAIN vals

(* Nothing behind such a field is read from its own bytes (decoder.rs:311,   *)
(* 357).                                                                     *)
Opaque[ty \in Type] ==
    \/ ty.k \notin Known
    \/ ty.k \in {"vec", "array", "option"} /\ Opaque[ty.of]
    \/ ty.k = "struct" /\ \E i \in DOMAIN ty.fields : Opaque[ty.fields[i]]

Ends(i) == DiscLen + Len(EncodeAll(SubSeq(Fields, 1, i), sent.vals))
Legible(i) == \A j \in 1..i : ~Opaque[Fields[j]]
Decoded == pc \in {"decoded", "stored", "refused"}

(* The row is that of the entry the program meant, unless an earlier entry   *)
(* has the same discriminator; and every field whose bytes arrived, with     *)
(* nothing opaque before it, is read as what was sent, whatever is missing   *)
(* or follows behind.                                                        *)
FieldsDecodeExactly ==
    Decoded /\ sent # NoMessage =>
        /\ entry <= sent.entry
        /\ DiscOf(Entries[kind][entry]) = DiscOf(Entries[kind][sent.entry])
        /\ entry = sent.entry =>
             \A i \in DOMAIN Fields : Legible(i) /\ Ends(i) <= Len(data) =>
                 vals[i] = Meaning[Fields[i]][sent.vals[i]]

(* No content.                                                               *)
Blank(json) ==
    \A i \in DOMAIN json :
        \/ json[i].j \in {"null", "array", "object"}
        \/ json[i].j = "hex" /\ json[i].v = <<>>

(* Data that ends between two fields, as that of a program older than its    *)
(* IDL does, has nothing invented for the missing fields.                    *)
TailIsBlank ==
    Decoded /\ sent # NoMessage /\ entry = sent.entry =>
        \A i \in DOMAIN Fields : Legible(i - 1) /\ Ends(i - 1) = Len(data) =>
            \A j \in i..Len(Fields) : Blank(vals[j])

Same(a, b) ==
    \/ Shape(a) = Shape(b) /\ a = b
    \/ {Shape(a), Shape(b)} = {"number", "decimal"} /\ Content(a) = Content(b)

(* A stored row reads back as it was decoded, but for four alterations: a    *)
(* text that parses as an integer loses a plus sign and leading zeros        *)
(* (queries.rs:87), an account's missing text becomes the word null          *)
(* (queries.rs:94), an OptionBool becomes a boolean (queries.rs:72), and a   *)
(* value of a TEXT column whose placeholder sqlx prepared for another type   *)
(* (queries.rs:234, 412) is read as something else.                          *)
StoredReadsBack ==
    pc = "stored" => \A i \in DOMAIN vals :
        \/ Same(row[i], vals[i])
        \/ /\ Column(i) = "TEXT" /\ Shape(vals[i]) = "string"
           /\ IsNumeral(Content(vals[i]))
        \/ Column(i) = "TEXT" /\ Shape(vals[i]) = "null" /\ kind = "acc"
        \/ Column(i) = "BOOLEAN" /\ Shape(vals[i]) = "raw" /\ Len(Content(vals[i])) = 1
        \/ Column(i) = "TEXT" /\ i \in stale

(* A value no statement takes: an integer its column or an i64 cannot hold,  *)
(* "bytes", a null in an account, a one-byte opaque value where JSON is      *)
(* kept, an OptionBool of more than one byte, a NUL in a text.               *)
Cause(i) ==
    LET shape == Shape(vals[i])
        v == Content(vals[i])
    IN  \/ shape = "null" /\ kind = "acc" /\ Column(i) \notin {"TEXT", "JSONB"}
        \/ shape = "number" /\ ~Fits("i32", v)
        \/ shape = "decimal" /\ ~Fits("i64", v)
        \/ shape = "hex" \/ HasNul(vals[i])
        \/ shape = "raw" /\ (Column(i) = "BOOLEAN" <=> Len(v) # 1)

(* In a table made for the same IDL, PostgreSQL refuses a row only if its    *)
(* block has no time, a value has such a cause, or a text or key is bound    *)
(* with another type than the statement that sqlx keeps was prepared for;    *)
(* and it takes no row without time, and none with such a cause but where    *)
(* the bytes are read as another type.                                       *)
RefusalHasCause ==
    /\ pc = "refused" =>
         \/ kind = "ix" /\ ~blockTime
         \/ \E i \in DOMAIN vals : Cause(i) \/ (i \in stale /\ Column(i) = "TEXT")
    /\ pc = "stored" =>
         /\ kind = "ix" => blockTime
         /\ \A i \in DOMAIN vals : Cause(i) => i \in stale
-----------------------------------------------------------------------------
(* schema.rs:226 "Handle Option<T> -> nullable T", schema.rs:228 "nullable   *)
(* by default in PG": an absent optional field is stored as NULL.            *)
AbsentIsNull ==
    Decoded /\ sent # NoMessage /\ entry = sent.entry =>
        \A i \in DOMAIN Fields :
            Fields[i].k = "option" /\ sent.vals[i] = <<>> /\ Ends(i) <= Len(data) =>
                /\ pc # "refused"
                /\ pc = "stored" => row[i] = Null
=============================================================================
