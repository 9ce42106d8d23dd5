--------------------------- MODULE TypedRowProofs ---------------------------
(* For every IDL, whatever its types nest, and all data: what is decoded and *)
(* stored.  The types nest, so decode_type recurses; the recursion ends      *)
(* because the parts of a type are less deep, and what it gives is found by  *)
(* induction over the depth.                                                 *)
EXTENDS TypedRow, RecursionProofs

-----------------------------------------------------------------------------
(* Numbers and their bytes.                                                  *)
LEMMA PowerDef ==
    \A n \in Nat : /\ Power[n] = IF n = 0 THEN 1 ELSE Radix * Power[n - 1]
                   /\ Power[n] \in Nat \ {0}
<1> DEFINE
      D == [n \in Nat |-> n]
      V == [n \in Nat |-> Nat]
      F == [n \in Nat |-> [g \in [Nat -> Nat] |-> IF n = 0 THEN 1 ELSE Radix * g[n - 1]]]
      Eq(f) == f = [n \in Nat |-> IF n = 0 THEN 1 ELSE Radix * f[n - 1]]
<1>1. Radix \in Nat /\ Radix # 0
  BY DecoderAssumption
<1>2. \A n \in Nat : n # 0 => n - 1 \in Nat /\ D[n - 1] < D[n]
  OBVIOUS
<1>3. \A n \in Nat : \A g \in [Nat -> Nat] :
          F[n][g] = IF n = 0 THEN 1 ELSE Radix * g[n - 1]
  OBVIOUS
<1>4. D \in [Nat -> Nat] /\ \A n \in Nat : V[n] = Nat
  OBVIOUS
<1> HIDE DEF D, V, F
<1>5. \A n \in Nat : \A g \in [Nat -> Nat] : F[n][g] \in Nat
  <2>1. \A n \in Nat : \A g \in [Nat -> Nat] : n # 0 => g[n - 1] \in Nat
    OBVIOUS
  <2>2. \A m \in Nat : Radix * m \in Nat
    BY <1>1
  <2> QED
    BY <1>3, <2>1, <2>2
<1>6. \A n \in Nat : \A g, h \in [Nat -> Nat] :
          (\A m \in Nat : D[m] < D[n] => g[m] = h[m]) => F[n][g] = F[n][h]
  <2>1. SUFFICES ASSUME NEW n \in Nat, NEW g \in [Nat -> Nat], NEW h \in [Nat -> Nat],
                        \A m \in Nat : D[m] < D[n] => g[m] = h[m]
                 PROVE  F[n][g] = F[n][h]
    OBVIOUS
  <2>2. n # 0 => g[n - 1] = h[n - 1]
    BY <1>2, <2>1
  <2>3. /\ F[n][g] = IF n = 0 THEN 1 ELSE Radix * g[n - 1]
        /\ F[n][h] = IF n = 0 THEN 1 ELSE Radix * h[n - 1]
    BY <1>3
  <2> QED
    BY <2>2, <2>3
<1>7. Descends(Nat, D, Nat, V, F)
  BY <1>4, <1>5, <1>6 DEF Descends
<1>8. PICK f \in [Nat -> Nat] : \A n \in Nat : f[n] = F[n][f]
  <2> DEFINE T == Nat
  <2>1. Descends(T, D, Nat, V, F)
    BY <1>7
  <2> HIDE DEF T
  <2>2. \E f \in [T -> Nat] : \A n \in T : f[n] \in V[n] /\ f[n] = F[n][f]
    BY ONLY <2>1, Recursion
  <2> QED
    BY <2>2 DEF T
<1>9. Eq(f)
  <2>1. DOMAIN f = Nat /\ f = [n \in Nat |-> f[n]]
    OBVIOUS
  <2>2. \A n \in Nat : f[n] = IF n = 0 THEN 1 ELSE Radix * f[n - 1]
    BY <1>3, <1>8
  <2> QED
    BY <2>1, <2>2
<1>10. Eq(Power)
  <2> HIDE DEF Eq
  <2>1. Power = CHOOSE g : Eq(g)
    BY DEF Power, Eq
  <2> QED
    BY <1>9, <2>1
<1>11. \A n \in Nat : Power[n] = IF n = 0 THEN 1 ELSE Radix * Power[n - 1]
  BY <1>10
<1> DEFINE S == {n \in Nat : Power[n] \in Nat \ {0}}
<1>12. ASSUME NEW n \in Nat, \A m \in Nat : D[m] < D[n] => m \in S PROVE n \in S
  <2>1. CASE n = 0
    BY <1>11, <2>1
  <2>2. CASE n # 0
    <3>1. Power[n - 1] \in Nat \ {0}
      BY <1>2, <1>12, <2>2
    <3>2. Power[n] = Radix * Power[n - 1]
      BY <1>11, <2>2
    <3>3. \A m \in Nat \ {0} : Radix * m \in Nat \ {0}
      BY <1>1
    <3> QED
      BY <3>1, <3>2, <3>3
  <2> QED
    BY <2>1, <2>2
<1>13. \A n \in Nat : n \in S
  <2> HIDE DEF S
  <2> QED
    BY <1>4, <1>12, DepthInduction
<1> QED
  BY <1>11, <1>13

LEMMA NumberSteps ==
    ASSUME NEW bytes \in Seq(Byte)
    PROVE  \E f \in [0..Len(bytes) -> Nat] :
               /\ f[0] = 0 /\ Number(bytes) = f[Len(bytes)]
               /\ \A i \in 1..Len(bytes) : f[i] = f[i - 1] + bytes[i] * Power[i - 1]
<1> DEFINE
      n == Len(bytes)
      Step == [i \in 1..n |-> [m \in Nat |-> m + bytes[i] * Power[i - 1]]]
      Eq(f) == f = [i \in 0..n |-> IF i = 0 THEN 0 ELSE f[i - 1] + bytes[i] * Power[i - 1]]
      Good(f) == /\ f[0] = 0
                 /\ \A i \in 1..n : f[i] = f[i - 1] + bytes[i] * Power[i - 1]
<1>1. n \in Nat
  OBVIOUS
<1>2. \A i \in 1..n : bytes[i] \in Nat /\ Power[i - 1] \in Nat /\ i - 1 \in 0..n
  <2>1. Byte \subseteq Nat
    BY DecoderAssumption DEF Byte
  <2>2. \A i \in 1..n : bytes[i] \in Byte /\ i - 1 \in Nat /\ i - 1 \in 0..n
    OBVIOUS
  <2> QED
    BY <2>1, <2>2, PowerDef
<1>3. \A i \in 1..n : bytes[i] * Power[i - 1] \in Nat
  BY <1>2
<1>4. \A i \in 1..n : \A m \in Nat : /\ Step[i][m] = m + bytes[i] * Power[i - 1]
                                    /\ Step[i][m] \in Nat
  BY <1>3
<1> HIDE DEF Step
<1>5. Steps(n, Nat, 0, Step)
  BY <1>1, <1>4 DEF Steps
<1>6. PICK f \in [0..n -> Nat] : f[0] = 0 /\ \A i \in 1..n : f[i] = Step[i][f[i - 1]]
  <2> HIDE DEF n
  <2> QED
    BY <1>5, UpToRecursion
<1>7. \A i \in 1..n : f[i] = f[i - 1] + bytes[i] * Power[i - 1]
  BY <1>2, <1>4, <1>6
<1>8. Eq(f)
  <2> HIDE DEF n
  <2>1. \A i \in 0..n : i # 0 => i \in 1..n
    BY <1>1
  <2> QED
    BY <1>6, <1>7, <2>1
<1> DEFINE c == CHOOSE g : Eq(g)
<1>9. Eq(c)
  <2> HIDE DEF Eq
  <2> QED
    BY <1>8
<1>10. Number(bytes) = c[n]
  BY DEF Number
<1> HIDE DEF c
<1>11. Good(c)
  <2> HIDE DEF n
  <2>1. 0 \in 0..n /\ \A i \in 1..n : i \in 0..n /\ i # 0
    BY <1>1
  <2> QED
    BY <1>9, <2>1
<1> DEFINE Typed == {i \in 0..n : c[i] \in Nat}
<1>12. \A i \in 0..n : i \in Typed
  <2> HIDE DEF n
  <2>1. 0 \in Typed
    BY <1>1, <1>11
  <2>2. ASSUME NEW i \in 1..n, i - 1 \in Typed PROVE i \in Typed
    <3>1. c[i] \in Nat
      BY <1>3, <1>11, <2>2
    <3>2. i \in 0..n
      BY <1>1
    <3> QED
      BY <3>1, <3>2
  <2> HIDE DEF Typed
  <2> QED
    BY <1>1, <2>1, <2>2, UpToInduction
<1>13. c \in [0..n -> Nat]
  <2> HIDE DEF n
  <2>1. DOMAIN c = 0..n /\ c = [i \in 0..n |-> c[i]]
    BY <1>9
  <2> HIDE DEF Eq
  <2> QED
    BY <1>12, <2>1
<1> QED
  BY <1>10, <1>11, <1>13

LEMMA NumberType ==
    ASSUME NEW bytes \in Seq(Byte)
    PROVE  Number(bytes) \in Nat
<1>1. PICK f \in [0..Len(bytes) -> Nat] : Number(bytes) = f[Len(bytes)]
  BY NumberSteps
<1>2. Len(bytes) \in 0..Len(bytes)
  OBVIOUS
<1> QED
  BY <1>1, <1>2
-----------------------------------------------------------------------------
(* JSON: what may be read for a field whose column has the given type.       *)
Shapes == {"null", "bool", "raw", "number", "decimal", "float", "string", "key", "hex",
           "array", "object"}

Node == [j : Shapes, v : Int \cup BOOLEAN \cup Seq(Byte)]

Leaves(shape, S) == {Json(shape, v) : v \in S}

Reads(column) ==
    {Null} \cup
    CASE column = "BOOLEAN" -> Leaves("bool", BOOLEAN) \cup Leaves("raw", Seq(Byte))
      [] column = "INTEGER" -> Leaves("number", Int)
      [] column \in {"BIGINT", "NUMERIC"} -> Leaves("decimal", Int)
      [] column \in {"REAL", "DOUBLE PRECISION"} -> Leaves("float", Int)
      [] column = "TEXT" -> Leaves("string", Seq(Byte)) \cup Leaves("key", Seq(Byte))
      [] column = "BYTEA" -> Leaves("hex", Seq(Byte))
      [] column = "JSONB" ->
           Leaves("raw", Seq(Byte))
           \cup {json \in Seq(Node) : json # <<>> /\ Shape(json) \in {"array", "object"}}

Columns == {"BOOLEAN", "INTEGER", "BIGINT", "NUMERIC", "REAL", "DOUBLE PRECISION",
            "TEXT", "BYTEA", "JSONB"}

Reading(column) == [val : Reads(column), pos : Nat]

LEMMA JsonParts ==
    ASSUME NEW shape, NEW content
    PROVE  /\ Shape(Json(shape, content)) = shape
           /\ Content(Json(shape, content)) = content
           /\ Json(shape, content) # <<>>
           /\ DOMAIN Json(shape, content) = {1}
           /\ Json(shape, content)[1] = [j |-> shape, v |-> content]
           /\ shape \in Shapes /\ content \in Int \cup BOOLEAN \cup Seq(Byte) =>
                Json(shape, content) \in Seq(Node)
<1> DEFINE node == [j |-> shape, v |-> content]
<1>1. shape \in Shapes /\ content \in Int \cup BOOLEAN \cup Seq(Byte) => node \in Node
  BY DEF Node
<1>2. node.j = shape /\ node.v = content
  OBVIOUS
<1> HIDE DEF node
<1>3. Json(shape, content) = <<node>>
  BY DEF Json, node
<1>4. /\ Head(<<node>>) = node /\ <<node>> # <<>> /\ DOMAIN <<node>> = {1}
      /\ <<node>>[1] = node /\ (node \in Node => <<node>> \in Seq(Node))
  OBVIOUS
<1> QED
  BY <1>1, <1>2, <1>3, <1>4 DEF Shape, Content, node

LEMMA LeavesAreJson ==
    ASSUME NEW shape \in Shapes, NEW S \in SUBSET (Int \cup BOOLEAN \cup Seq(Byte))
    PROVE  Leaves(shape, S) \subseteq Seq(Node) \ {<<>>}
<1>1. ASSUME NEW v \in S PROVE Json(shape, v) \in Seq(Node) \ {<<>>}
  BY JsonParts
<1> QED
  BY <1>1 DEF Leaves

LEMMA ReadsAreJson ==
    ASSUME NEW column \in Columns
    PROVE  Reads(column) \subseteq Seq(Node) \ {<<>>} /\ Null \in Reads(column)
<1> DEFINE J == Seq(Node) \ {<<>>}
<1>1. Null \in J
  <2>1. <<>> \in Int \cup BOOLEAN \cup Seq(Byte)
    OBVIOUS
  <2>2. "null" \in Shapes
    BY DEF Shapes
  <2>3. Json("null", <<>>) \in Seq(Node) /\ Json("null", <<>>) # <<>>
    BY ONLY <2>1, <2>2, JsonParts
  <2> QED
    BY <2>3 DEF Null
<1>2. /\ Leaves("bool", BOOLEAN) \subseteq J /\ Leaves("raw", Seq(Byte)) \subseteq J
      /\ Leaves("number", Int) \subseteq J /\ Leaves("decimal", Int) \subseteq J
      /\ Leaves("float", Int) \subseteq J /\ Leaves("string", Seq(Byte)) \subseteq J
      /\ Leaves("key", Seq(Byte)) \subseteq J /\ Leaves("hex", Seq(Byte)) \subseteq J
  <2> HIDE DEF J
  <2>1. \A shape \in Shapes : \A S \in SUBSET (Int \cup BOOLEAN \cup Seq(Byte)) :
            Leaves(shape, S) \subseteq J
    BY LeavesAreJson DEF J
  <2>2. /\ Int \in SUBSET (Int \cup BOOLEAN \cup Seq(Byte))
        /\ BOOLEAN \in SUBSET (Int \cup BOOLEAN \cup Seq(Byte))
        /\ Seq(Byte) \in SUBSET (Int \cup BOOLEAN \cup Seq(Byte))
    OBVIOUS
  <2> QED
    BY ONLY <2>1, <2>2 DEF Shapes
<1>3. {json \in Seq(Node) : json # <<>> /\ Shape(json) \in {"array", "object"}} \subseteq J
  OBVIOUS
<1> QED
  BY ONLY <1>1, <1>2, <1>3, column \in Columns DEF Reads, Columns
-----------------------------------------------------------------------------
(* The column of a field.                                                    *)
ColumnBody(c, ty) ==
    CASE ty.k = "option" -> c[ty.of]
      [] ty.k \in {"bool", "OptionBool"} -> "BOOLEAN"
      [] ty.k \in Small -> "INTEGER"
      [] ty.k \in {"u64", "i64"} -> "BIGINT"
      [] ty.k \in {"u128", "i128"} -> "NUMERIC"
      [] ty.k = "f32" -> "REAL"
      [] ty.k = "f64" -> "DOUBLE PRECISION"
      [] ty.k \in {"string", "publicKey"} -> "TEXT"
      [] ty.k = "bytes" -> "BYTEA"
      [] OTHER -> "JSONB"

LEMMA TypesNest ==
    /\ Depth \in [Type -> Nat]
    /\ \A ty \in Type :
         /\ ty.k \in {"vec", "array", "option"} =>
              ty.of \in Type /\ Depth[ty.of] < Depth[ty]
         /\ ty.k = "array" => ty.len \in Nat
         /\ ty.k = "struct" =>
              /\ ty.fields \in Seq(Type)
              /\ \A i \in 1..Len(ty.fields) : /\ ty.fields[i] \in Type
                                             /\ Depth[ty.fields[i]] < Depth[ty]
<1>1. ASSUME NEW ty \in Type, ty.k = "struct", NEW i \in 1..Len(ty.fields)
      PROVE  ty.fields[i] \in Type /\ Depth[ty.fields[i]] < Depth[ty]
  <2>1. ty.fields \in Seq(Type) /\ \A part \in Range(ty.fields) : Depth[part] < Depth[ty]
    BY <1>1, DecoderAssumption
  <2>2. ty.fields[i] \in Type /\ ty.fields[i] \in Range(ty.fields)
    BY <2>1 DEF Range
  <2> QED
    BY <2>1, <2>2
<1> QED
  BY <1>1, DecoderAssumption

LEMMA ColumnDef ==
    \A ty \in Type : ColumnType[ty] = ColumnBody(ColumnType, ty) /\ ColumnType[ty] \in Columns
<1> DEFINE
      V == [ty \in Type |-> Columns]
      F == [ty \in Type |-> [c \in [Type -> Columns] |-> ColumnBody(c, ty)]]
      Eq(f) == f = [ty \in Type |-> ColumnBody(f, ty)]
<1>1. ASSUME NEW ty \in Type, NEW c, ty.k = "option" => c[ty.of] \in Columns
      PROVE  ColumnBody(c, ty) \in Columns
  BY <1>1 DEF ColumnBody, Columns, Small
<1>2. ASSUME NEW ty \in Type, NEW c, NEW d, ty.k = "option" => c[ty.of] = d[ty.of]
      PROVE  ColumnBody(c, ty) = ColumnBody(d, ty)
  <2>1. CASE ty.k = "option"
    BY <1>2, <2>1 DEF ColumnBody, Small
  <2>2. CASE ty.k # "option"
    BY <2>2 DEF ColumnBody, Small
  <2> QED
    BY <2>1, <2>2
<1>3. Descends(Type, Depth, Columns, V, F)
  <2>1. \A ty \in Type : V[ty] # {} /\ V[ty] \subseteq Columns
    BY DEF Columns
  <2>2. \A ty \in Type : \A c \in [Type -> Columns] : F[ty][c] = ColumnBody(c, ty)
    OBVIOUS
  <2>3. \A ty \in Type : \A c \in [Type -> Columns] : F[ty][c] \in V[ty]
    <3> HIDE DEF F
    <3> QED
      BY <1>1, <2>2, TypesNest
  <2>4. ASSUME NEW ty \in Type, NEW c \in [Type -> Columns], NEW d \in [Type -> Columns],
               \A y \in Type : Depth[y] < Depth[ty] => c[y] = d[y]
        PROVE  F[ty][c] = F[ty][d]
    <3>1. ty.k = "option" => c[ty.of] = d[ty.of]
      BY <2>4, TypesNest
    <3> HIDE DEF F
    <3> QED
      BY <1>2, <2>2, <3>1
  <2> HIDE DEF F, V
  <2> QED
    BY <2>1, <2>3, <2>4, TypesNest DEF Descends
<1>4. PICK f \in [Type -> Columns] : \A ty \in Type : f[ty] = F[ty][f]
  <2> HIDE DEF F, V
  <2> QED
    BY ONLY <1>3, Recursion
<1>5. Eq(f)
  <2>1. DOMAIN f = Type /\ f = [ty \in Type |-> f[ty]]
    OBVIOUS
  <2>2. \A ty \in Type : f[ty] = ColumnBody(f, ty)
    BY <1>4
  <2> QED
    BY <2>1, <2>2
<1>6. Eq(ColumnType)
  <2> HIDE DEF Eq
  <2>1. ColumnType = CHOOSE g : Eq(g)
    BY DEF ColumnType, Eq, ColumnBody
  <2> QED
    BY <1>5, <2>1
<1>7. \A ty \in Type : ColumnType[ty] = ColumnBody(ColumnType, ty)
  BY <1>6
<1> DEFINE S == {ty \in Type : ColumnType[ty] \in Columns}
<1>8. ASSUME NEW ty \in Type, \A y \in Type : Depth[y] < Depth[ty] => y \in S PROVE ty \in S
  <2>1. ty.k = "option" => ColumnType[ty.of] \in Columns
    BY <1>8, TypesNest
  <2> QED
    BY <1>1, <1>7, <2>1
<1>9. \A ty \in Type : ty \in S
  <2> HIDE DEF S
  <2> QED
    BY <1>8, DepthInduction, TypesNest
<1> QED
  BY <1>7, <1>9
-----------------------------------------------------------------------------
(* The Reader.                                                               *)
LEMMA SliceIs ==
    ASSUME NEW bytes \in Seq(Byte), NEW pos \in Nat, NEW n \in Nat, Has(bytes, pos, n)
    PROVE  /\ Slice(bytes, pos, n) \in Seq(Byte) /\ Len(Slice(bytes, pos, n)) = n
           /\ \A i \in 1..n : Slice(bytes, pos, n)[i] = bytes[pos + i]
<1>1. Len(bytes) \in Nat /\ pos + n <= Len(bytes)
  BY DEF Has
<1>2. \A i \in (pos + 1)..(pos + n) : bytes[i] \in Byte
  <2>1. \A i \in 1..Len(bytes) : bytes[i] \in Byte
    OBVIOUS
  <2> QED
    BY <1>1, <2>1
<1>3. pos + 1 \in Int /\ pos + n \in Int
  OBVIOUS
<1>4. /\ SubSeq(bytes, pos + 1, pos + n) \in Seq(Byte)
      /\ Len(SubSeq(bytes, pos + 1, pos + n))
           = IF pos + 1 <= pos + n THEN pos + n - (pos + 1) + 1 ELSE 0
      /\ \A i \in 1..pos + n - (pos + 1) + 1 :
           SubSeq(bytes, pos + 1, pos + n)[i] = bytes[pos + 1 + i - 1]
  BY ONLY <1>2, <1>3, SubSeqProperties
<1> DEFINE s == SubSeq(bytes, pos + 1, pos + n)
<1> HIDE DEF s
<1>5. Len(s) = n /\ \A i \in 1..n : s[i] = bytes[pos + i]
  BY <1>4 DEF s
<1> QED
  BY <1>4, <1>5 DEF s, Slice

LEMMA ReadLenIs ==
    ASSUME NEW bytes \in Seq(Byte), NEW pos \in Nat
    PROVE  ReadLen(bytes, pos).len \in Nat /\ ReadLen(bytes, pos).pos \in Nat
<1>1. LenWidth \in Nat
  BY DecoderAssumption DEF LenWidth, Fixed, Small
<1>2. CASE Has(bytes, pos, LenWidth)
  <2>1. Number(Slice(bytes, pos, LenWidth)) \in Nat
    BY <1>1, <1>2, SliceIs, NumberType
  <2> QED
    BY <1>1, <1>2, <2>1 DEF ReadLen
<1>3. CASE ~Has(bytes, pos, LenWidth)
  BY <1>3 DEF ReadLen
<1> QED
  BY <1>2, <1>3

LEMMA ScalarReads ==
    ASSUME NEW ty \in Type, ty.k \in Fixed, NEW bytes \in Seq(Byte)
    PROVE  Scalar(ty.k, bytes) \in Reads(ColumnType[ty])
<1> DEFINE
      k == ty.k
      n == Number(bytes)
      range == Power[Len(bytes)]
      int == IF k \in Signed /\ n >= range \div 2 THEN n - range ELSE n
<1>1. n \in Int /\ range \in Int
  <2>1. Len(bytes) \in Nat
    OBVIOUS
  <2> QED
    BY <2>1, NumberType, PowerDef
<1> HIDE DEF n, range
<1>2. int \in Int
  BY <1>1
<1> HIDE DEF int
<1>3. ColumnType[ty] = ColumnBody(ColumnType, ty)
  BY ColumnDef
<1>4. k \in {"bool"} \cup Small \cup Big \cup Floats \cup {"publicKey"}
  BY DEF Fixed
<1>5. CASE k = "bool"
  <2>1. ColumnType[ty] = "BOOLEAN"
    BY <1>3, <1>5 DEF ColumnBody, Small
  <2>2. Scalar(k, bytes) = Json("bool", n # 0)
    BY <1>5 DEF Scalar, Small, Big, Floats, n
  <2>3. Json("bool", TRUE) \in Reads("BOOLEAN") /\ Json("bool", FALSE) \in Reads("BOOLEAN")
    BY DEF Reads, Leaves
  <2>4. CASE n # 0
    <3>1. (n # 0) = TRUE
      BY <2>4
    <3> QED
      BY <2>1, <2>2, <2>3, <3>1
  <2>5. CASE n = 0
    <3>1. (n # 0) = FALSE
      BY <2>5
    <3> QED
      BY <2>1, <2>2, <2>3, <3>1
  <2> QED
    BY <2>4, <2>5
<1>6. CASE k \in Small
  <2>1. ColumnType[ty] = "INTEGER"
    BY <1>3, <1>6 DEF ColumnBody, Small
  <2>2. Scalar(k, bytes) = Json("number", int)
    BY <1>6 DEF Scalar, Small, Big, Floats, n, range, int
  <2>3. Json("number", int) \in Reads("INTEGER")
    BY <1>2 DEF Reads, Leaves
  <2> QED
    BY <2>1, <2>2, <2>3
<1>7. CASE k \in Big
  <2>1. ColumnType[ty] \in {"BIGINT", "NUMERIC"}
    BY <1>3, <1>7 DEF ColumnBody, Small, Big
  <2>2. Scalar(k, bytes) = Json("decimal", int)
    BY <1>7 DEF Scalar, Small, Big, Floats, n, range, int
  <2>3. Json("decimal", int) \in Leaves("decimal", Int)
    BY <1>2 DEF Leaves
  <2> QED
    BY <2>1, <2>2, <2>3 DEF Reads
<1>8. CASE k \in Floats
  <2>1. ColumnType[ty] \in {"REAL", "DOUBLE PRECISION"}
    BY <1>3, <1>8 DEF ColumnBody, Small, Floats
  <2>2. Scalar(k, bytes) = IF n = range - 1 THEN Null ELSE Json("float", n)
    BY <1>8 DEF Scalar, Small, Big, Floats, n, range
  <2>3. Json("float", n) \in Leaves("float", Int)
    BY <1>1 DEF Leaves
  <2> QED
    BY <2>1, <2>2, <2>3 DEF Reads
<1>9. CASE k = "publicKey"
  <2>1. ColumnType[ty] = "TEXT"
    BY <1>3, <1>9 DEF ColumnBody, Small
  <2>2. Scalar(k, bytes) = Json("key", bytes)
    BY <1>9 DEF Scalar, Small, Big, Floats
  <2>3. Json("key", bytes) \in Leaves("key", Seq(Byte))
    BY DEF Leaves
  <2> QED
    BY <2>1, <2>2, <2>3 DEF Reads
<1> QED
  BY <1>4, <1>5, <1>6, <1>7, <1>8, <1>9

LEMMA ReadFixedReads ==
    ASSUME NEW ty \in Type, ty.k \in Fixed, NEW bytes \in Seq(Byte), NEW pos \in Nat
    PROVE  ReadFixed(ty.k, bytes, pos) \in Reading(ColumnType[ty])
<1>1. Width[ty.k] \in Nat
  BY DecoderAssumption
<1>2. Null \in Reads(ColumnType[ty])
  BY ColumnDef, ReadsAreJson
<1>3. CASE Has(bytes, pos, Width[ty.k])
  <2>1. Slice(bytes, pos, Width[ty.k]) \in Seq(Byte)
    BY <1>1, <1>3, SliceIs
  <2>2. Scalar(ty.k, Slice(bytes, pos, Width[ty.k])) \in Reads(ColumnType[ty])
    BY <2>1, ScalarReads
  <2> QED
    BY <1>1, <1>3, <2>2 DEF ReadFixed, Got, Reading
<1>4. CASE ~Has(bytes, pos, Width[ty.k])
  BY <1>2, <1>4 DEF ReadFixed, Got, Reading
<1> QED
  BY <1>3, <1>4

LEMMA ReadTextReads ==
    ASSUME NEW ty \in Type, ty.k \in {"string", "bytes"},
           NEW bytes \in Seq(Byte), NEW pos \in Nat
    PROVE  ReadText(ty.k, bytes, pos) \in Reading(ColumnType[ty])
<1> DEFINE
      n == ReadLen(bytes, pos)
      text == Slice(bytes, n.pos, n.len)
      json == IF ty.k = "bytes" THEN Json("hex", text)
              ELSE IF Range(text) \cap NotUtf8 = {} THEN Json("string", text)
              ELSE Null
<1>1. n.len \in Nat /\ n.pos \in Nat
  BY ReadLenIs
<1>2. Null \in Reads(ColumnType[ty])
  BY ColumnDef, ReadsAreJson
<1>3. ColumnType[ty] = IF ty.k = "bytes" THEN "BYTEA" ELSE "TEXT"
  BY ColumnDef DEF ColumnBody, Small
<1> HIDE DEF n
<1>4. CASE Has(bytes, n.pos, n.len)
  <2>1. text \in Seq(Byte)
    BY <1>1, <1>4, SliceIs
  <2> HIDE DEF text
  <2>2. Json("hex", text) \in Reads("BYTEA") /\ Json("string", text) \in Reads("TEXT")
    BY <2>1 DEF Reads, Leaves
  <2>3. json \in Reads(ColumnType[ty])
    BY <1>2, <1>3, <2>2
  <2> HIDE DEF json
  <2>4. ReadText(ty.k, bytes, pos) \in {Got(Null, pos), Got(json, n.pos + n.len)}
    BY <1>4 DEF ReadText, n, text, json
  <2>5. /\ Got(Null, pos) \in Reading(ColumnType[ty])
        /\ Got(json, n.pos + n.len) \in Reading(ColumnType[ty])
    BY <1>1, <1>2, <2>3 DEF Got, Reading
  <2> QED
    BY <2>4, <2>5
<1>5. CASE ~Has(bytes, n.pos, n.len)
  <2>1. ReadText(ty.k, bytes, pos) \in {Got(Null, pos), Got(Null, n.pos)}
    BY <1>5 DEF ReadText, n
  <2>2. /\ Got(Null, pos) \in Reading(ColumnType[ty])
        /\ Got(Null, n.pos) \in Reading(ColumnType[ty])
    BY <1>1, <1>2 DEF Got, Reading
  <2> QED
    BY <2>1, <2>2
<1> QED
  BY <1>4, <1>5
-----------------------------------------------------------------------------
(* decode_type.                                                              *)

(* One after the other: at[i] is where the i-th stops.                       *)
Moves(decode, types, n, pos) ==
    /\ n \in Nat /\ DOMAIN types = 1..n /\ Len(types) = n /\ pos \in Nat
    /\ \A i \in 1..n : \A p \in Nat : decode[types[i]][p].pos \in Nat

Stops(decode, types, n, pos, at) ==
    /\ at \in [0..n -> Nat] /\ at[0] = pos
    /\ \A i \in 1..n : at[i] = decode[types[i]][at[i - 1]].pos
    /\ LET got == DecodeAll(decode, types, pos)
       IN  /\ got.pos = at[n]
           /\ got = [val |-> got.val, pos |-> got.pos]
           /\ DOMAIN got.val = 1..n /\ \E W : got.val \in [1..n -> W]
           /\ \A i \in 1..n : got.val[i] = decode[types[i]][at[i - 1]].val

LEMMA DecodeAllSteps ==
    ASSUME NEW decode, NEW types, NEW n, NEW pos, Moves(decode, types, n, pos)
    PROVE  \E at : Stops(decode, types, n, pos, at)
<1> DEFINE
      Step == [i \in 1..n |-> [p \in Nat |-> decode[types[i]][p].pos]]
      Eq(f) == f = [i \in 0..n |-> IF i = 0 THEN pos ELSE decode[types[i]][f[i - 1]].pos]
<1>0. /\ n \in Nat /\ DOMAIN types = 1..n /\ Len(types) = n /\ pos \in Nat
      /\ \A i \in 1..n : \A p \in Nat : decode[types[i]][p].pos \in Nat
  BY DEF Moves
<1> USE <1>0
<1>1. \A i \in 1..n : \A p \in Nat : /\ Step[i][p] = decode[types[i]][p].pos
                                    /\ Step[i][p] \in Nat
  OBVIOUS
<1> HIDE DEF Step
<1>2. Steps(n, Nat, pos, Step)
  BY <1>1 DEF Steps
<1>3. PICK f \in [0..n -> Nat] : f[0] = pos /\ \A i \in 1..n : f[i] = Step[i][f[i - 1]]
  BY ONLY <1>2, UpToRecursion
<1>4. \A i \in 1..n : f[i] = decode[types[i]][f[i - 1]].pos
  <2>1. \A i \in 1..n : f[i - 1] \in Nat
    <3>1. \A i \in 1..n : i - 1 \in 0..n
      OBVIOUS
    <3> QED
      BY <3>1
  <2> QED
    BY <1>1, <1>3, <2>1
<1>5. Eq(f)
  <2>1. \A i \in 0..n : i # 0 => i \in 1..n
    OBVIOUS
  <2>2. \A i \in 0..n : f[i] = IF i = 0 THEN pos ELSE decode[types[i]][f[i - 1]].pos
    BY <1>3, <1>4, <2>1
  <2>3. DOMAIN f = 0..n /\ f = [i \in 0..n |-> f[i]]
    OBVIOUS
  <2> QED
    BY <2>2, <2>3
<1> DEFINE at == CHOOSE g : Eq(g)
<1>6. Eq(at)
  <2> HIDE DEF Eq
  <2> QED
    BY <1>5
<1> DEFINE vs == [i \in 1..n |-> decode[types[i]][at[i - 1]].val]
<1>7. DecodeAll(decode, types, pos) = [val |-> vs, pos |-> at[n]]
  BY DEF DecodeAll
<1>a. /\ DOMAIN vs = 1..n /\ \E W : vs \in [1..n -> W]
      /\ \A i \in 1..n : vs[i] = decode[types[i]][at[i - 1]].val
  <2> HIDE DEF at
  <2>1. vs \in [1..n -> {vs[i] : i \in 1..n}]
    OBVIOUS
  <2> QED
    BY <2>1
<1> HIDE DEF at, vs
<1>8. at[0] = pos /\ \A i \in 1..n : at[i] = decode[types[i]][at[i - 1]].pos
  <2>1. 0 \in 0..n /\ \A i \in 1..n : i \in 0..n /\ i # 0
    OBVIOUS
  <2> QED
    BY <1>6, <2>1
<1> DEFINE Typed == {i \in 0..n : at[i] \in Nat}
<1>9. \A i \in 0..n : i \in Typed
  <2>1. 0 \in Typed
    BY <1>8
  <2>2. ASSUME NEW i \in 1..n, i - 1 \in Typed PROVE i \in Typed
    <3>1. at[i - 1] \in Nat /\ at[i] = decode[types[i]][at[i - 1]].pos /\ i \in 0..n
      BY <1>8, <2>2
    <3>2. at[i] \in Nat
      BY <3>1
    <3> QED
      BY <3>1, <3>2
  <2> HIDE DEF Typed
  <2> QED
    BY <2>1, <2>2, UpToInduction
<1>10. at \in [0..n -> Nat]
  <2>1. DOMAIN at = 0..n /\ at = [i \in 0..n |-> at[i]]
    BY <1>6
  <2> HIDE DEF Eq
  <2> QED
    BY <1>9, <2>1
<1>b. LET got == DecodeAll(decode, types, pos)
      IN  got.val = vs /\ got.pos = at[n] /\ got = [val |-> got.val, pos |-> got.pos]
  BY <1>7
<1>c. Stops(decode, types, n, pos, at)
  BY ONLY <1>8, <1>10, <1>a, <1>b DEF Stops
<1> QED
  BY <1>c

(* What the parts are read as.                                               *)
Reader(decode, ty) == \A p \in Nat : decode[ty][p] \in Reading(ColumnType[ty])

LEMMA DecodeAllReads ==
    ASSUME NEW decode, NEW types, NEW n \in Nat, NEW pos \in Nat,
           DOMAIN types = 1..n, Len(types) = n,
           \A i \in 1..n : types[i] \in Type /\ Reader(decode, types[i])
    PROVE  LET got == DecodeAll(decode, types, pos)
           IN  /\ got.pos \in Nat /\ got.val \in Seq(Seq(Node)) /\ Len(got.val) = n
               /\ DOMAIN got.val = 1..n
               /\ \A i \in 1..n : got.val[i] \in Reads(ColumnType[types[i]])
<1>1. \A i \in 1..n : \A p \in Nat : /\ decode[types[i]][p].pos \in Nat
                                    /\ decode[types[i]][p].val \in Reads(ColumnType[types[i]])
  BY DEF Reader, Reading
<1> DEFINE vs == DecodeAll(decode, types, pos).val
<1>2. PICK at : Stops(decode, types, n, pos, at)
  <2>1. Moves(decode, types, n, pos)
    BY <1>1 DEF Moves
  <2> QED
    BY <2>1, DecodeAllSteps
<1>a. /\ at \in [0..n -> Nat] /\ DecodeAll(decode, types, pos).pos = at[n]
      /\ DOMAIN vs = 1..n /\ \E W : vs \in [1..n -> W]
      /\ \A i \in 1..n : vs[i] = decode[types[i]][at[i - 1]].val
  BY <1>2 DEF Stops
<1> HIDE DEF vs
<1>3. \A i \in 1..n : vs[i] \in Reads(ColumnType[types[i]])
  <2>1. \A i \in 1..n : at[i - 1] \in Nat
    <3>1. \A i \in 1..n : i - 1 \in 0..n
      OBVIOUS
    <3> QED
      BY <1>a, <3>1
  <2> QED
    BY <1>1, <1>a, <2>1
<1>4. \A i \in 1..n : vs[i] \in Seq(Node)
  BY <1>3, ColumnDef, ReadsAreJson
<1>5. vs \in Seq(Seq(Node)) /\ Len(vs) = n /\ DOMAIN vs = 1..n
  <2>1. vs \in [1..n -> Seq(Node)]
    BY <1>a, <1>4
  <2> QED
    BY <2>1
<1>6. at[n] \in Nat
  BY <1>a
<1> QED
  BY <1>a, <1>3, <1>5, <1>6 DEF vs

LEMMA GroupReads ==
    ASSUME NEW shape \in {"array", "object"}, NEW got, got.pos \in Nat,
           got.val \in Seq(Seq(Node))
    PROVE  Group(shape, got) \in Reading("JSONB")
<1> DEFINE
      head == Json(shape, Len(got.val))
      tail == FlattenSeq(got.val)
<1>1. head \in Seq(Node) /\ head # <<>> /\ Shape(head) = shape
  <2>1. shape \in Shapes /\ Len(got.val) \in Int \cup BOOLEAN \cup Seq(Byte)
    BY DEF Shapes
  <2> QED
    BY <2>1, JsonParts
<1>2. tail \in Seq(Node)
  BY FlattenType
<1> HIDE DEF head, tail
<1>3. /\ head \o tail \in Seq(Node) /\ Len(head \o tail) = Len(head) + Len(tail)
      /\ \A i \in 1..Len(head) + Len(tail) :
           (head \o tail)[i] = IF i <= Len(head) THEN head[i] ELSE tail[i - Len(head)]
  BY <1>1, <1>2, ConcatProperties
<1>4. Len(head) \in Nat \ {0} /\ Len(tail) \in Nat
  BY <1>1, <1>2, EmptySeq
<1>5. head \o tail # <<>> /\ (head \o tail)[1] = head[1]
  BY <1>3, <1>4
<1>6. Shape(head \o tail) = shape
  BY <1>1, <1>3, <1>5 DEF Shape
<1>7. head \o tail \in Reads("JSONB")
  BY <1>3, <1>5, <1>6 DEF Reads
<1>8. Group(shape, got) = [val |-> head \o tail, pos |-> got.pos]
  BY DEF Group, Got, head, tail
<1> QED
  BY <1>7, <1>8 DEF Reading

LEMMA DecodeTypeReads ==
    ASSUME NEW decode, NEW ty \in Type, NEW bytes \in Seq(Byte), NEW pos \in Nat,
           \A y \in Type : Depth[y] < Depth[ty] => Reader(decode, y)
    PROVE  DecodeType(decode, ty, bytes, pos) \in Reading(ColumnType[ty])
<1> DEFINE k == ty.k
<1>0. ColumnType[ty] = ColumnBody(ColumnType, ty) /\ ColumnType[ty] \in Columns
  BY ColumnDef
<1>1. Null \in Reads(ColumnType[ty])
  BY <1>0, ReadsAreJson
<1>2. CASE k \in Fixed
  <2>1. DecodeType(decode, ty, bytes, pos) = ReadFixed(k, bytes, pos)
    BY <1>2 DEF DecodeType, Fixed, Small, Big, Floats
  <2> QED
    BY <1>2, <2>1, ReadFixedReads
<1>3. CASE k \in {"string", "bytes"}
  <2>1. DecodeType(decode, ty, bytes, pos) = ReadText(k, bytes, pos)
    BY <1>3 DEF DecodeType, Fixed, Small, Big, Floats
  <2> QED
    BY <1>3, <2>1, ReadTextReads
<1>4. CASE k \in {"vec", "array"}
  <2> DEFINE
        n == ReadLen(bytes, pos)
        len == IF k = "vec" THEN n.len ELSE ty.len
        start == IF k = "vec" THEN n.pos ELSE pos
        types == [i \in 1..len |-> ty.of]
  <2>1. DecodeType(decode, ty, bytes, pos) = Group("array", DecodeAll(decode, types, start))
    BY <1>4 DEF DecodeType, Fixed, Small, Big, Floats
  <2>2. len \in Nat /\ start \in Nat
    BY <1>4, ReadLenIs, TypesNest
  <2>3. ty.of \in Type /\ Reader(decode, ty.of)
    BY <1>4, TypesNest
  <2> HIDE DEF len, start
  <2>4. DOMAIN types = 1..len /\ Len(types) = len /\ \A i \in 1..len : types[i] = ty.of
    <3>1. DOMAIN types = 1..len /\ \A i \in 1..len : types[i] = ty.of
      OBVIOUS
    <3>2. types \in Seq({ty.of})
      BY <2>2
    <3> HIDE DEF types
    <3> QED
      BY <2>2, <3>1, <3>2
  <2> HIDE DEF types
  <2>5. LET got == DecodeAll(decode, types, start)
        IN  got.pos \in Nat /\ got.val \in Seq(Seq(Node))
    BY <2>2, <2>3, <2>4, DecodeAllReads
  <2>6. ColumnType[ty] = "JSONB"
    BY <1>0, <1>4 DEF ColumnBody, Small
  <2> QED
    BY <2>1, <2>5, <2>6, GroupReads
<1>5. CASE k = "option"
  <2> DEFINE tag == ReadFixed("u8", bytes, pos)
  <2>1. DecodeType(decode, ty, bytes, pos) \in {Got(Null, tag.pos), decode[ty.of][tag.pos]}
    BY <1>5 DEF DecodeType, Fixed, Small, Big, Floats
  <2>2. tag.pos \in Nat
    <3>1. Width["u8"] \in Nat
      BY DecoderAssumption
    <3> QED
      BY <3>1 DEF ReadFixed, Got
  <2> HIDE DEF tag
  <2>3. ColumnType[ty] = ColumnType[ty.of]
    BY <1>0, <1>5 DEF ColumnBody, Small
  <2>4. decode[ty.of][tag.pos] \in Reading(ColumnType[ty.of])
    BY <1>5, <2>2, TypesNest DEF Reader
  <2>5. Got(Null, tag.pos) \in Reading(ColumnType[ty])
    BY <1>1, <2>2 DEF Got, Reading
  <2> QED
    BY <2>1, <2>3, <2>4, <2>5
<1>6. CASE k \in {"defined", "OptionBool"}
  <2> DEFINE rest == Slice(bytes, pos, Len(bytes) - pos)
  <2>1. DecodeType(decode, ty, bytes, pos)
          = IF pos < Len(bytes) THEN Got(Json("raw", rest), Len(bytes)) ELSE Got(Null, pos)
    BY <1>6 DEF DecodeType, Fixed, Small, Big, Floats
  <2>2. ColumnType[ty] \in {"BOOLEAN", "JSONB"}
    BY <1>0, <1>6 DEF ColumnBody, Small
  <2>3. Got(Null, pos) \in Reading(ColumnType[ty])
    BY <1>1 DEF Got, Reading
  <2>4. ASSUME pos < Len(bytes) PROVE Got(Json("raw", rest), Len(bytes)) \in Reading(ColumnType[ty])
    <3>1. Len(bytes) \in Nat /\ Len(bytes) - pos \in Nat
      BY <2>4
    <3>2. Has(bytes, pos, Len(bytes) - pos)
      BY <3>1 DEF Has
    <3>3. rest \in Seq(Byte)
      BY <3>1, <3>2, SliceIs
    <3> HIDE DEF rest
    <3>4. Json("raw", rest) \in Leaves("raw", Seq(Byte))
      BY <3>3 DEF Leaves
    <3>5. Json("raw", rest) \in Reads(ColumnType[ty])
      BY <2>2, <3>4 DEF Reads
    <3> QED
      BY <3>1, <3>5 DEF Got, Reading
  <2> HIDE DEF rest
  <2> QED
    BY <2>1, <2>3, <2>4
<1>7. CASE k = "struct"
  <2>1. DecodeType(decode, ty, bytes, pos) = Group("object", DecodeAll(decode, ty.fields, pos))
    BY <1>7 DEF DecodeType, Fixed, Small, Big, Floats
  <2>2. /\ ty.fields \in Seq(Type)
        /\ \A i \in 1..Len(ty.fields) : ty.fields[i] \in Type /\ Reader(decode, ty.fields[i])
    BY <1>7, TypesNest
  <2>3. Len(ty.fields) \in Nat /\ DOMAIN ty.fields = 1..Len(ty.fields)
    BY <2>2
  <2>4. LET got == DecodeAll(decode, ty.fields, pos)
        IN  got.pos \in Nat /\ got.val \in Seq(Seq(Node))
    BY <2>2, <2>3, DecodeAllReads
  <2>5. ColumnType[ty] = "JSONB"
    BY <1>0, <1>7 DEF ColumnBody, Small
  <2> QED
    BY <2>1, <2>4, <2>5, GroupReads
<1>8. CASE k \notin Fixed \cup {"string", "bytes", "vec", "array", "option", "defined",
                                "OptionBool", "struct"}
  <2>1. DecodeType(decode, ty, bytes, pos) = Got(Null, pos)
    BY <1>8 DEF DecodeType
  <2> QED
    BY <1>1, <2>1 DEF Got, Reading
<1> QED
  BY <1>2, <1>3, <1>4, <1>5, <1>6, <1>7, <1>8

(* Readers that agree on the parts read the whole alike.                     *)
LEMMA DecodeAllSame ==
    ASSUME NEW d, NEW e, NEW types, NEW n, NEW pos,
           Moves(d, types, n, pos), Moves(e, types, n, pos),
           \A i \in 1..n : \A p \in Nat : d[types[i]][p] = e[types[i]][p]
    PROVE  DecodeAll(d, types, pos) = DecodeAll(e, types, pos)
<1>1. n \in Nat
  BY DEF Moves
<1>2. PICK at : Stops(d, types, n, pos, at)
  BY DecodeAllSteps
<1>3. PICK bt : Stops(e, types, n, pos, bt)
  BY DecodeAllSteps
<1> DEFINE S == {i \in 0..n : at[i] = bt[i]}
<1>4. 0 \in S
  BY <1>1, <1>2, <1>3 DEF Stops
<1>5. ASSUME NEW i \in 1..n, i - 1 \in S PROVE i \in S
  <2>1. i - 1 \in 0..n /\ i \in 0..n
    BY <1>1
  <2>2. at[i - 1] = bt[i - 1] /\ at[i - 1] \in Nat
    BY <1>2, <1>5, <2>1 DEF Stops
  <2>3. at[i] = d[types[i]][at[i - 1]].pos /\ bt[i] = e[types[i]][bt[i - 1]].pos
    BY <1>2, <1>3 DEF Stops
  <2> QED
    BY <2>1, <2>2, <2>3
<1>6. \A i \in 0..n : i \in S
  <2> HIDE DEF S
  <2> QED
    BY <1>1, <1>4, <1>5, UpToInduction
<1> DEFINE
      got == DecodeAll(d, types, pos)
      had == DecodeAll(e, types, pos)
<1>7. \A i \in 1..n : d[types[i]][at[i - 1]] = e[types[i]][bt[i - 1]]
  <2>1. \A i \in 1..n : i - 1 \in 0..n
    BY <1>1
  <2>2. \A i \in 1..n : at[i - 1] = bt[i - 1] /\ at[i - 1] \in Nat
    BY <1>2, <1>6, <2>1 DEF Stops
  <2> QED
    BY <2>2
<1>8. /\ got.pos = at[n] /\ got = [val |-> got.val, pos |-> got.pos]
      /\ DOMAIN got.val = 1..n /\ \E W : got.val \in [1..n -> W]
      /\ \A i \in 1..n : got.val[i] = d[types[i]][at[i - 1]].val
  BY <1>2 DEF Stops
<1>9. /\ had.pos = bt[n] /\ had = [val |-> had.val, pos |-> had.pos]
      /\ DOMAIN had.val = 1..n /\ \E W : had.val \in [1..n -> W]
      /\ \A i \in 1..n : had.val[i] = e[types[i]][bt[i - 1]].val
  BY <1>3 DEF Stops
<1> HIDE DEF got, had
<1>10. got.pos = had.pos
  <2>1. n \in 0..n
    BY <1>1
  <2> QED
    BY <1>6, <1>8, <1>9, <2>1
<1>11. got.val = had.val
  <2>1. \A i \in 1..n : got.val[i] = had.val[i]
    BY <1>7, <1>8, <1>9
  <2> DEFINE vs == got.val ws == had.val
  <2>2. \E W : vs \in [1..n -> W]
    BY <1>8
  <2>3. \E W : ws \in [1..n -> W]
    BY <1>9
  <2>4. \A i \in 1..n : vs[i] = ws[i]
    BY <2>1
  <2> HIDE DEF vs, ws
  <2>5. vs = [i \in 1..n |-> vs[i]] /\ ws = [i \in 1..n |-> ws[i]]
    BY ONLY <2>2, <2>3
  <2>6. vs = ws
    BY ONLY <2>4, <2>5
  <2> QED
    BY <2>6 DEF vs, ws
<1> QED
  BY <1>8, <1>9, <1>10, <1>11 DEF got, had

LEMMA DecodeTypeSame ==
    ASSUME NEW d, NEW e, NEW ty \in Type, NEW bytes \in Seq(Byte), NEW pos \in Nat,
           \A y \in Type : Depth[y] < Depth[ty] =>
               \A p \in Nat : d[y][p] = e[y][p] /\ d[y][p].pos \in Nat
    PROVE  DecodeType(d, ty, bytes, pos) = DecodeType(e, ty, bytes, pos)
<1> DEFINE k == ty.k
<1>1. ASSUME NEW y \in Type, Depth[y] < Depth[ty], NEW p \in Nat
      PROVE  d[y][p] = e[y][p] /\ d[y][p].pos \in Nat
  BY <1>1
<1>2. CASE k \in {"vec", "array"}
  <2> DEFINE
        n == ReadLen(bytes, pos)
        len == IF k = "vec" THEN n.len ELSE ty.len
        start == IF k = "vec" THEN n.pos ELSE pos
        types == [i \in 1..len |-> ty.of]
  <2>1. /\ DecodeType(d, ty, bytes, pos) = Group("array", DecodeAll(d, types, start))
        /\ DecodeType(e, ty, bytes, pos) = Group("array", DecodeAll(e, types, start))
    BY <1>2 DEF DecodeType, Fixed, Small, Big, Floats
  <2>2. len \in Nat /\ start \in Nat
    BY <1>2, ReadLenIs, TypesNest
  <2>3. ty.of \in Type /\ Depth[ty.of] < Depth[ty]
    BY <1>2, TypesNest
  <2> HIDE DEF len, start
  <2>4. DOMAIN types = 1..len /\ Len(types) = len /\ \A i \in 1..len : types[i] = ty.of
    <3>1. DOMAIN types = 1..len /\ \A i \in 1..len : types[i] = ty.of
      OBVIOUS
    <3>2. types \in Seq({ty.of})
      BY <2>2
    <3> HIDE DEF types
    <3> QED
      BY <2>2, <3>1, <3>2
  <2> HIDE DEF types
  <2>5. /\ Moves(d, types, len, start) /\ Moves(e, types, len, start)
        /\ \A i \in 1..len : \A p \in Nat : d[types[i]][p] = e[types[i]][p]
    BY <1>1, <2>2, <2>3, <2>4 DEF Moves
  <2>6. DecodeAll(d, types, start) = DecodeAll(e, types, start)
    BY <2>5, DecodeAllSame
  <2> QED
    BY <2>1, <2>6
<1>3. CASE k = "option"
  <2> DEFINE tag == ReadFixed("u8", bytes, pos)
  <2>1. \A f : DecodeType(f, ty, bytes, pos)
                 = IF Shape(tag.val) = "null" \/ Content(tag.val) = 0 THEN Got(Null, tag.pos)
                   ELSE f[ty.of][tag.pos]
    BY <1>3 DEF DecodeType, Fixed, Small, Big, Floats
  <2>2. tag.pos \in Nat
    <3>1. Width["u8"] \in Nat
      BY DecoderAssumption
    <3> QED
      BY <3>1 DEF ReadFixed, Got
  <2> HIDE DEF tag
  <2>3. d[ty.of][tag.pos] = e[ty.of][tag.pos]
    BY <1>1, <1>3, <2>2, TypesNest
  <2> QED
    BY <2>1, <2>3
<1>4. CASE k = "struct"
  <2>1. /\ DecodeType(d, ty, bytes, pos) = Group("object", DecodeAll(d, ty.fields, pos))
        /\ DecodeType(e, ty, bytes, pos) = Group("object", DecodeAll(e, ty.fields, pos))
    BY <1>4 DEF DecodeType, Fixed, Small, Big, Floats
  <2> DEFINE len == Len(ty.fields)
  <2>2. ty.fields \in Seq(Type) /\ \A i \in 1..len : /\ ty.fields[i] \in Type
                                                     /\ Depth[ty.fields[i]] < Depth[ty]
    BY <1>4, TypesNest
  <2>3. len \in Nat /\ DOMAIN ty.fields = 1..len
    BY <2>2
  <2>4. Len(ty.fields) = len
    OBVIOUS
  <2> HIDE DEF len
  <2>5. /\ Moves(d, ty.fields, len, pos) /\ Moves(e, ty.fields, len, pos)
        /\ \A i \in 1..len : \A p \in Nat : d[ty.fields[i]][p] = e[ty.fields[i]][p]
    BY <1>1, <2>2, <2>3, <2>4 DEF Moves
  <2>6. DecodeAll(d, ty.fields, pos) = DecodeAll(e, ty.fields, pos)
    BY <2>5, DecodeAllSame
  <2> QED
    BY <2>1, <2>6
<1>5. CASE k \notin {"vec", "array", "option", "struct"}
  BY <1>5 DEF DecodeType
<1> QED
  BY <1>2, <1>3, <1>4, <1>5

LEMMA DecodingDef ==
    ASSUME NEW bytes \in Seq(Byte)
    PROVE  \A ty \in Type : \A pos \in Nat :
               /\ Decoding(bytes)[ty][pos] = DecodeType(Decoding(bytes), ty, bytes, pos)
               /\ Decoding(bytes)[ty][pos] \in Reading(ColumnType[ty])
<1> DEFINE
      U == [Nat -> [val : Seq(Node), pos : Nat]]
      V == [ty \in Type |-> [Nat -> Reading(ColumnType[ty])]]
      Body(d, ty) == [pos \in Nat |-> DecodeType(d, ty, bytes, pos)]
      F == [ty \in Type |-> [d \in [Type -> U] |-> Body(d, ty)]]
      Eq(f) == f = [ty \in Type |-> [pos \in Nat |-> DecodeType(f, ty, bytes, pos)]]
<1>1. ASSUME NEW ty \in Type PROVE V[ty] # {} /\ V[ty] \subseteq U
  <2>1. ColumnType[ty] \in Columns
    BY ColumnDef
  <2>2. Reads(ColumnType[ty]) \subseteq Seq(Node) /\ Null \in Reads(ColumnType[ty])
    BY <2>1, ReadsAreJson
  <2>3. /\ Reading(ColumnType[ty]) \subseteq [val : Seq(Node), pos : Nat]
        /\ [val |-> Null, pos |-> 0] \in Reading(ColumnType[ty])
    BY <2>2 DEF Reading
  <2> DEFINE R == Reading(ColumnType[ty]) J == [val : Seq(Node), pos : Nat]
  <2>4. R \subseteq J /\ R # {}
    BY <2>3
  <2> HIDE DEF R, J
  <2>5. [Nat -> R] \subseteq [Nat -> J]
    BY <2>4
  <2>6. [p \in Nat |-> CHOOSE r \in R : TRUE] \in [Nat -> R]
    BY <2>4
  <2> QED
    BY <2>5, <2>6 DEF R, J
<1>2. ASSUME NEW ty \in Type, NEW d,
             \A y \in Type : Depth[y] < Depth[ty] => d[y] \in V[y]
      PROVE  Body(d, ty) \in V[ty]
  <2>1. ASSUME NEW y \in Type, Depth[y] < Depth[ty] PROVE Reader(d, y)
    <3>1. d[y] \in [Nat -> Reading(ColumnType[y])]
      BY <1>2, <2>1
    <3> QED
      BY <3>1 DEF Reader
  <2>2. \A pos \in Nat : DecodeType(d, ty, bytes, pos) \in Reading(ColumnType[ty])
    BY <2>1, DecodeTypeReads
  <2> QED
    BY <2>2
<1>3. ASSUME NEW ty \in Type, NEW d \in [Type -> U], NEW e \in [Type -> U],
             \A y \in Type : Depth[y] < Depth[ty] => d[y] = e[y]
      PROVE  Body(d, ty) = Body(e, ty)
  <2>1. ASSUME NEW y \in Type, Depth[y] < Depth[ty], NEW p \in Nat
        PROVE  d[y][p] = e[y][p] /\ d[y][p].pos \in Nat
    BY <1>3, <2>1
  <2>2. \A pos \in Nat : DecodeType(d, ty, bytes, pos) = DecodeType(e, ty, bytes, pos)
    BY <2>1, DecodeTypeSame
  <2> QED
    BY <2>2
<1>4. \A ty \in Type : \A d \in [Type -> U] : F[ty][d] = Body(d, ty)
  OBVIOUS
<1>5. Descends(Type, Depth, U, V, F)
  <2> HIDE DEF U, V, F, Body
  <2>1. \A ty \in Type : \A d \in [Type -> U] :
            (\A y \in Type : d[y] \in V[y]) => F[ty][d] \in V[ty]
    BY <1>2, <1>4
  <2>2. \A ty \in Type : \A d, e \in [Type -> U] :
            (\A y \in Type : Depth[y] < Depth[ty] => d[y] = e[y]) => F[ty][d] = F[ty][e]
    BY <1>3, <1>4
  <2> QED
    BY <1>1, <2>1, <2>2, TypesNest DEF Descends
<1>6. PICK f \in [Type -> U] : \A ty \in Type : f[ty] = F[ty][f]
  <2> HIDE DEF U, V, F
  <2> QED
    BY ONLY <1>5, Recursion
<1>7. Eq(f)
  <2>1. DOMAIN f = Type /\ f = [ty \in Type |-> f[ty]]
    OBVIOUS
  <2>2. \A ty \in Type : f[ty] = Body(f, ty)
    BY <1>4, <1>6
  <2> HIDE DEF F, U
  <2> QED
    BY <2>1, <2>2
<1> DEFINE c == CHOOSE g : Eq(g)
<1>8. Eq(c)
  <2> HIDE DEF Eq
  <2> QED
    BY <1>7
<1>9. Decoding(bytes) = c
  BY DEF Decoding
<1> HIDE DEF c
<1>10. \A ty \in Type : c[ty] = Body(c, ty)
  BY <1>8
<1> HIDE DEF Eq
<1> DEFINE S == {ty \in Type : c[ty] \in V[ty]}
<1>11. ASSUME NEW ty \in Type, \A y \in Type : Depth[y] < Depth[ty] => y \in S PROVE ty \in S
  <2> HIDE DEF V, Body
  <2> QED
    BY <1>2, <1>10, <1>11
<1>12. \A ty \in Type : ty \in S
  <2> HIDE DEF S
  <2> QED
    BY <1>11, DepthInduction, TypesNest
<1>13. ASSUME NEW ty \in Type, NEW pos \in Nat
       PROVE  /\ c[ty][pos] = DecodeType(c, ty, bytes, pos)
              /\ c[ty][pos] \in Reading(ColumnType[ty])
  <2>1. c[ty] \in [Nat -> Reading(ColumnType[ty])]
    BY <1>12
  <2> QED
    BY <1>10, <2>1
<1> QED
  BY <1>9, <1>13

(* The fields of an entry: one JSON value each, that its column can be for.  *)
LEMMA FieldsRead ==
    ASSUME NEW e \in Entry, NEW bytes \in Seq(Byte), Len(bytes) >= DiscLen
    PROVE  LET got == DecodeFields(e, bytes)
           IN  /\ got \in Seq(Seq(Node)) /\ Len(got) = Len(e.fields)
               /\ DOMAIN got = DOMAIN e.fields
               /\ \A i \in DOMAIN e.fields : got[i] \in Reads(ColumnType[e.fields[i]])
<1> DEFINE
      rest == SubSeq(bytes, DiscLen + 1, Len(bytes))
      n == Len(e.fields)
<1>1. rest \in Seq(Byte)
  <2>1. DiscLen \in Nat /\ Len(bytes) \in Nat
    BY DecoderAssumption
  <2>2. \A i \in (DiscLen + 1)..Len(bytes) : bytes[i] \in Byte
    <3>1. \A i \in 1..Len(bytes) : bytes[i] \in Byte
      OBVIOUS
    <3> QED
      BY <2>1, <3>1
  <2>3. DiscLen + 1 \in Int /\ Len(bytes) \in Int
    BY <2>1
  <2> QED
    BY ONLY <2>2, <2>3, SubSeqProperties
<1>2. e.fields \in Seq(Type) /\ n \in Nat /\ DOMAIN e.fields = 1..n
  BY DEF Entry
<1>3. \A i \in 1..n : e.fields[i] \in Type /\ Reader(Decoding(rest), e.fields[i])
  <2>1. \A i \in 1..n : e.fields[i] \in Type
    BY <1>2
  <2>2. \A ty \in Type : Reader(Decoding(rest), ty)
    BY <1>1, DecodingDef DEF Reader
  <2> QED
    BY <2>1, <2>2
<1>4. Len(e.fields) = n /\ 0 \in Nat
  OBVIOUS
<1> DEFINE got == DecodeAll(Decoding(rest), e.fields, 0)
<1> HIDE DEF n, rest
<1>5. /\ got.val \in Seq(Seq(Node)) /\ Len(got.val) = n /\ DOMAIN got.val = 1..n
      /\ \A i \in 1..n : got.val[i] \in Reads(ColumnType[e.fields[i]])
  <2> DEFINE types == e.fields d == Decoding(rest)
  <2>1. /\ n \in Nat /\ DOMAIN types = 1..n /\ Len(types) = n
        /\ \A i \in 1..n : types[i] \in Type /\ Reader(d, types[i])
    BY <1>2, <1>3, <1>4
  <2> HIDE DEF types, d
  <2>2. LET read == DecodeAll(d, types, 0)
        IN  /\ read.pos \in Nat /\ read.val \in Seq(Seq(Node)) /\ Len(read.val) = n
            /\ DOMAIN read.val = 1..n
            /\ \A i \in 1..n : read.val[i] \in Reads(ColumnType[types[i]])
    BY ONLY <2>1, <1>4, DecodeAllReads
  <2> QED
    BY <2>2 DEF types, d
<1>6. DecodeFields(e, bytes) = got.val
  BY DEF DecodeFields, rest
<1> HIDE DEF got
<1> QED
  BY <1>2, <1>4, <1>5, <1>6
-----------------------------------------------------------------------------
(* What the programs write.                                                  *)
Compound == {"vec", "array", "option", "struct"}

LEMMA WidthType ==
    /\ \A k \in Fixed : Width[k] \in Nat \ {0}
    /\ LenWidth \in Nat \ {0} /\ Width["bool"] = 1 /\ Width["u8"] = 1
<1>1. "u32" \in Fixed
  BY DEF Fixed, Small
<1> QED
  BY <1>1, DecoderAssumption DEF LenWidth

LEMMA ToBytesType ==
    ASSUME NEW n \in Int, NEW w \in Nat
    PROVE  /\ ToBytes(n, w) \in Seq(Byte) /\ Len(ToBytes(n, w)) = w
           /\ \A i \in 1..w : ToBytes(n, w)[i] = (n \div Power[i - 1]) % Radix
<1>1. ASSUME NEW i \in 1..w PROVE (n \div Power[i - 1]) % Radix \in Byte
  <2>1. Power[i - 1] \in Nat \ {0}
    BY PowerDef
  <2> DEFINE p == Power[i - 1] q == n \div p
  <2> HIDE DEF p
  <2>2. p \in Nat /\ p # 0
    BY <2>1 DEF p
  <2>3. q \in Int
    BY <2>2
  <2> HIDE DEF q
  <2>4. q % Radix \in 0..(Radix - 1)
    BY <2>3, DecoderAssumption
  <2> QED
    BY <2>4 DEF Byte, q, p
<1>2. ToBytes(n, w) \in [1..w -> Byte]
  BY <1>1 DEF ToBytes
<1>3. ToBytes(n, w) \in Seq(Byte) /\ Len(ToBytes(n, w)) = w
  BY <1>2
<1> QED
  BY <1>3 DEF ToBytes

LEMMA FitOf ==
    ASSUME NEW ty \in Type, NEW v \in Value[ty]
    PROVE  Fit(ty, v)
BY TypedRowAssumption

LEMMA PartsOf ==
    ASSUME NEW ty \in Type, NEW v \in Value[ty], ty.k \in Compound
    PROVE  /\ Len(v) \in Nat /\ DOMAIN v = 1..Len(v)
           /\ \A i \in 1..Len(v) : /\ Part(ty, i) \in Type /\ Depth[Part(ty, i)] < Depth[ty]
                                   /\ v[i] \in Value[Part(ty, i)]
<1>0. Fit(ty, v)
  BY FitOf
<1>1. CASE ty.k = "vec" \/ ty.k = "option"
  <2>1. v \in Seq(Value[ty.of])
    BY <1>0, <1>1 DEF Fit, Signed, Small, Big, Floats
  <2>2. ty.of \in Type /\ Depth[ty.of] < Depth[ty]
    BY <1>1, TypesNest
  <2> QED
    BY <1>1, <2>1, <2>2 DEF Part
<1>2. CASE ty.k = "array"
  <2>1. v \in [1..ty.len -> Value[ty.of]]
    BY <1>0, <1>2 DEF Fit, Signed, Small, Big, Floats
  <2>2. ty.of \in Type /\ Depth[ty.of] < Depth[ty] /\ ty.len \in Nat
    BY <1>2, TypesNest
  <2>3. v \in Seq(Value[ty.of])
    BY <2>1, <2>2
  <2> QED
    BY <1>2, <2>3, <2>2 DEF Part
<1>3. CASE ty.k = "struct"
  <2>1. /\ v = [i \in DOMAIN ty.fields |-> v[i]]
        /\ \A i \in DOMAIN v : v[i] \in Value[ty.fields[i]]
    BY <1>0, <1>3 DEF Fit, Signed, Small, Big, Floats
  <2> DEFINE n == Len(ty.fields)
  <2>2. /\ n \in Nat /\ DOMAIN ty.fields = 1..n
        /\ \A i \in 1..n : ty.fields[i] \in Type /\ Depth[ty.fields[i]] < Depth[ty]
    BY <1>3, TypesNest
  <2> HIDE DEF n
  <2>3. DOMAIN v = 1..n
    BY <2>1, <2>2
  <2>4. v \in Seq({v[i] : i \in 1..n})
    BY <2>1, <2>2
  <2>5. Len(v) = n
    BY <2>2, <2>3, <2>4
  <2> QED
    BY <1>3, <2>1, <2>2, <2>3, <2>5 DEF Part
<1> QED
  BY <1>1, <1>2, <1>3 DEF Compound

(* The parts of a value, each encoded, interpreted...                        *)
Parts(f, ty, v) == [i \in DOMAIN v |-> f[Part(ty, i)][v[i]]]

LEMMA PartsType ==
    ASSUME NEW ty \in Type, NEW v \in Value[ty], ty.k \in Compound, NEW f, NEW S,
           \A y \in Type : Depth[y] < Depth[ty] => f[y] \in [Value[y] -> Seq(S)]
    PROVE  /\ Parts(f, ty, v) \in Seq(Seq(S)) /\ Len(Parts(f, ty, v)) = Len(v)
           /\ \A i \in 1..Len(v) : Parts(f, ty, v)[i] = f[Part(ty, i)][v[i]]
           /\ FlattenSeq(Parts(f, ty, v)) \in Seq(S)
<1> DEFINE n == Len(v) ps == Parts(f, ty, v)
<1>1. /\ n \in Nat /\ DOMAIN v = 1..n
      /\ \A i \in 1..n : /\ Part(ty, i) \in Type /\ Depth[Part(ty, i)] < Depth[ty]
                         /\ v[i] \in Value[Part(ty, i)]
  BY PartsOf
<1> HIDE DEF n
<1>2. \A i \in 1..n : f[Part(ty, i)][v[i]] \in Seq(S)
  BY <1>1
<1>3. ps \in [1..n -> Seq(S)] /\ \A i \in 1..n : ps[i] = f[Part(ty, i)][v[i]]
  BY <1>1, <1>2 DEF Parts
<1> HIDE DEF ps
<1>4. ps \in Seq(Seq(S)) /\ Len(ps) = n
  BY <1>1, <1>3
<1>5. FlattenSeq(ps) \in Seq(S)
  BY <1>4, FlattenType
<1> QED
  BY <1>3, <1>4, <1>5 DEF ps, n

LEMMA PartsSame ==
    ASSUME NEW ty \in Type, NEW v \in Value[ty], ty.k \in Compound, NEW f, NEW g,
           \A y \in Type : Depth[y] < Depth[ty] => f[y] = g[y]
    PROVE  Parts(f, ty, v) = Parts(g, ty, v)
<1>1. /\ DOMAIN v = 1..Len(v)
      /\ \A i \in 1..Len(v) : Part(ty, i) \in Type /\ Depth[Part(ty, i)] < Depth[ty]
  BY PartsOf
<1> QED
  BY <1>1 DEF Parts

EncodeBody(f, ty, v) ==
    LET parts == FlattenSeq([i \in DOMAIN v |-> f[Part(ty, i)][v[i]]])
    IN  CASE ty.k = "bool" -> <<IF v THEN 1 ELSE 0>>
          [] ty.k \in Small \cup Big \cup Floats -> ToBytes(v, Width[ty.k])
          [] ty.k \in {"string", "bytes"} -> ToBytes(Len(v), LenWidth) \o v
          [] ty.k = "vec" -> ToBytes(Len(v), LenWidth) \o parts
          [] ty.k \in {"array", "struct"} -> parts
          [] ty.k = "option" -> <<Len(v)>> \o parts
          [] OTHER -> v

(* A value that is not made of parts: a number, or bytes.                    *)
LEMMA LeafIs ==
    ASSUME NEW ty \in Type, NEW v \in Value[ty], ty.k \notin Compound
    PROVE  /\ ty.k = "bool" => v \in BOOLEAN
           /\ ty.k \in Small \cup Big \cup Floats => v \in Int
           /\ ty.k \notin {"bool"} \cup Small \cup Big \cup Floats => v \in Seq(Byte)
<1>0. Fit(ty, v)
  BY FitOf
<1>1. CASE ty.k = "bool"
  BY <1>0, <1>1 DEF Fit, Signed, Small, Big, Floats
<1>2. CASE ty.k \in Signed
  <2>1. LET half == Power[Width[ty.k]] \div 2 IN v \in -half..(half - 1)
    BY <1>0, <1>2 DEF Fit, Signed
  <2>2. v \in Int
    BY <2>1
  <2> QED
    BY <1>2, <2>2 DEF Signed, Small, Big, Floats
<1>3. CASE ty.k \in (Small \cup Big \cup Floats) \ Signed
  <2>1. v \in 0..(Power[Width[ty.k]] - 1)
    BY <1>0, <1>3 DEF Fit, Small, Big, Floats
  <2> QED
    BY <1>3, <2>1 DEF Small, Big, Floats
<1>4. CASE ty.k = "publicKey"
  <2>1. v \in [1..Width[ty.k] -> Byte]
    BY <1>0, <1>4 DEF Fit, Signed, Small, Big, Floats
  <2>2. Width[ty.k] \in Nat
    BY <1>4, WidthType DEF Fixed
  <2>3. v \in Seq(Byte)
    BY <2>1, <2>2
  <2> QED
    BY <1>4, <2>3 DEF Small, Big, Floats
<1>5. CASE ty.k \notin {"bool", "publicKey"} \cup Signed \cup Small \cup Big \cup Floats
  <2>1. v \in Seq(Byte)
    BY <1>0, <1>5 DEF Fit, Compound
  <2> QED
    BY <1>5, <2>1
<1>6. Signed \subseteq Small \cup Big
  BY DEF Signed, Small, Big
<1> QED
  BY <1>1, <1>2, <1>3, <1>4, <1>5, <1>6

LEMMA EncodeBodyType ==
    ASSUME NEW ty \in Type, NEW v \in Value[ty], NEW f,
           \A y \in Type : Depth[y] < Depth[ty] => f[y] \in [Value[y] -> Seq(Byte)]
    PROVE  EncodeBody(f, ty, v) \in Seq(Byte)
<1>0. 0 \in Byte /\ 1 \in Byte
  BY DecoderAssumption DEF Byte
<1>1. \A x, y \in Seq(Byte) : x \o y \in Seq(Byte)
  OBVIOUS
<1>2. \A n \in Nat : ToBytes(n, LenWidth) \in Seq(Byte)
  BY ToBytesType, WidthType
<1>3. CASE ty.k \in Compound
  <2> DEFINE parts == FlattenSeq(Parts(f, ty, v))
  <2>1. parts \in Seq(Byte) /\ Len(v) \in Nat
    BY <1>3, PartsType, PartsOf
  <2>2. EncodeBody(f, ty, v) = CASE ty.k = "vec" -> ToBytes(Len(v), LenWidth) \o parts
                                 [] ty.k = "option" -> <<Len(v)>> \o parts
                                 [] OTHER -> parts
    BY <1>3 DEF EncodeBody, Compound, Small, Big, Floats, Parts
  <2>3. ty.k = "option" => Len(v) \in Byte
    <3>1. ty.k = "option" => Len(v) <= 1
      BY FitOf DEF Fit, Signed, Small, Big, Floats
    <3> QED
      BY <2>1, <3>1, DecoderAssumption DEF Byte
  <2> HIDE DEF parts
  <2>4. ty.k = "option" => <<Len(v)>> \in Seq(Byte)
    BY <2>3
  <2> QED
    BY <1>1, <1>2, <2>1, <2>2, <2>4
<1>4. CASE ty.k = "bool"
  <2>1. EncodeBody(f, ty, v) = <<IF v THEN 1 ELSE 0>>
    BY <1>4 DEF EncodeBody, Small, Big, Floats
  <2> DEFINE b == IF v THEN 1 ELSE 0
  <2>2. b \in Byte
    BY <1>0
  <2> HIDE DEF b
  <2>3. <<b>> \in Seq(Byte)
    BY <2>2
  <2> QED
    BY <2>1, <2>3 DEF b
<1>5. CASE ty.k \in Small \cup Big \cup Floats
  <2>1. EncodeBody(f, ty, v) = ToBytes(v, Width[ty.k])
    BY <1>5 DEF EncodeBody, Small, Big, Floats
  <2>2. v \in Int /\ Width[ty.k] \in Nat
    BY <1>5, LeafIs, WidthType DEF Small, Big, Floats, Compound, Fixed
  <2> QED
    BY <2>1, <2>2, ToBytesType
<1>6. CASE ty.k \notin Compound \cup {"bool"} \cup Small \cup Big \cup Floats
  <2>1. EncodeBody(f, ty, v) = IF ty.k \in {"string", "bytes"}
                               THEN ToBytes(Len(v), LenWidth) \o v ELSE v
    BY <1>6 DEF EncodeBody, Compound
  <2>2. v \in Seq(Byte) /\ Len(v) \in Nat
    BY <1>6, LeafIs
  <2> QED
    BY <1>1, <1>2, <2>1, <2>2
<1> QED
  BY <1>3, <1>4, <1>5, <1>6

LEMMA EncodeBodySame ==
    ASSUME NEW ty \in Type, NEW v \in Value[ty], NEW f, NEW g,
           \A y \in Type : Depth[y] < Depth[ty] => f[y] = g[y]
    PROVE  EncodeBody(f, ty, v) = EncodeBody(g, ty, v)
<1>1. CASE ty.k \in Compound
  <2>1. Parts(f, ty, v) = Parts(g, ty, v)
    BY <1>1, PartsSame
  <2> QED
    BY <2>1 DEF EncodeBody, Parts
<1>2. CASE ty.k \notin Compound
  BY <1>2 DEF EncodeBody, Compound
<1> QED
  BY <1>1, <1>2

LEMMA EncodeDef ==
    /\ Encode = [ty \in Type |-> Encode[ty]]
    /\ \A ty \in Type : /\ Encode[ty] \in [Value[ty] -> Seq(Byte)]
                        /\ \A v \in Value[ty] : Encode[ty][v] = EncodeBody(Encode, ty, v)
<1> DEFINE
      V == [ty \in Type |-> [Value[ty] -> Seq(Byte)]]
      U == UNION {V[ty] : ty \in Type}
      Body(f, ty) == [v \in Value[ty] |-> EncodeBody(f, ty, v)]
      F == [ty \in Type |-> [f \in [Type -> U] |-> Body(f, ty)]]
      Eq(f) == f = [ty \in Type |-> [v \in Value[ty] |-> EncodeBody(f, ty, v)]]
<1>1. ASSUME NEW ty \in Type PROVE V[ty] # {} /\ V[ty] \subseteq U
  <2>1. [v \in Value[ty] |-> <<>>] \in [Value[ty] -> Seq(Byte)]
    OBVIOUS
  <2> QED
    BY <2>1
<1>2. ASSUME NEW ty \in Type, NEW f, \A y \in Type : Depth[y] < Depth[ty] => f[y] \in V[y]
      PROVE  Body(f, ty) \in V[ty]
  <2>1. \A y \in Type : Depth[y] < Depth[ty] => f[y] \in [Value[y] -> Seq(Byte)]
    BY <1>2
  <2>2. \A v \in Value[ty] : EncodeBody(f, ty, v) \in Seq(Byte)
    BY <2>1, EncodeBodyType
  <2> QED
    BY <2>2
<1>3. ASSUME NEW ty \in Type, NEW f, NEW g, \A y \in Type : Depth[y] < Depth[ty] => f[y] = g[y]
      PROVE  Body(f, ty) = Body(g, ty)
  <2>1. \A v \in Value[ty] : EncodeBody(f, ty, v) = EncodeBody(g, ty, v)
    BY <1>3, EncodeBodySame
  <2> QED
    BY <2>1
<1>4. \A ty \in Type : \A f \in [Type -> U] : F[ty][f] = Body(f, ty)
  OBVIOUS
<1>5. Descends(Type, Depth, U, V, F)
  <2> HIDE DEF U, V, F, Body
  <2>1. \A ty \in Type : \A f \in [Type -> U] :
            (\A y \in Type : f[y] \in V[y]) => F[ty][f] \in V[ty]
    BY <1>2, <1>4
  <2>2. \A ty \in Type : \A f, g \in [Type -> U] :
            (\A y \in Type : Depth[y] < Depth[ty] => f[y] = g[y]) => F[ty][f] = F[ty][g]
    BY <1>3, <1>4
  <2> QED
    BY <1>1, <2>1, <2>2, TypesNest DEF Descends
<1>6. PICK f \in [Type -> U] : \A ty \in Type : f[ty] = F[ty][f]
  <2> HIDE DEF U, V, F
  <2> QED
    BY ONLY <1>5, Recursion
<1>7. Eq(f)
  <2>1. DOMAIN f = Type /\ f = [ty \in Type |-> f[ty]]
    OBVIOUS
  <2>2. \A ty \in Type : f[ty] = Body(f, ty)
    BY <1>4, <1>6
  <2> HIDE DEF F, U
  <2> QED
    BY <2>1, <2>2
<1>8. Eq(Encode)
  <2> HIDE DEF Eq
  <2>1. Encode = CHOOSE g : Eq(g)
    BY DEF Encode, Eq, EncodeBody
  <2> QED
    BY <1>7, <2>1
<1>9. Encode = [ty \in Type |-> Encode[ty]] /\ \A ty \in Type : Encode[ty] = Body(Encode, ty)
  BY <1>8
<1> HIDE DEF Eq
<1> DEFINE S == {ty \in Type : Encode[ty] \in V[ty]}
<1>10. ASSUME NEW ty \in Type, \A y \in Type : Depth[y] < Depth[ty] => y \in S PROVE ty \in S
  <2> HIDE DEF V, Body
  <2> QED
    BY <1>2, <1>9, <1>10
<1>11. \A ty \in Type : ty \in S
  <2> HIDE DEF S
  <2> QED
    BY <1>10, DepthInduction, TypesNest
<1> QED
  BY <1>9, <1>11

LEMMA EncodeAllType ==
    ASSUME NEW types \in Seq(Type), NEW v,
           \A i \in 1..Len(types) : v[i] \in Value[types[i]]
    PROVE  /\ EncodeAll(types, v) \in Seq(Byte)
           /\ [i \in DOMAIN types |-> Encode[types[i]][v[i]]] \in Seq(Seq(Byte))
<1> DEFINE
      n == Len(types)
      ps == [i \in DOMAIN types |-> Encode[types[i]][v[i]]]
<1>1. n \in Nat /\ DOMAIN types = 1..n /\ \A i \in 1..n : types[i] \in Type
  OBVIOUS
<1>2. \A i \in 1..n : Encode[types[i]][v[i]] \in Seq(Byte)
  BY <1>1, EncodeDef
<1> HIDE DEF n
<1>3. ps \in [1..n -> Seq(Byte)]
  BY <1>1, <1>2
<1>4. ps \in Seq(Seq(Byte))
  <2> HIDE DEF ps
  <2> QED
    BY <1>1, <1>3
<1> HIDE DEF ps
<1>5. FlattenSeq(ps) \in Seq(Byte)
  BY <1>4, FlattenType
<1> QED
  BY <1>4, <1>5 DEF EncodeAll, ps

LEMMA DiscType ==
    ASSUME NEW e \in Entry
    PROVE  DiscOf(e) \in Seq(Byte) /\ Len(DiscOf(e)) = DiscLen
<1> DEFINE
      parts == [i \in DOMAIN e.disc |->
                  IF e.disc[i] < 0 THEN <<>> ELSE <<e.disc[i] % Radix>>]
      bytes == FlattenSeq(parts)
<1>1. bytes \in Seq(Byte)
  <2>1. e.disc \in Seq(Int) /\ Radix \in Nat /\ Radix # 0
    BY DecoderAssumption DEF Entry
  <2>2. DOMAIN e.disc = 1..Len(e.disc) /\ Len(e.disc) \in Nat
    BY <2>1
  <2>3. \A i \in 1..Len(e.disc) : e.disc[i] % Radix \in Byte
    BY <2>1 DEF Byte
  <2>4. \A i \in 1..Len(e.disc) :
            (IF e.disc[i] < 0 THEN <<>> ELSE <<e.disc[i] % Radix>>) \in Seq(Byte)
    BY <2>3
  <2>5. parts \in [1..Len(e.disc) -> Seq(Byte)]
    BY <2>2, <2>4
  <2> HIDE DEF parts
  <2>6. parts \in Seq(Seq(Byte))
    BY <2>2, <2>5
  <2> QED
    BY <2>6, FlattenType
<1>2. e.hash \in Seq(Byte) /\ Len(e.hash) = DiscLen
  <2>1. e.hash \in [1..DiscLen -> Byte] /\ DiscLen \in Nat
    BY DecoderAssumption DEF Entry
  <2> QED
    BY <2>1
<1>3. DiscOf(e) = IF Len(bytes) = DiscLen THEN bytes ELSE e.hash
  BY DEF DiscOf
<1> HIDE DEF bytes
<1> QED
  BY <1>1, <1>2, <1>3
-----------------------------------------------------------------------------
(* A parameter and its column.                                               *)
LEMMA BindIs ==
    ASSUME NEW json
    PROVE  LET shape == Shape(json)
               v == Content(json)
           IN  /\ shape = "bool" => BindValue(json) = Param("bool", v)
               /\ shape = "number" => BindValue(json) = Param("int8", v)
               /\ shape = "float" => BindValue(json) = Param("float8", v)
               /\ shape = "decimal" =>
                    BindValue(json) = IF Fits("i64", v) THEN Param("int8", v)
                                                        ELSE Param("text", json)
               /\ shape = "string" =>
                    BindValue(json) = IF IsNumeral(v) THEN Param("int8", 0)
                                                       ELSE Param("text", json)
               /\ shape = "raw" =>
                    BindValue(json) = IF Len(v) = 1 THEN Param("bool", v = <<1>>)
                                                    ELSE Param("jsonb", json)
               /\ shape \in {"key", "hex"} => BindValue(json) = Param("text", json)
               /\ shape \in {"null", "array", "object"} => BindValue(json) = Param("jsonb", json)
<1> DEFINE shape == Shape(json) v == Content(json)
<1>1. shape \in {"bool", "number", "float"} =>
          BindValue(json) = Param(CASE shape = "bool" -> "bool" [] shape = "number" -> "int8"
                                    [] OTHER -> "float8", v)
  BY DEF BindValue, IsFlag, IsInteger
<1>2. shape = "decimal" => BindValue(json) = IF Fits("i64", v) THEN Param("int8", v)
                                                              ELSE Param("text", json)
  <2>1. SUFFICES ASSUME shape = "decimal"
                 PROVE  BindValue(json) = IF Fits("i64", v) THEN Param("int8", v)
                                                            ELSE Param("text", json)
    OBVIOUS
  <2>2. ~IsFlag(json) /\ (IsInteger(json) <=> Fits("i64", v))
    BY <2>1 DEF IsFlag, IsInteger
  <2>3. CASE IsInteger(json)
    <3>1. BindValue(json) = Param("int8", IF shape = "decimal" THEN v ELSE 0)
      BY <2>1, <2>2, <2>3 DEF BindValue
    <3> QED
      BY <2>1, <2>2, <2>3, <3>1
  <2>4. CASE ~IsInteger(json)
    <3>1. BindValue(json) = Param("text", json)
      BY <2>1, <2>2, <2>4 DEF BindValue
    <3> QED
      BY <2>2, <2>4, <3>1
  <2> QED
    BY <2>3, <2>4
<1>3. shape = "string" => BindValue(json) = IF IsNumeral(v) THEN Param("int8", 0)
                                                           ELSE Param("text", json)
  <2>1. SUFFICES ASSUME shape = "string"
                 PROVE  BindValue(json) = IF IsNumeral(v) THEN Param("int8", 0)
                                                          ELSE Param("text", json)
    OBVIOUS
  <2>2. ~IsFlag(json) /\ (IsInteger(json) <=> IsNumeral(v))
    BY <2>1 DEF IsFlag, IsInteger
  <2>3. CASE IsInteger(json)
    <3>1. BindValue(json) = Param("int8", IF shape = "decimal" THEN v ELSE 0)
      BY <2>1, <2>2, <2>3 DEF BindValue
    <3> QED
      BY <2>1, <2>2, <2>3, <3>1
  <2>4. CASE ~IsInteger(json)
    <3>1. BindValue(json) = Param("text", json)
      BY <2>1, <2>2, <2>4 DEF BindValue
    <3> QED
      BY <2>2, <2>4, <3>1
  <2> QED
    BY <2>3, <2>4
<1>4. shape = "raw" => BindValue(json) = IF Len(v) = 1 THEN Param("bool", v = <<1>>)
                                                      ELSE Param("jsonb", json)
  BY DEF BindValue, IsFlag, IsInteger
<1>5. shape \in {"key", "hex"} => BindValue(json) = Param("text", json)
  BY DEF BindValue, IsFlag, IsInteger
<1>6. shape \in {"null", "array", "object"} => BindValue(json) = Param("jsonb", json)
  BY DEF BindValue, IsFlag, IsInteger
<1> QED
  BY <1>1, <1>2, <1>3, <1>4, <1>5, <1>6

(* No digit and no sign is a NUL.                                            *)
LEMMA NumeralNul ==
    ASSUME NEW text \in Seq(Byte), IsNumeral(text)
    PROVE  Nul \notin Range(text)
<1>1. Nul # Digit /\ Nul # Sign
  BY TypedRowAssumption
<1>2. CASE text # <<>> /\ Head(text) = Sign
  <2>1. Range(Tail(text)) = {Digit}
    BY <1>2 DEF IsNumeral
  <2>2. \A i \in DOMAIN text : text[i] = Head(text) \/ text[i] \in Range(Tail(text))
    <3>1. SUFFICES ASSUME NEW i \in 1..Len(text), i # 1
                   PROVE  text[i] \in Range(Tail(text))
      BY <1>2
    <3>2. i - 1 \in DOMAIN Tail(text) /\ Tail(text)[i - 1] = text[i]
      BY <1>2, <3>1
    <3> QED
      BY <3>2 DEF Range
  <2> QED
    BY <1>1, <1>2, <2>1, <2>2 DEF Range
<1>3. CASE ~(text # <<>> /\ Head(text) = Sign)
  BY <1>1, <1>3 DEF IsNumeral
<1> QED
  BY <1>2, <1>3

LEMMA LeafNul ==
    ASSUME NEW shape, NEW v
    PROVE  HasNul(Json(shape, v)) <=> shape = "string" /\ Nul \in Range(v)
<1>1. DOMAIN Json(shape, v) = {1} /\ Json(shape, v)[1] = [j |-> shape, v |-> v]
  BY JsonParts
<1> QED
  BY <1>1 DEF HasNul

(* What may be read for a column, shape by shape.                            *)
LEMMA ReadsCases ==
    ASSUME NEW column \in Columns, NEW json \in Reads(column)
    PROVE  \/ json = Null
           \/ column = "BOOLEAN" /\ \E v \in BOOLEAN : json = Json("bool", v)
           \/ column \in {"BOOLEAN", "JSONB"} /\ \E v \in Seq(Byte) : json = Json("raw", v)
           \/ column = "INTEGER" /\ \E v \in Int : json = Json("number", v)
           \/ column \in {"BIGINT", "NUMERIC"} /\ \E v \in Int : json = Json("decimal", v)
           \/ column \in {"REAL", "DOUBLE PRECISION"} /\ \E v \in Int : json = Json("float", v)
           \/ column = "TEXT" /\ \E v \in Seq(Byte) : json = Json("string", v)
           \/ column = "TEXT" /\ \E v \in Seq(Byte) : json = Json("key", v)
           \/ column = "BYTEA" /\ \E v \in Seq(Byte) : json = Json("hex", v)
           \/ column = "JSONB" /\ json \in Seq(Node) /\ Shape(json) \in {"array", "object"}
BY DEF Columns, Reads, Leaves

LEMMA OnlyNull ==
    ASSUME NEW column \in Columns, NEW json \in Reads(column), Shape(json) = "null"
    PROVE  json = Null
<1>1. ASSUME NEW s \in {"bool", "raw", "number", "decimal", "float", "string", "key", "hex"},
             NEW w
      PROVE  json # Json(s, w)
  BY <1>1, JsonParts
<1> QED
  BY <1>1, ReadsCases

(* Why PostgreSQL refuses a value that is bound.                             *)
CauseOf(column, json) ==
    LET shape == Shape(json)
        v == Content(json)
    IN  \/ shape = "null" /\ column \notin {"TEXT", "JSONB"}
        \/ shape = "number" /\ ~Fits("i32", v)
        \/ shape = "decimal" /\ ~Fits("i64", v)
        \/ shape = "hex" \/ HasNul(json)
        \/ shape = "raw" /\ (column = "BOOLEAN" <=> Len(v) # 1)

(* What becomes of one that is not refused.                                  *)
Restored(column, json) ==
    LET got == ReadsBack(column, BindValue(json))
    IN  \/ Same(got, json)
        \/ column = "TEXT" /\ Shape(json) = "string" /\ IsNumeral(Content(json))
        \/ column = "TEXT" /\ Shape(json) = "null"
        \/ column = "BOOLEAN" /\ Shape(json) = "raw" /\ Len(Content(json)) = 1

LEMMA FieldOutcome ==
    ASSUME NEW column \in Columns, NEW json \in Reads(column)
    PROVE  /\ Accepts(column, BindValue(json)) <=> ~CauseOf(column, json)
           /\ Accepts(column, BindValue(json)) => Restored(column, json)
<1> DEFINE shape == Shape(json) v == Content(json) p == BindValue(json)
<1>c. /\ \A c : c \in Casts["bool"] <=> c \in {"BOOLEAN", "TEXT"}
      /\ \A c : c \in Casts["int8"] <=> c \in Numeric \cup {"TEXT"}
      /\ \A c : c \in Casts["float8"] <=> c \in Numeric \cup {"TEXT"}
      /\ \A c : c \in Casts["text"] <=> c = "TEXT"
      /\ \A c : c \in Casts["jsonb"] <=> c \in {"JSONB", "TEXT"}
  BY DEF Casts
<1>p. \A type, value : Param(type, value).pg = type /\ Param(type, value).v = value
  BY DEF Param
<1>s. \A s, w : Shape(Json(s, w)) = s /\ Content(Json(s, w)) = w
  BY JsonParts
<1>n. {"INTEGER", "BIGINT", "NUMERIC", "REAL", "DOUBLE PRECISION"} \subseteq Numeric
  BY DEF Numeric
<1>1. CASE json = Null
  <2>1. shape = "null" /\ p = Param("jsonb", json) /\ ~HasNul(json)
    BY <1>1, <1>s, BindIs, LeafNul DEF Null
  <2>2. Accepts(column, p) <=> column \in {"JSONB", "TEXT"}
    BY <1>c, <1>p, <2>1 DEF Accepts
  <2>3. CauseOf(column, json) <=> column \notin {"JSONB", "TEXT"}
    BY <2>1 DEF CauseOf
  <2>4. ReadsBack(column, p) = IF column = "TEXT" THEN Json("word", "null") ELSE json
    BY <1>p, <2>1 DEF ReadsBack
  <2>5. Restored(column, json)
    BY <2>1, <2>4 DEF Restored, Same
  <2> QED
    BY <2>2, <2>3, <2>5
<1>2. CASE column = "BOOLEAN" /\ \E w \in BOOLEAN : json = Json("bool", w)
  <2>1. shape = "bool" /\ p = Param("bool", v) /\ ~HasNul(json) /\ json = Json("bool", v)
    BY <1>2, <1>s, BindIs, LeafNul
  <2>2. Accepts(column, p) /\ ~CauseOf(column, json)
    BY <1>2, <1>c, <1>p, <2>1 DEF Accepts, CauseOf
  <2>3. ReadsBack(column, p) = json
    BY <1>2, <1>p, <2>1 DEF ReadsBack
  <2> QED
    BY <2>2, <2>3 DEF Restored, Same
<1>3. CASE column \in {"BOOLEAN", "JSONB"} /\ \E w \in Seq(Byte) : json = Json("raw", w)
  <2>1. /\ shape = "raw" /\ ~HasNul(json)
        /\ p = IF Len(v) = 1 THEN Param("bool", v = <<1>>) ELSE Param("jsonb", json)
    BY <1>3, <1>s, BindIs, LeafNul
  <2>2. CASE Len(v) = 1
    <3>1. Accepts(column, p) <=> column = "BOOLEAN"
      BY <1>3, <1>c, <1>p, <2>1, <2>2 DEF Accepts
    <3>2. CauseOf(column, json) <=> column # "BOOLEAN"
      BY <2>1, <2>2 DEF CauseOf
    <3> QED
      BY <2>1, <2>2, <3>1, <3>2 DEF Restored
  <2>3. CASE Len(v) # 1
    <3>1. Accepts(column, p) <=> column = "JSONB"
      BY <1>3, <1>c, <1>p, <2>1, <2>3 DEF Accepts
    <3>2. CauseOf(column, json) <=> column = "BOOLEAN"
      BY <2>1, <2>3 DEF CauseOf
    <3>3. column = "JSONB" => ReadsBack(column, p) = json
      BY <1>p, <2>1, <2>3 DEF ReadsBack
    <3> QED
      BY <1>3, <3>1, <3>2, <3>3 DEF Restored, Same
  <2> QED
    BY <2>2, <2>3
<1>4. CASE column = "INTEGER" /\ \E w \in Int : json = Json("number", w)
  <2>1. shape = "number" /\ p = Param("int8", v) /\ ~HasNul(json) /\ json = Json("number", v)
    BY <1>4, <1>s, BindIs, LeafNul
  <2>2. Accepts(column, p) <=> Fits("i32", v)
    <3>1. p.pg = "int8" /\ p.v = v /\ column \in Casts["int8"]
      BY <1>4, <1>c, <1>n, <1>p, <2>1
    <3> QED
      BY ONLY <1>4, <3>1 DEF Accepts
  <2>3. CauseOf(column, json) <=> ~Fits("i32", v)
    BY <2>1 DEF CauseOf
  <2>4. ReadsBack(column, p) = json
    BY <1>4, <1>p, <2>1 DEF ReadsBack
  <2> QED
    BY <2>2, <2>3, <2>4 DEF Restored, Same
<1>5. CASE column \in {"BIGINT", "NUMERIC"} /\ \E w \in Int : json = Json("decimal", w)
  <2>1. /\ shape = "decimal" /\ ~HasNul(json)
        /\ p = IF Fits("i64", v) THEN Param("int8", v) ELSE Param("text", json)
    BY <1>5, <1>s, BindIs, LeafNul
  <2>2. Accepts(column, p) <=> Fits("i64", v)
    <3>1. CASE Fits("i64", v)
      <4>1. p.pg = "int8" /\ column \in Casts["int8"]
        BY <1>5, <1>c, <1>n, <1>p, <2>1, <3>1
      <4> QED
        BY ONLY <1>5, <3>1, <4>1 DEF Accepts
    <3>2. CASE ~Fits("i64", v)
      <4>1. p.pg = "text" /\ column \notin Casts["text"]
        BY <1>5, <1>c, <1>p, <2>1, <3>2
      <4> QED
        BY ONLY <3>2, <4>1 DEF Accepts
    <3> QED
      BY <3>1, <3>2
  <2>3. CauseOf(column, json) <=> ~Fits("i64", v)
    BY <2>1 DEF CauseOf
  <2>4. Fits("i64", v) => ReadsBack(column, p) = Json("number", v)
    BY <1>5, <1>p, <2>1 DEF ReadsBack
  <2>5. Fits("i64", v) => Same(ReadsBack(column, p), json)
    <3>1. Shape(Json("number", v)) = "number" /\ Content(Json("number", v)) = v
      BY <1>s
    <3> QED
      BY <2>1, <2>4, <3>1 DEF Same
  <2> QED
    BY <2>2, <2>3, <2>5 DEF Restored
<1>6. CASE column \in {"REAL", "DOUBLE PRECISION"} /\ \E w \in Int : json = Json("float", w)
  <2>0. json = Json("float", v) /\ shape = "float"
    BY <1>6, <1>s
  <2>1. p = Param("float8", v) /\ ~HasNul(json)
    BY <2>0, BindIs, LeafNul
  <2>2. Accepts(column, p) /\ ~CauseOf(column, json)
    <3>1. p.pg = "float8" /\ column \in Casts["float8"] /\ column # "INTEGER"
      BY <1>6, <1>c, <1>n, <1>p, <2>1
    <3>2. Accepts(column, p)
      BY ONLY <3>1 DEF Accepts
    <3>3. ~CauseOf(column, json)
      BY ONLY <2>0, <2>1 DEF CauseOf
    <3> QED
      BY <3>2, <3>3
  <2>3. ReadsBack(column, p) = json
    <3>1. p.pg = "float8" /\ p.v = v
      BY <1>p, <2>1
    <3> QED
      BY ONLY <2>0, <3>1 DEF ReadsBack
  <2> QED
    BY <2>2, <2>3 DEF Restored, Same
<1>7. CASE column = "TEXT" /\ \E w \in Seq(Byte) : json = Json("string", w)
  <2>1. /\ shape = "string" /\ (HasNul(json) <=> Nul \in Range(v))
        /\ p = IF IsNumeral(v) THEN Param("int8", 0) ELSE Param("text", json)
    BY <1>7, <1>s, BindIs, LeafNul
  <2>2. CASE IsNumeral(v)
    <3>1. Nul \notin Range(v)
      BY <1>7, <1>s, <2>2, NumeralNul
    <3>2. Accepts(column, p) /\ ~CauseOf(column, json)
      BY <1>7, <1>c, <1>p, <2>1, <2>2, <3>1 DEF Accepts, CauseOf
    <3> QED
      BY <1>7, <2>1, <2>2, <3>2 DEF Restored
  <2>3. CASE ~IsNumeral(v)
    <3>1. Accepts(column, p) <=> ~HasNul(json)
      BY <1>7, <1>c, <1>p, <2>1, <2>3 DEF Accepts
    <3>2. CauseOf(column, json) <=> HasNul(json)
      BY <2>1 DEF CauseOf
    <3>3. ReadsBack(column, p) = json
      BY <1>p, <2>1, <2>3 DEF ReadsBack
    <3> QED
      BY <3>1, <3>2, <3>3 DEF Restored, Same
  <2> QED
    BY <2>2, <2>3
<1>8. CASE column = "TEXT" /\ \E w \in Seq(Byte) : json = Json("key", w)
  <2>1. shape = "key" /\ p = Param("text", json) /\ ~HasNul(json)
    BY <1>8, <1>s, BindIs, LeafNul
  <2>2. Accepts(column, p) /\ ~CauseOf(column, json)
    BY <1>8, <1>c, <1>p, <2>1 DEF Accepts, CauseOf
  <2>3. ReadsBack(column, p) = json
    BY <1>p, <2>1 DEF ReadsBack
  <2> QED
    BY <2>2, <2>3 DEF Restored, Same
<1>9. CASE column = "BYTEA" /\ \E w \in Seq(Byte) : json = Json("hex", w)
  <2>1. shape = "hex" /\ p = Param("text", json)
    BY <1>9, <1>s, BindIs
  <2>2. ~Accepts(column, p) /\ CauseOf(column, json)
    BY <1>9, <1>c, <1>p, <2>1 DEF Accepts, CauseOf
  <2> QED
    BY <2>2
<1>10. CASE column = "JSONB" /\ json \in Seq(Node) /\ shape \in {"array", "object"}
  <2>1. p = Param("jsonb", json)
    BY <1>10, BindIs
  <2>2. Accepts(column, p) <=> ~HasNul(json)
    BY <1>10, <1>c, <1>p, <2>1 DEF Accepts
  <2>3. CauseOf(column, json) <=> HasNul(json)
    BY <1>10 DEF CauseOf
  <2>4. ReadsBack(column, p) = json
    BY <1>10, <1>p, <2>1 DEF ReadsBack
  <2> QED
    BY <2>2, <2>3, <2>4 DEF Restored, Same
<1> QED
  BY <1>1, <1>2, <1>3, <1>4, <1>5, <1>6, <1>7, <1>8, <1>9, <1>10, ReadsCases
-----------------------------------------------------------------------------
(* The invariant: the data are bytes, and once decoded there is one value    *)
(* per field of the handler's entry, of a shape its column is made for.      *)
RowInv ==
    /\ kind \in DOMAIN Entries /\ data \in Seq(Byte)
    /\ pc \in {"arrived", "unknown", "decoded", "stored", "refused"}
    /\ Decoded => /\ entry \in DOMAIN Entries[kind]
                  /\ Len(vals) = Len(Fields) /\ DOMAIN vals = DOMAIN Fields
                  /\ \A i \in DOMAIN vals : /\ Column(i) \in Columns
                                            /\ vals[i] \in Reads(Column(i))
    /\ pc \in {"arrived", "unknown", "decoded"} => stale = {}
    /\ Decoded => stale \subseteq Unsteady
    /\ pc = "stored" => /\ ~Refused(Inserted \ stale)
                        /\ row = [i \in DOMAIN vals |-> Taken(i, stale)]
    /\ pc = "refused" => Refused(Inserted \ stale) \/ stale # {}

LEMMA EntryIs ==
    ASSUME NEW k \in DOMAIN Entries, NEW e \in DOMAIN Entries[k]
    PROVE  /\ e \in Nat /\ Entries[k][e] \in Entry
           /\ Entries[k][e].fields \in Seq(Type)
<1>1. Entries[k] \in Seq(Entry)
  BY TypedRowAssumption
<1>2. e \in Nat /\ Entries[k][e] \in Entry
  BY <1>1
<1> QED
  BY <1>2 DEF Entry

LEMMA MessageIs ==
    ASSUME NEW k \in DOMAIN Entries, NEW m \in Messages[k]
    PROVE  LET e == Entries[k][m.entry]
           IN  /\ m.entry \in DOMAIN Entries[k] /\ e \in Entry /\ e.fields \in Seq(Type)
               /\ DOMAIN m.vals = 1..Len(e.fields)
               /\ \A i \in 1..Len(e.fields) : m.vals[i] \in Value[e.fields[i]]
<1> DEFINE types == Entries[k][m.entry].fields
<1>1. /\ m.entry \in DOMAIN Entries[k] /\ DOMAIN m.vals = DOMAIN types
      /\ \A i \in DOMAIN types : m.vals[i] \in Value[types[i]]
  BY TypedRowAssumption
<1>2. Entries[k][m.entry] \in Entry /\ types \in Seq(Type)
  BY <1>1, EntryIs
<1>3. DOMAIN types = 1..Len(types)
  BY <1>2
<1> QED
  BY <1>1, <1>2, <1>3

LEMMA ArrivalsAreBytes ==
    ASSUME NEW k \in DOMAIN Entries, NEW m \in Messages[k]
    PROVE  Arrivals(k, m) \subseteq Seq(Byte)
<1> DEFINE
      e == Entries[k][m.entry]
      all == DiscOf(e) \o EncodeAll(e.fields, m.vals)
<1>1. DiscOf(e) \in Seq(Byte) /\ EncodeAll(e.fields, m.vals) \in Seq(Byte)
  BY MessageIs, DiscType, EncodeAllType
<1> HIDE DEF e
<1>2. all \in Seq(Byte)
  BY <1>1
<1>3. Arrivals(k, m) = {SubSeq(all, 1, n) : n \in DiscLen..Len(all)} \cup {all \o p : p \in Pads}
  BY DEF Arrivals, e
<1> HIDE DEF all
<1>4. \A n \in DiscLen..Len(all) : SubSeq(all, 1, n) \in Seq(Byte)
  <2>1. SUFFICES ASSUME NEW n \in DiscLen..Len(all) PROVE SubSeq(all, 1, n) \in Seq(Byte)
    OBVIOUS
  <2>2. n \in Int /\ 1 \in Int /\ \A i \in 1..n : all[i] \in Byte
    <3>1. Len(all) \in Nat /\ DiscLen \in Nat /\ \A i \in 1..Len(all) : all[i] \in Byte
      BY <1>2, DecoderAssumption
    <3> QED
      BY <3>1
  <2> QED
    BY ONLY <2>2, SubSeqProperties
<1>5. \A p \in Pads : all \o p \in Seq(Byte)
  BY <1>2, TypedRowAssumption
<1> QED
  BY <1>3, <1>4, <1>5

LEMMA JunkIsBytes ==
    Junk \subseteq Seq(Byte)
<1>1. \A n \in Nat : [1..n -> Byte] \subseteq Seq(Byte)
  OBVIOUS
<1>2. \A n \in 0..JunkLen : n \in Nat
  BY TypedRowAssumption
<1> QED
  BY <1>1, <1>2 DEF Junk

LEMMA RowInvInit ==
    ASSUME Init
    PROVE  RowInv
<1>1. kind \in DOMAIN Entries /\ pc = "arrived" /\ stale = {}
  BY DEF Init
<1>2. data \in Seq(Byte)
  <2>1. CASE sent \in Messages[kind] /\ data \in Arrivals(kind, sent)
    BY <1>1, <2>1, ArrivalsAreBytes
  <2>2. CASE data \in Junk
    BY <2>2, JunkIsBytes
  <2> QED
    BY <2>1, <2>2 DEF Init
<1> QED
  BY <1>1, <1>2 DEF RowInv, Decoded

LEMMA RowInvStep ==
    ASSUME RowInv, [Next]_vars
    PROVE  RowInv'
<1>0. kind \in DOMAIN Entries /\ data \in Seq(Byte)
  BY DEF RowInv
<1>1. CASE NoHandler
  BY <1>0, <1>1 DEF NoHandler, RowInv, Decoded
<1>2. CASE Decode
  <2>1. PICK i \in Matching(Entries[kind], data) :
            entry' = i /\ vals' = DecodeFields(Entries[kind][i], data)
    BY <1>2 DEF Decode
  <2>2. UNCHANGED <<kind, data>> /\ pc' = "decoded" /\ stale' = {}
    BY <1>2 DEF Decode, RowInv
  <2>3. i \in DOMAIN Entries[kind] /\ Len(data) >= DiscLen
    BY DEF Matching
  <2> DEFINE e == Entries[kind][i]
  <2>4. e \in Entry /\ e.fields \in Seq(Type)
    BY <1>0, <2>3, EntryIs
  <2> HIDE DEF e
  <2>5. /\ Len(vals') = Len(e.fields) /\ DOMAIN vals' = DOMAIN e.fields
        /\ \A f \in DOMAIN e.fields : vals'[f] \in Reads(ColumnType[e.fields[f]])
    BY <1>0, <2>1, <2>3, <2>4, FieldsRead DEF e
  <2>6. Fields' = e.fields
    BY <2>1, <2>2 DEF Fields, e
  <2>7. \A f \in DOMAIN e.fields : Column(f)' = ColumnType[e.fields[f]]
    BY <2>6 DEF Column
  <2>8. \A f \in DOMAIN e.fields : ColumnType[e.fields[f]] \in Columns
    BY <2>4, ColumnDef
  <2> QED
    BY <1>0, <2>1, <2>2, <2>3, <2>5, <2>6, <2>7, <2>8 DEF RowInv
<1>3. CASE InsertRow
  <2>1. /\ UNCHANGED <<kind, data, blockTime, entry, vals>> /\ pc' = "stored" /\ pc = "decoded"
        /\ stale' \subseteq Unsteady /\ ~Refused(Inserted \ stale')
        /\ row' = [i \in DOMAIN vals |-> Taken(i, stale')]
    BY <1>3 DEF InsertRow
  <2>2. Decoded
    BY <2>1 DEF Decoded
  <2>3. /\ Inserted' = Inserted /\ Fields' = Fields /\ \A i : Column(i)' = Column(i)
        /\ Unsteady' = Unsteady /\ (~Refused(Inserted \ stale))'
        /\ (row = [i \in DOMAIN vals |-> Taken(i, stale)])'
    BY <2>1 DEF Inserted, Fields, Refused, Column, Unsteady, Taken
  <2> QED
    BY <1>0, <2>1, <2>2, <2>3 DEF RowInv
<1>4. CASE InsertRefused
  <2>1. /\ UNCHANGED <<kind, data, blockTime, entry, vals>> /\ pc' = "refused" /\ pc = "decoded"
        /\ stale' \subseteq Unsteady /\ (Refused(Inserted \ stale') \/ stale' # {})
    BY <1>4 DEF InsertRefused
  <2>2. Decoded
    BY <2>1 DEF Decoded
  <2>3. /\ Fields' = Fields /\ \A i : Column(i)' = Column(i)
        /\ Unsteady' = Unsteady /\ (Refused(Inserted \ stale) \/ stale # {})'
    BY <2>1 DEF Inserted, Fields, Refused, Column, Unsteady
  <2> QED
    BY <1>0, <2>1, <2>2, <2>3 DEF RowInv
<1>5. CASE UNCHANGED vars
  BY <1>5 DEF vars, RowInv, Decoded, Fields, Column, Refused, Inserted, Unsteady, Taken
<1> QED
  BY <1>1, <1>2, <1>3, <1>4, <1>5 DEF Next

(* For every IDL and all data: what decode gives has one value per field of  *)
(* the handler's entry, each of a shape that the field's column is made for, *)
(* and a row is stored or refused according to the casts and to what the     *)
(* statement sqlx keeps was prepared for, which alone may misread a field.   *)
THEOREM RowInvariant == Spec => []RowInv
<1>1. Init => RowInv
  BY RowInvInit
<1>2. RowInv /\ [Next]_vars => RowInv'
  BY RowInvStep
<1> QED
  BY <1>1, <1>2, PTL DEF Spec

(* The types: a decoded row has the fields of the entry that took the data.  *)
THEOREM TypeCorrect == Spec => []TypeOK
<1>1. RowInv => stale \subseteq DOMAIN vals
  BY DEF RowInv, Decoded, Unsteady, Inserted
<1>2. RowInv => TypeOK
  BY <1>1 DEF RowInv, TypeOK, Decoded
<1> QED
  BY <1>2, RowInvariant, PTL

(* Whatever the IDL, the data and the statements sqlx keeps, a row that is   *)
(* stored holds what was decoded, but for the alterations the property names. *)
THEOREM RowReadsBack == Spec => []StoredReadsBack
<1>1. ASSUME RowInv, pc = "stored", NEW i \in DOMAIN vals
      PROVE  \/ Same(row[i], vals[i])
             \/ /\ Column(i) = "TEXT" /\ Shape(vals[i]) = "string"
                /\ IsNumeral(Content(vals[i]))
             \/ Column(i) = "TEXT" /\ Shape(vals[i]) = "null" /\ kind = "acc"
             \/ Column(i) = "BOOLEAN" /\ Shape(vals[i]) = "raw" /\ Len(Content(vals[i])) = 1
             \/ Column(i) = "TEXT" /\ i \in stale
  <2>1. /\ Column(i) \in Columns /\ vals[i] \in Reads(Column(i))
        /\ row[i] = Taken(i, stale) /\ stale \subseteq Unsteady /\ ~Refused(Inserted \ stale)
    BY <1>1 DEF RowInv, Decoded
  <2>2. CASE i \in Inserted \ stale
    <3>1. row[i] = ReadsBack(Column(i), BindValue(vals[i])) /\ Accepts(Column(i), BindValue(vals[i]))
      BY <2>1, <2>2 DEF Taken, Refused
    <3>2. Restored(Column(i), vals[i])
      BY <2>1, <3>1, FieldOutcome
    <3>3. Shape(vals[i]) = "null" => kind = "acc"
      BY <2>2 DEF Inserted
    <3> QED
      BY <3>1, <3>2, <3>3 DEF Restored
  <2>3. CASE i \notin Inserted /\ i \notin stale
    <3>1. row[i] = Null /\ Shape(vals[i]) = "null"
      BY <1>1, <2>1, <2>3 DEF Taken, Inserted
    <3>2. vals[i] = Null
      BY <2>1, <3>1, OnlyNull
    <3> QED
      BY <3>1, <3>2 DEF Same
  <2>4. CASE i \in stale
    BY <2>1, <2>4 DEF Unsteady
  <2> QED
    BY <2>2, <2>3, <2>4
<1>2. RowInv => StoredReadsBack
  BY <1>1 DEF StoredReadsBack
<1> QED
  BY <1>2, RowInvariant, PTL

(* A value has one of the causes if and only if no column takes it.          *)
LEMMA CauseIs ==
    ASSUME RowInv, Decoded, NEW i \in DOMAIN vals
    PROVE  Cause(i) <=> i \in Inserted /\ ~Accepts(Column(i), BindValue(vals[i]))
<1>1. Column(i) \in Columns /\ vals[i] \in Reads(Column(i))
  BY DEF RowInv
<1>2. Accepts(Column(i), BindValue(vals[i])) <=> ~CauseOf(Column(i), vals[i])
  BY <1>1, FieldOutcome
<1>3. CASE Shape(vals[i]) = "null"
  <2>1. vals[i] = Null
    BY <1>1, <1>3, OnlyNull
  <2>2. ~HasNul(vals[i])
    BY <2>1, LeafNul DEF Null
  <2>3. Cause(i) <=> kind = "acc" /\ Column(i) \notin {"TEXT", "JSONB"}
    BY <1>3, <2>2 DEF Cause
  <2>4. CauseOf(Column(i), vals[i]) <=> Column(i) \notin {"TEXT", "JSONB"}
    BY <1>3, <2>2 DEF CauseOf
  <2>5. i \in Inserted <=> kind = "acc"
    BY <1>3 DEF Inserted
  <2> QED
    BY <1>2, <2>3, <2>4, <2>5
<1>4. CASE Shape(vals[i]) # "null"
  <2>1. Cause(i) <=> CauseOf(Column(i), vals[i])
    BY <1>4 DEF Cause, CauseOf
  <2>2. i \in Inserted
    BY <1>4 DEF Inserted
  <2> QED
    BY <1>2, <2>1, <2>2
<1> QED
  BY <1>3, <1>4

(* Whatever the IDL, the data and the statements sqlx keeps: a row that is   *)
(* refused has no time, a value with one of the causes the property names,   *)
(* or a text or key whose placeholder was prepared for another type; one     *)
(* that is stored has a time, and a cause at no other placeholder.           *)
THEOREM RefusedForCause == Spec => []RefusalHasCause
<1>1. ASSUME RowInv, pc = "refused"
      PROVE  \/ kind = "ix" /\ ~blockTime
             \/ \E i \in DOMAIN vals : Cause(i) \/ (i \in stale /\ Column(i) = "TEXT")
  <2>1. Decoded /\ stale \subseteq Unsteady /\ (Refused(Inserted \ stale) \/ stale # {})
    BY <1>1 DEF RowInv, Decoded
  <2>2. CASE stale # {}
    BY <2>1, <2>2 DEF Unsteady, Inserted
  <2>3. CASE Refused(Inserted \ stale)
    BY <1>1, <2>1, <2>3, CauseIs DEF Refused, Inserted
  <2> QED
    BY <2>1, <2>2, <2>3
<1>2. ASSUME RowInv, pc = "stored"
      PROVE  /\ kind = "ix" => blockTime
             /\ \A i \in DOMAIN vals : Cause(i) => i \in stale
  <2>1. Decoded /\ ~Refused(Inserted \ stale)
    BY <1>2 DEF RowInv, Decoded
  <2> QED
    BY <1>2, <2>1, CauseIs DEF Refused
<1>3. RowInv => RefusalHasCause
  BY <1>1, <1>2 DEF RefusalHasCause
<1> QED
  BY <1>3, RowInvariant, PTL
-----------------------------------------------------------------------------
(* What the programs write is what is read: numbers.                         *)
LEMMA Remainder ==
    ASSUME NEW a \in Int, NEW b \in Nat \ {0}, NEW q \in Int, NEW r \in Int,
           a = b * q + r, 0 <= r, r < b
    PROVE  a % b = r /\ a \div b = q
<1> DEFINE p == a \div b s == a % b
<1>1. p \in Int /\ s \in Int /\ a = b * p + s /\ 0 <= s /\ s < b
  OBVIOUS
<1> HIDE DEF p, s
<1>2. CASE p <= q - 1
  <2>1. b * p <= b * (q - 1)
    BY <1>1, <1>2
  <2>2. b * (q - 1) = b * q - b
    OBVIOUS
  <2>3. b * q \in Int /\ b * p \in Int
    BY <1>1
  <2> QED
    BY <1>1, <2>1, <2>2, <2>3
<1>3. CASE q <= p - 1
  <2>1. b * q <= b * (p - 1)
    BY <1>1, <1>3
  <2>2. b * (p - 1) = b * p - b
    BY <1>1
  <2>3. b * q \in Int /\ b * p \in Int
    BY <1>1
  <2> QED
    BY <1>1, <2>1, <2>2, <2>3
<1>4. CASE p = q
  <2>1. b * q \in Int
    OBVIOUS
  <2> QED
    BY <1>1, <1>4, <2>1 DEF p, s
<1> QED
  BY <1>1, <1>2, <1>3, <1>4

LEMMA NumberOfBytes ==
    ASSUME NEW n \in Int, NEW w \in Nat
    PROVE  Number(ToBytes(n, w)) = n % Power[w]
<1> DEFINE bytes == ToBytes(n, w)
<1>1. bytes \in Seq(Byte) /\ Len(bytes) = w
      /\ \A i \in 1..w : bytes[i] = (n \div Power[i - 1]) % Radix
  BY ToBytesType
<1> HIDE DEF bytes
<1>2. PICK f \in [0..w -> Nat] :
          /\ f[0] = 0 /\ Number(bytes) = f[w]
          /\ \A i \in 1..w : f[i] = f[i - 1] + bytes[i] * Power[i - 1]
  BY <1>1, NumberSteps
<1> DEFINE S == {i \in 0..w : f[i] = n % Power[i]}
<1>3. 0 \in S
  <2>1. Power[0] = 1
    BY PowerDef
  <2>2. n % 1 = 0
    OBVIOUS
  <2> QED
    BY <1>2, <2>1, <2>2
<1>4. ASSUME NEW i \in 1..w, i - 1 \in S PROVE i \in S
  <2> DEFINE
        P == Power[i - 1]
        q == n \div P
        r == n % P
        d == q % Radix
        t == q \div Radix
  <2>1. P \in Nat \ {0} /\ Power[i] = Radix * P /\ Radix \in Nat \ {0}
    <3>1. i - 1 \in Nat /\ i \in Nat /\ i # 0
      OBVIOUS
    <3> QED
      BY <3>1, PowerDef, DecoderAssumption
  <2> HIDE DEF P
  <2>2. q \in Int /\ r \in Int /\ n = P * q + r /\ 0 <= r /\ r < P
    BY <2>1
  <2> HIDE DEF q, r
  <2>3. t \in Int /\ d \in Int /\ q = Radix * t + d /\ 0 <= d /\ d < Radix
    BY <2>1, <2>2
  <2>4. f[i] = r + d * P
    BY <1>1, <1>2, <1>4 DEF P, q, r
  <2> HIDE DEF d, t
  <2> DEFINE b == Radix * P m == r + d * P
  <2>5. b \in Nat \ {0} /\ m \in Int /\ 0 <= m
    BY <2>1, <2>2, <2>3
  <2>6. n = b * t + m
    <3>1. P * q = P * (Radix * t + d)
      BY <2>3
    <3>2. P * (Radix * t + d) = (Radix * P) * t + d * P
      BY <2>1, <2>3
    <3>3. P * q \in Int /\ (Radix * P) * t \in Int /\ d * P \in Int
      BY <2>1, <2>2, <2>3
    <3> QED
      BY <2>2, <3>1, <3>2, <3>3
  <2>7. m < b
    <3>1. d <= Radix - 1
      BY <2>1, <2>3
    <3>2. d * P <= (Radix - 1) * P
      BY <2>1, <2>3, <3>1
    <3>3. (Radix - 1) * P = Radix * P - P
      BY <2>1
    <3>4. d * P \in Int /\ Radix * P \in Int
      BY <2>1, <2>3
    <3> QED
      BY <2>1, <2>2, <3>2, <3>3, <3>4
  <2> HIDE DEF b, m
  <2>8. n % b = m
    BY <2>3, <2>5, <2>6, <2>7, Remainder
  <2>9. f[i] = n % Power[i]
    BY <2>1, <2>4, <2>8 DEF b, m
  <2> QED
    BY <2>9
<1>5. \A i \in 0..w : i \in S
  <2> HIDE DEF S
  <2> QED
    BY <1>3, <1>4, UpToInduction
<1>6. w \in S
  BY <1>5
<1> QED
  BY <1>2, <1>6 DEF bytes

LEMMA NumberRead ==
    ASSUME NEW n \in Nat, NEW w \in Nat, n < Power[w]
    PROVE  Number(ToBytes(n, w)) = n
<1>1. Power[w] \in Nat \ {0}
  BY PowerDef
<1> DEFINE p == Power[w]
<1> HIDE DEF p
<1>2. n % p = n
  <2>1. n = p * 0 + n /\ p \in Nat \ {0} /\ n < p
    BY <1>1 DEF p
  <2> QED
    BY <2>1, Remainder
<1> QED
  BY <1>2, NumberOfBytes DEF p

(* Two's complement.                                                         *)
LEMMA SignedRead ==
    ASSUME NEW n \in Int, NEW w \in Nat,
           LET half == Power[w] \div 2 IN n \in -half..(half - 1)
    PROVE  LET m == Number(ToBytes(n, w))
               range == Power[w]
           IN  (IF m >= range \div 2 THEN m - range ELSE m) = n
<1> DEFINE p == Power[w] half == p \div 2 m == n % p
<1>1. p \in Nat \ {0}
  BY PowerDef
<1> HIDE DEF p
<1>2. half \in Int /\ 2 * half <= p /\ n >= -half /\ n <= half - 1
  BY <1>1 DEF p
<1> HIDE DEF half
<1>3. Number(ToBytes(n, w)) = m
  BY NumberOfBytes DEF p
<1>4. CASE n >= 0
  <2>1. n = p * 0 + n /\ n < p
    BY <1>1, <1>2
  <2>2. m = n
    BY <1>1, <1>4, <2>1, Remainder
  <2> QED
    BY <1>2, <1>3, <1>4, <2>2 DEF p, half
<1>5. CASE n < 0
  <2>1. n = p * (-1) + (n + p) /\ 0 <= n + p /\ n + p < p
    BY <1>1, <1>2, <1>5
  <2> DEFINE q == -1 r == n + p
  <2>2. m = n + p
    <3>1. q \in Int /\ r \in Int /\ n = p * q + r /\ 0 <= r /\ r < p
      BY <1>1, <2>1
    <3> HIDE DEF q, r
    <3>2. m = r
      BY <1>1, <3>1, Remainder
    <3> QED
      BY <3>2 DEF r
  <2>3. m >= half
    BY <1>1, <1>2, <2>2
  <2>4. m - p = n
    BY <1>1, <2>2
  <2> HIDE DEF m
  <2> QED
    BY <1>3, <2>3, <2>4 DEF p, half
<1> QED
  BY <1>4, <1>5
-----------------------------------------------------------------------------
(* The bytes that stand in the data at a position.                           *)
At(rest, pos, bytes) ==
    /\ Has(rest, pos, Len(bytes))
    /\ \A j \in 1..Len(bytes) : rest[pos + j] = bytes[j]

LEMMA AtSlice ==
    ASSUME NEW rest \in Seq(Byte), NEW pos \in Nat, NEW bytes \in Seq(Byte), At(rest, pos, bytes)
    PROVE  Slice(rest, pos, Len(bytes)) = bytes
<1> DEFINE n == Len(bytes) s == Slice(rest, pos, n)
<1>1. n \in Nat /\ Has(rest, pos, n) /\ \A j \in 1..n : rest[pos + j] = bytes[j]
  BY DEF At
<1>2. s \in Seq(Byte) /\ Len(s) = n /\ \A j \in 1..n : s[j] = rest[pos + j]
  <2> HIDE DEF n
  <2> QED
    BY <1>1, SliceIs
<1> HIDE DEF s
<1>3. \A j \in 1..n : s[j] = bytes[j]
  BY <1>1, <1>2
<1>4. s = bytes
  BY <1>2, <1>3, SeqEqual
<1> QED
  BY <1>4 DEF s

LEMMA AtConcat ==
    ASSUME NEW rest \in Seq(Byte), NEW pos \in Nat, NEW a \in Seq(Byte), NEW b \in Seq(Byte),
           At(rest, pos, a \o b)
    PROVE  At(rest, pos, a) /\ At(rest, pos + Len(a), b)
<1> DEFINE m == Len(a) n == Len(b) ab == a \o b
<1>1. m \in Nat /\ n \in Nat /\ Len(rest) \in Nat
  OBVIOUS
<1>2. Len(ab) = m + n /\ \A j \in 1..(m + n) : ab[j] = IF j <= m THEN a[j] ELSE b[j - m]
  BY ConcatProperties
<1> HIDE DEF ab, m, n
<1>3. pos + (m + n) <= Len(rest) /\ \A j \in 1..(m + n) : rest[pos + j] = ab[j]
  BY <1>2 DEF At, Has, ab
<1>4. pos + m <= Len(rest) /\ pos + m + n <= Len(rest)
  BY <1>1, <1>3
<1>5. \A j \in 1..m : rest[pos + j] = a[j]
  <2>1. \A j \in 1..m : j \in 1..(m + n) /\ j <= m
    BY <1>1
  <2> QED
    BY <1>2, <1>3, <2>1
<1>6. ASSUME NEW j \in 1..n PROVE rest[pos + m + j] = b[j]
  <2> DEFINE i == m + j
  <2>1. i \in 1..(m + n) /\ ~(i <= m) /\ i - m = j /\ pos + i = pos + m + j
    BY <1>1
  <2> HIDE DEF i
  <2> QED
    BY <1>2, <1>3, <2>1
<1> QED
  BY <1>4, <1>5, <1>6 DEF At, Has, m, n

LEMMA AtPart ==
    ASSUME NEW rest \in Seq(Byte), NEW pos \in Nat, NEW a \in Seq(Byte), NEW b \in Seq(Byte),
           At(rest, pos, a), At(a, 0, b)
    PROVE  At(rest, pos, b)
<1>1. Len(a) \in Nat /\ Len(b) \in Nat /\ Len(rest) \in Nat
  OBVIOUS
<1>2. Len(b) <= Len(a) /\ \A j \in 1..Len(b) : a[0 + j] = b[j]
  BY <1>1 DEF At, Has
<1>3. pos + Len(a) <= Len(rest) /\ \A j \in 1..Len(a) : rest[pos + j] = a[j]
  BY DEF At, Has
<1>4. \A j \in 1..Len(b) : j \in 1..Len(a) /\ 0 + j = j
  BY <1>1, <1>2
<1>5. pos + Len(b) <= Len(rest)
  BY <1>1, <1>2, <1>3
<1>6. \A j \in 1..Len(b) : rest[pos + j] = b[j]
  BY <1>2, <1>3, <1>4
<1> QED
  BY <1>5, <1>6 DEF At, Has

LEMMA AtItself ==
    ASSUME NEW a \in Seq(Byte)
    PROVE  At(a, 0, a)
<1>1. Len(a) \in Nat /\ 0 + Len(a) <= Len(a) /\ \A j \in 1..Len(a) : 0 + j = j
  OBVIOUS
<1> QED
  BY <1>1 DEF At, Has

(* The parts of encoded data, one after the other.                           *)
LEMMA StartsAt ==
    ASSUME NEW rest \in Seq(Byte), NEW pos \in Nat, NEW t, NEW f, PrefixesAre(Byte, t, f)
    PROVE  /\ \A i \in 1..Len(t) : Len(f[i]) = Len(f[i - 1]) + Len(t[i])
           /\ \A i \in 0..Len(t) : At(rest, pos, f[i]) =>
                  \A j \in 1..i : At(rest, pos + Len(f[j - 1]), t[j])
           /\ \A i \in 0..Len(t) : \A j \in 0..i : At(f[i], 0, f[j])
<1> DEFINE n == Len(t)
<1>0. t \in Seq(Seq(Byte)) /\ f \in [0..n -> Seq(Byte)]
  BY DEF PrefixesAre
<1>1. /\ n \in Nat /\ \A i \in 1..n : t[i] \in Seq(Byte) /\ i - 1 \in 0..n
      /\ \A i \in 0..n : f[i] \in Seq(Byte)
      /\ f[0] = <<>> /\ \A i \in 1..n : f[i] = f[i - 1] \o t[i]
  <2>1. n \in Nat /\ \A i \in 1..n : t[i] \in Seq(Byte)
    BY <1>0
  <2>2. f[0] = <<>> /\ \A i \in 1..n : f[i] = f[i - 1] \o t[i]
    BY DEF PrefixesAre
  <2> HIDE DEF n
  <2>3. \A i \in 1..n : i - 1 \in 0..n
    BY ONLY <2>1
  <2>4. \A i \in 0..n : f[i] \in Seq(Byte)
    BY ONLY <1>0
  <2> QED
    BY ONLY <2>1, <2>2, <2>3, <2>4
<1> HIDE DEF n
<1>2. \A i \in 1..n : f[i] \in Seq(Byte) /\ f[i - 1] \in Seq(Byte) /\ t[i] \in Seq(Byte)
  <2>1. \A i \in 1..n : i \in 0..n
    BY <1>1
  <2> QED
    BY <1>1, <2>1
<1>3. ASSUME NEW i \in 1..n PROVE Len(f[i]) = Len(f[i - 1]) + Len(t[i])
  <2>1. \A a, b \in Seq(Byte) : Len(a \o b) = Len(a) + Len(b)
    OBVIOUS
  <2> QED
    BY <1>1, <1>2, <2>1
<1> DEFINE S == {i \in 0..n : At(rest, pos, f[i]) =>
                                \A j \in 1..i : At(rest, pos + Len(f[j - 1]), t[j])}
<1>4. 0 \in S
  BY <1>1
<1>5. ASSUME NEW i \in 1..n, i - 1 \in S PROVE i \in S
  <2>1. SUFFICES ASSUME At(rest, pos, f[i]), NEW j \in 1..i
                 PROVE  At(rest, pos + Len(f[j - 1]), t[j])
    BY <1>1
  <2>2. At(rest, pos, f[i - 1]) /\ At(rest, pos + Len(f[i - 1]), t[i])
    BY <1>1, <1>2, <2>1, AtConcat
  <2>3. j = i \/ j \in 1..(i - 1)
    BY <1>1
  <2> QED
    BY <1>5, <2>2, <2>3
<1>6. \A i \in 0..n : i \in S
  <2> HIDE DEF S
  <2> QED
    BY <1>1, <1>4, <1>5, UpToInduction
<1> DEFINE P == {i \in 0..n : \A j \in 0..i : At(f[i], 0, f[j])}
<1>7. 0 \in P
  <2>1. At(f[0], 0, f[0])
    BY <1>1, AtItself
  <2>2. \A j \in 0..0 : j = 0
    OBVIOUS
  <2> QED
    BY <1>1, <2>1, <2>2
<1>8. ASSUME NEW i \in 1..n, i - 1 \in P PROVE i \in P
  <2>0. i \in 0..n /\ i - 1 \in 0..n /\ 0 \in Nat
    BY <1>1
  <2>1. SUFFICES ASSUME NEW j \in 0..i PROVE At(f[i], 0, f[j])
    BY <2>0
  <2>2. At(f[i], 0, f[i])
    BY <1>2, AtItself
  <2>3. At(f[i], 0, f[i - 1])
    <3>1. At(f[i], 0, f[i - 1] \o t[i])
      BY <1>1, <2>2
    <3> QED
      BY <1>2, <2>0, <3>1, AtConcat
  <2>4. CASE j \in 0..(i - 1)
    <3>1. At(f[i - 1], 0, f[j]) /\ f[j] \in Seq(Byte)
      BY <1>1, <1>8, <2>0, <2>4
    <3> QED
      BY <1>2, <2>0, <2>3, <3>1, AtPart
  <2>5. j = i \/ j \in 0..(i - 1)
    BY <1>1
  <2> QED
    BY <2>2, <2>4, <2>5
<1>9. \A i \in 0..n : i \in P
  <2> HIDE DEF P
  <2> QED
    BY <1>1, <1>7, <1>8, UpToInduction
<1> QED
  BY <1>3, <1>6, <1>9 DEF n

(* Where each of the first m parts is read as it should be, the positions    *)
(* are those at which the parts were written.                                *)
Agrees(decode, types, start, t, f, json, m) ==
    /\ m \in 0..Len(t)
    /\ \A i \in 1..m : decode[types[i]][start + Len(f[i - 1])]
                        = Got(json[i], start + Len(f[i - 1]) + Len(t[i]))

Follows(decode, types, start, f, json, m, at) ==
    /\ \A i \in 0..m : at[i] = start + Len(f[i])
    /\ \A i \in 1..m : DecodeAll(decode, types, start).val[i] = json[i]

LEMMA DecodeAllAt ==
    ASSUME NEW decode, NEW types, NEW start, NEW t, NEW f, NEW json, NEW m,
           Moves(decode, types, Len(t), start), PrefixesAre(Byte, t, f),
           Agrees(decode, types, start, t, f, json, m)
    PROVE  \E at : /\ Stops(decode, types, Len(t), start, at)
                   /\ Follows(decode, types, start, f, json, m, at)
<1> DEFINE n == Len(t)
<1>b. Moves(decode, types, n, start) /\ Len(t) = n /\ m \in 0..n
  BY DEF Agrees
<1> HIDE DEF n
<1>0. n \in Nat /\ start \in Nat /\ m \in Nat /\ \A i \in 1..m : i \in 1..n
  <2>1. n \in Nat /\ start \in Nat
    BY <1>b DEF Moves
  <2> QED
    BY <1>b, <2>1
<1>1. PICK at : Stops(decode, types, n, start, at)
  BY <1>b, DecodeAllSteps
<1>2. f \in [0..n -> Seq(Byte)] /\ t \in Seq(Seq(Byte)) /\ f[0] = <<>>
  BY <1>b DEF PrefixesAre
<1>3. \A i \in 1..n : /\ Len(f[i]) = Len(f[i - 1]) + Len(t[i])
                      /\ Len(f[i - 1]) \in Nat /\ Len(t[i]) \in Nat
  <2>1. \A i \in 1..n : Len(f[i]) = Len(f[i - 1]) + Len(t[i])
    <3>1. <<>> \in Seq(Byte)
      OBVIOUS
    <3> QED
      BY <1>0, <1>b, <3>1, StartsAt
  <2>2. \A i \in 1..n : i - 1 \in 0..n
    BY <1>0
  <2>3. \A i \in 1..n : f[i - 1] \in Seq(Byte)
    BY <1>2, <2>2
  <2>4. \A i \in 1..n : t[i] \in Seq(Byte)
    BY <1>b, <1>2
  <2>5. \A s \in Seq(Byte) : Len(s) \in Nat
    OBVIOUS
  <2> QED
    BY <2>1, <2>3, <2>4, <2>5
<1>4. /\ at[0] = start /\ \A i \in 1..n : at[i] = decode[types[i]][at[i - 1]].pos
      /\ \A i \in 1..n : DecodeAll(decode, types, start).val[i] = decode[types[i]][at[i - 1]].val
  BY <1>1 DEF Stops
<1>a. ASSUME NEW i \in 1..m
      PROVE  LET got == decode[types[i]][start + Len(f[i - 1])]
             IN  got.val = json[i] /\ got.pos = start + Len(f[i - 1]) + Len(t[i])
  <2>1. decode[types[i]][start + Len(f[i - 1])]
          = Got(json[i], start + Len(f[i - 1]) + Len(t[i]))
    BY DEF Agrees
  <2>2. \A x, y : Got(x, y).val = x /\ Got(x, y).pos = y
    BY DEF Got
  <2> QED
    BY ONLY <2>1, <2>2
<1> DEFINE S == {i \in 0..m : at[i] = start + Len(f[i])}
<1>5. 0 \in S
  <2>1. Len(f[0]) = 0
    BY <1>2
  <2>2. at[0] = start + Len(f[0])
    BY <1>0, <1>4, <2>1
  <2>3. 0 \in 0..m
    BY <1>0
  <2> QED
    BY <2>2, <2>3
<1>6. ASSUME NEW i \in 1..m, i - 1 \in S PROVE i \in S
  <2>1. i \in 1..n /\ i \in 0..m
    BY <1>0
  <2>2. at[i] = decode[types[i]][start + Len(f[i - 1])].pos
    BY <1>4, <1>6, <2>1
  <2>3. at[i] = start + Len(f[i - 1]) + Len(t[i])
    BY <1>a, <2>2
  <2>4. start + Len(f[i - 1]) + Len(t[i]) = start + Len(f[i])
    <3> DEFINE x == Len(f[i - 1]) y == Len(t[i]) z == Len(f[i])
    <3>1. x \in Nat /\ y \in Nat /\ z = x + y
      BY <1>3, <2>1
    <3> HIDE DEF x, y, z
    <3>2. start + x + y = start + z
      BY <1>0, <3>1
    <3> QED
      BY <3>2 DEF x, y, z
  <2> QED
    BY <2>1, <2>3, <2>4
<1>7. \A i \in 0..m : i \in S
  <2> HIDE DEF S
  <2> QED
    BY <1>0, <1>5, <1>6, UpToInduction
<1>8. ASSUME NEW i \in 1..m PROVE DecodeAll(decode, types, start).val[i] = json[i]
  <2>1. i \in 1..n /\ i - 1 \in 0..m
    BY <1>0
  <2>2. at[i - 1] = start + Len(f[i - 1])
    BY <1>7, <2>1
  <2>3. DecodeAll(decode, types, start).val[i] = decode[types[i]][start + Len(f[i - 1])].val
    BY <1>4, <2>1, <2>2
  <2> QED
    BY <1>a, <2>3
<1>9. \A i \in 0..m : at[i] = start + Len(f[i])
  BY <1>7
<1>10. Follows(decode, types, start, f, json, m, at)
  BY <1>8, <1>9 DEF Follows
<1> QED
  BY <1>1, <1>10 DEF n
-----------------------------------------------------------------------------
(* What a value should be read as.                                           *)
MeaningBody(f, ty, v) ==
    LET parts == FlattenSeq([i \in DOMAIN v |-> f[Part(ty, i)][v[i]]])
    IN  CASE ty.k \in Big -> Json("decimal", v)
          [] ty.k \in Small -> Json("number", v)
          [] ty.k \in Floats -> Scalar(ty.k, ToBytes(v, Width[ty.k]))
          [] ty.k = "bytes" -> Json("hex", v)
          [] ty.k = "publicKey" -> Json("key", v)
          [] ty.k \in {"vec", "array"} -> Json("array", Len(v)) \o parts
          [] ty.k = "option" -> IF v = <<>> THEN Null ELSE parts
          [] ty.k = "struct" -> Json("object", Len(v)) \o parts
          [] OTHER -> Json(ty.k, v)

(* A node whose shape may be the kind of a type nobody knows.                *)
AnyNode == [j : Shapes \cup {ty.k : ty \in Type}, v : Int \cup BOOLEAN \cup Seq(Byte)]

LEMMA AnyJson ==
    ASSUME NEW shape \in Shapes \cup {ty.k : ty \in Type},
           NEW v \in Int \cup BOOLEAN \cup Seq(Byte)
    PROVE  Json(shape, v) \in Seq(AnyNode)
<1> DEFINE node == [j |-> shape, v |-> v]
<1>1. node \in AnyNode
  BY DEF AnyNode
<1> HIDE DEF node
<1>2. <<node>> \in Seq(AnyNode)
  BY <1>1
<1> QED
  BY <1>2 DEF Json, node

LEMMA MeaningBodyType ==
    ASSUME NEW ty \in Type, NEW v \in Value[ty], NEW f,
           \A y \in Type : Depth[y] < Depth[ty] => f[y] \in [Value[y] -> Seq(AnyNode)]
    PROVE  MeaningBody(f, ty, v) \in Seq(AnyNode)
<1>1. CASE ty.k \in Compound
  <2> DEFINE parts == FlattenSeq(Parts(f, ty, v)) head(shape) == Json(shape, Len(v))
  <2>1. parts \in Seq(AnyNode) /\ Len(v) \in Nat
    BY <1>1, PartsType, PartsOf
  <2>2. MeaningBody(f, ty, v) \in {head("array") \o parts, head("object") \o parts, Null, parts}
    BY <1>1 DEF MeaningBody, Compound, Small, Big, Floats, Parts
  <2>3. /\ head("array") \in Seq(AnyNode) /\ head("object") \in Seq(AnyNode)
        /\ Null \in Seq(AnyNode)
    <3>1. /\ Len(v) \in Int \cup BOOLEAN \cup Seq(Byte)
          /\ <<>> \in Int \cup BOOLEAN \cup Seq(Byte)
      BY <2>1
    <3>2. \A s \in {"array", "object", "null"} : s \in Shapes \cup {y.k : y \in Type}
      BY DEF Shapes
    <3> QED
      BY <3>1, <3>2, AnyJson DEF Null
  <2> HIDE DEF parts, head
  <2>4. \A a, b \in Seq(AnyNode) : a \o b \in Seq(AnyNode)
    OBVIOUS
  <2> QED
    BY <2>1, <2>2, <2>3, <2>4
<1>2. CASE ty.k \in Floats
  <2>1. MeaningBody(f, ty, v) = Scalar(ty.k, ToBytes(v, Width[ty.k]))
    BY <1>2 DEF MeaningBody, Small, Big, Floats
  <2>2. v \in Int /\ Width[ty.k] \in Nat
    BY <1>2, LeafIs, WidthType DEF Floats, Compound, Fixed
  <2> DEFINE bytes == ToBytes(v, Width[ty.k])
  <2>3. bytes \in Seq(Byte)
    BY <2>2, ToBytesType
  <2> HIDE DEF bytes
  <2> DEFINE n == Number(bytes)
  <2>4. n \in Nat
    BY <2>3, NumberType
  <2> HIDE DEF n
  <2>5. Scalar(ty.k, bytes) \in {Null, Json("float", n)}
    BY <1>2 DEF Scalar, Small, Big, Floats, n
  <2>6. Null \in Seq(AnyNode) /\ Json("float", n) \in Seq(AnyNode)
    <3>1. /\ n \in Int \cup BOOLEAN \cup Seq(Byte)
          /\ <<>> \in Int \cup BOOLEAN \cup Seq(Byte)
      BY <2>4
    <3>2. \A s \in {"float", "null"} : s \in Shapes \cup {y.k : y \in Type}
      BY DEF Shapes
    <3> QED
      BY <3>1, <3>2, AnyJson DEF Null
  <2> QED
    BY <2>1, <2>5, <2>6 DEF bytes
<1>3. CASE ty.k \notin Compound \cup Floats
  <2>1. v \in Int \cup BOOLEAN \cup Seq(Byte)
    BY <1>3, LeafIs
  <2> DEFINE shape == CASE ty.k \in Big -> "decimal" [] ty.k \in Small -> "number"
                        [] ty.k = "bytes" -> "hex" [] ty.k = "publicKey" -> "key"
                        [] OTHER -> ty.k
  <2>2. MeaningBody(f, ty, v) = Json(shape, v)
    BY <1>3 DEF MeaningBody, Compound, Small, Big, Floats
  <2>3. shape \in Shapes \cup {y.k : y \in Type}
    <3>1. \A s \in {"decimal", "number", "hex", "key"} : s \in Shapes
      BY DEF Shapes
    <3>2. shape \in {"decimal", "number", "hex", "key", ty.k}
      BY DEF Small, Big
    <3> HIDE DEF shape
    <3> QED
      BY <3>1, <3>2
  <2> HIDE DEF shape
  <2> QED
    BY <2>1, <2>2, <2>3, AnyJson
<1> QED
  BY <1>1, <1>2, <1>3

LEMMA MeaningBodySame ==
    ASSUME NEW ty \in Type, NEW v \in Value[ty], NEW f, NEW g,
           \A y \in Type : Depth[y] < Depth[ty] => f[y] = g[y]
    PROVE  MeaningBody(f, ty, v) = MeaningBody(g, ty, v)
<1>1. CASE ty.k \in Compound
  <2>1. Parts(f, ty, v) = Parts(g, ty, v)
    BY <1>1, PartsSame
  <2> QED
    BY <2>1 DEF MeaningBody, Parts
<1>2. CASE ty.k \notin Compound
  BY <1>2 DEF MeaningBody, Compound
<1> QED
  BY <1>1, <1>2

LEMMA MeaningDef ==
    \A ty \in Type : /\ Meaning[ty] \in [Value[ty] -> Seq(AnyNode)]
                     /\ \A v \in Value[ty] : Meaning[ty][v] = MeaningBody(Meaning, ty, v)
<1> DEFINE
      V == [ty \in Type |-> [Value[ty] -> Seq(AnyNode)]]
      U == UNION {V[ty] : ty \in Type}
      Body(f, ty) == [v \in Value[ty] |-> MeaningBody(f, ty, v)]
      F == [ty \in Type |-> [f \in [Type -> U] |-> Body(f, ty)]]
      Eq(f) == f = [ty \in Type |-> [v \in Value[ty] |-> MeaningBody(f, ty, v)]]
<1>1. ASSUME NEW ty \in Type PROVE V[ty] # {} /\ V[ty] \subseteq U
  <2>1. [v \in Value[ty] |-> <<>>] \in [Value[ty] -> Seq(AnyNode)]
    OBVIOUS
  <2> QED
    BY <2>1
<1>2. ASSUME NEW ty \in Type, NEW f, \A y \in Type : Depth[y] < Depth[ty] => f[y] \in V[y]
      PROVE  Body(f, ty) \in V[ty]
  <2>1. \A y \in Type : Depth[y] < Depth[ty] => f[y] \in [Value[y] -> Seq(AnyNode)]
    BY <1>2
  <2>2. \A v \in Value[ty] : MeaningBody(f, ty, v) \in Seq(AnyNode)
    BY <2>1, MeaningBodyType
  <2> QED
    BY <2>2
<1>3. ASSUME NEW ty \in Type, NEW f, NEW g, \A y \in Type : Depth[y] < Depth[ty] => f[y] = g[y]
      PROVE  Body(f, ty) = Body(g, ty)
  <2>1. \A v \in Value[ty] : MeaningBody(f, ty, v) = MeaningBody(g, ty, v)
    BY <1>3, MeaningBodySame
  <2> QED
    BY <2>1
<1>4. \A ty \in Type : \A f \in [Type -> U] : F[ty][f] = Body(f, ty)
  OBVIOUS
<1>5. Descends(Type, Depth, U, V, F)
  <2> HIDE DEF U, V, F, Body
  <2>1. \A ty \in Type : \A f \in [Type -> U] :
            (\A y \in Type : f[y] \in V[y]) => F[ty][f] \in V[ty]
    BY <1>2, <1>4
  <2>2. \A ty \in Type : \A f, g \in [Type -> U] :
            (\A y \in Type : Depth[y] < Depth[ty] => f[y] = g[y]) => F[ty][f] = F[ty][g]
    BY <1>3, <1>4
  <2> QED
    BY <1>1, <2>1, <2>2, TypesNest DEF Descends
<1>6. PICK f \in [Type -> U] : \A ty \in Type : f[ty] = F[ty][f]
  <2> HIDE DEF U, V, F
  <2> QED
    BY ONLY <1>5, Recursion
<1>7. Eq(f)
  <2>1. DOMAIN f = Type /\ f = [ty \in Type |-> f[ty]]
    OBVIOUS
  <2>2. \A ty \in Type : f[ty] = Body(f, ty)
    BY <1>4, <1>6
  <2> HIDE DEF F, U
  <2> QED
    BY <2>1, <2>2
<1>8. Eq(Meaning)
  <2> HIDE DEF Eq
  <2>1. Meaning = CHOOSE g : Eq(g)
    BY DEF Meaning, Eq, MeaningBody
  <2> QED
    BY <1>7, <2>1
<1>9. \A ty \in Type : Meaning[ty] = Body(Meaning, ty)
  BY <1>8
<1> HIDE DEF Eq
<1> DEFINE S == {ty \in Type : Meaning[ty] \in V[ty]}
<1>10. ASSUME NEW ty \in Type, \A y \in Type : Depth[y] < Depth[ty] => y \in S PROVE ty \in S
  <2> HIDE DEF V, Body
  <2> QED
    BY <1>2, <1>9, <1>10
<1>11. \A ty \in Type : ty \in S
  <2> HIDE DEF S
  <2> QED
    BY <1>10, DepthInduction, TypesNest
<1> QED
  BY <1>9, <1>11
-----------------------------------------------------------------------------
(* What the programs write is what is read.                                  *)
OpaqueBody(f, ty) ==
    \/ ty.k \notin Known
    \/ ty.k \in {"vec", "array", "option"} /\ f[ty.of]
    \/ ty.k = "struct" /\ \E i \in DOMAIN ty.fields : f[ty.fields[i]]

LEMMA OpaqueDef ==
    \A ty \in Type : Opaque[ty] <=> OpaqueBody(Opaque, ty)
<1> DEFINE
      V == [ty \in Type |-> BOOLEAN]
      F == [ty \in Type |-> [f \in [Type -> BOOLEAN] |-> OpaqueBody(f, ty)]]
      Eq(f) == f = [ty \in Type |-> OpaqueBody(f, ty)]
<1>1. \A ty \in Type : \A f \in [Type -> BOOLEAN] :
          F[ty][f] = OpaqueBody(f, ty) /\ F[ty][f] \in BOOLEAN
  BY DEF OpaqueBody
<1>2. ASSUME NEW ty \in Type, NEW f \in [Type -> BOOLEAN], NEW g \in [Type -> BOOLEAN],
             \A y \in Type : Depth[y] < Depth[ty] => f[y] = g[y]
      PROVE  F[ty][f] = F[ty][g]
  <2>1. ty.k \in {"vec", "array", "option"} => f[ty.of] = g[ty.of]
    BY <1>2, TypesNest
  <2>2. ty.k = "struct" => \A i \in DOMAIN ty.fields : f[ty.fields[i]] = g[ty.fields[i]]
    <3>1. ty.k = "struct" => \A i \in DOMAIN ty.fields : /\ ty.fields[i] \in Type
                                                        /\ Depth[ty.fields[i]] < Depth[ty]
      <4>1. ty.k = "struct" => DOMAIN ty.fields = 1..Len(ty.fields)
        BY TypesNest
      <4> QED
        BY <4>1, TypesNest
    <3> QED
      BY <1>2, <3>1
  <2>3. OpaqueBody(f, ty) <=> OpaqueBody(g, ty)
    BY <2>1, <2>2 DEF OpaqueBody
  <2>4. OpaqueBody(f, ty) \in BOOLEAN /\ OpaqueBody(g, ty) \in BOOLEAN
    BY DEF OpaqueBody
  <2> QED
    BY <1>1, <2>3, <2>4
<1>3. Descends(Type, Depth, BOOLEAN, V, F)
  <2>1. \A ty \in Type : V[ty] # {} /\ V[ty] \subseteq BOOLEAN /\ V[ty] = BOOLEAN
    OBVIOUS
  <2> HIDE DEF V, F
  <2> QED
    BY <1>1, <1>2, <2>1, TypesNest DEF Descends
<1>4. PICK f \in [Type -> BOOLEAN] : \A ty \in Type : f[ty] = F[ty][f]
  <2> HIDE DEF V, F
  <2> QED
    BY ONLY <1>3, Recursion
<1>5. Eq(f)
  <2>1. DOMAIN f = Type /\ f = [ty \in Type |-> f[ty]]
    OBVIOUS
  <2>2. \A ty \in Type : f[ty] = OpaqueBody(f, ty)
    BY <1>1, <1>4
  <2> HIDE DEF F
  <2> QED
    BY <2>1, <2>2
<1>6. Eq(Opaque)
  <2> HIDE DEF Eq
  <2>1. Opaque = CHOOSE g : Eq(g)
    BY DEF Opaque, Eq, OpaqueBody
  <2> QED
    BY <1>5, <2>1
<1> QED
  BY <1>6

(* Types that something is read as what was written for.                     *)
Faithful(rest, ty) ==
    \A v \in Value[ty] : \A p \in Nat :
        At(rest, p, Encode[ty][v]) =>
            Decoding(rest)[ty][p] = Got(Meaning[ty][v], p + Len(Encode[ty][v]))

Written(types, v, n) ==
    /\ n \in Nat /\ DOMAIN types = 1..n /\ Len(types) = n
    /\ \A i \in 1..n : types[i] \in Type /\ v[i] \in Value[types[i]]

Encoded(types, v, n) == [i \in 1..n |-> Encode[types[i]][v[i]]]

LEMMA EncodedType ==
    ASSUME NEW types, NEW v, NEW n, Written(types, v, n)
    PROVE  /\ Encoded(types, v, n) \in Seq(Seq(Byte)) /\ Len(Encoded(types, v, n)) = n
           /\ \A i \in 1..n : Encoded(types, v, n)[i] = Encode[types[i]][v[i]]
<1> DEFINE t == Encoded(types, v, n)
<1>1. n \in Nat /\ \A i \in 1..n : types[i] \in Type /\ v[i] \in Value[types[i]]
  BY DEF Written
<1>2. \A i \in 1..n : Encode[types[i]][v[i]] \in Seq(Byte)
  BY <1>1, EncodeDef
<1>3. t \in [1..n -> Seq(Byte)] /\ \A i \in 1..n : t[i] = Encode[types[i]][v[i]]
  BY <1>2 DEF Encoded
<1> HIDE DEF t
<1>4. t \in Seq(Seq(Byte)) /\ Len(t) = n
  BY <1>1, <1>3
<1> QED
  BY <1>3, <1>4 DEF t

LEMMA DecodingMoves ==
    ASSUME NEW rest \in Seq(Byte), NEW start \in Nat, NEW types, NEW n \in Nat,
           DOMAIN types = 1..n, Len(types) = n, \A i \in 1..n : types[i] \in Type
    PROVE  Moves(Decoding(rest), types, n, start)
<1>1. \A ty \in Type : \A p \in Nat : Decoding(rest)[ty][p].pos \in Nat
  BY DecodingDef DEF Reading
<1> QED
  BY <1>1 DEF Moves

(* As far as the encoding of the parts stands in the data, they are read.    *)
Stands(rest, start, types, n, f, m) ==
    /\ m \in 0..n /\ At(rest, start, f[m])
    /\ \A i \in 1..m : Faithful(rest, types[i])

IsRead(rest, start, types, v, n, f, m, at) ==
    /\ Stops(Decoding(rest), types, n, start, at) /\ at[m] = start + Len(f[m])
    /\ \A i \in 1..m : DecodeAll(Decoding(rest), types, start).val[i] = Meaning[types[i]][v[i]]

LEMMA PrefixRead ==
    ASSUME NEW rest \in Seq(Byte), NEW start \in Nat, NEW types, NEW v, NEW n,
           Written(types, v, n), NEW f, PrefixesAre(Byte, Encoded(types, v, n), f),
           NEW m, Stands(rest, start, types, n, f, m)
    PROVE  \E at : IsRead(rest, start, types, v, n, f, m, at)
<1> DEFINE
      t == Encoded(types, v, n)
      d == Decoding(rest)
      json == [i \in 1..n |-> Meaning[types[i]][v[i]]]
<1>1. /\ n \in Nat /\ DOMAIN types = 1..n /\ Len(types) = n
      /\ \A i \in 1..n : types[i] \in Type /\ v[i] \in Value[types[i]]
  BY DEF Written
<1>2. Len(t) = n /\ \A i \in 1..n : t[i] = Encode[types[i]][v[i]]
  BY EncodedType
<1>3. Moves(d, types, n, start)
  BY <1>1, DecodingMoves
<1>0. m \in 0..n /\ At(rest, start, f[m]) /\ \A i \in 1..m : Faithful(rest, types[i])
  BY DEF Stands
<1>4. m \in Nat /\ \A i \in 1..m : i \in 1..n
  BY <1>0, <1>1
<1>5. \A i \in 1..n : json[i] = Meaning[types[i]][v[i]]
  OBVIOUS
<1>6. PrefixesAre(Byte, t, f)
  OBVIOUS
<1> HIDE DEF t, json
<1>7. \A i \in 1..m : At(rest, start + Len(f[i - 1]), t[i])
  BY <1>0, <1>2, <1>6, StartsAt
<1>8. ASSUME NEW i \in 1..m
      PROVE  d[types[i]][start + Len(f[i - 1])] = Got(json[i], start + Len(f[i - 1]) + Len(t[i]))
  <2> DEFINE p == start + Len(f[i - 1])
  <2>1. p \in Nat
    <3>1. f \in [0..n -> Seq(Byte)] /\ i - 1 \in 0..n
      <4>1. f \in [0..n -> Seq(Byte)]
        BY <1>2, <1>6 DEF PrefixesAre
      <4>2. i \in 1..n
        BY <1>4
      <4> QED
        BY <1>1, <4>1, <4>2
    <3>2. Len(f[i - 1]) \in Nat
      BY <3>1
    <3> QED
      BY <3>2
  <2>2. At(rest, p, Encode[types[i]][v[i]])
    BY <1>2, <1>4, <1>7
  <2> HIDE DEF p
  <2>3. d[types[i]][p] = Got(Meaning[types[i]][v[i]], p + Len(Encode[types[i]][v[i]]))
    BY <1>0, <1>1, <1>4, <2>1, <2>2 DEF Faithful
  <2> QED
    BY <1>2, <1>4, <1>5, <2>3 DEF p
<1> HIDE DEF d
<1>9. PICK at : Stops(d, types, n, start, at) /\ Follows(d, types, start, f, json, m, at)
  <2>1. Agrees(d, types, start, t, f, json, m)
    BY <1>0, <1>2, <1>8 DEF Agrees
  <2> QED
    BY <1>2, <1>3, <1>6, <2>1, DecodeAllAt
<1>10. m \in 0..m
  BY <1>4
<1>11. \A i \in 1..m : DecodeAll(d, types, start).val[i] = Meaning[types[i]][v[i]]
  BY <1>4, <1>5, <1>9 DEF Follows
<1>12. at[m] = start + Len(f[m])
  BY <1>9, <1>10 DEF Follows
<1>13. IsRead(rest, start, types, v, n, f, m, at)
  BY <1>9, <1>11, <1>12 DEF d, IsRead
<1> QED
  BY <1>13

LEMMA WholeRead ==
    ASSUME NEW rest \in Seq(Byte), NEW start \in Nat, NEW types, NEW v, NEW n,
           Written(types, v, n), At(rest, start, FlattenSeq(Encoded(types, v, n))),
           \A i \in 1..n : Faithful(rest, types[i])
    PROVE  DecodeAll(Decoding(rest), types, start)
             = [val |-> [i \in 1..n |-> Meaning[types[i]][v[i]]],
                pos |-> start + Len(FlattenSeq(Encoded(types, v, n)))]
<1> DEFINE t == Encoded(types, v, n) d == Decoding(rest) got == DecodeAll(d, types, start)
<1>1. t \in Seq(Seq(Byte)) /\ Len(t) = n /\ n \in Nat
  BY EncodedType DEF Written
<1> HIDE DEF t
<1>2. PICK f : PrefixesAre(Byte, t, f)
  BY <1>1, FlattenPrefixes
<1>3. FlattenSeq(t) = f[n]
  BY <1>1, <1>2 DEF PrefixesAre
<1>4. At(rest, start, f[n]) /\ n \in 0..n
  BY <1>1, <1>3 DEF t
<1>5. PrefixesAre(Byte, Encoded(types, v, n), f)
  BY <1>2 DEF t
<1>6. PICK at : /\ Stops(d, types, n, start, at) /\ at[n] = start + Len(f[n])
                /\ \A i \in 1..n : got.val[i] = Meaning[types[i]][v[i]]
  <2>1. Stands(rest, start, types, n, f, n)
    BY <1>4 DEF Stands
  <2>2. PICK at : IsRead(rest, start, types, v, n, f, n, at)
    BY <1>5, <2>1, PrefixRead
  <2> QED
    BY <2>2 DEF IsRead
<1>7. /\ got.pos = at[n] /\ got = [val |-> got.val, pos |-> got.pos]
      /\ DOMAIN got.val = 1..n /\ \E W : got.val \in [1..n -> W]
  BY <1>6 DEF Stops
<1> HIDE DEF got
<1>8. got.val = [i \in 1..n |-> Meaning[types[i]][v[i]]]
  <2> DEFINE vs == got.val
  <2>1. \E W : vs \in [1..n -> W]
    BY <1>7
  <2>2. \A i \in 1..n : vs[i] = Meaning[types[i]][v[i]]
    BY <1>6
  <2> HIDE DEF vs
  <2>3. vs = [i \in 1..n |-> vs[i]]
    BY <2>1
  <2>4. vs = [i \in 1..n |-> Meaning[types[i]][v[i]]]
    BY <2>2, <2>3
  <2> QED
    BY <2>4 DEF vs
<1> QED
  BY <1>3, <1>6, <1>7, <1>8 DEF got, t

LEMMA NumberOne ==
    ASSUME NEW b \in Byte
    PROVE  <<b>> \in Seq(Byte) /\ Len(<<b>>) = 1 /\ Number(<<b>>) = b
<1> DEFINE s == <<b>>
<1>1. s \in Seq(Byte) /\ Len(s) = 1 /\ s[1] = b
  OBVIOUS
<1> HIDE DEF s
<1>2. PICK f \in [0..1 -> Nat] :
          /\ f[0] = 0 /\ Number(s) = f[1]
          /\ \A i \in 1..1 : f[i] = f[i - 1] + s[i] * Power[i - 1]
  BY <1>1, NumberSteps
<1>3. f[1] = f[0] + s[1] * Power[0]
  BY <1>2
<1>4. Power[0] = 1 /\ b \in Int
  BY PowerDef, DecoderAssumption DEF Byte
<1>5. f[1] = b
  BY <1>1, <1>2, <1>3, <1>4
<1> QED
  BY <1>1, <1>2, <1>5 DEF s

LEMMA ScalarBack ==
    ASSUME NEW ty \in Type, ty.k \in Fixed, NEW v \in Value[ty]
    PROVE  /\ Encode[ty][v] \in Seq(Byte) /\ Len(Encode[ty][v]) = Width[ty.k]
           /\ Scalar(ty.k, Encode[ty][v]) = Meaning[ty][v]
<1> DEFINE k == ty.k bytes == Encode[ty][v]
<1>1. bytes = EncodeBody(Encode, ty, v) /\ Meaning[ty][v] = MeaningBody(Meaning, ty, v)
  BY EncodeDef, MeaningDef
<1>2. Fit(ty, v)
  BY FitOf
<1>3. CASE k = "bool"
  <2> DEFINE b == IF v THEN 1 ELSE 0
  <2>1. bytes = <<b>>
    BY <1>1, <1>3 DEF EncodeBody, Small, Big, Floats
  <2>2. b \in Byte
    BY DecoderAssumption DEF Byte
  <2>3. Meaning[ty][v] = Json("bool", v)
    BY <1>1, <1>3 DEF MeaningBody, Small, Big, Floats
  <2>4. v \in BOOLEAN
    BY <1>3, LeafIs DEF Compound
  <2>5. Scalar(k, bytes) = Json("bool", Number(bytes) # 0)
    BY <1>3 DEF Scalar, Small, Big, Floats
  <2>6. Number(bytes) = b /\ bytes \in Seq(Byte) /\ Len(bytes) = 1
    BY <2>1, <2>2, NumberOne
  <2> HIDE DEF bytes
  <2>7. Json("bool", Number(bytes) # 0) = Json("bool", v)
    <3>1. CASE v
      <4>1. v = TRUE /\ Number(bytes) = 1
        BY <2>4, <2>6, <3>1
      <4>2. (Number(bytes) # 0) = TRUE
        BY <4>1
      <4> QED
        BY <4>1, <4>2
    <3>2. CASE ~v
      <4>1. v = FALSE /\ Number(bytes) = 0
        BY <2>4, <2>6, <3>2
      <4>2. (Number(bytes) # 0) = FALSE
        BY <4>1
      <4> QED
        BY <4>1, <4>2
    <3> QED
      BY <3>1, <3>2
  <2> QED
    BY <1>3, <2>3, <2>5, <2>6, <2>7, WidthType DEF bytes
<1>4. CASE k \in Small \cup Big \cup Floats
  <2> DEFINE w == Width[k]
  <2>1. bytes = ToBytes(v, w)
    BY <1>1, <1>4 DEF EncodeBody, Small, Big, Floats
  <2>2. v \in Int /\ w \in Nat
    BY <1>4, LeafIs, WidthType DEF Small, Big, Floats, Compound, Fixed
  <2> HIDE DEF w
  <2>3. ToBytes(v, w) \in Seq(Byte) /\ Len(ToBytes(v, w)) = w
    BY <2>2, ToBytesType
  <2>4. Scalar(k, ToBytes(v, w)) = Meaning[ty][v]
    <3>1. CASE k \in Floats
      BY <1>1, <3>1 DEF MeaningBody, Small, Big, Floats, w
    <3>2. CASE k \in Small \cup Big
      <4> DEFINE m == Number(ToBytes(v, w))
                 int == IF k \in Signed /\ m >= Power[w] \div 2 THEN m - Power[w] ELSE m
      <4>1. int = v
        <5>1. CASE k \in Signed
          <6>1. LET half == Power[w] \div 2 IN v \in -half..(half - 1)
            BY <1>2, <5>1 DEF Fit, Signed, w
          <6> QED
            BY <2>2, <5>1, <6>1, SignedRead
        <5>2. CASE k \notin Signed
          <6>1. v \in 0..(Power[w] - 1)
            BY <1>2, <3>2, <5>2 DEF Fit, Small, Big, Floats, w
          <6>2. Power[w] \in Nat
            BY <2>2, PowerDef
          <6>3. v \in Nat /\ v < Power[w]
            BY <6>1, <6>2
          <6>4. m = v
            BY <2>2, <6>3, NumberRead
          <6> QED
            BY <5>2, <6>4
        <5> QED
          BY <5>1, <5>2
      <4>2. Scalar(k, ToBytes(v, w)) = IF k \in Small THEN Json("number", int)
                                       ELSE Json("decimal", int)
        BY <2>3, <3>2 DEF Scalar, Small, Big, Floats
      <4>3. Meaning[ty][v] = IF k \in Small THEN Json("number", v) ELSE Json("decimal", v)
        BY <1>1, <3>2 DEF MeaningBody, Small, Big, Floats
      <4> HIDE DEF int
      <4> QED
        BY <4>1, <4>2, <4>3
    <3> QED
      BY <1>4, <3>1, <3>2
  <2> QED
    BY <2>1, <2>3, <2>4 DEF w
<1>5. CASE k = "publicKey"
  <2>1. bytes = v
    BY <1>1, <1>5 DEF EncodeBody, Small, Big, Floats
  <2>2. v \in [1..Width[k] -> Byte] /\ Width[k] \in Nat
    BY <1>2, <1>5, WidthType DEF Fit, Signed, Small, Big, Floats, Fixed
  <2>3. v \in Seq(Byte) /\ Len(v) = Width[k]
    BY <2>2
  <2>4. Scalar(k, v) = Json("key", v) /\ Meaning[ty][v] = Json("key", v)
    BY <1>1, <1>5 DEF Scalar, MeaningBody, Small, Big, Floats
  <2> QED
    BY <2>1, <2>3, <2>4
<1> QED
  BY <1>3, <1>4, <1>5 DEF Fixed

LEMMA FixedBack ==
    ASSUME NEW ty \in Type, ty.k \in Fixed, NEW v \in Value[ty], NEW rest \in Seq(Byte),
           NEW p \in Nat, At(rest, p, Encode[ty][v])
    PROVE  ReadFixed(ty.k, rest, p) = Got(Meaning[ty][v], p + Len(Encode[ty][v]))
<1> DEFINE bytes == Encode[ty][v]
<1>1. /\ bytes \in Seq(Byte) /\ Len(bytes) = Width[ty.k]
      /\ Scalar(ty.k, bytes) = Meaning[ty][v]
  BY ScalarBack
<1>2. Slice(rest, p, Len(bytes)) = bytes /\ Has(rest, p, Len(bytes))
  <2> HIDE DEF bytes
  <2>1. At(rest, p, bytes)
    BY DEF bytes
  <2> QED
    BY <1>1, <2>1, AtSlice DEF At
<1> QED
  BY <1>1, <1>2 DEF ReadFixed

LEMMA LenBack ==
    ASSUME NEW rest \in Seq(Byte), NEW p \in Nat, NEW n \in Nat, n < Power[LenWidth],
           At(rest, p, ToBytes(n, LenWidth))
    PROVE  Has(rest, p, LenWidth) /\ ReadLen(rest, p) = [len |-> n, pos |-> p + LenWidth]
<1> DEFINE bytes == ToBytes(n, LenWidth)
<1>1. bytes \in Seq(Byte) /\ Len(bytes) = LenWidth /\ LenWidth \in Nat
  BY ToBytesType, WidthType
<1>2. Number(bytes) = n
  BY <1>1, NumberRead
<1> HIDE DEF bytes
<1>3. At(rest, p, bytes)
  BY DEF bytes
<1>4. Slice(rest, p, LenWidth) = bytes /\ Has(rest, p, LenWidth)
  BY <1>1, <1>3, AtSlice DEF At
<1> QED
  BY <1>2, <1>4 DEF ReadLen

LEMMA TextBack ==
    ASSUME NEW ty \in Type, ty.k \in {"string", "bytes"}, NEW v \in Value[ty],
           NEW rest \in Seq(Byte), NEW p \in Nat, At(rest, p, Encode[ty][v])
    PROVE  ReadText(ty.k, rest, p) = Got(Meaning[ty][v], p + Len(Encode[ty][v]))
<1> DEFINE k == ty.k bytes == ToBytes(Len(v), LenWidth)
<1>1. /\ v \in Seq(Byte) /\ Len(v) < Power[LenWidth] /\ Len(v) \in Nat
      /\ k = "string" => Range(v) \cap NotUtf8 = {}
  BY FitOf DEF Fit, Signed, Small, Big, Floats
<1>2. Encode[ty][v] = bytes \o v
  <2>1. Encode[ty][v] = EncodeBody(Encode, ty, v)
    BY EncodeDef
  <2>2. k # "bool" /\ k \notin Small \cup Big \cup Floats
    BY DEF Small, Big, Floats
  <2> QED
    BY <2>1, <2>2 DEF EncodeBody
<1>3. Meaning[ty][v] = IF k = "bytes" THEN Json("hex", v) ELSE Json("string", v)
  <2>1. Meaning[ty][v] = MeaningBody(Meaning, ty, v)
    BY MeaningDef
  <2> QED
    BY <2>1 DEF MeaningBody, Small, Big, Floats
<1>4. bytes \in Seq(Byte) /\ Len(bytes) = LenWidth /\ LenWidth \in Nat
  <2> DEFINE m == Len(v)
  <2>1. m \in Int
    BY <1>1
  <2> HIDE DEF m
  <2> QED
    BY <2>1, ToBytesType, WidthType DEF m
<1>5. At(rest, p, bytes)
  <2>1. At(rest, p, bytes \o v)
    BY <1>2
  <2> HIDE DEF bytes
  <2> QED
    BY <1>1, <1>4, <2>1, AtConcat
<1>6. At(rest, p + LenWidth, v)
  <2>1. At(rest, p, bytes \o v)
    BY <1>2
  <2> HIDE DEF bytes
  <2> QED
    BY <1>1, <1>4, <2>1, AtConcat
<1>7. Len(bytes \o v) = LenWidth + Len(v)
  <2> HIDE DEF bytes
  <2>1. \A a, b \in Seq(Byte) : Len(a \o b) = Len(a) + Len(b)
    OBVIOUS
  <2> QED
    BY <1>1, <1>4, <2>1
<1>8. Has(rest, p, LenWidth) /\ ReadLen(rest, p) = [len |-> Len(v), pos |-> p + LenWidth]
  BY <1>1, <1>5, LenBack
<1> DEFINE n == ReadLen(rest, p) q == p + LenWidth
<1>9. n.len = Len(v) /\ n.pos = q /\ q \in Nat
  BY <1>4, <1>8
<1> HIDE DEF n
<1>10. Slice(rest, q, Len(v)) = v /\ Has(rest, q, Len(v))
  <2> HIDE DEF q
  <2>1. At(rest, q, v)
    BY <1>6 DEF q
  <2> QED
    BY <1>1, <1>9, <2>1, AtSlice DEF At
<1>11. ReadText(k, rest, p) = Got(Meaning[ty][v], q + Len(v))
  <2> HIDE DEF q
  <2> QED
    BY <1>1, <1>3, <1>8, <1>9, <1>10 DEF ReadText, n
<1>12. p + Len(Encode[ty][v]) = q + Len(v)
  BY <1>1, <1>2, <1>4, <1>7
<1> QED
  BY <1>11, <1>12

LEMMA RoundTripStep ==
    ASSUME NEW rest \in Seq(Byte), NEW ty \in Type, ~Opaque[ty],
           \A y \in Type : Depth[y] < Depth[ty] /\ ~Opaque[y] => Faithful(rest, y)
    PROVE  Faithful(rest, ty)
<1>1. SUFFICES ASSUME NEW v \in Value[ty], NEW p \in Nat, At(rest, p, Encode[ty][v])
               PROVE  Decoding(rest)[ty][p] = Got(Meaning[ty][v], p + Len(Encode[ty][v]))
  BY DEF Faithful
<1> DEFINE k == ty.k d == Decoding(rest) bytes == Encode[ty][v] json == Meaning[ty][v]
<1>2. d[ty][p] = DecodeType(d, ty, rest, p)
  BY DecodingDef
<1>3. bytes = EncodeBody(Encode, ty, v) /\ json = MeaningBody(Meaning, ty, v)
  BY EncodeDef, MeaningDef
<1>4. k \in Known
  BY OpaqueDef DEF OpaqueBody
<1>5. Fit(ty, v)
  BY FitOf
<1>6. CASE k \in Fixed
  <2>1. DecodeType(d, ty, rest, p) = ReadFixed(k, rest, p)
    BY <1>6 DEF DecodeType, Fixed, Small, Big, Floats
  <2> QED
    BY <1>1, <1>2, <1>6, <2>1, FixedBack
<1>7. CASE k \in {"string", "bytes"}
  <2>1. DecodeType(d, ty, rest, p) = ReadText(k, rest, p)
    BY <1>7 DEF DecodeType, Fixed, Small, Big, Floats
  <2> QED
    BY <1>1, <1>2, <1>7, <2>1, TextBack
<1>8. CASE k \in {"vec", "array", "struct"}
  <2> DEFINE
        n == Len(v)
        types == IF k = "struct" THEN ty.fields ELSE [i \in 1..n |-> ty.of]
        ps == FlattenSeq(Encoded(types, v, n))
        start == IF k = "vec" THEN p + LenWidth ELSE p
        shape == IF k = "struct" THEN "object" ELSE "array"
  <2>1. /\ n \in Nat /\ DOMAIN v = 1..n
        /\ \A i \in 1..n : /\ Part(ty, i) \in Type /\ Depth[Part(ty, i)] < Depth[ty]
                           /\ v[i] \in Value[Part(ty, i)]
    BY <1>8, PartsOf DEF Compound
  <2>2. k = "struct" => Len(ty.fields) = n /\ DOMAIN ty.fields = 1..n
    <3>1. k = "struct" => DOMAIN v = DOMAIN ty.fields
      BY <1>5 DEF Fit, Signed, Small, Big, Floats
    <3>2. k = "struct" => DOMAIN ty.fields = 1..Len(ty.fields) /\ Len(ty.fields) \in Nat
      BY TypesNest
    <3> QED
      BY <2>1, <3>1, <3>2
  <2>3. DOMAIN types = 1..n /\ Len(types) = n /\ \A i \in 1..n : types[i] = Part(ty, i)
    <3>1. CASE k = "struct"
      BY <2>2, <3>1 DEF Part
    <3>2. CASE k # "struct"
      <4>1. types \in [1..n -> {ty.of}]
        BY <3>2
      <4>2. types \in Seq({ty.of}) /\ Len(types) = n
        BY <2>1, <4>1
      <4> QED
        BY <3>2, <4>1, <4>2 DEF Part
    <3> QED
      BY <3>1, <3>2
  <2>4. k = "array" => n = ty.len
    <3>1. k = "array" => DOMAIN v = 1..ty.len /\ ty.len \in Nat
      BY <1>5, TypesNest DEF Fit, Signed, Small, Big, Floats
    <3> QED
      BY <2>1, <3>1
  <2>5. Written(types, v, n)
    <3> HIDE DEF types, n
    <3> QED
      BY <2>1, <2>3 DEF Written
  <2>6. \A i \in 1..n : Faithful(rest, types[i])
    <3>1. \A i \in 1..n : ~Opaque[types[i]]
      BY <1>8, <2>2, OpaqueDef DEF OpaqueBody
    <3> HIDE DEF types, n
    <3> QED
      BY <2>1, <2>3, <3>1
  <2>7. Encoded(types, v, n) = Parts(Encode, ty, v)
    <3> HIDE DEF types, n
    <3> QED
      BY <2>1, <2>3 DEF Encoded, Parts
  <2>8. ps \in Seq(Byte)
    <3> HIDE DEF types, n
    <3> QED
      BY <2>5, EncodedType, FlattenType
  <2>9. bytes = IF k = "vec" THEN ToBytes(n, LenWidth) \o ps ELSE ps
    BY <1>3, <1>8, <2>7 DEF EncodeBody, Parts, Small, Big, Floats
  <2>10. json = Json(shape, n) \o FlattenSeq(Parts(Meaning, ty, v))
    BY <1>3, <1>8 DEF MeaningBody, Parts, Small, Big, Floats
  <2>11. [i \in 1..n |-> Meaning[types[i]][v[i]]] = Parts(Meaning, ty, v)
    <3> HIDE DEF types, n
    <3> QED
      BY <2>1, <2>3 DEF Parts
  <2> HIDE DEF ps
  <2>12. /\ At(rest, start, ps) /\ start \in Nat
         /\ p + Len(bytes) = start + Len(ps)
         /\ DecodeType(d, ty, rest, p) = Group(shape, DecodeAll(d, types, start))
    <3>1. CASE k = "vec"
      <4> DEFINE head == ToBytes(n, LenWidth)
      <4>1. n < Power[LenWidth]
        BY <1>5, <3>1 DEF Fit, Signed, Small, Big, Floats
      <4>2. head \in Seq(Byte) /\ Len(head) = LenWidth /\ LenWidth \in Nat
        BY <2>1, ToBytesType, WidthType
      <4>3. At(rest, p, head \o ps)
        BY <1>1, <2>9, <3>1
      <4> HIDE DEF head, n
      <4>4. At(rest, p, head) /\ At(rest, p + LenWidth, ps)
        BY <2>8, <4>2, <4>3, AtConcat
      <4>5. Len(head \o ps) = LenWidth + Len(ps) /\ Len(ps) \in Nat
        BY <2>8, <4>2
      <4>6. ReadLen(rest, p) = [len |-> n, pos |-> p + LenWidth]
        BY <2>1, <4>1, <4>4, LenBack DEF head
      <4>7. DecodeType(d, ty, rest, p)
              = Group("array", DecodeAll(d, [i \in 1..n |-> ty.of], p + LenWidth))
        <5>1. DecodeType(d, ty, rest, p)
                = LET m == ReadLen(rest, p)
                  IN  Group("array", DecodeAll(d, [i \in 1..m.len |-> ty.of], m.pos))
          BY <3>1 DEF DecodeType, Fixed, Small, Big, Floats
        <5>2. ReadLen(rest, p).len = n /\ ReadLen(rest, p).pos = p + LenWidth
          BY <4>6
        <5> QED
          BY <5>1, <5>2
      <4>8. bytes = head \o ps
        BY <2>9, <3>1 DEF head
      <4>9. p + Len(bytes) = start + Len(ps)
        <5> DEFINE x == Len(ps) y == Len(bytes)
        <5>1. y = LenWidth + x /\ x \in Nat /\ start = p + LenWidth
          BY <3>1, <4>5, <4>8
        <5> HIDE DEF x, y, start
        <5>2. p + y = start + x
          BY <4>2, <5>1
        <5> QED
          BY <5>2 DEF x, y
      <4> QED
        BY <3>1, <4>2, <4>4, <4>7, <4>9
    <3>2. CASE k # "vec"
      <4>1. bytes = ps /\ start = p
        BY <2>9, <3>2
      <4>2. At(rest, start, ps) /\ p + Len(bytes) = start + Len(ps)
        BY <1>1, <4>1
      <4>3. DecodeType(d, ty, rest, p) = Group(shape, DecodeAll(d, types, start))
        BY <1>8, <2>4, <3>2 DEF DecodeType, Fixed, Small, Big, Floats
      <4> QED
        BY <4>1, <4>2, <4>3
    <3> QED
      BY <3>1, <3>2
  <2> HIDE DEF types, n, start, shape
  <2>13. DecodeAll(d, types, start) = [val |-> Parts(Meaning, ty, v), pos |-> start + Len(ps)]
    <3>1. At(rest, start, FlattenSeq(Encoded(types, v, n)))
      BY <2>12 DEF ps
    <3>2. DecodeAll(d, types, start)
            = [val |-> [i \in 1..n |-> Meaning[types[i]][v[i]]],
               pos |-> start + Len(FlattenSeq(Encoded(types, v, n)))]
      BY <2>5, <2>6, <2>12, <3>1, WholeRead
    <3> QED
      BY <2>11, <3>2 DEF ps
  <2>14. Len(Parts(Meaning, ty, v)) = n
    <3>1. \A y \in Type : Depth[y] < Depth[ty] => Meaning[y] \in [Value[y] -> Seq(AnyNode)]
      BY MeaningDef
    <3> QED
      BY <1>8, <3>1, PartsType DEF n, Compound
  <2>15. Group(shape, DecodeAll(d, types, start)) = Got(json, start + Len(ps))
    <3> DEFINE ms == Parts(Meaning, ty, v) q == start + Len(ps)
    <3> HIDE DEF ms, q, json
    <3>1. json = Json(shape, n) \o FlattenSeq(ms) /\ Len(ms) = n
      BY <2>10, <2>14 DEF ms, json
    <3>2. DecodeAll(d, types, start) = [val |-> ms, pos |-> q]
      BY <2>13 DEF ms, q
    <3>3. Group(shape, [val |-> ms, pos |-> q]) = Got(json, q)
      BY <3>1 DEF Group
    <3> QED
      BY <3>2, <3>3 DEF q
  <2> QED
    BY <1>2, <2>12, <2>15
<1>9. CASE k = "option"
  <2> DEFINE n == Len(v) tag == ReadFixed("u8", rest, p)
  <2>1. /\ n \in Nat /\ DOMAIN v = 1..n
        /\ \A i \in 1..n : /\ Part(ty, i) \in Type /\ Depth[Part(ty, i)] < Depth[ty]
                           /\ v[i] \in Value[Part(ty, i)]
    BY <1>9, PartsOf DEF Compound
  <2>2. v \in Seq(Value[ty.of]) /\ n <= 1 /\ n \in {0, 1}
    <3>1. v \in Seq(Value[ty.of]) /\ n <= 1
      BY <1>5, <1>9 DEF Fit, Signed, Small, Big, Floats
    <3> QED
      BY <2>1, <3>1
  <2> DEFINE es == FlattenSeq(Parts(Encode, ty, v)) ms == FlattenSeq(Parts(Meaning, ty, v))
  <2>3. bytes = <<n>> \o es /\ json = IF v = <<>> THEN Null ELSE ms
    BY <1>3, <1>9 DEF EncodeBody, MeaningBody, Parts, Small, Big, Floats
  <2>4. /\ Parts(Encode, ty, v) \in Seq(Seq(Byte)) /\ Len(Parts(Encode, ty, v)) = n
        /\ \A i \in 1..n : Parts(Encode, ty, v)[i] = Encode[Part(ty, i)][v[i]]
        /\ es \in Seq(Byte)
    <3>1. \A y \in Type : Depth[y] < Depth[ty] => Encode[y] \in [Value[y] -> Seq(Byte)]
      BY EncodeDef
    <3> QED
      BY <1>9, <3>1, PartsType DEF Compound
  <2>5. /\ Parts(Meaning, ty, v) \in Seq(Seq(AnyNode)) /\ Len(Parts(Meaning, ty, v)) = n
        /\ \A i \in 1..n : Parts(Meaning, ty, v)[i] = Meaning[Part(ty, i)][v[i]]
    <3>1. \A y \in Type : Depth[y] < Depth[ty] => Meaning[y] \in [Value[y] -> Seq(AnyNode)]
      BY MeaningDef
    <3> QED
      BY <1>9, <3>1, PartsType DEF Compound
  <2>6. n \in Byte /\ <<n>> \in Seq(Byte) /\ Len(<<n>>) = 1 /\ Number(<<n>>) = n
    <3>1. n \in Byte
      BY <2>2, DecoderAssumption DEF Byte
    <3> HIDE DEF n
    <3> QED
      BY <3>1, NumberOne
  <2>7. At(rest, p, <<n>>) /\ At(rest, p + 1, es) /\ Len(<<n>> \o es) = 1 + Len(es)
    <3> DEFINE head == <<n>>
    <3> HIDE DEF es
    <3>1. At(rest, p, head \o es)
      BY <1>1, <2>3
    <3>2. head \in Seq(Byte) /\ Len(head) = 1
      BY <2>6
    <3> HIDE DEF head
    <3>3. At(rest, p, head) /\ At(rest, p + 1, es) /\ Len(head \o es) = 1 + Len(es)
      <4>1. \A a, b \in Seq(Byte) : Len(a \o b) = Len(a) + Len(b)
        OBVIOUS
      <4>2. At(rest, p, head) /\ At(rest, p + Len(head), es)
        BY <2>4, <3>1, <3>2, AtConcat DEF es
      <4> QED
        BY <2>4, <3>2, <4>1, <4>2 DEF es
    <3> QED
      BY <3>3 DEF head
  <2>8. tag = Got(Json("number", n), p + 1)
    <3> DEFINE head == <<n>>
    <3>1. At(rest, p, head) /\ head \in Seq(Byte) /\ Len(head) = 1 /\ Number(head) = n
      BY <2>6, <2>7
    <3> HIDE DEF head, n
    <3>2. Has(rest, p, 1) /\ Slice(rest, p, 1) = head
      BY <3>1, AtSlice DEF At
    <3>3. Scalar("u8", head) = Json("number", n)
      BY <3>1 DEF Scalar, Small, Signed, Big, Floats
    <3> QED
      BY <3>2, <3>3, WidthType DEF ReadFixed
  <2>9. Shape(tag.val) = "number" /\ Content(tag.val) = n /\ tag.pos = p + 1
    <3> HIDE DEF tag, n
    <3>1. tag.val = Json("number", n) /\ tag.pos = p + 1
      BY <2>8 DEF Got
    <3> QED
      BY <3>1, JsonParts
  <2> HIDE DEF tag
  <2>10. DecodeType(d, ty, rest, p) = IF n = 0 THEN Got(Null, p + 1) ELSE d[ty.of][p + 1]
    <3>1. DecodeType(d, ty, rest, p)
            = IF Shape(tag.val) = "null" \/ Content(tag.val) = 0 THEN Got(Null, tag.pos)
              ELSE d[ty.of][tag.pos]
      BY <1>9 DEF DecodeType, Fixed, Small, Big, Floats, tag
    <3> QED
      BY <2>9, <3>1
  <2>11. CASE n = 0
    <3>1. v = <<>> /\ Parts(Encode, ty, v) = <<>>
      BY <2>2, <2>4, <2>11, EmptySeq
    <3>2. es = <<>>
      BY <3>1 DEF FlattenSeq
    <3>3. Len(bytes) = 1 /\ json = Null
      BY <2>3, <2>7, <3>1, <3>2
    <3> QED
      BY <1>2, <2>10, <2>11, <3>3
  <2>12. CASE n = 1
    <3> DEFINE one == Encode[ty.of][v[1]] its == Meaning[ty.of][v[1]]
    <3>1. /\ ty.of \in Type /\ Depth[ty.of] < Depth[ty] /\ v[1] \in Value[ty.of]
          /\ Part(ty, 1) = ty.of
      BY <1>9, <2>1, <2>12 DEF Part
    <3>2. Faithful(rest, ty.of)
      BY <1>9, <3>1, OpaqueDef DEF OpaqueBody
    <3>3. es = one
      BY <2>4, <2>12, <3>1, FlattenOne
    <3>4. ms = its
      BY <2>5, <2>12, <3>1, FlattenOne
    <3>5. d[ty.of][p + 1] = Got(its, p + 1 + Len(one))
      BY <2>7, <3>1, <3>2, <3>3 DEF Faithful
    <3>6. v # <<>>
      BY <2>12
    <3>7. json = its /\ Len(bytes) = 1 + Len(one) /\ Len(one) \in Nat
      BY <2>3, <2>4, <2>7, <3>3, <3>4, <3>6
    <3>8. p + Len(bytes) = p + 1 + Len(one)
      <4> DEFINE x == Len(bytes) y == Len(one)
      <4>1. x = 1 + y /\ y \in Nat
        BY <3>7
      <4> HIDE DEF x, y
      <4>2. p + x = p + 1 + y
        BY <4>1
      <4> QED
        BY <4>2 DEF x, y
    <3>9. d[ty][p] = d[ty.of][p + 1]
      BY <1>2, <2>10, <2>12
    <3> QED
      BY <3>5, <3>7, <3>8, <3>9
  <2> QED
    BY <2>2, <2>11, <2>12
<1> QED
  BY <1>4, <1>6, <1>7, <1>8, <1>9 DEF Known

(* For every type of the IDL, however it nests, and every value: wherever in *)
(* the data its Borsh encoding stands, decode_type reads the JSON that is    *)
(* meant and stops right behind it.  Only an unknown type is excepted.       *)
THEOREM RoundTrip ==
    ASSUME NEW rest \in Seq(Byte)
    PROVE  \A ty \in Type : ~Opaque[ty] => Faithful(rest, ty)
<1> DEFINE S == {ty \in Type : ~Opaque[ty] => Faithful(rest, ty)}
<1>1. ASSUME NEW ty \in Type, \A y \in Type : Depth[y] < Depth[ty] => y \in S PROVE ty \in S
  <2>1. \A y \in Type : Depth[y] < Depth[ty] /\ ~Opaque[y] => Faithful(rest, y)
    BY <1>1
  <2>2. ~Opaque[ty] => Faithful(rest, ty)
    BY <2>1, RoundTripStep
  <2> QED
    BY <2>2
<1>2. \A ty \in Type : ty \in S
  <2> HIDE DEF S
  <2> QED
    BY <1>1, DepthInduction, TypesNest
<1> QED
  BY <1>2
-----------------------------------------------------------------------------
(* A message and the data that arrive of it.                                 *)
LEMMA FrontOf ==
    ASSUME NEW s \in Seq(Byte), NEW n \in Nat, n <= Len(s)
    PROVE  /\ SubSeq(s, 1, n) \in Seq(Byte) /\ Len(SubSeq(s, 1, n)) = n
           /\ \A i \in 1..n : SubSeq(s, 1, n)[i] = s[i]
<1>1. Has(s, 0, n) /\ 0 \in Nat
  BY DEF Has
<1>2. /\ Slice(s, 0, n) \in Seq(Byte) /\ Len(Slice(s, 0, n)) = n
      /\ \A i \in 1..n : Slice(s, 0, n)[i] = s[0 + i]
  BY <1>1, SliceIs
<1>3. Slice(s, 0, n) = SubSeq(s, 1, n)
  <2>1. 0 + 1 = 1 /\ 0 + n = n
    OBVIOUS
  <2> QED
    BY <2>1 DEF Slice
<1>4. \A i \in 1..n : 0 + i = i
  OBVIOUS
<1> QED
  BY <1>2, <1>3, <1>4

LEMMA RestOf ==
    ASSUME NEW s \in Seq(Byte), NEW n \in Nat, n <= Len(s)
    PROVE  LET rest == SubSeq(s, n + 1, Len(s))
           IN  /\ rest \in Seq(Byte) /\ Len(rest) = Len(s) - n
               /\ \A i \in 1..(Len(s) - n) : rest[i] = s[n + i]
<1> DEFINE m == Len(s) - n
<1>1. m \in Nat /\ Has(s, n, m) /\ n + m = Len(s)
  BY DEF Has
<1> HIDE DEF m
<1>2. /\ Slice(s, n, m) \in Seq(Byte) /\ Len(Slice(s, n, m)) = m
      /\ \A i \in 1..m : Slice(s, n, m)[i] = s[n + i]
  BY <1>1, SliceIs
<1>3. Slice(s, n, m) = SubSeq(s, n + 1, Len(s))
  BY <1>1 DEF Slice
<1> QED
  BY <1>2, <1>3 DEF m

LEMMA EncodeAllIs ==
    ASSUME NEW types, NEW v, NEW n, Written(types, v, n), types \in Seq(Type),
           NEW f, PrefixesAre(Byte, Encoded(types, v, n), f)
    PROVE  /\ EncodeAll(types, v) = f[n]
           /\ \A i \in 0..n : EncodeAll(SubSeq(types, 1, i), v) = f[i]
<1> DEFINE t == Encoded(types, v, n)
<1>1. n \in Nat /\ DOMAIN types = 1..n /\ Len(types) = n
  BY DEF Written
<1>2. t \in Seq(Seq(Byte)) /\ Len(t) = n /\ \A i \in 1..n : t[i] = Encode[types[i]][v[i]]
  BY EncodedType
<1>3. EncodeAll(types, v) = FlattenSeq(t)
  BY <1>1 DEF EncodeAll, Encoded
<1> HIDE DEF t
<1>4. PrefixesAre(Byte, t, f)
  BY DEF t
<1>5. ASSUME NEW i \in 0..n PROVE EncodeAll(SubSeq(types, 1, i), v) = f[i]
  <2> DEFINE a == SubSeq(types, 1, i) b == SubSeq(t, 1, i)
  <2>1. i \in Nat /\ i \in Int /\ 1 \in Int /\ \A j \in 1..i : j \in 1..n
    BY <1>1
  <2>2. Len(a) = i /\ DOMAIN a = 1..i /\ \A j \in 1..i : a[j] = types[j]
    <3>1. \A j \in 1..i : types[j] \in Type
      BY <1>1, <2>1
    <3>2. /\ a \in Seq(Type) /\ Len(a) = IF 1 <= i THEN i - 1 + 1 ELSE 0
          /\ \A j \in 1..i - 1 + 1 : a[j] = types[1 + j - 1]
      BY ONLY <2>1, <3>1, SubSeqProperties
    <3> HIDE DEF a
    <3> QED
      BY <2>1, <3>2
  <2>3. b \in Seq(Seq(Byte)) /\ Len(b) = i /\ DOMAIN b = 1..i /\ \A j \in 1..i : b[j] = t[j]
    <3>1. \A j \in 1..i : t[j] \in Seq(Byte)
      BY <1>2, <2>1
    <3>2. /\ b \in Seq(Seq(Byte)) /\ Len(b) = IF 1 <= i THEN i - 1 + 1 ELSE 0
          /\ \A j \in 1..i - 1 + 1 : b[j] = t[1 + j - 1]
      BY ONLY <2>1, <3>1, SubSeqProperties
    <3> HIDE DEF b
    <3> QED
      BY <2>1, <3>2
  <2> HIDE DEF a
  <2>4. [j \in DOMAIN a |-> Encode[a[j]][v[j]]] = b
    <3> HIDE DEF b
    <3>1. b = [j \in 1..i |-> b[j]]
      BY <2>3
    <3>2. \A j \in 1..i : b[j] = Encode[a[j]][v[j]]
      BY <1>2, <2>1, <2>2, <2>3
    <3> QED
      BY <2>2, <3>1, <3>2
  <2>5. EncodeAll(a, v) = FlattenSeq(b)
    BY <2>4 DEF EncodeAll
  <2>6. FlattenSeq(b) = f[i]
    BY <1>2, <1>4 DEF PrefixesAre
  <2> QED
    BY <2>5, <2>6 DEF a
<1> QED
  BY <1>2, <1>3, <1>4, <1>5 DEF PrefixesAre

(* The fields of a message, encoded one after the other.                     *)
FieldStarts(k, m, f) ==
    LET types == Entries[k][m.entry].fields
    IN  /\ Written(types, m.vals, Len(types)) /\ types \in Seq(Type)
        /\ PrefixesAre(Byte, Encoded(types, m.vals, Len(types)), f)

LEMMA FieldStartsExist ==
    ASSUME NEW k \in DOMAIN Entries, NEW m \in Messages[k]
    PROVE  \E f : FieldStarts(k, m, f)
<1> DEFINE types == Entries[k][m.entry].fields n == Len(types)
<1>1. /\ types \in Seq(Type) /\ DOMAIN m.vals = 1..n
      /\ \A i \in 1..n : m.vals[i] \in Value[types[i]]
  BY MessageIs
<1>2. Written(types, m.vals, n)
  <2> HIDE DEF types
  <2>1. n \in Nat /\ DOMAIN types = 1..n /\ \A i \in 1..n : types[i] \in Type
    BY <1>1
  <2> QED
    BY <1>1, <2>1 DEF Written
<1>3. Encoded(types, m.vals, n) \in Seq(Seq(Byte))
  BY <1>2, EncodedType
<1>4. PICK f : PrefixesAre(Byte, Encoded(types, m.vals, n), f)
  BY <1>3, FlattenPrefixes
<1>5. FieldStarts(k, m, f)
  BY <1>1, <1>2, <1>4 DEF FieldStarts
<1> QED
  BY <1>5

LEMMA Joined ==
    ASSUME NEW a \in Seq(Byte), NEW b \in Seq(Byte)
    PROVE  /\ a \o b \in Seq(Byte) /\ Len(a) \in Nat /\ Len(b) \in Nat
           /\ Len(a \o b) = Len(a) + Len(b)
           /\ \A i \in 1..(Len(a) + Len(b)) :
                (a \o b)[i] = IF i <= Len(a) THEN a[i] ELSE b[i - Len(a)]
<1>1. a \o b \in Seq(Byte) /\ Len(a) \in Nat /\ Len(b) \in Nat
  OBVIOUS
<1>2. Len(a \o b) = Len(a) + Len(b)
  OBVIOUS
<1>3. \A i \in 1..(Len(a) + Len(b)) :
        (a \o b)[i] = IF i <= Len(a) THEN a[i] ELSE b[i - Len(a)]
  OBVIOUS
<1> QED
  BY <1>1, <1>2, <1>3

LEMMA ArrivalIs ==
    ASSUME NEW k \in DOMAIN Entries, NEW m \in Messages[k], NEW bytes \in Arrivals(k, m),
           NEW f, FieldStarts(k, m, f)
    PROVE  LET e == Entries[k][m.entry]
               rest == SubSeq(bytes, DiscLen + 1, Len(bytes))
           IN  /\ bytes \in Seq(Byte) /\ Len(bytes) >= DiscLen
               /\ DiscOf(e) = Slice(bytes, 0, DiscLen)
               /\ rest \in Seq(Byte) /\ Len(rest) = Len(bytes) - DiscLen
               /\ \A i \in 0..Len(e.fields) :
                    DiscLen + Len(f[i]) <= Len(bytes) => At(rest, 0, f[i])
<1> DEFINE
      e == Entries[k][m.entry]
      n == Len(e.fields)
      t == Encoded(e.fields, m.vals, n)
      enc == EncodeAll(e.fields, m.vals)
      disc == DiscOf(e)
      all == disc \o enc
      rest == SubSeq(bytes, DiscLen + 1, Len(bytes))
<1>1. disc \in Seq(Byte) /\ Len(disc) = DiscLen /\ DiscLen \in Nat
  BY MessageIs, DiscType, DecoderAssumption
<1>2. Written(e.fields, m.vals, n) /\ e.fields \in Seq(Type) /\ PrefixesAre(Byte, t, f)
  BY DEF FieldStarts
<1>3. n \in Nat /\ Len(t) = n /\ t \in Seq(Seq(Byte))
  BY <1>2, EncodedType DEF Written
<1>4. enc = f[n]
  BY <1>2, EncodeAllIs
<1>5. bytes \in Seq(Byte)
  BY ArrivalsAreBytes
<1>6. Arrivals(k, m) = {SubSeq(all, 1, i) : i \in DiscLen..Len(all)} \cup {all \o p : p \in Pads}
  BY DEF Arrivals
<1> HIDE DEF e, n, t, enc, disc, rest
<1>7. f \in [0..n -> Seq(Byte)] /\ enc \in Seq(Byte)
  <2>1. f \in [0..n -> Seq(Byte)]
    BY <1>2, <1>3 DEF PrefixesAre
  <2> QED
    BY <1>3, <1>4, <2>1
<1>8. /\ Len(all) = DiscLen + Len(enc) /\ Len(enc) \in Nat /\ all \in Seq(Byte)
      /\ \A i \in 1..(DiscLen + Len(enc)) :
           all[i] = IF i <= DiscLen THEN disc[i] ELSE enc[i - DiscLen]
  BY <1>1, <1>7, Joined
<1> HIDE DEF all
<1>9. /\ Len(bytes) \in Nat /\ Len(bytes) >= DiscLen
      /\ \A i \in 1..Len(bytes) : i <= Len(all) => bytes[i] = all[i]
  <2>1. CASE \E p \in Pads : bytes = all \o p
    <3>1. PICK p \in Seq(Byte) : bytes = all \o p
      BY <2>1, TypedRowAssumption
    <3>2. /\ Len(all \o p) = Len(all) + Len(p) /\ Len(p) \in Nat /\ Len(all) \in Nat
          /\ \A i \in 1..(Len(all) + Len(p)) :
               (all \o p)[i] = IF i <= Len(all) THEN all[i] ELSE p[i - Len(all)]
      BY <1>8, Joined
    <3> QED
      BY <1>1, <1>8, <3>1, <3>2
  <2>2. CASE \E i \in DiscLen..Len(all) : bytes = SubSeq(all, 1, i)
    <3>1. PICK i \in DiscLen..Len(all) : bytes = SubSeq(all, 1, i)
      BY <2>2
    <3>2. i \in Nat /\ i <= Len(all) /\ i >= DiscLen
      BY <1>1, <1>8
    <3>3. Len(bytes) = i /\ \A j \in 1..i : bytes[j] = all[j]
      BY <1>8, <3>1, <3>2, FrontOf
    <3> QED
      BY <3>2, <3>3
  <2> QED
    BY <1>6, <2>1, <2>2
<1>10. disc = Slice(bytes, 0, DiscLen)
  <2>1. Has(bytes, 0, DiscLen) /\ 0 \in Nat
    BY <1>1, <1>9 DEF Has
  <2>2. /\ Slice(bytes, 0, DiscLen) \in Seq(Byte) /\ Len(Slice(bytes, 0, DiscLen)) = DiscLen
        /\ \A i \in 1..DiscLen : Slice(bytes, 0, DiscLen)[i] = bytes[0 + i]
    BY <1>1, <1>5, <2>1, SliceIs
  <2>3. \A i \in 1..DiscLen : bytes[0 + i] = disc[i]
    <3>1. \A i \in 1..DiscLen : /\ 0 + i = i /\ i \in 1..Len(bytes) /\ i <= Len(all)
                                /\ i \in 1..(DiscLen + Len(enc)) /\ i <= DiscLen
      BY <1>1, <1>8, <1>9
    <3> QED
      BY <1>8, <1>9, <3>1
  <2> DEFINE s == Slice(bytes, 0, DiscLen)
  <2> HIDE DEF s
  <2>4. s \in Seq(Byte) /\ Len(s) = DiscLen /\ \A i \in 1..DiscLen : s[i] = disc[i]
    BY <2>2, <2>3 DEF s
  <2>5. s = disc
    BY <1>1, <2>4, SeqEqual
  <2> QED
    BY <2>5 DEF s
<1>11. /\ rest \in Seq(Byte) /\ Len(rest) = Len(bytes) - DiscLen
       /\ \A i \in 1..(Len(bytes) - DiscLen) : rest[i] = bytes[DiscLen + i]
  BY <1>1, <1>5, <1>9, RestOf DEF rest
<1>12. ASSUME NEW i \in 0..n, DiscLen + Len(f[i]) <= Len(bytes)
       PROVE  At(rest, 0, f[i])
  <2> DEFINE l == Len(f[i])
  <2>1. l \in Nat /\ DiscLen + l <= Len(bytes)
    BY <1>7, <1>12
  <2>2. At(enc, 0, f[i])
    <3>1. 0 \in Nat /\ n \in 0..n
      BY <1>3
    <3>2. \A a \in 0..n : \A b \in 0..a : At(f[a], 0, f[b])
      BY <1>2, <1>3, <1>5, <3>1, StartsAt
    <3> QED
      BY <1>3, <1>4, <3>1, <3>2
  <2>3. 0 + l <= Len(enc) /\ \A j \in 1..l : enc[0 + j] = f[i][j]
    BY <2>2 DEF At, Has
  <2> HIDE DEF l
  <2>4. ASSUME NEW j \in 1..l PROVE rest[0 + j] = f[i][j]
    <3> DEFINE q == DiscLen + j
    <3>1. /\ 0 + j = j /\ j \in 1..(Len(bytes) - DiscLen)
          /\ q \in 1..Len(bytes) /\ q <= Len(all) /\ q \in 1..(DiscLen + Len(enc))
          /\ ~(q <= DiscLen) /\ q - DiscLen = j
      BY <1>1, <1>8, <1>9, <2>1, <2>3
    <3> HIDE DEF q
    <3>2. rest[j] = bytes[q]
      BY <1>11, <3>1 DEF q
    <3>3. bytes[q] = all[q] /\ all[q] = enc[j]
      BY <1>8, <1>9, <3>1
    <3> QED
      BY <2>3, <3>1, <3>2, <3>3
  <2>5. 0 + l <= Len(rest)
    BY <1>1, <1>9, <1>11, <2>1
  <2> QED
    BY <2>4, <2>5 DEF At, Has, l
<1> QED
  BY <1>5, <1>9, <1>10, <1>11, <1>12 DEF e, n, disc, rest

(* What has arrived of the first i fields is read as it was sent, and the    *)
(* reader stands behind it.                                                  *)
Reached(k, m, bytes, i) ==
    LET types == Entries[k][m.entry].fields
    IN  /\ i \in 0..Len(types) /\ \A j \in 1..i : ~Opaque[types[j]]
        /\ DiscLen + Len(EncodeAll(SubSeq(types, 1, i), m.vals)) <= Len(bytes)

Arrived(k, m, bytes, i, at) ==
    LET types == Entries[k][m.entry].fields
        rest == SubSeq(bytes, DiscLen + 1, Len(bytes))
    IN  /\ Stops(Decoding(rest), types, Len(types), 0, at)
        /\ at[i] = Len(EncodeAll(SubSeq(types, 1, i), m.vals))
        /\ \A j \in 1..i : DecodeFields(Entries[k][m.entry], bytes)[j]
                             = Meaning[types[j]][m.vals[j]]

LEMMA FieldsArrive ==
    ASSUME NEW k \in DOMAIN Entries, NEW m \in Messages[k], NEW bytes \in Arrivals(k, m),
           NEW i, Reached(k, m, bytes, i)
    PROVE  \E at : Arrived(k, m, bytes, i, at)
<1> DEFINE
      e == Entries[k][m.entry]
      types == e.fields
      n == Len(types)
      rest == SubSeq(bytes, DiscLen + 1, Len(bytes))
<1>1. PICK f : FieldStarts(k, m, f)
  BY FieldStartsExist
<1>2. Written(types, m.vals, n) /\ types \in Seq(Type) /\ PrefixesAre(Byte, Encoded(types, m.vals, n), f)
  BY <1>1 DEF FieldStarts
<1>3. /\ i \in 0..n /\ \A j \in 1..i : ~Opaque[types[j]]
      /\ DiscLen + Len(EncodeAll(SubSeq(types, 1, i), m.vals)) <= Len(bytes)
  BY DEF Reached
<1>4. EncodeAll(SubSeq(types, 1, i), m.vals) = f[i]
  <2> HIDE DEF types, n
  <2>1. \A j \in 0..n : EncodeAll(SubSeq(types, 1, j), m.vals) = f[j]
    BY ONLY <1>2, EncodeAllIs
  <2> QED
    BY <1>3, <2>1
<1>5. rest \in Seq(Byte) /\ At(rest, 0, f[i])
  BY <1>1, <1>3, <1>4, ArrivalIs
<1>6. \A j \in 1..i : types[j] \in Type
  <2>1. n \in Nat /\ \A j \in 1..n : types[j] \in Type
    BY <1>2
  <2> QED
    BY <1>3, <2>1
<1>7. \A j \in 1..i : Faithful(rest, types[j])
  <2> HIDE DEF rest, types
  <2> QED
    BY <1>3, <1>5, <1>6, RoundTrip
<1>8. Stands(rest, 0, types, n, f, i)
  BY <1>3, <1>5, <1>7 DEF Stands
<1>9. PICK at : IsRead(rest, 0, types, m.vals, n, f, i, at)
  <2>1. 0 \in Nat
    OBVIOUS
  <2> HIDE DEF rest, types, n
  <2> QED
    BY ONLY <1>2, <1>5, <1>8, <2>1, PrefixRead
<1>10. at[i] = 0 + Len(f[i]) /\ Stops(Decoding(rest), types, n, 0, at)
       /\ \A j \in 1..i : DecodeAll(Decoding(rest), types, 0).val[j] = Meaning[types[j]][m.vals[j]]
  BY <1>9 DEF IsRead
<1>11. 0 + Len(f[i]) = Len(f[i])
  <2> DEFINE t == Encoded(types, m.vals, n)
  <2>0. Len(t) = n
    BY <1>2, EncodedType
  <2> HIDE DEF t, n
  <2>1. f \in [0..n -> Seq(Byte)]
    BY <1>2, <2>0 DEF PrefixesAre, t
  <2>2. f[i] \in Seq(Byte)
    BY <1>3, <2>1
  <2> QED
    BY <2>2
<1>12. DecodeFields(e, bytes) = DecodeAll(Decoding(rest), types, 0).val
  BY DEF DecodeFields
<1>13. Arrived(k, m, bytes, i, at)
  BY <1>4, <1>10, <1>11, <1>12 DEF Arrived
<1> QED
  BY <1>13
-----------------------------------------------------------------------------
(* The invariant: data are what is left of the message, or a pad behind it;  *)
(* the entry is the first that takes them, the values what it decodes.       *)
ReadInv ==
    /\ RowInv
    /\ sent # NoMessage => sent \in Messages[kind] /\ data \in Arrivals(kind, sent)
    /\ Decoded => /\ entry \in Matching(Entries[kind], data)
                  /\ \A j \in Matching(Entries[kind], data) : entry <= j
                  /\ vals = DecodeFields(Entries[kind][entry], data)

LEMMA ReadInvStep ==
    ASSUME ReadInv, [Next]_vars
    PROVE  ReadInv'
<1>1. RowInv'
  BY RowInvStep DEF ReadInv
<1>2. UNCHANGED <<kind, sent, data>>
  BY DEF Next, NoHandler, Decode, InsertRow, InsertRefused, vars
<1>3. (sent # NoMessage => sent \in Messages[kind] /\ data \in Arrivals(kind, sent))'
  BY <1>2 DEF ReadInv
<1>4. CASE NoHandler
  BY <1>1, <1>3, <1>4 DEF NoHandler, ReadInv, Decoded
<1>5. CASE Decode
  <2>1. PICK i \in Matching(Entries[kind], data) :
            /\ \A j \in Matching(Entries[kind], data) : i <= j
            /\ entry' = i /\ vals' = DecodeFields(Entries[kind][i], data)
    BY <1>5 DEF Decode
  <2> QED
    BY <1>1, <1>2, <1>3, <2>1 DEF ReadInv
<1>6. CASE InsertRow \/ InsertRefused
  <2>1. UNCHANGED <<entry, vals>> /\ Decoded
    BY <1>6 DEF InsertRow, InsertRefused, Decoded
  <2> QED
    BY <1>1, <1>2, <1>3, <2>1 DEF ReadInv
<1>7. CASE UNCHANGED vars
  BY <1>1, <1>3, <1>7 DEF vars, ReadInv, Decoded
<1> QED
  BY <1>4, <1>5, <1>6, <1>7 DEF Next

(* For every IDL and every message: the row is that of the first handler     *)
(* that takes the data, and its values are what decode gives for them.       *)
THEOREM ReadInvariant == Spec => []ReadInv
<1>1. Init => ReadInv
  BY RowInvInit DEF Init, ReadInv, Decoded
<1>2. ReadInv /\ [Next]_vars => ReadInv'
  BY ReadInvStep
<1> QED
  BY <1>1, <1>2, PTL DEF Spec

(* Whatever the IDL, the messages and how much of one arrives: what is       *)
(* legible is read as it was written, by the first entry that has the        *)
(* message's discriminator (decoder.rs:77, 162).                             *)
THEOREM MeantIsRead == Spec => []FieldsDecodeExactly
<1>1. ASSUME ReadInv, Decoded, sent # NoMessage
      PROVE  /\ entry <= sent.entry
             /\ DiscOf(Entries[kind][entry]) = DiscOf(Entries[kind][sent.entry])
             /\ entry = sent.entry =>
                  \A i \in DOMAIN Fields : Legible(i) /\ Ends(i) <= Len(data) =>
                      vals[i] = Meaning[Fields[i]][sent.vals[i]]
  <2>1. kind \in DOMAIN Entries /\ sent \in Messages[kind] /\ data \in Arrivals(kind, sent)
    BY <1>1 DEF ReadInv, RowInv
  <2>2. /\ entry \in Matching(Entries[kind], data)
        /\ \A j \in Matching(Entries[kind], data) : entry <= j
        /\ vals = DecodeFields(Entries[kind][entry], data)
    BY <1>1 DEF ReadInv
  <2>3. Len(data) >= DiscLen /\ DiscOf(Entries[kind][sent.entry]) = Slice(data, 0, DiscLen)
    <3>1. PICK f : FieldStarts(kind, sent, f)
      BY <2>1, FieldStartsExist
    <3> QED
      BY <2>1, <3>1, ArrivalIs
  <2>4. sent.entry \in Matching(Entries[kind], data)
    BY <2>1, <2>3, MessageIs DEF Matching
  <2>5. DiscOf(Entries[kind][entry]) = DiscOf(Entries[kind][sent.entry])
    BY <2>2, <2>3 DEF Matching
  <2>6. ASSUME entry = sent.entry, NEW i \in DOMAIN Fields, Legible(i), Ends(i) <= Len(data)
        PROVE  vals[i] = Meaning[Fields[i]][sent.vals[i]]
    <3>1. Fields = Entries[kind][sent.entry].fields /\ i \in 1..Len(Fields)
      BY <2>1, <2>6, MessageIs DEF Fields
    <3>2. i \in 1..i /\ i \in 0..Len(Fields)
      BY <3>1
    <3>3. Reached(kind, sent, data, i)
      BY <2>6, <3>1, <3>2 DEF Reached, Legible, Ends
    <3>4. PICK at : Arrived(kind, sent, data, i, at)
      BY <2>1, <3>3, FieldsArrive
    <3> QED
      BY <2>2, <2>6, <3>1, <3>2, <3>4 DEF Arrived
  <2> QED
    BY <2>2, <2>4, <2>5, <2>6
<1>2. ReadInv => FieldsDecodeExactly
  BY <1>1 DEF FieldsDecodeExactly
<1> QED
  BY <1>2, ReadInvariant, PTL
-----------------------------------------------------------------------------
(* At the end of the data there is nothing to read.                          *)
BlankNode == {x \in Node : \/ x.j \in {"null", "array", "object"}
                           \/ x.j = "hex" /\ x.v = <<>>}

Quiet(decode, ty, p) == decode[ty][p].pos = p /\ decode[ty][p].val \in Seq(BlankNode)

LEMMA BlankLeaves ==
    /\ Null \in Seq(BlankNode) /\ Json("hex", <<>>) \in Seq(BlankNode)
    /\ \A shape \in {"array", "object"} : \A n \in Nat : Json(shape, n) \in Seq(BlankNode)
    /\ \A json \in Seq(BlankNode) : json \in Seq(Node) /\ Blank(json)
<1>1. <<>> \in Seq(Byte)
  OBVIOUS
<1>2. /\ [j |-> "null", v |-> <<>>] \in BlankNode
      /\ [j |-> "hex", v |-> <<>>] \in BlankNode
      /\ \A shape \in {"array", "object"} : \A n \in Nat : [j |-> shape, v |-> n] \in BlankNode
  <2> DEFINE V == Int \cup BOOLEAN \cup Seq(Byte)
  <2>1. <<>> \in V /\ \A n \in Nat : n \in V
    BY <1>1
  <2> HIDE DEF V
  <2>2. \A shape \in Shapes : \A v \in V : [j |-> shape, v |-> v] \in Node
    BY DEF Node, V
  <2>3. {"null", "hex", "array", "object"} \subseteq Shapes
    BY DEF Shapes
  <2>4. ASSUME NEW shape \in {"null", "array", "object"}, NEW v \in V
        PROVE  [j |-> shape, v |-> v] \in BlankNode
    <3> DEFINE node == [j |-> shape, v |-> v]
    <3>1. node \in Node /\ node.j \in {"null", "array", "object"}
      BY <2>2, <2>3
    <3> HIDE DEF node
    <3>2. \A n \in Node : n.j \in {"null", "array", "object"} => n \in BlankNode
      BY DEF BlankNode
    <3> QED
      BY <3>1, <3>2 DEF node
  <2>5. [j |-> "hex", v |-> <<>>] \in BlankNode
    <3>1. [j |-> "hex", v |-> <<>>] \in Node
      BY <2>1, <2>2, <2>3
    <3> QED
      BY <3>1 DEF BlankNode
  <2> QED
    BY <2>1, <2>4, <2>5
<1>3. \A x \in BlankNode : <<x>> \in Seq(BlankNode)
  OBVIOUS
<1>4. ASSUME NEW json \in Seq(BlankNode) PROVE json \in Seq(Node) /\ Blank(json)
  <2>1. json \in Seq(Node)
    BY DEF BlankNode
  <2>2. \A i \in DOMAIN json : json[i] \in BlankNode
    OBVIOUS
  <2> QED
    BY <2>1, <2>2 DEF Blank, BlankNode
<1> QED
  BY <1>2, <1>3, <1>4 DEF Null, Json

(* From the m-th part on the reader rests at p.                              *)
Resting(decode, types, n, pos, at, m, p) ==
    /\ Stops(decode, types, n, pos, at) /\ n \in Nat /\ m \in 0..n /\ at[m] = p
    /\ \A i \in 1..n : i > m => Quiet(decode, types[i], p)

Rests(decode, types, n, pos, at, m, p) ==
    /\ at[n] = p
    /\ \A i \in 1..n : i > m => DecodeAll(decode, types, pos).val[i] \in Seq(BlankNode)

LEMMA DecodeAllRests ==
    ASSUME NEW decode, NEW types, NEW n, NEW pos, NEW at, NEW m, NEW p,
           Resting(decode, types, n, pos, at, m, p)
    PROVE  Rests(decode, types, n, pos, at, m, p)
<1>1. /\ n \in Nat /\ m \in 0..n /\ at[m] = p
      /\ \A i \in 1..n : i > m => Quiet(decode, types[i], p)
  BY DEF Resting
<1>2. /\ \A i \in 1..n : at[i] = decode[types[i]][at[i - 1]].pos
      /\ \A i \in 1..n : DecodeAll(decode, types, pos).val[i] = decode[types[i]][at[i - 1]].val
  BY DEF Resting, Stops
<1> DEFINE S == {i \in 0..n : i >= m => at[i] = p}
<1>3. \A i \in 0..n : i \in S
  <2>1. 0 \in S
    BY <1>1
  <2>2. ASSUME NEW i \in 1..n, i - 1 \in S PROVE i \in S
    <3>1. i \in 0..n /\ (i = m \/ i < m \/ (i - 1 >= m /\ i > m))
      BY <1>1
    <3>2. CASE i - 1 >= m /\ i > m
      <4>1. at[i - 1] = p
        BY <2>2, <3>2
      <4>2. at[i] = p
        BY <1>1, <1>2, <3>2, <4>1 DEF Quiet
      <4> QED
        BY <3>1, <4>2
    <3>3. CASE i = m
      BY <1>1, <3>1, <3>3
    <3>4. CASE i < m
      BY <1>1, <3>1, <3>4
    <3> QED
      BY <3>1, <3>2, <3>3, <3>4
  <2> HIDE DEF S
  <2> QED
    BY <1>1, <2>1, <2>2, UpToInduction
<1>4. at[n] = p
  <2>1. n \in 0..n /\ n >= m
    BY <1>1
  <2> QED
    BY <1>3, <2>1
<1>5. ASSUME NEW i \in 1..n, i > m
      PROVE  DecodeAll(decode, types, pos).val[i] \in Seq(BlankNode)
  <2>1. i - 1 \in 0..n /\ i - 1 >= m
    BY <1>1, <1>5
  <2>2. at[i - 1] = p
    BY <1>3, <2>1
  <2> QED
    BY <1>1, <1>2, <1>5, <2>2 DEF Quiet
<1> QED
  BY <1>4, <1>5 DEF Rests

LEMMA GroupRests ==
    ASSUME NEW shape \in {"array", "object"}, NEW decode, NEW types, NEW n, NEW p,
           Moves(decode, types, n, p), \A i \in 1..n : Quiet(decode, types[i], p)
    PROVE  LET got == Group(shape, DecodeAll(decode, types, p))
           IN  got.pos = p /\ got.val \in Seq(BlankNode)
<1> DEFINE all == DecodeAll(decode, types, p) vs == all.val
<1>1. PICK at : Stops(decode, types, n, p, at)
  BY DecodeAllSteps
<1>2. n \in Nat /\ at[0] = p /\ all.pos = at[n] /\ DOMAIN vs = 1..n /\ \E W : vs \in [1..n -> W]
  BY <1>1 DEF Moves, Stops
<1>3. Resting(decode, types, n, p, at, 0, p)
  BY <1>1, <1>2 DEF Resting
<1>4. Rests(decode, types, n, p, at, 0, p)
  BY ONLY <1>3, DecodeAllRests
<1>5. all.pos = p /\ \A i \in 1..n : vs[i] \in Seq(BlankNode)
  BY <1>2, <1>4 DEF Rests
<1> HIDE DEF all
<1>6. vs \in Seq(Seq(BlankNode)) /\ Len(vs) = n
  <2> HIDE DEF vs
  <2>1. vs \in [1..n -> Seq(BlankNode)]
    BY <1>2, <1>5
  <2> QED
    BY <1>2, <2>1
<1> DEFINE head == Json(shape, Len(vs)) tail == FlattenSeq(vs)
<1>7. head \in Seq(BlankNode)
  BY <1>2, <1>6, BlankLeaves
<1>8. tail \in Seq(BlankNode)
  BY <1>6, FlattenType
<1>9. Group(shape, all) = [val |-> head \o tail, pos |-> all.pos]
  BY DEF Group, Got
<1> HIDE DEF head, tail
<1>10. head \o tail \in Seq(BlankNode)
  BY <1>7, <1>8, ConcatProperties
<1> QED
  BY <1>5, <1>9, <1>10 DEF all

LEMMA BlankStep ==
    ASSUME NEW rest \in Seq(Byte), NEW ty \in Type,
           \A y \in Type : Depth[y] < Depth[ty] => Quiet(Decoding(rest), y, Len(rest))
    PROVE  Quiet(Decoding(rest), ty, Len(rest))
<1> DEFINE d == Decoding(rest) p == Len(rest) got == DecodeType(d, ty, rest, p) k == ty.k
<1>1. p \in Nat /\ d[ty][p] = got
  BY DecodingDef
<1>2. \A n \in Nat \ {0} : ~Has(rest, p, n)
  BY <1>1 DEF Has
<1>3. SUFFICES got.pos = p /\ got.val \in Seq(BlankNode)
  BY <1>1 DEF Quiet
<1>4. Got(Null, p).pos = p /\ Got(Null, p).val \in Seq(BlankNode)
  BY BlankLeaves DEF Got
<1>5. LenWidth \in Nat \ {0} /\ Width["u8"] \in Nat \ {0}
      /\ (k \in Fixed => Width[k] \in Nat \ {0})
  BY DecoderAssumption DEF LenWidth, Fixed, Small
<1>6. ReadLen(rest, p) = [len |-> 0, pos |-> p]
  BY <1>2, <1>5 DEF ReadLen
<1>7. \A y \in Type : Depth[y] < Depth[ty] => Quiet(d, y, p)
  OBVIOUS
<1>8. \A types : \A n \in Nat :
          DOMAIN types = 1..n /\ Len(types) = n /\ (\A i \in 1..n : types[i] \in Type)
            => Moves(d, types, n, p)
  BY <1>1, DecodingMoves
<1> HIDE DEF d, p
<1>9. CASE k \in Fixed
  <2>1. got = ReadFixed(k, rest, p)
    BY <1>9 DEF DecodeType, Fixed, Small, Big, Floats
  <2> QED
    BY <1>2, <1>4, <1>5, <1>9, <2>1 DEF ReadFixed
<1>10. CASE k = "string"
  <2>1. got = ReadText(k, rest, p)
    BY <1>10 DEF DecodeType, Fixed, Small, Big, Floats
  <2> QED
    BY <1>2, <1>4, <1>5, <1>10, <2>1 DEF ReadText
<1>11. CASE k = "bytes"
  <2>1. got = ReadText(k, rest, p)
    BY <1>11 DEF DecodeType, Fixed, Small, Big, Floats
  <2>2. Has(rest, p, 0) /\ p + 0 = p
    BY <1>1 DEF Has, p
  <2>3. Slice(rest, p, 0) = <<>>
    <3>1. Slice(rest, p, 0) \in Seq(Byte) /\ Len(Slice(rest, p, 0)) = 0
      BY <1>1, <2>2, SliceIs
    <3> QED
      BY <3>1
  <2>4. got = Got(Json("hex", <<>>), p)
    BY <1>6, <1>11, <2>1, <2>2, <2>3 DEF ReadText
  <2> QED
    BY <2>4, BlankLeaves DEF Got
<1>12. CASE k \in {"vec", "array"}
  <2> DEFINE
        len == IF k = "vec" THEN 0 ELSE ty.len
        types == [i \in 1..len |-> ty.of]
  <2>1. got = Group("array", DecodeAll(d, types, p))
    <3>1. CASE k = "vec"
      <4>1. got = LET n == ReadLen(rest, p)
                  IN  Group("array", DecodeAll(d, [i \in 1..n.len |-> ty.of], n.pos))
        BY <3>1 DEF DecodeType, Fixed, Small, Big, Floats
      <4> QED
        BY <1>6, <3>1, <4>1
    <3>2. CASE k = "array"
      BY <3>2 DEF DecodeType, Fixed, Small, Big, Floats
    <3> QED
      BY <1>12, <3>1, <3>2
  <2>2. len \in Nat
    BY <1>12, TypesNest
  <2>3. ty.of \in Type /\ Quiet(d, ty.of, p)
    BY <1>7, <1>12, TypesNest
  <2> HIDE DEF len
  <2>4. DOMAIN types = 1..len /\ Len(types) = len /\ \A i \in 1..len : types[i] = ty.of
    <3>1. DOMAIN types = 1..len /\ \A i \in 1..len : types[i] = ty.of
      OBVIOUS
    <3>2. types \in Seq({ty.of})
      BY <2>2
    <3> HIDE DEF types
    <3> QED
      BY <2>2, <3>1, <3>2
  <2> HIDE DEF types
  <2>5. Moves(d, types, len, p) /\ \A i \in 1..len : Quiet(d, types[i], p)
    BY <1>8, <2>2, <2>3, <2>4
  <2> QED
    BY <2>1, <2>5, GroupRests
<1>13. CASE k = "option"
  <2>1. ReadFixed("u8", rest, p) = Got(Null, p)
    BY <1>2, <1>5 DEF ReadFixed
  <2>2. Got(Null, p).val = Null /\ Got(Null, p).pos = p /\ Shape(Null) = "null"
    BY DEF Got, Null, Shape, Json
  <2>3. got = Got(Null, p)
    BY <1>13, <2>1, <2>2 DEF DecodeType, Fixed, Small, Big, Floats
  <2> QED
    BY <1>4, <2>3
<1>14. CASE k \in {"defined", "OptionBool"}
  <2>1. ~(p < Len(rest))
    BY <1>1 DEF p
  <2>2. got = Got(Null, p)
    BY <1>14, <2>1 DEF DecodeType, Fixed, Small, Big, Floats
  <2> QED
    BY <1>4, <2>2
<1>15. CASE k = "struct"
  <2>1. got = Group("object", DecodeAll(d, ty.fields, p))
    BY <1>15 DEF DecodeType, Fixed, Small, Big, Floats
  <2>2. /\ ty.fields \in Seq(Type)
        /\ \A i \in 1..Len(ty.fields) : ty.fields[i] \in Type /\ Quiet(d, ty.fields[i], p)
    BY <1>7, <1>15, TypesNest
  <2>3. Len(ty.fields) \in Nat /\ DOMAIN ty.fields = 1..Len(ty.fields)
    BY <2>2
  <2>4. Moves(d, ty.fields, Len(ty.fields), p)
    BY <1>8, <2>2, <2>3
  <2> QED
    BY <2>1, <2>2, <2>4, GroupRests
<1>16. CASE k \notin Fixed \cup {"string", "bytes", "vec", "array", "option", "defined",
                                 "OptionBool", "struct"}
  <2>1. got = Got(Null, p)
    BY <1>16 DEF DecodeType
  <2> QED
    BY <1>4, <2>1
<1> QED
  BY <1>9, <1>10, <1>11, <1>12, <1>13, <1>14, <1>15, <1>16

LEMMA BlankAtEnd ==
    ASSUME NEW rest \in Seq(Byte)
    PROVE  \A ty \in Type : Quiet(Decoding(rest), ty, Len(rest))
<1> DEFINE S == {ty \in Type : Quiet(Decoding(rest), ty, Len(rest))}
<1>1. ASSUME NEW ty \in Type, \A y \in Type : Depth[y] < Depth[ty] => y \in S PROVE ty \in S
  BY <1>1, BlankStep
<1>2. \A ty \in Type : ty \in S
  <2> HIDE DEF S
  <2> QED
    BY <1>1, DepthInduction, TypesNest
<1> QED
  BY <1>2

(* Whatever the IDL and the message: where the data end between two fields,  *)
(* nothing is invented for those behind (decoder.rs:206).                    *)
THEOREM MissingIsBlank == Spec => []TailIsBlank
<1>1. ASSUME ReadInv, Decoded, sent # NoMessage, entry = sent.entry,
             NEW i \in DOMAIN Fields, Legible(i - 1), Ends(i - 1) = Len(data),
             NEW j \in i..Len(Fields)
      PROVE  Blank(vals[j])
  <2> DEFINE
        n == Len(Fields)
        rest == SubSeq(data, DiscLen + 1, Len(data))
  <2>1. kind \in DOMAIN Entries /\ sent \in Messages[kind] /\ data \in Arrivals(kind, sent)
    BY <1>1 DEF ReadInv, RowInv
  <2>2. vals = DecodeFields(Entries[kind][sent.entry], data)
    BY <1>1 DEF ReadInv
  <2>3. Fields = Entries[kind][sent.entry].fields /\ Fields \in Seq(Type)
    BY <1>1, <2>1, MessageIs DEF Fields
  <2>4. n \in Nat /\ i \in 1..n /\ i - 1 \in 0..n /\ j \in 1..n /\ j > i - 1
    <3>1. n \in Nat /\ DOMAIN Fields = 1..n
      BY <2>3
    <3> HIDE DEF n
    <3>2. i \in 1..n /\ j \in i..n
      BY <1>1, <3>1 DEF n
    <3> QED
      BY <3>1, <3>2
  <2>5. rest \in Seq(Byte) /\ Len(rest) = Len(data) - DiscLen /\ Len(data) >= DiscLen
        /\ DiscLen \in Nat /\ Len(data) \in Nat
    <3>1. PICK f : FieldStarts(kind, sent, f)
      BY <2>1, FieldStartsExist
    <3>2. data \in Seq(Byte)
      BY <1>1 DEF ReadInv, RowInv
    <3> QED
      BY <2>1, <3>1, <3>2, ArrivalIs, DecoderAssumption
  <2> DEFINE l == Len(EncodeAll(SubSeq(Fields, 1, i - 1), sent.vals))
  <2>6. DiscLen + l = Len(data)
    BY <1>1 DEF Ends
  <2>7. Reached(kind, sent, data, i - 1)
    <3>1. \A h \in 1..(i - 1) : ~Opaque[Fields[h]]
      BY <1>1 DEF Legible
    <3>2. DiscLen + l <= Len(data)
      BY <2>5, <2>6
    <3> QED
      BY <2>3, <2>4, <3>1, <3>2 DEF Reached
  <2>8. PICK at : Arrived(kind, sent, data, i - 1, at)
    BY <2>1, <2>7, FieldsArrive
  <2>9. Stops(Decoding(rest), Fields, n, 0, at) /\ at[i - 1] = l
    BY <2>3, <2>8 DEF Arrived
  <2> HIDE DEF rest, l
  <2>10. at[i - 1] = Len(rest)
    <3>1. at[i - 1] \in Nat
      BY <2>4, <2>9 DEF Stops
    <3> QED
      BY <2>5, <2>6, <2>9, <3>1
  <2>11. \A h \in 1..n : h > i - 1 => Quiet(Decoding(rest), Fields[h], Len(rest))
    <3>1. \A h \in 1..n : Fields[h] \in Type
      BY <2>3
    <3> QED
      BY <2>5, <3>1, BlankAtEnd
  <2>12. Resting(Decoding(rest), Fields, n, 0, at, i - 1, Len(rest))
    BY <2>4, <2>9, <2>10, <2>11 DEF Resting
  <2>13. Rests(Decoding(rest), Fields, n, 0, at, i - 1, Len(rest))
    BY ONLY <2>12, DecodeAllRests
  <2>14. DecodeAll(Decoding(rest), Fields, 0).val[j] \in Seq(BlankNode)
    BY <2>4, <2>13 DEF Rests
  <2>15. vals[j] = DecodeAll(Decoding(rest), Fields, 0).val[j]
    BY <2>2, <2>3 DEF DecodeFields, rest
  <2> QED
    BY <2>14, <2>15, BlankLeaves
<1>2. ReadInv => TailIsBlank
  BY <1>1 DEF TailIsBlank
<1> QED
  BY <1>2, ReadInvariant, PTL
-----------------------------------------------------------------------------
(* The reader goes forward only, and never past the end of the data.         *)
Inside(decode, ty, end) == \A p \in 0..end : decode[ty][p].pos \in p..end

LEMMA DecodeAllInside ==
    ASSUME NEW decode, NEW types, NEW n, NEW end \in Nat, NEW pos \in 0..end,
           Moves(decode, types, n, pos), \A i \in 1..n : Inside(decode, types[i], end)
    PROVE  DecodeAll(decode, types, pos).pos \in pos..end
<1>1. PICK at : Stops(decode, types, n, pos, at)
  BY DecodeAllSteps
<1>2. n \in Nat /\ pos \in Nat
  BY DEF Moves
<1>3. /\ at[0] = pos /\ DecodeAll(decode, types, pos).pos = at[n]
      /\ \A i \in 1..n : at[i] = decode[types[i]][at[i - 1]].pos
  BY <1>1 DEF Stops
<1> DEFINE S == {i \in 0..n : at[i] \in pos..end}
<1>4. \A i \in 0..n : i \in S
  <2>1. 0 \in S
    BY <1>2, <1>3
  <2>2. ASSUME NEW i \in 1..n, i - 1 \in S PROVE i \in S
    <3>1. at[i - 1] \in pos..end /\ i \in 0..n
      BY <1>2, <2>2
    <3>2. at[i - 1] \in 0..end
      BY <1>2, <3>1
    <3>3. at[i] \in at[i - 1]..end
      BY <1>3, <3>2 DEF Inside
    <3>4. at[i] \in pos..end
      BY <1>2, <3>1, <3>3
    <3> QED
      BY <3>1, <3>4
  <2> HIDE DEF S
  <2> QED
    BY <1>2, <2>1, <2>2, UpToInduction
<1>5. n \in S
  BY <1>2, <1>4
<1> QED
  BY <1>3, <1>5

LEMMA InsideStep ==
    ASSUME NEW rest \in Seq(Byte), NEW ty \in Type,
           \A y \in Type : Depth[y] < Depth[ty] => Inside(Decoding(rest), y, Len(rest))
    PROVE  Inside(Decoding(rest), ty, Len(rest))
<1> DEFINE d == Decoding(rest) end == Len(rest) k == ty.k
<1>1. end \in Nat
  OBVIOUS
<1>2. \A y \in Type : Depth[y] < Depth[ty] => Inside(d, y, end)
  OBVIOUS
<1>3. SUFFICES ASSUME NEW p \in 0..end PROVE DecodeType(d, ty, rest, p).pos \in p..end
  <2>1. \A p \in 0..end : p \in Nat
    OBVIOUS
  <2> QED
    BY <2>1, DecodingDef DEF Inside
<1> DEFINE got == DecodeType(d, ty, rest, p)
<1>4. p \in Nat /\ p \in p..end
  BY <1>1
<1>5. \A q \in p..end : \A n \in Nat : Has(rest, q, n) => q + n \in p..end
  BY <1>1, <1>4 DEF Has
<1>6. \A v, q : Got(v, q).pos = q
  BY DEF Got
<1>7. LenWidth \in Nat /\ Width["u8"] \in Nat /\ (k \in Fixed => Width[k] \in Nat)
  BY DecoderAssumption DEF LenWidth, Fixed, Small
<1>8. ReadLen(rest, p).pos \in p..end /\ ReadLen(rest, p).len \in Nat
  <2>1. ReadLen(rest, p).pos \in p..end
    BY <1>4, <1>5, <1>7 DEF ReadLen
  <2> QED
    BY <1>4, <2>1, ReadLenIs
<1>9. \A types : \A n \in Nat : \A q \in p..end :
          /\ DOMAIN types = 1..n /\ Len(types) = n
          /\ \A i \in 1..n : types[i] \in Type /\ Inside(d, types[i], end)
          => DecodeAll(d, types, q).pos \in p..end
  <2>1. SUFFICES ASSUME NEW types, NEW n \in Nat, NEW q \in p..end,
                        DOMAIN types = 1..n, Len(types) = n,
                        \A i \in 1..n : types[i] \in Type /\ Inside(d, types[i], end)
                 PROVE  DecodeAll(d, types, q).pos \in p..end
    OBVIOUS
  <2>2. q \in Nat /\ q \in 0..end
    BY <1>1, <1>4
  <2>3. Moves(d, types, n, q)
    BY <2>1, <2>2, DecodingMoves
  <2> HIDE DEF d, end
  <2>4. DecodeAll(d, types, q).pos \in q..end
    BY <1>1, <2>1, <2>2, <2>3, DecodeAllInside
  <2> QED
    BY <1>1, <1>4, <2>2, <2>4
<1>10. \A shape, all : Group(shape, all).pos = all.pos
  BY DEF Group, Got
<1>11. end = Len(rest)
  OBVIOUS
<1> HIDE DEF d, end
<1>12. CASE k \in Fixed
  <2>1. got = ReadFixed(k, rest, p)
    BY <1>12 DEF DecodeType, Fixed, Small, Big, Floats
  <2> QED
    BY <1>4, <1>5, <1>6, <1>7, <1>12, <2>1 DEF ReadFixed
<1>13. CASE k \in {"string", "bytes"}
  <2> DEFINE n == ReadLen(rest, p)
  <2>1. got = ReadText(k, rest, p)
    BY <1>13 DEF DecodeType, Fixed, Small, Big, Floats
  <2>2. n.pos \in p..end /\ n.len \in Nat
    BY <1>8
  <2>3. \/ got.pos = p
        \/ got.pos = n.pos
        \/ got.pos = n.pos + n.len /\ Has(rest, n.pos, n.len)
    BY <1>6, <2>1 DEF ReadText
  <2> HIDE DEF n
  <2> QED
    BY <1>4, <1>5, <2>2, <2>3
<1>14. CASE k \in {"vec", "array"}
  <2> DEFINE
        n == ReadLen(rest, p)
        len == IF k = "vec" THEN n.len ELSE ty.len
        start == IF k = "vec" THEN n.pos ELSE p
        types == [i \in 1..len |-> ty.of]
  <2>1. got = Group("array", DecodeAll(d, types, start))
    BY <1>14 DEF DecodeType, Fixed, Small, Big, Floats
  <2>2. len \in Nat /\ start \in p..end
    BY <1>4, <1>8, <1>14, TypesNest
  <2>3. ty.of \in Type /\ Inside(d, ty.of, end)
    BY <1>2, <1>14, TypesNest
  <2> HIDE DEF len, start
  <2>4. DOMAIN types = 1..len /\ Len(types) = len /\ \A i \in 1..len : types[i] = ty.of
    <3>1. DOMAIN types = 1..len /\ \A i \in 1..len : types[i] = ty.of
      OBVIOUS
    <3>2. types \in Seq({ty.of})
      BY <2>2
    <3> HIDE DEF types
    <3> QED
      BY <2>2, <3>1, <3>2
  <2> HIDE DEF types
  <2>5. DecodeAll(d, types, start).pos \in p..end
    BY <1>9, <2>2, <2>3, <2>4
  <2> QED
    BY <1>10, <2>1, <2>5
<1>15. CASE k = "option"
  <2> DEFINE tag == ReadFixed("u8", rest, p)
  <2>1. got \in {Got(Null, tag.pos), d[ty.of][tag.pos]}
    BY <1>15 DEF DecodeType, Fixed, Small, Big, Floats
  <2>2. tag.pos \in p..end
    BY <1>4, <1>5, <1>6, <1>7 DEF ReadFixed
  <2>3. ty.of \in Type /\ Inside(d, ty.of, end)
    BY <1>2, <1>15, TypesNest
  <2> HIDE DEF tag
  <2>4. d[ty.of][tag.pos].pos \in p..end
    <3>1. tag.pos \in 0..end
      BY <1>1, <1>4, <2>2
    <3>2. d[ty.of][tag.pos].pos \in tag.pos..end
      BY <2>3, <3>1 DEF Inside
    <3> QED
      BY <1>1, <1>4, <2>2, <3>2
  <2> QED
    BY <1>6, <2>1, <2>2, <2>4
<1>16. CASE k \in {"defined", "OptionBool"}
  <2>1. got.pos \in {p, end}
    BY <1>6, <1>11, <1>16 DEF DecodeType, Fixed, Small, Big, Floats
  <2> QED
    BY <1>1, <1>4, <2>1
<1>17. CASE k = "struct"
  <2>1. got = Group("object", DecodeAll(d, ty.fields, p))
    BY <1>17 DEF DecodeType, Fixed, Small, Big, Floats
  <2>2. /\ ty.fields \in Seq(Type)
        /\ \A i \in 1..Len(ty.fields) : ty.fields[i] \in Type /\ Inside(d, ty.fields[i], end)
    BY <1>2, <1>17, TypesNest
  <2>3. Len(ty.fields) \in Nat /\ DOMAIN ty.fields = 1..Len(ty.fields)
    BY <2>2
  <2>4. DecodeAll(d, ty.fields, p).pos \in p..end
    BY <1>4, <1>9, <2>2, <2>3
  <2> QED
    BY <1>10, <2>1, <2>4
<1>18. CASE k \notin Fixed \cup {"string", "bytes", "vec", "array", "option", "defined",
                                 "OptionBool", "struct"}
  <2>1. got = Got(Null, p)
    BY <1>18 DEF DecodeType
  <2> QED
    BY <1>4, <1>6, <2>1
<1> QED
  BY <1>12, <1>13, <1>14, <1>15, <1>16, <1>17, <1>18

(* Whatever the data and the type asked for, decode_type leaves the Reader   *)
(* at or behind where it was and within the data, so that the slice of what  *)
(* is left (decoder.rs:313) exists.                                          *)
THEOREM ReaderStaysInside ==
    ASSUME NEW rest \in Seq(Byte)
    PROVE  \A ty \in Type : \A p \in 0..Len(rest) : Decoding(rest)[ty][p].pos \in p..Len(rest)
<1> DEFINE S == {ty \in Type : Inside(Decoding(rest), ty, Len(rest))}
<1>1. ASSUME NEW ty \in Type, \A y \in Type : Depth[y] < Depth[ty] => y \in S PROVE ty \in S
  BY <1>1, InsideStep
<1>2. \A ty \in Type : ty \in S
  <2> HIDE DEF S
  <2> QED
    BY <1>1, DepthInduction, TypesNest
<1> QED
  BY <1>2 DEF Inside
=============================================================================
