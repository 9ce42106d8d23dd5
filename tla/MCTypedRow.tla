----------------------------- MODULE MCTypedRow -----------------------------
(* A byte has four values: 0 is NUL, 1 the character 0, 2 a sign, 3 never    *)
(* valid UTF-8.  The widths keep their order, so that each integer type has  *)
(* values the next smaller column cannot hold.                               *)
EXTENDS TypedRow, TLC

MCWidth == [k \in {"bool", "u8", "i8", "u16", "i16"} |-> 1]
           @@ [k \in {"u32", "i32", "f32"} |-> 2]
           @@ [k \in {"u64", "i64", "f64", "publicKey"} |-> 3]
           @@ [k \in {"u128", "i128"} |-> 4]

Prim(k) == [k |-> k]
Opt(ty) == [k |-> "option", of |-> ty]
Vec(ty) == [k |-> "vec", of |-> ty]
Arr(ty, n) == [k |-> "array", of |-> ty, len |-> n]
Struct(q) == [k |-> "struct", fields |-> q]

MCEntry(disc, hash, fields) == [disc |-> disc, hash |-> hash, fields |-> fields]

(* Entry 1 has its discriminator from the IDL, out of the range of a byte    *)
(* and behind something that is no number; entry 2 gives too many bytes, so  *)
(* the hash counts; entry 4 shares that of entry 1.                          *)
MCEntries ==
    [ix  |-> <<MCEntry(<<-1, 4>>, <<3>>, <<Prim("u64"), Opt(Prim("bool")), Prim("u32")>>),
               MCEntry(<<0, 0>>, <<1>>, <<Prim("string"), Vec(Prim("i8")), Prim("f32")>>),
               MCEntry(<<>>, <<2>>, <<Prim("bytes"), Prim("defined"), Prim("u8")>>),
               MCEntry(<<0>>, <<3>>, <<Prim("bool")>>)>>,
     acc |-> <<MCEntry(<<>>, <<0>>, <<Opt(Prim("publicKey")), Prim("i128"), Prim("OptionBool")>>),
               MCEntry(<<>>, <<1>>, <<Struct(<<Prim("u8"), Opt(Prim("i64"))>>),
                                    Opt(Prim("u64"))>>),
               MCEntry(<<>>, <<2>>, <<Arr(Prim("string"), 2), Prim("u256"), Prim("u16")>>),
               MCEntry(<<>>, <<3>>, <<>>)>>]

Maybe(S) == {<<>>} \cup {<<x>> : x \in S}

Msgs(i, S) == {[entry |-> i, vals |-> v] : v \in S}

MCPads == {<<>>, <<0>>, <<1, 3>>}

Texts == {<<>>, <<1, 1>>, <<2>>, <<2, 1>>, <<0, 2>>}

MCMessages ==
    [ix  |-> Msgs(1, {0, 31, 32} \X Maybe(BOOLEAN) \X {0, 7, 8})
             \cup Msgs(2, Texts \X {<<>>, <<-2, 1>>} \X {0, 15})
             \cup Msgs(3, {<<>>, <<3>>} \X {<<1>>, <<2, 1>>} \X {2})
             \cup Msgs(4, {<<TRUE>>}),
     acc |-> Msgs(1, Maybe({<<1, 2, 3>>}) \X {-128, -1, 31, 32} \X {<<0>>, <<1>>, <<1, 1>>})
             \cup Msgs(2, {<<0, <<>>>>, <<3, <<-5>>>>} \X Maybe({31, 32}))
             \cup Msgs(3, {<<<<>>, t>> : t \in Texts} \X {<<1, 0>>} \X {2})
             \cup Msgs(4, {<<>>})]

(* One account with an optional number.                                      *)
MCOptional == [acc |-> <<MCEntry(<<>>, <<1>>, <<Opt(Prim("u64"))>>)>>]
MCOptionals == [acc |-> Msgs(1, {<<v>> : v \in Maybe({1})})]
-----------------------------------------------------------------------------
(* The types of all these entries, how deep they nest, and their values.     *)
RECURSIVE Within(_), Nesting(_), Values(_)

Within(ty) ==
    CASE ty.k \in {"vec", "array", "option"} -> {ty} \cup Within(ty.of)
      [] ty.k = "struct" -> {ty} \cup UNION {Within(t) : t \in Range(ty.fields)}
      [] OTHER -> {ty}

Nesting(ty) ==
    CASE ty.k \in {"vec", "array", "option"} -> 1 + Nesting(ty.of)
      [] ty.k = "struct" -> 1 + Max({0} \cup {Nesting(t) : t \in Range(ty.fields)})
      [] OTHER -> 0

Values(ty) ==
    CASE ty.k = "bool" -> BOOLEAN
      [] ty.k \in Signed -> -(4 ^ MCWidth[ty.k] \div 2)..(4 ^ MCWidth[ty.k] \div 2 - 1)
      [] ty.k \in DOMAIN MCWidth \ {"publicKey"} -> 0..(4 ^ MCWidth[ty.k] - 1)
      [] ty.k = "publicKey" -> {<<1, 2, 3>>}
      [] ty.k = "string" -> Texts
      [] ty.k = "vec" -> UNION {[1..n -> Values(ty.of)] : n \in {0, 2}}
      [] ty.k = "array" -> [1..ty.len -> Values(ty.of)]
      [] ty.k = "option" -> Maybe(Values(ty.of))
      [] ty.k = "struct" -> Values(ty.fields[1]) \X Values(ty.fields[2])
      [] OTHER -> {<<>>, <<0>>, <<1>>, <<3>>, <<1, 0>>, <<1, 1>>, <<2, 1>>}

MCDepth ==
    LET entries == UNION {Range(MCEntries[k]) : k \in {"ix", "acc"}}
                   \cup Range(MCOptional["acc"])
    IN  [ty \in UNION {UNION {Within(t) : t \in Range(e.fields)} : e \in entries}
           |-> Nesting(ty)]

MCValue == [ty \in DOMAIN MCDepth |-> Values(ty)]
=============================================================================
