----------------------------- MODULE ProtoCodec -----------------------------
(***************************************************************************)
(* What encode(), decode(), verify(), toObject() and fromObject() of the   *)
(* generated classes do (src/modules/types/src/proto/index.js), for every  *)
(* class of a schema (ProtoSchema has that of the program).  The generator *)
(* writes the same code for each class; the lines named in the map are one *)
(* class that shows the case.                                              *)
(*                                                                         *)
(* A JavaScript value is tagged with what typeof and instanceof tell of    *)
(* it: a number, a Long, a decimal string, a string, a boolean, bytes, a   *)
(* list, a map or an object.  An object is the function of the properties  *)
(* it owns.  What it does not own is read from the prototype of its class. *)
(*                                                                         *)
(* A message on the wire is the sequence of its records, each the number   *)
(* of a field and a body: a number of 64 bits, a string, or the records of *)
(* a message nested in it.  Words are Bits wide where the code has 32, and *)
(* a number of JavaScript holds Mantissa bits where it has 53.             *)
(***************************************************************************)
EXTENDS Integers, Sequences, FiniteSets, SequencesExt, FiniteSetsExt, Functions

CONSTANTS Bits,     \* the width of a number that JavaScript keeps in 32 bits
          Mantissa, \* the width of the integers that a double holds exactly
          Schema,   \* the fields of every class, in the order they are written
          Enums     \* the numbers of every enumeration, by their names

Num(n) == <<"num", n>>
Lng(n) == <<"long", n>>
Dec(n) == <<"dec", n>>
Str(s) == <<"str", s>>
Bool(b) == <<"bool", b>>
Bytes(s) == <<"bytes", s>>
List(s) == <<"list", s>>
Map(f) == <<"map", f>>
Obj(own) == <<"obj", own>>
Null == <<"null">>

Nothing == [x \in {} |-> Null]
IsMessage(kind) == kind \in DOMAIN Schema
IsEnum(kind) == kind \in DOMAIN Enums
LongKinds == {"int64", "uint64", "sint64"}
Fields(T) == Range(Schema[T])
Multiple(f) == f.rule \in {"list", "packed"}

-----------------------------------------------------------------------------
(* Words. *)
Word(n, bits) == n % 2^bits
Signed(w, bits) == IF w >= 2^(bits - 1) THEN w - 2^bits ELSE w
Cut(n, bits) == Signed(Word(n, bits), bits)

\* The double that is nearest to an integer, the even one of two.
Rounded(n) ==
    LET m == IF n < 0 THEN -n ELSE n
        unit == 2^(CHOOSE k \in 0 .. 2 * Bits :
                     m < 2^(Mantissa + k) /\ (k = 0 \/ m >= 2^(Mantissa + k - 1)))
        q == m \div unit
        up == 2 * (m % unit) + (q % 2) > unit
        rounded == (IF up THEN q + 1 ELSE q) * unit
    IN  IF n < 0 THEN -rounded ELSE rounded

\* The number a Writer puts on the wire, and the one a Reader takes from it:
\* a negative int32 is written in 64 bits and cut to 32 when it is read, a
\* sint64 has its sign moved to the lowest bit, and what has 64 bits is read
\* as a Long.  What does not fit the width of its field is cut to it.
WriteNumber(kind, n) ==
    CASE kind = "uint32" -> Word(n, Bits)
      [] kind = "sint64" ->
           LET s == Cut(n, 2 * Bits) IN IF s >= 0 THEN 2 * s ELSE -2 * s - 1
      [] kind = "double" -> n
      [] kind \in {"int64", "uint64"} \/ n < 0 -> Word(n, 2 * Bits)
      [] OTHER           -> Word(n, Bits)

\* The same without the sign of an int64.
ReadUnsigned(kind, w) ==
    CASE kind = "uint32" -> Num(Word(w, Bits))
      [] kind \in {"int64", "uint64"} -> Lng(w)
      [] kind = "sint64" -> Lng(IF w % 2 = 0 THEN w \div 2 ELSE -(w + 1) \div 2)
      [] kind = "double" -> Num(w)
      [] OTHER           -> Num(Cut(w, Bits))

ReadNumber(kind, w) ==
    CASE kind = "uint32" -> Num(Word(w, Bits))
      [] kind = "int64"  -> Lng(Signed(w, 2 * Bits))
      [] kind = "uint64" -> Lng(w)
      [] kind = "sint64" -> Lng(IF w % 2 = 0 THEN w \div 2 ELSE -(w + 1) \div 2)
      [] kind = "double" -> Num(w)
      [] OTHER           -> Num(Cut(w, Bits))

\* The number zero or the empty value that the prototype of a class gives to a
\* field, null when it is a message or an arm of a oneof.
Default(f) ==
    IF Multiple(f) THEN List(<<>>)
    ELSE IF f.rule = "map" THEN Map(Nothing)
    ELSE IF f.oneof # "" \/ IsMessage(f.kind) THEN Null
    ELSE CASE f.kind = "string" -> Str("")
           [] f.kind = "bytes"  -> Bytes(<<>>)
           [] f.kind = "bool"   -> Bool(FALSE)
           [] f.kind \in LongKinds -> Lng(0)
           [] OTHER             -> Num(0)

\* The properties an instance owns when its constructor returns.
Fresh(T) ==
    [n \in {f.name : f \in {g \in Fields(T) : Multiple(g) \/ g.rule = "map"}} |->
        Default(CHOOSE f \in Fields(T) : f.name = n)]

\* o.name where o is an instance of a class: its own value or its prototype's.
Read(T, own, name) ==
    IF name \in DOMAIN own THEN own[name]
    ELSE Default(CHOOSE f \in Fields(T) : f.name = name)

Assign(own, name, v) == [n \in DOMAIN own \cup {name} |-> IF n = name THEN v ELSE own[n]]

-----------------------------------------------------------------------------
(* encode() and decode(). *)
RECURSIVE Encode(_, _)

EncodeValue(kind, v) ==
    IF IsMessage(kind) THEN Encode(kind, v[2])
    ELSE IF kind \in {"string", "bytes", "bool"} THEN v[2]
    ELSE WriteNumber(kind, v[2])

EncodeField(f, own) ==
    LET Record(body) == [id |-> f.id, body |-> body]
        v == own[f.name][2]
    IN  IF f.name \notin DOMAIN own \/ (Multiple(f) /\ v = <<>>) THEN <<>>
        ELSE CASE f.rule = "single" -> <<Record(EncodeValue(f.kind, own[f.name]))>>
               [] f.rule = "list"   -> [i \in DOMAIN v |-> Record(EncodeValue(f.kind, v[i]))]
               [] f.rule = "packed" -> <<Record([i \in DOMAIN v |-> EncodeValue(f.kind, v[i])])>>
               [] f.rule = "map"    ->
                    LET keys == SetToSeq(DOMAIN v)
                    IN  [i \in DOMAIN keys |->
                            Record(<<[id |-> 1, body |-> keys[i]],
                                     [id |-> 2, body |-> EncodeValue(f.kind, v[keys[i]])]>>)]

\* The fields in the order of their numbers; a field the object does not own is
\* not written, one that it owns is written also when its value is zero.
Encode(T, own) ==
    FlattenSeq([i \in DOMAIN Schema[T] |-> EncodeField(Schema[T][i], own)])

\* A reader of an older build knows the classes without their last field.
Known(T, old) ==
    IF old THEN Range(SubSeq(Schema[T], 1, Len(Schema[T]) - 1)) ELSE Fields(T)

RECURSIVE Decode(_, _, _)

DecodeValue(kind, body, old) ==
    CASE IsMessage(kind)  -> Obj(Decode(kind, body, old))
      [] kind = "string"  -> Str(body)
      [] kind = "bytes"   -> Bytes(body)
      [] kind = "bool"    -> Bool(body)
      [] OTHER            -> ReadNumber(kind, body)

\* One record of the wire: a later value of a single field replaces the one
\* before it, an element is appended, an entry of a map is stored under its key,
\* and a number the class does not know is skipped.
DecodeRecord(T, own, r, old) ==
    IF \A f \in Known(T, old) : f.id # r.id THEN own
    ELSE LET f == CHOOSE g \in Known(T, old) : g.id = r.id
             was == Read(T, own, f.name)[2]
         IN  Assign(own, f.name,
               CASE f.rule = "single" -> DecodeValue(f.kind, r.body, old)
                 [] f.rule = "list"   -> List(Append(was, DecodeValue(f.kind, r.body, old)))
                 [] f.rule = "packed" ->
                      List(was \o [i \in DOMAIN r.body |-> ReadNumber(f.kind, r.body[i])])
                 [] f.rule = "map"    ->
                      Map(Assign(was, r.body[1].body, DecodeValue(f.kind, r.body[2].body, old))))

\* The arrays and maps of a class are own properties of every instance of it.
Decode(T, wire, old) ==
    FoldLeft(LAMBDA own, r : DecodeRecord(T, own, r, old), Fresh(T), wire)

-----------------------------------------------------------------------------
(* verify(): whether an object has the shape of the class.  It does not ask *)
(* whether a number fits its field.  Bytes may be text in base64, here the  *)
(* string of the bytes that it spells.                                      *)
RECURSIVE Verify(_, _)

VerifyValue(kind, v) ==
    CASE IsMessage(kind)   -> v[1] = "obj" /\ Verify(kind, v[2])
      [] IsEnum(kind)      -> v[1] = "num" /\ v[2] \in Range(Enums[kind])
      [] kind \in LongKinds -> v[1] \in {"num", "long"}
      [] kind = "string"   -> v[1] = "str"
      [] kind = "bytes"    -> v[1] \in {"bytes", "str"}
      [] kind = "bool"     -> v[1] = "bool"
      [] OTHER             -> v[1] = "num"

VerifyField(f, v) ==
    CASE f.rule = "single" -> VerifyValue(f.kind, v)
      [] Multiple(f)       -> v[1] = "list" /\ \A i \in DOMAIN v[2] : VerifyValue(f.kind, v[2][i])
      [] f.rule = "map"    -> v[1] = "map" /\ \A k \in DOMAIN v[2] : VerifyValue(f.kind, v[2][k])

Verify(T, own) ==
    /\ \A f \in Fields(T) : f.name \in DOMAIN own => VerifyField(f, own[f.name])
    /\ \A f, g \in Fields(T) :
         f # g /\ f.oneof # "" /\ f.oneof = g.oneof => ~({f.name, g.name} \subseteq DOMAIN own)

-----------------------------------------------------------------------------
(* toObject() and fromObject(). *)
RECURSIVE ToObject(_, _, _)

\* The lower word of a number of 64 bits.
PlainLow(n, longs) == Num(Cut(n, Bits))

\* What options.longs makes of a number of 64 bits: the nearest double when it
\* asks for numbers.
PlainLong(n, longs) ==
    CASE longs = "string" -> Dec(n)
      [] longs = "number" -> Num(Rounded(n))
      [] longs = "long"   -> Lng(n)

\* options.text stands for options.enums and options.bytes: the name of an enum
\* and the bytes in base64.
PlainText(kind, v) ==
    CASE kind = "bytes" -> Str(v[2])
      [] IsEnum(kind)   -> Str(CHOOSE n \in DOMAIN Enums[kind] : Enums[kind][n] = v[2])
      [] OTHER          -> v

PlainValue(kind, v, o) ==
    IF IsMessage(kind) THEN Obj(ToObject(kind, v[2], o))
    ELSE IF kind \in LongKinds THEN PlainLong(v[2], o.longs)
    ELSE IF o.text THEN PlainText(kind, v)
    ELSE v

PlainField(f, v, o) ==
    CASE f.rule = "single" -> PlainValue(f.kind, v, o)
      [] Multiple(f)       -> List([i \in DOMAIN v[2] |-> PlainValue(f.kind, v[2][i], o)])
      [] f.rule = "map"    -> Map([k \in DOMAIN v[2] |-> PlainValue(f.kind, v[2][k], o)])

\* options.defaults fills in what the message does not own, except the arms of
\* a oneof; without it an empty list or map is left out too.
ToObject(T, own, o) ==
    LET Owned(f) == f.name \in DOMAIN own
                    /\ (Multiple(f) => own[f.name][2] # <<>>)
                    /\ (f.rule = "map" => DOMAIN own[f.name][2] # {})
        Filled(f) == Owned(f) \/ (o.defaults /\ f.oneof = "")
        Plain(f) == IF Owned(f) THEN PlainField(f, own[f.name], o)
                    ELSE IF f.rule = "single" /\ ~IsMessage(f.kind)
                         THEN PlainValue(f.kind, Default(f), o)
                    ELSE Default(f)
        kept == {f \in Fields(T) : Filled(f)}
    IN  [n \in {f.name : f \in kept} |-> Plain(CHOOSE f \in kept : f.name = n)]

RECURSIVE FromObject(_, _)

\* Long.fromValue(): a number stops at the ends of what a signed Long holds, a
\* text and a Long keep their bits; the field then says whether they have a sign.
LongFrom(kind, v) ==
    LET top == 2^(2 * Bits - 1)
        n == IF v[1] # "num" THEN v[2]
             ELSE IF v[2] + 1 >= top THEN top - 1
             ELSE IF v[2] <= -top THEN -top
             ELSE v[2]
    IN  Lng(IF kind = "uint64" THEN Word(n, 2 * Bits) ELSE Cut(n, 2 * Bits))

\* A null property is left out; a number of 64 bits becomes a Long, whatever
\* form it has, one of 32 bits is cut to its width, and text is read as the
\* bytes it spells or the enum it names.
TypedValue(kind, v) ==
    CASE IsMessage(kind)   -> Obj(FromObject(kind, v[2]))
      [] kind \in LongKinds -> LongFrom(kind, v)
      [] kind = "uint32"   -> Num(Word(v[2], Bits))
      [] kind = "int32"    -> Num(Cut(v[2], Bits))
      [] kind = "bytes"    -> Bytes(v[2])
      [] IsEnum(kind) /\ v[1] = "str" -> Num(Enums[kind][v[2]])
      [] OTHER             -> v

FromObject(T, obj) ==
    LET given == {f \in Fields(T) : f.name \in DOMAIN obj /\ obj[f.name] # Null}
        Typed(f) == LET v == obj[f.name] IN
                    CASE f.rule = "single" -> TypedValue(f.kind, v)
                      [] Multiple(f) -> List([i \in DOMAIN v[2] |-> TypedValue(f.kind, v[2][i])])
                      [] f.rule = "map" -> Map([k \in DOMAIN v[2] |-> TypedValue(f.kind, v[2][k])])
    IN  FoldSet(LAMBDA f, own : Assign(own, f.name, Typed(f)), Fresh(T), given)
=============================================================================
