--------------------------- MODULE MessageChannel ---------------------------
(***************************************************************************)
(* A message of any class of the wire format on its way between two        *)
(* builds of the program: it is checked and written, read by a peer that   *)
(* may be older than the writer and not know the last field of a class,    *)
(* and turned into a plain object and back, as the API client hands it to  *)
(* its callers.  The steps are the calls of the codec                      *)
(* (src/modules/types/src/proto/index.js); ProtoCodec says what they do.   *)
(***************************************************************************)
EXTENDS ProtoCodec

\* The classes whose messages are sent: every one.
Classes == DOMAIN Schema

VARIABLES class, sent, wire, old, got,
          back,      \* the message after toObject() and fromObject()
          form,      \* what became of its numbers of 64 bits in between
          step

vars == <<class, sent, wire, old, got, back, form, step>>

-----------------------------------------------------------------------------
(* The messages: each class with no field, with one or two fields and with *)
(* all of them, where a field is zero or another value, and a message in   *)
(* it is empty or holds a field of its own.  Numbers are the least and the  *)
(* greatest of their field and some that it cannot hold, which verify()     *)
(* lets pass; numbers of JavaScript are such as a double holds.             *)
ScalarSamples(kind) ==
    CASE IsEnum(kind)     -> {Num(0), Num(Max(Range(Enums[kind])))}
      [] kind = "string"  -> {Str(""), Str("a")}
      [] kind = "bytes"   -> {Bytes(<<>>), Bytes(<<0, 1>>), Str(<<0, 1>>)}
      [] kind = "bool"    -> {Bool(FALSE), Bool(TRUE)}
      [] kind = "uint32"  -> {Num(0), Num(2^Bits - 1), Num(2^Bits + 1), Num(-1)}
      [] kind = "int32"   -> {Num(2^(Bits - 1)), Num(-1), Num(2^(2 * Bits) + 8)}
      [] kind = "uint64"  -> {Num(-2), Lng(2^(2 * Bits) - 1), Num(2^(2 * Bits - 1))}
      [] kind \in {"int64", "sint64"} -> {Num(-2^(2 * Bits - 1)), Lng(2^Mantissa + 1), Num(2^(2 * Bits))}
      [] kind = "double"  -> {Num(0), Num(-1)}

\* A message with its first scalar field, and one with its first message field.
Inner(T) ==
    LET Some(isMessage) ==
            SelectSeq(Schema[T], LAMBDA f : f.rule = "single" /\ IsMessage(f.kind) = isMessage)
        One(fs, Val(_)) == IF fs = <<>> THEN {} ELSE {Fresh(T) @@ (fs[1].name :> Val(fs[1]))}
    IN  {Fresh(T)}
        \cup One(Some(FALSE), LAMBDA f : CHOOSE v \in ScalarSamples(f.kind) : v # Default(f))
        \cup One(Some(TRUE), LAMBDA f : Obj(Fresh(f.kind)))

ValueSamples(kind) ==
    IF IsMessage(kind) THEN {Obj(m) : m \in Inner(kind)} ELSE ScalarSamples(kind)

FieldSamples(f) ==
    LET vs == ValueSamples(f.kind) IN
    CASE f.rule = "single" -> vs
      [] Multiple(f)       -> {List(<<>>)} \cup {List(<<v, w>>) : v, w \in vs}
      [] f.rule = "map"    -> {Map("k" :> v) : v \in vs}

Messages(T) ==
    LET Both(f, g) == {(f.name :> v) @@ (g.name :> w) : v \in FieldSamples(f), w \in FieldSamples(g)}
        full == [n \in {f.name : f \in {g \in Fields(T) : g.oneof = ""}} |->
                    LET f == CHOOSE g \in Fields(T) : g.name = n
                    IN  CHOOSE v \in FieldSamples(f) : v # Default(f)]
    IN  {full, Nothing} \cup UNION {Both(f, g) : f, g \in Fields(T)}

-----------------------------------------------------------------------------
Init ==
    /\ class \in Classes
    /\ sent = Nothing /\ wire = <<>> /\ got = Nothing /\ back = Nothing
    /\ old = FALSE /\ form = "none"
    /\ step = "idle"

\* verify() and encode().
Write ==
    /\ step = "idle"
    /\ \E m \in Messages(class) :
        /\ Verify(class, m)
        /\ sent' = m
        /\ wire' = Encode(class, m)
    /\ step' = "written"
    /\ UNCHANGED <<class, old, got, back, form>>

\* decode() by a peer of the same age or by an older one.
Receive ==
    /\ step = "written"
    /\ old' \in BOOLEAN
    /\ got' = Decode(class, wire, old')
    /\ step' = "received"
    /\ UNCHANGED <<class, sent, wire, back, form>>

\* toObject() with the options of the caller, and fromObject() of the result.
Convert ==
    /\ step = "received"
    /\ \E o \in [defaults : BOOLEAN, longs : {"string", "number", "long"}, text : BOOLEAN] :
        /\ back' = FromObject(class, ToObject(class, got, o))
        /\ form' = o.longs
    /\ step' = "converted"
    /\ UNCHANGED <<class, sent, wire, old, got>>

Next == Write \/ Receive \/ Convert

Spec == Init /\ [][Next]_vars

-----------------------------------------------------------------------------
(* What a peer must get: every field it knows with the value it was sent,  *)
(* as far as the field can hold it, and nothing else.                      *)
\* The integer of so many bits, with or without a sign, that is congruent to n.
Congruent(n, bits, low) == CHOOSE m \in low .. low + 2^bits - 1 : (m - n) % 2^bits = 0

Held(kind, v) ==
    CASE kind = "uint64" -> Lng(Congruent(v[2], 2 * Bits, 0))
      [] kind \in LongKinds -> Lng(Congruent(v[2], 2 * Bits, -2^(2 * Bits - 1)))
      [] kind = "uint32" -> Num(Congruent(v[2], Bits, 0))
      [] kind = "int32"  -> Num(Congruent(v[2], Bits, -2^(Bits - 1)))
      [] kind = "bytes"  -> Bytes(v[2])
      [] OTHER           -> v

RECURSIVE Received(_, _)

ReceivedValue(kind, v) ==
    IF IsMessage(kind) THEN Obj(Received(kind, v[2]))
    ELSE Held(kind, v)

Received(T, own) ==
    [n \in (DOMAIN own \cap {f.name : f \in Known(T, old)}) \cup DOMAIN Fresh(T) |->
        LET f == CHOOSE g \in Fields(T) : g.name = n IN
        IF n \notin DOMAIN own \/ f \notin Known(T, old) THEN Default(f)
        ELSE CASE f.rule = "single" -> ReceivedValue(f.kind, own[n])
               [] Multiple(f) -> List([i \in DOMAIN own[n][2] |-> ReceivedValue(f.kind, own[n][2][i])])
               [] f.rule = "map" -> Map([k \in DOMAIN own[n][2] |-> ReceivedValue(f.kind, own[n][2][k])])]

\* Whatever passes verify() reaches a peer of any age and passes verify() there,
\* zeroes and empty strings included, which the codec writes when the sender owns
\* them.  It is what was sent but for the fields the peer does not know, and for
\* integers that their field cannot hold, which verify() does not refuse: they
\* lose the bits above its width, and a sign becomes one of those bits or back.
SentIsReceived ==
    step \in {"received", "converted"} => got = Received(class, sent) /\ Verify(class, got)

RECURSIVE SameView(_, _, _)

\* A number of 64 bits that may be no double.
Inexact(n) == n > 2^Mantissa \/ n < -2^Mantissa

\* Two messages no reader of their properties can tell apart, but for the numbers
\* of 64 bits that became a double.
SameValue(kind, v, w) ==
    IF IsMessage(kind) /\ v # Null /\ w # Null THEN SameView(kind, v[2], w[2])
    ELSE IF kind \in LongKinds /\ form = "number" /\ v # Null /\ Inexact(v[2]) THEN w[1] = "long"
    ELSE v = w

SameView(T, a, b) ==
    \A f \in Fields(T) :
        LET v == Read(T, a, f.name)
            w == Read(T, b, f.name)
        IN  CASE f.rule = "single" -> SameValue(f.kind, v, w)
              [] Multiple(f) -> Len(v[2]) = Len(w[2])
                                /\ \A i \in DOMAIN v[2] : SameValue(f.kind, v[2][i], w[2][i])
              [] f.rule = "map" -> DOMAIN v[2] = DOMAIN w[2]
                                   /\ \A k \in DOMAIN v[2] : SameValue(f.kind, v[2][k], w[2][k])

\* The plain object of a message gives the same message back, whichever options
\* the caller took, and a message with one arm of a oneof keeps that arm.  An
\* integer of 64 bits that becomes a number of JavaScript on the way need not
\* come back when it is greater than such a number is exact for.
PlainObjectKeepsAll ==
    step = "converted" => SameView(class, got, back) /\ Verify(class, back)
=============================================================================
