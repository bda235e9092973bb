----------------------------- MODULE Definitions -----------------------------
(***************************************************************************)
(* The definitions of a dictionary (src/modules/types/src/def.ts), the     *)
(* conversions between them and the messages of the wire format            *)
(* (conversion.ts), the comparison of types (util.ts) and the resolution   *)
(* of references (dictionary.ts).                                          *)
(*                                                                         *)
(* A definition is a record with its kind; what may be undefined is a      *)
(* sequence of at most one element.  Once resolved, a reference points to  *)
(* an entry of the types of its namespace: it holds the entry's key, as    *)
(* the code shares the object.  Metadata, which is text the code passes    *)
(* on, is left out.                                                        *)
(***************************************************************************)
EXTENDS ProtoCodec

None == <<>>
Some(v) == <<v>>

IntegerKinds == {"u8", "i8", "u16", "i16", "u32", "i32", "u64", "i64"}
FloatKinds == {"f32", "f64"}
NumberKinds == IntegerKinds \cup FloatKinds
NamedKinds == {"enum", "bitmask", "object", "array", "bytes"}

\* DualKeyMap: items by a key of their own and by a number they hold.  The
\* constructor keeps the last item of a number; set() refuses a second one.
DualKeys(items) ==
    [byK1 |-> items,
     byK2 |-> {i.value : i \in Range(items)}]
Overlaps(map, k1, k2) == k1 \in DOMAIN map.byK1 \/ k2 \in map.byK2
DualSet(map, k1, k2, item) ==
    [byK1 |-> Assign(map.byK1, k1, item), byK2 |-> map.byK2 \cup {k2}]
NoItems == [byK1 |-> Nothing, byK2 |-> {}]

Reference(name, expected) == [kind |-> "reference", refers |-> name, expectedKind |-> expected]
ResolvedType(of, to) == [kind |-> "resolved", of |-> of, to |-> to]
AliasType(of, to) == [kind |-> "alias", of |-> of, to |-> to]

\* The kind a definition answers with, and the definition its getters read.
KindOf(t) == IF t.kind \in {"resolved", "alias"} THEN t.of ELSE t.kind
Behind(types, t) == IF t.kind \in {"resolved", "alias"} THEN types[t.to] ELSE t

-----------------------------------------------------------------------------
(* validateEqualTypes(): TRUE when it does not throw.                      *)
\* compareValues() throws when the numbers of entries differ or an entry of
\* one name differs; it returns at the first name the other does not have.
SameValues(a, b) ==
    /\ Cardinality(DOMAIN a.byK1) = Cardinality(DOMAIN b.byK1)
    /\ \/ \E n \in DOMAIN a.byK1 : n \notin DOMAIN b.byK1
       \/ \A n \in DOMAIN a.byK1 : a.byK1[n] = b.byK1[n]

RECURSIVE EqualTypes(_, _)
EqualTypes(a, b) ==
    /\ a.kind = b.kind
    /\ CASE a.kind = "reference" -> a.refers = b.refers
         [] a.kind = "string"    -> a.lengthType = b.lengthType /\ a.maxLength = b.maxLength
         [] a.kind \in {"enum", "bitmask"} -> SameValues(a.values, b.values)
         [] a.kind = "array"     -> /\ EqualTypes(a.el, b.el)
                                    /\ a.size = b.size /\ a.lengthType = b.lengthType
         [] a.kind = "bytes"     -> /\ a.size = b.size /\ a.lengthType = b.lengthType
                                    /\ a.type = b.type
         [] a.kind = "object"    ->
              /\ Len(a.fields) = Len(b.fields)
              /\ \A i \in DOMAIN a.fields :
                   a.fields[i].name = b.fields[i].name
                   /\ EqualTypes(a.fields[i].type, b.fields[i].type)
         [] OTHER                -> TRUE

-----------------------------------------------------------------------------
(* resolveType(): None when it throws.                                     *)
\* A reference is looked up among the types, its expected kind compared with
\* the entry it names, and a reference to a reference followed.  References
\* that lead back to one of them are followed until the stack overflows.
RECURSIVE Follow(_, _, _)
Follow(types, ref, seen) ==
    IF ref.refers \notin DOMAIN types \/ ref.refers \in seen THEN None
    ELSE LET t == types[ref.refers] IN
         IF ref.expectedKind # None /\ ref.expectedKind # Some(t.kind) THEN None
         ELSE CASE t.kind = "reference" -> Follow(types, t, seen \cup {ref.refers})
                [] t.kind \in NamedKinds -> Some(ResolvedType(t.kind, ref.refers))
                [] t.kind = "void"       -> None
                [] OTHER                 -> Some(AliasType(t.kind, ref.refers))

RECURSIVE ResolveType(_, _)
ResolveType(types, t) ==
    CASE t.kind = "reference" -> Follow(types, t, {})
      [] t.kind = "array" ->
           LET el == ResolveType(types, t.el)
           IN  IF el = None THEN None ELSE Some([t EXCEPT !.el = el[1]])
      [] t.kind = "object" ->
           LET fs == [i \in DOMAIN t.fields |-> ResolveType(types, t.fields[i].type)]
           IN  IF None \in Range(fs) THEN None
               ELSE Some([t EXCEPT !.fields =
                             [i \in DOMAIN t.fields |-> [t.fields[i] EXCEPT !.type = fs[i][1]]]])
      [] OTHER -> Some(t)

-----------------------------------------------------------------------------
(* The numbers of the kinds on the wire.                                   *)
IntKindOf == [u8 |-> "INT_U8", i8 |-> "INT_I8", u16 |-> "INT_U16", i16 |-> "INT_I16",
              u32 |-> "INT_U32", i32 |-> "INT_I32", u64 |-> "INT_U64", i64 |-> "INT_I64"]
NumberKindOf == [u8 |-> "NUMBER_U8", i8 |-> "NUMBER_I8", u16 |-> "NUMBER_U16",
                 i16 |-> "NUMBER_I16", u32 |-> "NUMBER_U32", i32 |-> "NUMBER_I32",
                 u64 |-> "NUMBER_U64", i64 |-> "NUMBER_I64", f32 |-> "NUMBER_F32",
                 f64 |-> "NUMBER_F64"]
UIntKindOf == [u8 |-> "UINT_U8", u16 |-> "UINT_U16", u32 |-> "UINT_U32", u64 |-> "UINT_U64"]
FloatKindOf == [f32 |-> "F_F32", f64 |-> "F_F64"]
ReferenceKindOf == [enum |-> "REF_ENUM", bitmask |-> "REF_BITMASK", object |-> "REF_OBJECT",
                    array |-> "REF_ARRAY", bytes |-> "REF_BYTES"]

intKindToProto(k) == Num(Enums["IntKind"][IntKindOf[k]])
numberKindToProto(k) == Num(Enums["NumberKind"][NumberKindOf[k]])
uintKindToProto(k) == Num(Enums["UIntKind"][UIntKindOf[k]])
floatKindToProto(k) == Num(Enums["FloatKind"][FloatKindOf[k]])
referenceKindToProto(k) == Num(Enums["ReferenceKind"][ReferenceKindOf[k]])

\* The way back.  The eighth kind of integer comes back as the seventh.
integerKindFromProto(v) ==
    LET k == CHOOSE n \in IntegerKinds : intKindToProto(n) = v
    IN  IF k = "i64" THEN "u64" ELSE k
numberKindFromProto(v) == CHOOSE n \in NumberKinds : numberKindToProto(n) = v
uintKindFromProto(v) == CHOOSE n \in DOMAIN UIntKindOf : uintKindToProto(n) = v
floatKindFromProto(v) == CHOOSE n \in FloatKinds : floatKindToProto(n) = v
referenceKindFromProto(v) == CHOOSE n \in NamedKinds : referenceKindToProto(n) = v

-----------------------------------------------------------------------------
(* To the wire.  A property that is undefined is not an own property.      *)
Props(pairs) ==
    LET given == {p \in pairs : p[2] # None}
    IN  [n \in {p[1] : p \in given} |-> (CHOOSE p \in given : p[1] = n)[2][1]]

\* optional(); the empty string, which the code takes for undefined as
\* well, is only ever metadata.
Opted(v, Op(_)) == IF v = None THEN None ELSE Some(Op(v[1]))

\* The same with the limits of a range the wrong way round.
SizePropsSwapped(size) ==
    IF size = None THEN {}
    ELSE IF size[1] = "static" THEN {<<"static", Some(Num(size[2]))>>}
    ELSE {<<"dynamic", Some(Obj([min |-> Num(size[3]), max |-> Num(size[2])]))>>}

SizeProps(size) ==
    IF size = None THEN {}
    ELSE IF size[1] = "static" THEN {<<"static", Some(Num(size[2]))>>}
    ELSE {<<"dynamic", Some(Obj([min |-> Num(size[2]), max |-> Num(size[3])]))>>}

enumItemToProto(item) == Obj([value |-> Num(item.value), name |-> Str(item.name)])
ItemsToProto(values) ==
    LET names == SetToSeq(DOMAIN values.byK1)
    IN  List([i \in DOMAIN names |-> enumItemToProto(values.byK1[names[i]])])

\* valueToProto(): None when it throws.  A value of bytes is copied element by
\* element into bytes, whatever the width of its elements.
RECURSIVE valueToProto(_, _, _)
valueToProto(types, v, type) ==
    LET t == Behind(types, type)
        k == KindOf(type)
        All(s) == IF None \in Range(s) THEN None ELSE Some([i \in DOMAIN s |-> s[i][1]])
        Arm(name, w) == Some([n \in {name} |-> w])
    IN  CASE v[1] = "str" /\ k = "string" -> Arm("s", v)
          [] v[1] = "str" /\ k \in {"enum", "bitmask"} ->
               Arm("e", Obj(Props({<<"formatted", Some(v)>>,
                                   <<"raw", IF v[2] \in DOMAIN t.values.byK1
                                            THEN Some(Num(t.values.byK1[v[2]].value))
                                            ELSE None>>})))
          [] v[1] = "num" /\ k \in {"u8", "u16", "u32", "u64"} -> Arm("u", v)
          [] v[1] = "num" /\ k \in {"i8", "i16", "i32", "i64"} -> Arm("i", v)
          [] v[1] = "num" /\ k \in FloatKinds -> Arm("f", v)
          [] v[1] = "num" /\ k \in {"enum", "bitmask"} ->
               LET named == {i \in Range(t.values.byK1) : i.value = v[2]} IN
               Arm("e", Obj(Props({<<"raw", Some(v)>>,
                                   <<"formatted", IF named = {} THEN None
                                                  ELSE Some(Str((CHOOSE i \in named : TRUE).name))>>})))
          [] v[1] = "bool" /\ k = "boolean" -> Arm("b", v)
          [] v[1] = "list" /\ k = "array" ->
               LET all == All([i \in DOMAIN v[2] |-> valueToProto(types, v[2][i], t.el)])
               IN  IF all = None THEN None
                   ELSE Arm("a", Obj([value |-> List([i \in DOMAIN all[1] |-> Obj(all[1][i])])]))
          [] v[1] = "typed" /\ k = "bytes" ->
               Arm("r", Obj([kind |-> numberKindToProto(t.type), bigEndian |-> Bool(FALSE),
                             value |-> Bytes([i \in DOMAIN v[2] |-> Word(v[2][i], Bits)])]))
          [] v[1] = "obj" /\ k = "object" ->
               LET all == All([i \in DOMAIN t.fields |->
                                 IF t.fields[i].name \in DOMAIN v[2]
                                 THEN valueToProto(types, v[2][t.fields[i].name], t.fields[i].type)
                                 ELSE None])
               IN  IF all = None THEN None
                   ELSE Arm("o", Obj([o |-> Map([n \in {f.name : f \in Range(t.fields)} |->
                           Obj(all[1][CHOOSE i \in DOMAIN t.fields : t.fields[i].name = n])])]))
          [] OTHER -> None

\* typeToProto(): a resolved reference is written as the reference, a name for a
\* number, a string or a boolean as the type it stands for.
RECURSIVE typeToProto(_, _)

fieldToProto(types, f) ==
    Obj(Props({<<"name", Some(Str(f.name))>>,
               <<"type", Some(Obj(typeToProto(types, f.type)))>>,
               <<"value", IF f.value = None THEN None
                          ELSE Some(Obj(valueToProto(types, f.value[1], f.type)[1]))>>}))

typeToProto(types, type) ==
    LET t == IF type.kind = "alias" THEN Behind(types, type) ELSE type
        Arm(name, pairs) == [n \in {name} |-> Obj(Props(pairs))]
        Prop(name) == <<name, IF name \in DOMAIN t THEN Opted(t[name], Str) ELSE None>>
        Bound(v) == Opted(v, Num)
    IN  CASE t.kind = "resolved" ->
               Arm("ref", {<<"name", Some(Str(t.to))>>, <<"kind", Some(referenceKindToProto(t.of))>>})
          [] t.kind = "reference" ->
               Arm("ref", {<<"name", Some(Str(t.refers))>>,
                           <<"kind", Opted(t.expectedKind, referenceKindToProto)>>})
          [] t.kind \in IntegerKinds ->
               Arm("int", {<<"kind", Some(intKindToProto(t.kind))>>,
                           <<"min", Bound(t.min)>>, <<"max", Bound(t.max)>>})
          [] t.kind \in FloatKinds ->
               Arm("float", {<<"kind", Some(floatKindToProto(t.kind))>>,
                             <<"min", Bound(t.min)>>, <<"max", Bound(t.max)>>})
          [] t.kind = "boolean" -> Arm("bool", {<<"encodeType", Opted(t.encodeType, uintKindToProto)>>})
          [] t.kind = "string" ->
               Arm("string", {<<"lengthType", Opted(t.lengthType, uintKindToProto)>>,
                              <<"maxLength", Bound(t.maxLength)>>})
          [] t.kind \in {"enum", "bitmask"} ->
               Arm(t.kind, {<<"name", Some(Str(t.name))>>,
                            <<"encodeType", Some(intKindToProto(
                                IF t.encodeType = None THEN "i32" ELSE t.encodeType[1]))>>,
                            <<"items", Some(ItemsToProto(t.values))>>})
          [] t.kind = "array" ->
               Arm("array", {Prop("name"), <<"elType", Some(Obj(typeToProto(types, t.el)))>>,
                             <<"lengthType", Opted(t.lengthType, uintKindToProto)>>}
                            \cup SizeProps(t.size))
          [] t.kind = "bytes" ->
               Arm("bytes", {Prop("name"), <<"kind", Some(numberKindToProto(t.type))>>,
                             <<"lengthType", Opted(t.lengthType, uintKindToProto)>>}
                            \cup SizeProps(t.size))
          [] t.kind = "object" ->
               Arm("object", {Prop("name"),
                              <<"fields", Some(List([i \in DOMAIN t.fields |->
                                                        fieldToProto(types, t.fields[i])]))>>})
          [] t.kind = "void" -> Arm("void", {<<"size", Some(Num(t.size))>>})

FieldsToProto(types, fields) ==
    List([i \in DOMAIN fields |-> fieldToProto(types, fields[i])])

commandToProto(types, c) ==
    Obj([opcode |-> Num(c.opcode), mnemonic |-> Str(c.mnemonic), component |-> Str(c.component),
         arguments |-> FieldsToProto(types, c.arguments)])
telemetryToProto(types, t) ==
    Obj([id |-> Num(t.id), name |-> Str(t.name), component |-> Str(t.component),
         type |-> Obj(typeToProto(types, t.type))])

eventToProto(types, e) ==
    Obj([id |-> Num(e.id), name |-> Str(e.name), component |-> Str(e.component),
         severity |-> Num(e.severity), formatString |-> Str(e.formatString),
         arguments |-> FieldsToProto(types, e.arguments)])
parameterToProto(types, p) ==
    Obj([id |-> Num(p.id), name |-> Str(p.name), component |-> Str(p.component),
         type |-> Obj(typeToProto(types, p.type))])

-----------------------------------------------------------------------------
(* From the wire.  The message is a plain object, where a property it does *)
(* not own is undefined, or an instance of its class as the plain object   *)
(* that also owns what its prototype answers (Seen).  What a conversion    *)
(* throws is the definition Thrown, or None for a value.                   *)
Thrown == [kind |-> "thrown"]

Get(own, name) == IF name \in DOMAIN own THEN Some(own[name]) ELSE None

\* The number, string or list of an option.
Plainly(o) == Opted(o, LAMBDA v : v[2])
Else(o, v) == IF o = None THEN v ELSE o[1][2]

enumItemFromProto(own) ==
    [name |-> Get(own, "name")[1][2], value |-> Else(Get(own, "value"), 0)]
ItemsFromProto(o) ==
    LET items == Else(o, <<>>)
        item(i) == enumItemFromProto(items[i][2])
    IN  DualKeys([n \in {item(i).name : i \in DOMAIN items} |->
                    item(CHOOSE i \in DOMAIN items : item(i).name = n)])

\* The first alternative that is filled, in the order of the tests of the code.
RECURSIVE valueFromProto(_)
valueFromProto(own) ==
    LET arm(n) == Get(own, n)
        of(n, p) == IF arm(n) = None THEN None ELSE Get(arm(n)[1][2], p)
        a == of("a", "value")
        o == of("o", "o")
        bytes == of("r", "value")
        All(f) == IF \E k \in DOMAIN f : f[k] = None THEN None ELSE Some([k \in DOMAIN f |-> f[k][1]])
    IN  IF a # None THEN
            Opted(All([i \in DOMAIN a[1][2] |-> valueFromProto(a[1][2][i][2])]), List)
        ELSE IF arm("b") # None THEN arm("b")
        ELSE IF arm("f") # None THEN arm("f")
        ELSE IF arm("i") # None THEN arm("i")
        ELSE IF o # None THEN
            Opted(All([n \in DOMAIN o[1][2] |-> valueFromProto(o[1][2][n][2])]), Obj)
        ELSE IF arm("r") # None THEN
            IF bytes = None THEN None ELSE Some(<<"typed", bytes[1][2]>>)
        ELSE IF arm("s") # None THEN arm("s")
        ELSE IF arm("u") # None THEN arm("u")
        ELSE IF of("e", "formatted") # None THEN of("e", "formatted")
        ELSE of("e", "raw")

RECURSIVE typeFromProto(_)

OptionFromProto(o, fromProto(_)) == IF o = None THEN None ELSE fromProto(o[1][2])
TypeIn(own, name) == IF name \in DOMAIN own THEN typeFromProto(own[name][2]) ELSE Thrown

FieldOr(own, type, value) ==
    [name |-> Else(Get(own, "name"), ""),
     type |-> IF value = None /\ "value" \in DOMAIN own THEN Thrown ELSE type,
     value |-> value]
fieldFromProto(own) ==
    FieldOr(own, TypeIn(own, "type"), OptionFromProto(Get(own, "value"), valueFromProto))

FieldsFromProto(o) ==
    LET fields == Else(o, <<>>)
    IN  [i \in DOMAIN fields |-> fieldFromProto(fields[i][2])]

AnyThrown(fields) == \E i \in DOMAIN fields : fields[i].type = Thrown
ObjectOr(name, fields) ==
    IF AnyThrown(fields) THEN Thrown ELSE [kind |-> "object", name |-> name, fields |-> fields]
ArrayOr(name, el, size, length) ==
    IF el = Thrown THEN Thrown
    ELSE [kind |-> "array", name |-> name, el |-> el, size |-> size, lengthType |-> length]

\* Both bounds, when both are numbers and not both zero: a Long is no number.
Bounds(min, max) ==
    IF min # None /\ max # None /\ min[1][1] = "num" /\ max[1][1] = "num"
       /\ {min[1][2], max[1][2]} # {0}
    THEN [min |-> Plainly(min), max |-> Plainly(max)] ELSE [min |-> None, max |-> None]

typeFromProto(own) ==
    LET arm(n) == Get(own, n)
        of(n, p) == Get(arm(n)[1][2], p)
        bounded(n, kind) == [kind |-> kind] @@ Bounds(of(n, "min"), of(n, "max"))
        uint(n, p) == Opted(of(n, p), uintKindFromProto)
        enumOf(n) ==
            IF of(n, "name") = None THEN Thrown
            ELSE [kind |-> n, name |-> of(n, "name")[1][2],
                  encodeType |-> Opted(of(n, "encodeType"), integerKindFromProto),
                  values |-> ItemsFromProto(of(n, "items"))]
        limit(n, p) == Get(of(n, "dynamic")[1][2], p)
        size(n) ==
            IF of(n, "dynamic") # None
            THEN <<"range", Else(limit(n, "min"), 0), Else(limit(n, "max"), 0)>>
            ELSE IF of(n, "static") = None THEN None
            ELSE <<"static", of(n, "static")[1][2]>>
    IN  IF arm("ref") # None THEN
            IF of("ref", "name") = None THEN Thrown
            ELSE Reference(of("ref", "name")[1][2], Opted(of("ref", "kind"), referenceKindFromProto))
        ELSE IF arm("int") # None THEN
            bounded("int", integerKindFromProto(Num(Else(of("int", "kind"), 0))))
        ELSE IF arm("float") # None THEN
            bounded("float", floatKindFromProto(Num(Else(of("float", "kind"), 0))))
        ELSE IF arm("bool") # None THEN
            [kind |-> "boolean", encodeType |-> uint("bool", "encodeType")]
        ELSE IF arm("string") # None THEN
            [kind |-> "string", lengthType |-> uint("string", "lengthType"),
             maxLength |-> Plainly(of("string", "maxLength"))]
        ELSE IF arm("enum") # None THEN enumOf("enum")
        ELSE IF arm("bitmask") # None THEN enumOf("bitmask")
        ELSE IF arm("object") # None THEN
            ObjectOr(Plainly(of("object", "name")), FieldsFromProto(of("object", "fields")))
        ELSE IF arm("array") # None THEN
            ArrayOr(Plainly(of("array", "name")), TypeIn(arm("array")[1][2], "elType"),
                    size("array"), uint("array", "lengthType"))
        ELSE IF arm("bytes") # None THEN
            IF of("bytes", "dynamic") # None
               /\ None \in {limit("bytes", p) : p \in {"min", "max"}} THEN Thrown
            ELSE [kind |-> "bytes", name |-> Plainly(of("bytes", "name")),
                  type |-> numberKindFromProto(Num(Else(of("bytes", "kind"), 0))),
                  size |-> size("bytes"),
                  lengthType |-> uint("bytes", "lengthType")]
        ELSE IF arm("void") # None THEN
            [kind |-> "void", size |-> Else(of("void", "size"), 0)]
        ELSE Thrown

\* What misses a property that must be there throws: a command its opcode or
\* mnemonic, a channel or a parameter its component, name or type.
Missing(own, names) == ~(names \subseteq DOMAIN own)

CommandOr(own, arguments) ==
    IF Missing(own, {"opcode", "mnemonic"}) \/ AnyThrown(arguments) THEN Thrown
    ELSE [kind |-> "command", opcode |-> own.opcode[2], mnemonic |-> own.mnemonic[2],
          component |-> Else(Get(own, "component"), ""), arguments |-> arguments]
commandFromProto(own) == CommandOr(own, FieldsFromProto(Get(own, "arguments")))

EventOr(own, arguments) ==
    IF AnyThrown(arguments) THEN Thrown
    ELSE [kind |-> "event", id |-> Else(Get(own, "id"), 0), name |-> Else(Get(own, "name"), ""),
          component |-> Else(Get(own, "component"), ""),
          severity |-> Else(Get(own, "severity"), 0),
          formatString |-> Else(Get(own, "formatString"), ""), arguments |-> arguments]


eventFromProto(own) == EventOr(own, FieldsFromProto(Get(own, "arguments")))

TypedOr(kind, own, type) ==
    IF Missing(own, {"component", "name"}) \/ type = Thrown THEN Thrown
    ELSE [kind |-> kind, id |-> Else(Get(own, "id"), 0), name |-> own.name[2],
          component |-> own.component[2], type |-> type]
telemetryFromProto(own) == TypedOr("telemetry", own, TypeIn(own, "type"))

parameterFromProto(own) == TypedOr("parameter", own, TypeIn(own, "type"))
=============================================================================
