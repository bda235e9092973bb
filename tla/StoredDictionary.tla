-------------------------- MODULE StoredDictionary --------------------------
(***************************************************************************)
(* A namespace of a dictionary (src/modules/types/src/dictionary.ts): a    *)
(* parser adds its types, commands, events, channels and parameters and    *)
(* resolves the references between them; it is given away and taken back   *)
(* any number of times, in one of three ways:                              *)
(*   - "memory": the API without a host keeps the plain object it is given *)
(*     (src/extensions/core/src/api/Offline.ts);                           *)
(*   - "file": it writes the object to a file of the workspace, and reads  *)
(*     an instance of the class from it when it is activated again;        *)
(*   - "host": the API client sends it to the host, whose codec leaves out *)
(*     what is zero, and gets a plain object back.                         *)
(***************************************************************************)
EXTENDS Definitions

CONSTANTS MaxTrips    \* how often the dictionary is given away and taken back

VARIABLES ns,        \* the namespace
          stage,     \* "open": being built, "ready", "away", or how it ended:
                     \* "thrown" by the parser, "refused" before it was given
                     \* away, "lost" when it was to be taken back
          away,      \* the namespace as the message that will be read
          route,     \* how it was last given away
          trips,     \* how often it was
          first      \* the namespace as the parser left it

vars == <<ns, stage, away, route, trips, first>>

Routes == {"memory", "file", "host"}
Parts == {"commands", "events", "telemetry", "parameters"}

EmptyNamespace == [types |-> Nothing] @@ [p \in Parts |-> NoItems]

-----------------------------------------------------------------------------
(* resolveReferences(): every type, argument, channel and parameter, or    *)
(* None when one of them cannot be resolved.                               *)
ResolveFields(types, fields) ==
    LET r == [i \in DOMAIN fields |-> ResolveType(types, fields[i].type)]
    IN  IF None \in Range(r) THEN None
        ELSE Some([i \in DOMAIN fields |-> [fields[i] EXCEPT !.type = r[i][1]]])

ResolveItem(types, item) ==
    IF item.kind \in {"command", "event"}
    THEN Opted(ResolveFields(types, item.arguments), LAMBDA a : [item EXCEPT !.arguments = a])
    ELSE Opted(ResolveType(types, item.type), LAMBDA t : [item EXCEPT !.type = t])

\* A type that is itself a reference is looked up, but its entry stays as it is.
resolveReferences(n) ==
    LET types == [k \in DOMAIN n.types |-> ResolveType(n.types, n.types[k])]
        items == [p \in Parts |->
                    [k \in DOMAIN n[p].byK1 |-> ResolveItem(n.types, n[p].byK1[k])]]
    IN  IF None \in Range(types) \/ \E p \in Parts : None \in Range(items[p]) THEN None
        ELSE Some([types |-> [k \in DOMAIN types |->
                                IF n.types[k].kind = "reference" THEN n.types[k] ELSE types[k][1]]]
                  @@ [p \in Parts |-> [byK1 |-> [k \in DOMAIN items[p] |-> items[p][k][1]],
                                       byK2 |-> n[p].byK2]])

\* addType(): a type that differs from the one it replaces is refused, and a
\* type with a name gets its key as its name.
Named(key, t) ==
    IF t.kind \in {"enum", "bitmask"} THEN [t EXCEPT !.name = key]
    ELSE IF t.kind \in NamedKinds THEN [t EXCEPT !.name = Some(key)] ELSE t
addType(n, key, t) ==
    IF key \in DOMAIN n.types /\ ~EqualTypes(n.types[key], t) THEN None
    ELSE Some([n EXCEPT !.types = Assign(@, key, Named(key, t))])

\* addCommand(), addEvent(), addTelemetry() and addParameter().
addItem(n, part, key, number, item) ==
    IF Overlaps(n[part], key, number) THEN None
    ELSE Some([n EXCEPT ![part] = DualSet(@, key, number, item)])

-----------------------------------------------------------------------------
(* toProto() and fromProto() of a namespace.                               *)
ItemToProto(types, item) ==
    CASE item.kind = "command"   -> commandToProto(types, item)
      [] item.kind = "event"     -> eventToProto(types, item)
      [] item.kind = "telemetry" -> telemetryToProto(types, item)
      [] item.kind = "parameter" -> parameterToProto(types, item)

toProto(n) ==
    [types |-> Map([k \in DOMAIN n.types |-> Obj(typeToProto(n.types, n.types[k]))])]
    @@ [p \in Parts |-> Map([k \in DOMAIN n[p].byK1 |-> ItemToProto(n.types, n[p].byK1[k])])]

ItemFromProto(part, own) ==
    CASE part = "commands"   -> commandFromProto(own)
      [] part = "events"     -> eventFromProto(own)
      [] part = "telemetry"  -> telemetryFromProto(own)
      [] part = "parameters" -> parameterFromProto(own)

NumberOf(item) == IF item.kind = "command" THEN item.opcode ELSE item.id

\* None when a conversion, an overlap of numbers or a reference throws.
NamespaceOr(types, items) ==
    IF \/ Thrown \in Range(types)
       \/ \E p \in Parts :
            \/ Thrown \in Range(items[p])
            \/ \E j, k \in DOMAIN items[p] :
                 j # k /\ NumberOf(items[p][j]) = NumberOf(items[p][k])
    THEN None
    ELSE resolveReferences(
           [types |-> [k \in DOMAIN types |-> Named(k, types[k])]]
           @@ [p \in Parts |-> [byK1 |-> items[p],
                                byK2 |-> {NumberOf(i) : i \in Range(items[p])}]])

fromProto(own) ==
    LET entries(name) == Else(Get(own, name), Nothing) IN
    NamespaceOr([k \in DOMAIN entries("types") |-> typeFromProto(entries("types")[k][2])],
                [p \in Parts |-> [k \in DOMAIN entries(p) |-> ItemFromProto(p, entries(p)[k][2])]])

\* The host's codec: a field of its own that is zero is not written again.
RECURSIVE Relayed(_, _)
RelayedBody(kind, body) == IF IsMessage(kind) THEN Relayed(kind, body) ELSE body
IsZero(f, body) ==
    CASE f.kind = "string" -> body = "" [] f.kind = "bytes" -> body = <<>>
      [] f.kind = "bool" -> ~body [] OTHER -> body = 0
Relayed(T, wire) ==
    LET field(r) == CHOOSE f \in Fields(T) : f.id = r.id
        Kept(r) == field(r).rule # "single" \/ field(r).oneof # "" \/ IsMessage(field(r).kind)
                   \/ ~IsZero(field(r), r.body)
        Sent(r) == CASE field(r).rule \in {"single", "list"} ->
                          [r EXCEPT !.body = RelayedBody(field(r).kind, @)]
                     [] field(r).rule = "map" ->
                          [r EXCEPT !.body[2].body = RelayedBody(field(r).kind, @)]
                     [] field(r).rule = "packed" -> r
        kept == SelectSeq(wire, Kept)
    IN  [i \in DOMAIN kept |-> Sent(kept[i])]

\* An instance of a class as the plain object that also owns what the prototype
\* answers for it.
RECURSIVE Seen(_, _)
SeenValue(kind, v) == IF IsMessage(kind) THEN Obj(Seen(kind, v[2])) ELSE v
Seen(T, own) ==
    LET filled == {f \in Fields(T) : Read(T, own, f.name) # Null}
        value(f, v) ==
            CASE f.rule = "single" -> SeenValue(f.kind, v)
              [] Multiple(f)       -> List([i \in DOMAIN v[2] |-> SeenValue(f.kind, v[2][i])])
              [] f.rule = "map"    -> Map([k \in DOMAIN v[2] |-> SeenValue(f.kind, v[2][k])])
    IN  [n \in {f.name : f \in filled} |->
            value(CHOOSE f \in filled : f.name = n, Read(T, own, n))]

Class == "DictionaryNamespace"
GivenAway(r, own) ==
    CASE r = "memory" -> own
      [] r = "file"   -> Seen(Class, Decode(Class, Encode(Class, own), FALSE))
      [] r = "host"   ->
           ToObject(Class, Decode(Class, Relayed(Class, Encode(Class, own)), FALSE),
                    [defaults |-> FALSE, longs |-> "long", text |-> FALSE])

-----------------------------------------------------------------------------
(* What the parser adds: one or two types, one of which may name the       *)
(* other, itself or nothing, and one entry of each part.                   *)
Number(k) == [kind |-> k, min |-> None, max |-> None]
Array(el, size, length) ==
    [kind |-> "array", name |-> None, el |-> el, size |-> size, lengthType |-> length]
Object(fields) == [kind |-> "object", name |-> None, fields |-> fields]
FieldOf(type, value) == [name |-> "f", type |-> type, value |-> value]
Enum(kind, encode, items) ==
    [kind |-> kind, name |-> "", encodeType |-> encode,
     values |-> DualKeys([n \in DOMAIN items |-> [name |-> n, value |-> items[n]]])]

References == {Reference("A", None), Reference("B", None), Reference("C", None),
               Reference("B", Some("object"))}
Plain == {Number("u8"), Number("i64"), [kind |-> "i32", min |-> Some(-1), max |-> Some(3)],
          [kind |-> "f32", min |-> Some(0), max |-> Some(2)],
          [kind |-> "boolean", encodeType |-> None], [kind |-> "boolean", encodeType |-> Some("u16")],
          [kind |-> "string", lengthType |-> None, maxLength |-> None],
          [kind |-> "string", lengthType |-> Some("u16"), maxLength |-> Some(3)],
          [kind |-> "void", size |-> 2]}
EnumTypes == {Enum("enum", None, [X |-> 0, Y |-> 1]), Enum("enum", Some("u8"), [X |-> 0, Z |-> 1]),
              Enum("bitmask", Some("i64"), [X |-> 1, Y |-> 1])}
Arrays == {Array(el, size, length) :
              el \in {Reference("A", None), Reference("B", None), Number("i64")},
              size \in {None, <<"static", 2>>, <<"range", 0, 2>>},
              length \in {None, Some("u8")}}
ByteTypes == {[kind |-> "bytes", name |-> None, type |-> k, size |-> size, lengthType |-> length] :
                 k \in {"u8", "i16"}, size \in {<<"static", 2>>, <<"range", 0, 2>>},
                 length \in {None, Some("u16")}}
\* Fields with and without a constant value.
Objects == {Object(<<FieldOf(t, None)>>) : t \in References \cup Plain}
           \cup {Object(<<FieldOf(Number(k), Some(Num(n)))>>) : k \in {"u8", "i64", "f32"}, n \in {0, 2}}
           \cup {Object(<<FieldOf(Reference("B", None), Some(Str("X")))>>)}
           \cup {Object(<<FieldOf(Array(Number("u8"), None, None), Some(List(s)))>>) :
                    s \in {<<>>, <<Num(2)>>}}
           \cup {Object(<<FieldOf([kind |-> "bytes", name |-> None, type |-> "u8", size |-> None,
                                   lengthType |-> None], Some(<<"typed", <<>>>>))>>)}

TypesOfA == References \cup Plain \cup EnumTypes \cup Arrays \cup ByteTypes \cup Objects
TypesOfB == EnumTypes \cup {Number("i64"), Object(<<FieldOf(Reference("A", None), None)>>),
                            Reference("A", None), [kind |-> "void", size |-> 2]}

\* The parser of F Prime adds events, then channels, commands and parameters:
\* here one of each, under the number zero or the first that has its top bit set.
\* One of them may have no name, or no component, among the simplest of types.
Turn == [events |-> 1, telemetry |-> 2, commands |-> 3, parameters |-> 4]
Numbers == [events |-> {0}, telemetry |-> {0}, commands |-> {0, 2^(Bits - 1)}, parameters |-> {1}]

Entry(part, number, name, component) ==
    LET arguments == <<[name |-> "a", type |-> Reference("A", None), value |-> None]>> IN
    CASE part = "commands" ->
           [kind |-> "command", opcode |-> number, mnemonic |-> name, component |-> component,
            arguments |-> arguments]
      [] part = "events" ->
           [kind |-> "event", id |-> number, name |-> name, component |-> component,
            severity |-> 0, formatString |-> "", arguments |-> arguments]
      [] part = "telemetry" ->
           [kind |-> "telemetry", id |-> number, name |-> name, component |-> component,
            type |-> Array(Reference("B", None), None, None)]
      [] part = "parameters" ->
           [kind |-> "parameter", id |-> number, name |-> name, component |-> component,
            type |-> Reference("B", None)]

NameOf(item) == IF item.kind = "command" THEN item.mnemonic ELSE item.name
Blank(item) == "" \in {NameOf(item), item.component}
AllFilled(n) == \A p \in Parts : \A i \in Range(n[p].byK1) : ~Blank(i)

-----------------------------------------------------------------------------
Init ==
    /\ ns = EmptyNamespace /\ first = EmptyNamespace
    /\ stage = "open"
    /\ away = Nothing /\ route = "none" /\ trips = 0

\* A call of the parser that throws ends the parsing.
Become(result) ==
    IF result = None THEN stage' = "thrown" /\ UNCHANGED ns
    ELSE ns' = result[1] /\ UNCHANGED stage

AddType ==
    /\ stage = "open"
    /\ \/ DOMAIN ns.types = {} /\ \E t \in TypesOfA : Become(addType(ns, "A", t))
       \/ DOMAIN ns.types = {"A"} /\ \E t \in TypesOfB : Become(addType(ns, "B", t))
       \/ DOMAIN ns.types = {"A"} /\ \E t \in EnumTypes : Become(addType(ns, "A", t))
    /\ UNCHANGED <<away, route, trips, first>>

AddItem ==
    /\ stage = "open" /\ DOMAIN ns.types = {"A", "B"}
    /\ \E part \in Parts :
        /\ \A p \in Parts : Turn[p] < Turn[part] => ns[p] # NoItems
        /\ \E number \in Numbers[part], name \in {"", "n"}, component \in {"", "c"} :
              /\ "" \in {name, component} => ns.types["A"].kind = "u8" /\ AllFilled(ns)
              /\ Become(addItem(ns, part, "k", number, Entry(part, number, name, component)))
    /\ UNCHANGED <<away, route, trips, first>>

\* The end of the parser: the references of the dictionary are resolved.
Resolve ==
    /\ stage = "open" /\ DOMAIN ns.types # {} /\ (ns.events = NoItems \/ ns.parameters # NoItems)
    /\ LET r == resolveReferences(ns) IN
       IF r = None THEN stage' = "thrown" /\ UNCHANGED <<ns, first>>
       ELSE stage' = "ready" /\ ns' = r[1] /\ first' = r[1]
    /\ UNCHANGED <<away, route, trips>>

\* toProto(), and the way the message goes.  A constant value that does not fit
\* the type of its field throws, and so does a Long.
Constants(n) ==
    {f \in UNION {Range(t.fields) : t \in {u \in Range(n.types) : u.kind = "object"}} :
        f.value # None}
ValuesFit(n) == \A f \in Constants(n) : valueToProto(n.types, f.value[1], f.type) # None

GiveAway ==
    /\ stage = "ready" /\ trips < MaxTrips
    /\ IF ~ValuesFit(ns) THEN stage' = "refused" /\ UNCHANGED <<away, route, trips>>
       ELSE /\ \E r \in Routes : route' = r /\ away' = GivenAway(r, toProto(ns))
            /\ stage' = "away"
            /\ trips' = trips + 1
    /\ UNCHANGED <<ns, first>>

\* fromProto(): the whole dictionary is lost when it throws.
TakeBack ==
    /\ stage = "away"
    /\ LET r == fromProto(away) IN
       IF r = None THEN stage' = "lost" /\ UNCHANGED ns
       ELSE stage' = "ready" /\ ns' = r[1]
    /\ UNCHANGED <<away, route, trips, first>>

Next == AddType \/ AddItem \/ Resolve \/ GiveAway \/ TakeBack

Spec == Init /\ [][Next]_vars

-----------------------------------------------------------------------------
(* The layout of a type: what the bytes of the flight software are read    *)
(* by.  It leaves out what the trips are known to change: the sign of a    *)
(* number of 64 bits, the bounds of a number, and the width of a length, a *)
(* boolean or an enum (StatedWidths is about that).                        *)
Unsigned(k) == IF k = "i64" THEN "u64" ELSE k

\* The same, or one of them undefined and the other empty.
Alike(a, b, empty) == a = b \/ (a \in {None, Some(empty)} /\ b \in {None, Some(empty)})

\* A constant without the tags of its numbers: a number comes back as a Long.
Bare(v) == IF v[1] = "list" THEN [i \in DOMAIN v[2] |-> v[2][i][2]] ELSE v[2]

RECURSIVE SameLayout(_, _, _, _)
SameLayout(n1, a0, n2, b0) ==
    LET a == Behind(n1, a0)
        b == Behind(n2, b0)
        k == KindOf(a0)
    IN  /\ Unsigned(k) = Unsigned(KindOf(b0))
        /\ a0.kind = "resolved" => b0.kind = "resolved" /\ a0.to = b0.to
        /\ CASE a0.kind = "resolved" -> TRUE
             [] k = "reference" -> a.refers = b.refers
             [] k = "string" -> Alike(a.maxLength, b.maxLength, 0)
             [] k \in {"enum", "bitmask"} -> a.name = b.name /\ a.values = b.values
             [] k = "array" -> Alike(a.name, b.name, "") /\ a.size = b.size /\ SameLayout(n1, a.el, n2, b.el)
             [] k = "bytes" -> Alike(a.name, b.name, "") /\ a.size = b.size /\ a.type = b.type
             [] k = "object" ->
                  /\ Alike(a.name, b.name, "") /\ Len(a.fields) = Len(b.fields)
                  /\ \A i \in DOMAIN a.fields :
                       /\ a.fields[i].name = b.fields[i].name
                       /\ Opted(a.fields[i].value, Bare) = Opted(b.fields[i].value, Bare)
                       /\ SameLayout(n1, a.fields[i].type, n2, b.fields[i].type)
             [] k = "void" -> a.size = b.size
             [] OTHER -> TRUE

SameFields(n1, fs, n2, gs) ==
    /\ Len(fs) = Len(gs)
    /\ \A i \in DOMAIN fs : fs[i].name = gs[i].name /\ SameLayout(n1, fs[i].type, n2, gs[i].type)

SameItem(n1, a, n2, b) ==
    IF a.kind \in {"command", "event"} THEN SameFields(n1, a.arguments, n2, b.arguments)
    ELSE a.name = b.name /\ a.component = b.component /\ SameLayout(n1, a.type, n2, b.type)

\* A dictionary that has been given away and taken back, by whatever ways, has
\* the types, commands, events, channels and parameters it had, under their
\* keys and laid out as before; a reference leads where it led.
LayoutSurvives ==
    stage = "ready" /\ trips > 0 =>
        /\ DOMAIN ns.types = DOMAIN first.types
        /\ \A k \in DOMAIN first.types :
             SameLayout(first.types, first.types[k], ns.types, ns.types[k])
        /\ \A p \in Parts :
             /\ DOMAIN ns[p].byK1 = DOMAIN first[p].byK1
             /\ \A k \in DOMAIN first[p].byK1 :
                  SameItem(first.types, first[p].byK1[k], ns.types, ns[p].byK1[k])

\* An entry is found by its number after every trip, as the packets of the flight
\* software name it, when the number fits 32 bits with a sign; and the two keys
\* of an entry always lead to the same entry.
NumbersSurvive ==
    stage = "ready" =>
        \A p \in Parts :
            /\ ns[p].byK2 = {NumberOf(i) : i \in Range(ns[p].byK1)}
            /\ \A n \in first[p].byK2 : n < 2^(Bits - 1) => n \in ns[p].byK2

\* A dictionary that comes back is the one that was given away.
DictionarySurvives == LayoutSurvives /\ NumbersSurvive

\* What a file does to a dictionary: an unresolved reference gets the expected
\* kind "enum".
LostInAFile ==
    \E k \in DOMAIN ns.types :
        /\ ns.types[k].kind = "reference" /\ ns.types[k].expectedKind = None
        /\ ns.types[ns.types[k].refers].kind # "enum"

\* What the host leaves out, being zero or empty: an opcode, a mnemonic, the name
\* or the component of a channel or a parameter, the lower limit of bytes, and a
\* constant that is an empty list or no bytes.
LostAtTheHost ==
    \/ \E c \in Range(ns.commands.byK1) : c.opcode = 0 \/ c.mnemonic = ""
    \/ \E p \in {"telemetry", "parameters"} : \E i \in Range(ns[p].byK1) : Blank(i)
    \/ \E t \in Range(ns.types) : t.kind = "bytes" /\ t.size # None /\ t.size[1] = "range" /\ t.size[2] = 0
    \/ \E f \in Constants(ns) : f.value[1][1] \in {"list", "typed"} /\ f.value[1][2] = <<>>

\* What cannot be given away: a constant integer that has come back as a Long from
\* a file or the host, and a name for what is no enum.
Refused ==
    \E f \in Constants(ns) :
        LET v == f.value[1] IN
        \/ /\ trips > 0 /\ route \in {"file", "host"}
           /\ "long" \in {v[1]} \cup IF v[1] = "list" THEN {w[1] : w \in Range(v[2])} ELSE {}
        \/ v[1] = "str" /\ KindOf(f.type) \notin {"string", "enum", "bitmask"}

\* A dictionary whose references were resolved is not lost on its way and not
\* refused but for these reasons.
LostForAReason ==
    /\ stage = "lost" => \/ route = "file" /\ LostInAFile
                         \/ route = "host" /\ LostAtTheHost
    /\ stage = "refused" => Refused

=============================================================================
