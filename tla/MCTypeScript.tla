----------------------------- MODULE MCTypeScript -----------------------------
(* The parts of the VS Code extension and of its libraries that promise     *)
(* nothing about time, for TLC: those that keep state (MCExtension), the    *)
(* wire format (MessageChannel) and the dictionaries that are given away    *)
(* and taken back (StoredDictionary).  A behaviour is one of one of them.   *)
EXTENDS MCExtension

CONSTANTS Bits, Mantissa, MaxTrips                         \* of the wire format

ASSUME BitsAssumption == Bits \in Nat \ {0} /\ Mantissa \in Bits + 1 .. 2 * Bits - 2

VARIABLES class, sent, wire, old, got, back, form, step,
          ns, stage, away, route, trips, first

wireVars == <<class, sent, wire, old, got, back, form, step>>
tripVars == <<ns, stage, away, route, trips, first>>

P == INSTANCE ProtoSchema
W == INSTANCE MessageChannel WITH Schema <- P!Schema, Enums <- P!Enums
T == INSTANCE StoredDictionary WITH Schema <- P!Schema, Enums <- P!Enums

MCInit ==
    /\ part \in {"api", "dictionaries", "views", "entry", "wire", "trips"}
    /\ ExtInit /\ W!Init /\ T!Init
    /\ part # "wire" => class = CHOOSE c \in W!Classes : TRUE

MCNext ==
    \/ ExtNext /\ UNCHANGED <<wireVars, tripVars>>
    \/ part = "wire" /\ W!Next /\ UNCHANGED <<extVars, tripVars>>
    \/ part = "trips" /\ T!Next /\ UNCHANGED <<extVars, wireVars>>

MCSpec == MCInit /\ [][MCNext]_<<extVars, wireVars, tripVars>>

\* What is verified and sent is received (MessageChannel).
SentIsReceived == W!SentIsReceived

\* A message made plain and typed again is the same (MessageChannel).
PlainObjectKeepsAll == W!PlainObjectKeepsAll

=============================================================================
