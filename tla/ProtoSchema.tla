----------------------------- MODULE ProtoSchema -----------------------------
(***************************************************************************)
(* The messages of the wire format, as the generated codec                 *)
(* src/modules/types/src/proto/index.js reads and writes them: for every   *)
(* class, the fields its encode() writes in their order, its decode()      *)
(* recognises, its verify() checks and its fromObject() and toObject()     *)
(* copy.  The codec itself (ProtoCodec) is the same for every class, so a  *)
(* class is a table of fields.                                             *)
(*                                                                         *)
(* A field is its number on the wire, its name, its kind (a scalar of      *)
(* protobuf, an enum or a message), how often it occurs and the oneof it   *)
(* belongs to ("" when it belongs to none).                                *)
(***************************************************************************)
EXTENDS Integers, Sequences

Row(id, name, kind, rule, oneof) ==
    [id |-> id, name |-> name, kind |-> kind, rule |-> rule, oneof |-> oneof]

\* A field that occurs at most once; one arm of a oneof; a list; a map by string.
Opt(id, name, kind) == Row(id, name, kind, "single", "")
Arm(id, name, kind, oneof) == Row(id, name, kind, "single", oneof)
Rep(id, name, kind) == Row(id, name, kind, "list", "")
Packed(id, name, kind) == Row(id, name, kind, "packed", "")
MapOf(id, name, kind) == Row(id, name, kind, "map", "")

-----------------------------------------------------------------------------
\* The enumerations: the numbers of their names.
SourceContextFilter == [REALTIME_ONLY |-> 0, RECORDED_ONLY |-> 1, ALL |-> 2]
SourceContext == [REALTIME |-> 0, RECORDED |-> 1]
FileDownlinkCompletionStatus ==
    [DOWNLINK_COMPLETED |-> 0, DOWNLINK_UNKNOWN |-> -1, DOWNLINK_PARTIAL |-> 1,
     DOWNLINK_CRC_FAILED |-> 2]
IntKind ==
    [INT_U8 |-> 0, INT_I8 |-> 1, INT_U16 |-> 2, INT_I16 |-> 3, INT_U32 |-> 4,
     INT_I32 |-> 5, INT_U64 |-> 6, INT_I64 |-> 7]
NumberKind ==
    [NUMBER_U8 |-> 0, NUMBER_I8 |-> 1, NUMBER_U16 |-> 2, NUMBER_I16 |-> 3,
     NUMBER_U32 |-> 4, NUMBER_I32 |-> 5, NUMBER_U64 |-> 6, NUMBER_I64 |-> 7,
     NUMBER_F32 |-> 8, NUMBER_F64 |-> 9]
UIntKind == [UINT_U8 |-> 0, UINT_U16 |-> 1, UINT_U32 |-> 2, UINT_U64 |-> 3]
SIntKind == [SINT_I8 |-> 0, SINT_I16 |-> 1, SINT_I32 |-> 2, SINT_I64 |-> 3]
FloatKind == [F_F32 |-> 0, F_F64 |-> 1]
ReferenceKind ==
    [REF_ENUM |-> 0, REF_BITMASK |-> 1, REF_OBJECT |-> 2, REF_ARRAY |-> 3,
     REF_BYTES |-> 4]
EvrSeverity ==
    [EVR_DIAGNOSTIC |-> 0, EVR_ACTIVITY_LOW |-> 1, EVR_ACTIVITY_HIGH |-> 2,
     EVR_WARNING_LOW |-> 3, EVR_WARNING_HIGH |-> 4, EVR_COMMAND |-> 5, EVR_FATAL |-> 6]
FswCapability ==
    [COMMAND |-> 0, PARSE_COMMAND |-> 1, SEQUENCE |-> 2, PARSE_SEQUENCE |-> 3,
     FILE |-> 4, REQUEST |-> 5]
ProfileState ==
    [PROFILE_IDLE |-> 0, PROFILE_CONNECTING |-> 1, PROFILE_ACTIVE |-> 2,
     PROFILE_DISCONNECT |-> 3]

\* Every enumeration, by its name.  The prototype of a class gives a field of an
\* enum the number 0, which is the first name of each of them.
Enums ==
    [SourceContextFilter |-> SourceContextFilter,
     SourceContext |-> SourceContext,
     FileDownlinkCompletionStatus |-> FileDownlinkCompletionStatus,
     IntKind |-> IntKind,
     NumberKind |-> NumberKind,
     UIntKind |-> UIntKind,
     SIntKind |-> SIntKind,
     FloatKind |-> FloatKind,
     ReferenceKind |-> ReferenceKind,
     EvrSeverity |-> EvrSeverity,
     FswCapability |-> FswCapability,
     ProfileState |-> ProfileState]

-----------------------------------------------------------------------------
\* The classes, in the order of the file.
BusFilter ==
    <<Opt(1, "source", "string"), Rep(2, "names", "string"),
      Opt(3, "context", "SourceContextFilter")>>
Event ==
    <<Opt(1, "ref", "EventRef"), Opt(2, "time", "Time"), Opt(3, "message", "string"),
      Rep(4, "args", "Value"), MapOf(5, "tags", "Value")>>
Telemetry ==
    <<Opt(1, "ref", "TelemetryRef"), Opt(2, "time", "Time"), Opt(3, "value", "Value"),
      MapOf(4, "labels", "string")>>
SourcedEvent ==
    <<Opt(1, "event", "Event"), Opt(2, "source", "string"),
      Opt(3, "context", "SourceContext")>>
SourcedTelemetry ==
    <<Opt(1, "telemetry", "Telemetry"), Opt(2, "source", "string"),
      Opt(3, "context", "SourceContext")>>
FileDownlinkChunk ==
    <<Opt(1, "offset", "uint64"), Opt(2, "size", "uint64")>>
FileDownlink ==
    <<Opt(1, "uid", "string"), Opt(2, "timeStart", "Timestamp"),
      Opt(3, "timeEnd", "Timestamp"), Opt(4, "status", "FileDownlinkCompletionStatus"),
      Opt(5, "source", "string"), Opt(6, "sourcePath", "string"),
      Opt(7, "destinationPath", "string"), Opt(8, "filePath", "string"),
      Rep(9, "missingChunks", "FileDownlinkChunk"),
      Rep(10, "duplicateChunks", "FileDownlinkChunk"), Opt(11, "size", "uint64"),
      MapOf(12, "metadata", "string")>>
FileUplink ==
    <<Opt(1, "uid", "string"), Opt(2, "timeStart", "Timestamp"),
      Opt(3, "timeEnd", "Timestamp"), Opt(5, "fswId", "string"),
      Opt(6, "sourcePath", "string"), Opt(7, "destinationPath", "string"),
      Opt(8, "error", "string"), Opt(9, "size", "uint64"), MapOf(10, "metadata", "string")>>
FileTransfer ==
    <<Opt(1, "uid", "string"), Opt(2, "fswId", "string"), Opt(3, "sourcePath", "string"),
      Opt(4, "targetPath", "string"), Opt(5, "size", "uint64"),
      Opt(6, "progress", "uint64")>>
FileTransferState ==
    <<Rep(1, "downlinkCompleted", "FileDownlink"), Rep(2, "uplinkCompleted", "FileUplink"),
      Rep(3, "downlinkInProgress", "FileTransfer"),
      Rep(4, "uplinkInProgress", "FileTransfer")>>
BooleanType ==
    <<Opt(1, "encodeType", "UIntKind")>>
IntType ==
    <<Opt(1, "kind", "IntKind"), Opt(2, "min", "int64"), Opt(3, "max", "int64")>>
FloatType ==
    <<Opt(1, "kind", "FloatKind"), Opt(2, "min", "double"), Opt(3, "max", "double")>>
StringType ==
    <<Opt(1, "lengthType", "UIntKind"), Opt(2, "maxLength", "uint32")>>
EnumItem ==
    <<Opt(1, "value", "int32"), Opt(2, "name", "string"), Opt(3, "metadata", "string")>>
EnumType ==
    <<Opt(1, "name", "string"), Opt(2, "encodeType", "IntKind"),
      Rep(3, "items", "EnumItem")>>
BoundedArraySize ==
    <<Opt(1, "min", "uint32"), Opt(2, "max", "uint32")>>
ArrayType ==
    <<Opt(1, "name", "string"), Opt(2, "elType", "Type"),
      Arm(3, "static", "uint32", "size"), Arm(4, "dynamic", "BoundedArraySize", "size"),
      Opt(5, "lengthType", "UIntKind")>>
BytesType ==
    <<Opt(1, "name", "string"), Opt(2, "kind", "NumberKind"),
      Arm(3, "static", "uint32", "size"), Arm(4, "dynamic", "BoundedArraySize", "size"),
      Opt(5, "lengthType", "UIntKind")>>
Field ==
    <<Opt(1, "name", "string"), Opt(2, "type", "Type"), Opt(3, "metadata", "string"),
      Opt(4, "value", "Value")>>
ObjectType ==
    <<Opt(1, "name", "string"), Rep(2, "fields", "Field")>>
ReferenceType ==
    <<Opt(1, "name", "string"), Opt(2, "kind", "ReferenceKind")>>
VoidType ==
    <<Opt(1, "size", "uint32")>>
Type ==
    <<Arm(1, "ref", "ReferenceType", "value"), Arm(2, "bool", "BooleanType", "value"),
      Arm(3, "int", "IntType", "value"), Arm(4, "float", "FloatType", "value"),
      Arm(5, "string", "StringType", "value"), Arm(6, "enum", "EnumType", "value"),
      Arm(7, "bitmask", "EnumType", "value"), Arm(8, "object", "ObjectType", "value"),
      Arm(9, "array", "ArrayType", "value"), Arm(10, "bytes", "BytesType", "value"),
      Arm(11, "void", "VoidType", "value"), Opt(12, "metadata", "string")>>
ObjectValue ==
    <<MapOf(1, "o", "Value")>>
ArrayValue ==
    <<Rep(1, "value", "Value")>>
BytesValue ==
    <<Opt(1, "kind", "NumberKind"), Opt(2, "bigEndian", "bool"), Opt(3, "value", "bytes")>>
EnumValue ==
    <<Opt(1, "raw", "int64"), Opt(2, "formatted", "string")>>
Value ==
    <<Arm(1, "i", "sint64", "value"), Arm(2, "u", "uint64", "value"),
      Arm(3, "f", "double", "value"), Arm(4, "b", "bool", "value"),
      Arm(5, "s", "string", "value"), Arm(6, "e", "EnumValue", "value"),
      Arm(7, "o", "ObjectValue", "value"), Arm(8, "a", "ArrayValue", "value"),
      Arm(9, "r", "BytesValue", "value")>>
ParameterDef ==
    <<Opt(1, "id", "int32"), Opt(2, "component", "string"), Opt(3, "name", "string"),
      Opt(4, "type", "Type"), Opt(5, "metadata", "string")>>
CommandDef ==
    <<Opt(1, "opcode", "int32"), Opt(2, "mnemonic", "string"),
      Opt(3, "component", "string"), Rep(4, "arguments", "Field"),
      Opt(5, "metadata", "string")>>
EventDef ==
    <<Opt(1, "id", "int32"), Opt(2, "component", "string"), Opt(3, "name", "string"),
      Opt(4, "severity", "EvrSeverity"), Opt(5, "formatString", "string"),
      Rep(6, "arguments", "Field"), Opt(7, "metadata", "string")>>
EventRef ==
    <<Opt(1, "id", "int32"), Opt(2, "name", "string"), Opt(3, "component", "string"),
      Opt(4, "severity", "EvrSeverity"), Rep(5, "arguments", "string"),
      Opt(10, "dictionary", "string")>>
TelemetryDef ==
    <<Opt(1, "id", "int32"), Opt(2, "name", "string"), Opt(3, "component", "string"),
      Opt(4, "type", "Type"), Opt(6, "metadata", "string")>>
TelemetryRef ==
    <<Opt(1, "id", "int32"), Opt(2, "name", "string"), Opt(3, "component", "string"),
      Opt(10, "dictionary", "string")>>
DictionaryHead ==
    <<Opt(1, "type", "string"), Opt(2, "name", "string"), Opt(3, "version", "string")>>
DictionaryNamespace ==
    <<MapOf(1, "commands", "CommandDef"), MapOf(2, "events", "EventDef"),
      MapOf(3, "telemetry", "TelemetryDef"), MapOf(4, "parameters", "ParameterDef"),
      MapOf(5, "types", "Type")>>
Dictionary ==
    <<Opt(1, "head", "DictionaryHead"), MapOf(2, "content", "DictionaryNamespace"),
      MapOf(3, "metadata", "string"), Opt(4, "id", "string")>>
Time ==
    <<Opt(1, "unix", "Timestamp"), Opt(2, "sclk", "double")>>
FileHeader ==
    <<Opt(1, "sourcePath", "string"), Opt(2, "destinationPath", "string"),
      Opt(3, "size", "uint64"), MapOf(4, "metadata", "string")>>
UplinkFileChunk ==
    <<Arm(1, "header", "FileHeader", "value"), Arm(2, "data", "bytes", "value")>>
DownlinkFileData ==
    <<Opt(1, "offset", "uint64"), Opt(2, "data", "bytes"), MapOf(3, "md", "string")>>
DownlinkFileMetadata ==
    <<Opt(1, "key", "string"), Opt(2, "data", "bytes")>>
DownlinkFileValidation ==
    <<>>
DownlinkFileChunk ==
    <<Arm(1, "header", "FileHeader", "value"), Arm(2, "data", "DownlinkFileData", "value"),
      Arm(3, "metadata", "DownlinkFileMetadata", "value"),
      Arm(4, "validation", "DownlinkFileValidation", "value")>>
Fsw ==
    <<Opt(1, "id", "string"), Opt(2, "type", "string"), Opt(3, "profileId", "string"),
      Rep(4, "forwards", "string"), Packed(7, "capabilities", "FswCapability")>>
CommandOptions ==
    <<Opt(1, "noWait", "bool")>>
CommandValue ==
    <<Opt(1, "def", "CommandDef"), Rep(2, "args", "Value"),
      Opt(3, "options", "CommandOptions"), MapOf(4, "metadata", "string")>>
RawCommandValue ==
    <<Opt(2, "command", "string"), Opt(3, "options", "CommandOptions"),
      MapOf(4, "metadata", "string")>>
CommandSequence ==
    <<Rep(1, "commands", "CommandValue"), Opt(2, "languageName", "string"),
      MapOf(3, "metadata", "string")>>
RawCommandSequence ==
    <<Opt(1, "sequence", "string"), Opt(2, "languageName", "string"),
      MapOf(3, "metadata", "string"), Opt(4, "lineCommentPrefix", "string")>>
RequestValue ==
    <<Opt(1, "kind", "string"), Opt(2, "data", "bytes")>>
RequestReply ==
    <<Opt(1, "data", "bytes")>>
Id ==
    <<Opt(1, "id", "string")>>
FswList ==
    <<Rep(1, "all", "Fsw")>>
Reply ==
    <<Opt(1, "success", "bool")>>
SequenceReply ==
    <<Opt(1, "success", "bool"), Opt(2, "commandIndex", "int32")>>
StatefulProfile ==
    <<Opt(1, "value", "Profile"), Opt(2, "state", "ProfileState"),
      Opt(3, "runtimeOnly", "bool")>>
ProfileList ==
    <<MapOf(1, "all", "StatefulProfile")>>
ProfileProviderList ==
    <<Rep(1, "all", "ProfileProvider")>>
ProfileUpdate ==
    <<Opt(1, "id", "string"), Opt(2, "settings", "string")>>
DictionaryList ==
    <<MapOf(1, "all", "DictionaryHead")>>
Uplink ==
    <<Opt(1, "id", "string"), Arm(2, "cmd", "CommandValue", "value"),
      Arm(3, "parseCmd", "RawCommandValue", "value"),
      Arm(4, "seq", "CommandSequence", "value"),
      Arm(5, "parseSeq", "RawCommandSequence", "value"),
      Arm(6, "file", "UplinkFileChunk", "value"),
      Arm(7, "request", "RequestValue", "value"), Arm(99, "cancel", "Empty", "value"),
      Arm(100, "final", "Empty", "value")>>
UplinkReply ==
    <<Opt(1, "id", "string"), Arm(2, "reply", "bytes", "status"),
      Arm(3, "error", "string", "status")>>
FswInitialPacket ==
    <<Opt(1, "info", "Fsw"), Opt(2, "profile", "string")>>
FswConnectionPacket ==
    <<Arm(1, "info", "FswInitialPacket", "value"), Arm(2, "reply", "UplinkReply", "value")>>
Timestamp ==
    <<Opt(1, "seconds", "int64"), Opt(2, "nanos", "int32")>>
Empty ==
    <<>>
ProfileProvider ==
    <<Opt(1, "name", "string"), Opt(2, "schema", "string"), Opt(3, "uiSchema", "string")>>
Profile ==
    <<Opt(1, "name", "string"), Opt(2, "provider", "string"), Opt(3, "settings", "string"),
      Opt(5, "id", "string")>>

Schema ==
    [BusFilter |-> BusFilter, Event |-> Event, Telemetry |-> Telemetry,
     SourcedEvent |-> SourcedEvent, SourcedTelemetry |-> SourcedTelemetry,
     FileDownlinkChunk |-> FileDownlinkChunk, FileDownlink |-> FileDownlink,
     FileUplink |-> FileUplink, FileTransfer |-> FileTransfer,
     FileTransferState |-> FileTransferState, BooleanType |-> BooleanType,
     IntType |-> IntType, FloatType |-> FloatType, StringType |-> StringType,
     EnumItem |-> EnumItem, EnumType |-> EnumType, BoundedArraySize |-> BoundedArraySize,
     ArrayType |-> ArrayType, BytesType |-> BytesType, Field |-> Field,
     ObjectType |-> ObjectType, ReferenceType |-> ReferenceType, VoidType |-> VoidType,
     Type |-> Type, ObjectValue |-> ObjectValue, ArrayValue |-> ArrayValue,
     BytesValue |-> BytesValue, EnumValue |-> EnumValue, Value |-> Value,
     ParameterDef |-> ParameterDef, CommandDef |-> CommandDef, EventDef |-> EventDef,
     EventRef |-> EventRef, TelemetryDef |-> TelemetryDef, TelemetryRef |-> TelemetryRef,
     DictionaryHead |-> DictionaryHead, DictionaryNamespace |-> DictionaryNamespace,
     Dictionary |-> Dictionary, Time |-> Time, FileHeader |-> FileHeader,
     UplinkFileChunk |-> UplinkFileChunk, DownlinkFileData |-> DownlinkFileData,
     DownlinkFileMetadata |-> DownlinkFileMetadata,
     DownlinkFileValidation |-> DownlinkFileValidation,
     DownlinkFileChunk |-> DownlinkFileChunk, Fsw |-> Fsw,
     CommandOptions |-> CommandOptions, CommandValue |-> CommandValue,
     RawCommandValue |-> RawCommandValue, CommandSequence |-> CommandSequence,
     RawCommandSequence |-> RawCommandSequence, RequestValue |-> RequestValue,
     RequestReply |-> RequestReply, Id |-> Id, FswList |-> FswList, Reply |-> Reply,
     SequenceReply |-> SequenceReply, StatefulProfile |-> StatefulProfile,
     ProfileList |-> ProfileList, ProfileProviderList |-> ProfileProviderList,
     ProfileUpdate |-> ProfileUpdate, DictionaryList |-> DictionaryList, Uplink |-> Uplink,
     UplinkReply |-> UplinkReply, FswInitialPacket |-> FswInitialPacket,
     FswConnectionPacket |-> FswConnectionPacket, Timestamp |-> Timestamp, Empty |-> Empty,
     ProfileProvider |-> ProfileProvider, Profile |-> Profile]
=============================================================================
