---------------------------- MODULE DownlinkSession ----------------------------
(***************************************************************************)
(* One file downlink (pkg/dwn/downlink.go).  Chunks arrive on a bounded    *)
(* queue in any order, some never, some twice, some overlapping.  The      *)
(* session's goroutine appends their bytes to a staging file; when the     *)
(* queue is closed it sorts what it stored by target offset and writes the *)
(* destination file, filling gaps with zeros and discarding a chunk that   *)
(* starts before the end of what is written.                               *)
(*                                                                         *)
(* A byte is represented by its position in the file on board, so that a   *)
(* byte is right where it stands iff it equals its position.               *)
(***************************************************************************)
EXTENDS Naturals, Sequences, FiniteSets

CONSTANTS
  Capacity,     \* capacity of the queue, 32 in the code
  ExpectedSize, \* the announced size of the file
  MaxOffset,    \* bound: largest offset of a chunk
  MaxLen,       \* bound: largest size of a chunk
  MaxChunks,    \* bound: chunks of a session
  ShortWrites,  \* bound: writes to the staging file that store fewer bytes
  IoErrors      \* bound: failures to open, read or write the files at the end

Chunk == [off : 0 .. MaxOffset, len : 0 .. MaxLen]
FileEnd == MaxOffset + MaxLen + ExpectedSize
Positions == 0 .. FileEnd
Zero == FileEnd + 1   \* an infilled byte
Blank == FileEnd + 2  \* a position that was never written

VARIABLES
  queue,   \* the session's channel
  closed,  \* Finish was called
  pushed,  \* history: the chunks put on the queue, in order
  phase,   \* of the goroutine: receive, place, validate, report, reported
  staging, \* the staging file, a sequence of bytes
  stored,  \* s.storedChunks
  next,    \* index of the stored chunk to place
  offset,  \* end of what is written
  missing, \* s.msg.MissingChunks
  out,     \* the destination file
  status,  \* s.msg.Status
  judge,   \* s.validator: lenient (that of pkg/rpc accepts every file), or F Prime's, with no
           \* expected checksum (none), this file's (own), or in use by another session (shared)
  short,   \* bound counter: short writes so far
  ioerr    \* bound counter: I/O errors so far

fileVars == <<next, offset, missing, out>>
vars == <<queue, closed, pushed, phase, staging, stored, fileVars, status, judge, short, ioerr>>

Init ==
  /\ queue = <<>> /\ closed = FALSE /\ pushed = <<>>
  /\ phase = "receive"
  /\ staging = <<>> /\ stored = <<>>
  /\ next = 1 /\ offset = 0 /\ missing = <<>> /\ out = [p \in Positions |-> Blank]
  /\ status = "UNKNOWN" /\ judge \in {"lenient", "none"}
  /\ short = 0 /\ ioerr = 0

-----------------------------------------------------------------------------
(* The protocol's goroutine.                                               *)

PushChunk(c) ==
  /\ ~closed
  /\ Len(queue) < Capacity /\ Len(pushed) < MaxChunks
  /\ queue' = Append(queue, c)
  /\ pushed' = Append(pushed, c)
  /\ UNCHANGED <<closed, phase, staging, stored, fileVars, status, short, ioerr, judge>>

\* The end packet of F Prime sets the expected checksum first; a cancel packet and the start of
\* another file set none.
Finish ==
  /\ ~closed
  /\ closed' = TRUE
  /\ judge' \in (IF judge = "none" THEN {"none", "own"} ELSE {judge})
  /\ UNCHANGED <<queue, pushed, phase, staging, stored, fileVars, status, short, ioerr>>

\* Another session of the connection sets or clears the expected checksum, or is in the middle
\* of Validate with the same hasher (FprimeDownlink has the steps).
Share ==
  /\ closed /\ phase \notin {"report", "reported"}
  /\ judge # "lenient"
  /\ judge' = "shared"
  /\ UNCHANGED <<queue, closed, pushed, phase, staging, stored, fileVars, status, short, ioerr>>

-----------------------------------------------------------------------------
(* eventLoop.                                                              *)

\* A chunk's bytes are appended to the staging file; n of them if the disk is full.
Store ==
  /\ phase = "receive" /\ queue # <<>>
  /\ LET c == Head(queue) IN
     \E n \in 0 .. c.len :
       /\ n < c.len => short < ShortWrites
       /\ short' = IF n < c.len THEN short + 1 ELSE short
       /\ staging' = staging \o [k \in 1 .. n |-> c.off + k - 1]
       /\ stored' = Append(stored, [actual |-> Len(staging), target |-> c.off, size |-> c.len])
  /\ queue' = Tail(queue)
  /\ UNCHANGED <<closed, pushed, phase, fileVars, status, ioerr, judge>>

Drained == phase = "receive" /\ queue = <<>> /\ closed

\* slices.SortFunc on the target offset, which does not keep the order of equal offsets.
StartPlacing ==
  /\ Drained
  /\ \E order \in [1 .. Len(stored) -> 1 .. Len(stored)] :
       /\ \A i, j \in 1 .. Len(stored) : i # j => order[i] # order[j]
       /\ \A i, j \in 1 .. Len(stored) : i < j => stored[order[i]].target <= stored[order[j]].target
       /\ stored' = [i \in 1 .. Len(stored) |-> stored[order[i]]]
  /\ phase' = "place"
  /\ UNCHANGED <<queue, closed, pushed, staging, fileVars, status, short, ioerr, judge>>

\* infillChunk: an entry in MissingChunks, and zeros up to position end.
Infill(from, end) ==
  missing' = IF from < end THEN Append(missing, [offset |-> from, size |-> end - from]) ELSE missing
Infilled(from, end) == [p \in Positions |-> IF from <= p /\ p < end THEN Zero ELSE out[p]]

\* The file with the first n bytes of a stored chunk at their place.
Written(file, c, n) ==
  [p \in Positions |-> IF c.target <= p /\ p < c.target + n
                         THEN staging[c.actual + (p - c.target) + 1] ELSE file[p]]

Placing == phase = "place" /\ next <= Len(stored)

\* Mutant: a chunk that begins where the last one ended is dropped as well.
DiscardAdjacent ==
  /\ Placing /\ offset >= stored[next].target
  /\ next' = next + 1
  /\ UNCHANGED <<queue, closed, pushed, phase, staging, stored, offset, missing, out, status,
                 short, ioerr, judge>>

\* The overlapping chunk is dropped whole.
Discard ==
  /\ Placing /\ offset > stored[next].target
  /\ next' = next + 1
  /\ UNCHANGED <<queue, closed, pushed, phase, staging, stored, offset, missing, out, status,
                 short, ioerr, judge>>

\* Mutant: a gap is skipped over without an infill.
PlaceUnmarked ==
  LET c == stored[next] IN
  /\ Placing /\ offset <= c.target
  /\ IF c.actual + c.size <= Len(staging)
     THEN /\ out' = Written(out, c, c.size)
          /\ offset' = c.target + c.size
          /\ next' = next + 1
          /\ UNCHANGED phase
     ELSE /\ phase' = "report"
          /\ UNCHANGED <<next, out, offset>>
  /\ UNCHANGED <<queue, closed, pushed, staging, stored, missing, status, short, ioerr, judge>>

\* The chunk's bytes are read back from the staging file; reading past its end is an error.
Place ==
  LET c == stored[next]
      filled == Infilled(offset, c.target) IN
  /\ Placing /\ offset <= c.target
  /\ Infill(offset, c.target)
  /\ IF c.actual + c.size <= Len(staging)
     THEN /\ out' = Written(filled, c, c.size)
          /\ offset' = c.target + c.size
          /\ next' = next + 1
          /\ UNCHANGED phase
     ELSE /\ out' = filled
          /\ offset' = c.target
          /\ phase' = "report"
          /\ UNCHANGED next
  /\ UNCHANGED <<queue, closed, pushed, staging, stored, status, short, ioerr, judge>>

\* Mutant: the end of the file is not compared with the announced size.
EndWithoutInfill ==
  /\ phase = "place" /\ next > Len(stored)
  /\ IF missing # <<>> THEN phase' = "report" /\ status' = "PARTIAL"
                       ELSE phase' = "validate" /\ UNCHANGED status
  /\ UNCHANGED <<queue, closed, pushed, staging, stored, fileVars, short, ioerr, judge>>

EndPlacing ==
  /\ phase = "place" /\ next > Len(stored)
  /\ Infill(offset, ExpectedSize)
  /\ out' = Infilled(offset, ExpectedSize)
  /\ offset' = IF offset < ExpectedSize THEN ExpectedSize ELSE offset
  /\ IF missing' # <<>> THEN phase' = "report" /\ status' = "PARTIAL"
                        ELSE phase' = "validate" /\ UNCHANGED status
  /\ UNCHANGED <<queue, closed, pushed, staging, stored, next, short, ioerr, judge>>

\* The file on board has ExpectedSize bytes: the checksum matches iff they are all there.
Matches == offset = ExpectedSize /\ \A p \in 0 .. ExpectedSize - 1 : out[p] = p

\* What the validator may answer: with a hasher and an expected checksum that others use as
\* well, anything.
Verdicts ==
  CASE judge = "lenient" -> {"COMPLETED"}
    [] judge = "none" -> {"CRC_FAILED"}
    [] judge = "own" -> {IF Matches THEN "COMPLETED" ELSE "CRC_FAILED"}
    [] OTHER -> {"COMPLETED", "CRC_FAILED"}

Validate ==
  /\ phase = "validate"
  /\ status' \in Verdicts
  /\ phase' = "report"
  /\ UNCHANGED <<queue, closed, pushed, staging, stored, fileVars, short, ioerr, judge>>

-----------------------------------------------------------------------------
(* Errors: the function returns, with what it has listed and written so    *)
(* far, or the file cannot be opened or read for its validation.           *)

OpenFails == Drained /\ UNCHANGED <<offset, missing, out, status>>

\* The gap is listed before a part of its zeros is written.
InfillFails(end) ==
  /\ offset < end
  /\ Infill(offset, end)
  /\ \E n \in offset .. end - 1 : out' = Infilled(offset, n)
  /\ UNCHANGED <<offset, status>>

\* Nothing of the chunk is read, or a part of it is written.
PlaceFails ==
  LET c == stored[next] IN
  /\ Placing /\ offset <= c.target /\ c.actual + c.size <= Len(staging)
  /\ Infill(offset, c.target)
  /\ \E n \in 0 .. c.size - 1 : out' = Written(Infilled(offset, c.target), c, n)
  /\ offset' = c.target
  /\ UNCHANGED status

ValidateFails == phase = "validate" /\ status' = "CRC_FAILED" /\ UNCHANGED <<offset, missing, out>>

\* Mutant: an error returns before the deferred function is set up.
IoErrorSilent ==
  /\ ioerr < IoErrors
  /\ ioerr' = ioerr + 1
  /\ Drained \/ phase = "place"
  /\ phase' = "ended"
  /\ UNCHANGED <<queue, closed, pushed, staging, stored, fileVars, status, short, judge>>

IoError ==
  /\ ioerr < IoErrors
  /\ ioerr' = ioerr + 1
  /\ phase' = "report"
  /\ \/ OpenFails
     \/ Placing /\ InfillFails(stored[next].target)
     \/ PlaceFails
     \/ phase = "place" /\ next > Len(stored) /\ InfillFails(ExpectedSize)
     \/ ValidateFails
  /\ UNCHANGED <<queue, closed, pushed, staging, stored, next, short, judge>>

\* The deferred function emits the FileDownlink message on every path.
Report ==
  /\ phase = "report"
  /\ phase' = "reported"
  /\ UNCHANGED <<queue, closed, pushed, staging, stored, fileVars, status, short, ioerr, judge>>

LoopStep ==
  \/ Store \/ StartPlacing \/ Discard \/ Place \/ EndPlacing \/ Validate \/ IoError \/ Report

Next == LoopStep \/ Finish \/ Share \/ \E c \in Chunk : PushChunk(c)

Spec == Init /\ [][Next]_vars

\* The session's goroutine runs whenever it can.
FairSpec == Spec /\ WF_vars(LoopStep)

-----------------------------------------------------------------------------
(* Properties                                                              *)

Stored == [actual : Nat, target : 0 .. MaxOffset, size : 0 .. MaxLen]

TypeOK ==
  /\ queue \in Seq(Chunk) /\ pushed \in Seq(Chunk)
  /\ Len(queue) <= Capacity /\ Len(pushed) <= MaxChunks
  /\ closed \in BOOLEAN
  /\ phase \in {"receive", "place", "validate", "report", "reported"}
  /\ staging \in Seq(Positions)
  /\ stored \in Seq(Stored)
  /\ next \in 1 .. Len(stored) + 1
  /\ offset \in Positions
  /\ missing \in Seq([offset : Positions, size : Positions])
  /\ out \in [Positions -> Positions \cup {Zero, Blank}]
  /\ status \in {"UNKNOWN", "PARTIAL", "CRC_FAILED", "COMPLETED"}
  /\ judge \in {"lenient", "none", "own", "shared"} /\ short \in 0 .. ShortWrites /\ ioerr \in 0 .. IoErrors

InMissing(p) ==
  \E i \in 1 .. Len(missing) : missing[i].offset <= p /\ p < missing[i].offset + missing[i].size

\* An error stopped the session before the file was written to its end.
Unfinished == ioerr > 0 /\ status = "UNKNOWN"

\* The destination file has no hole: up to the end of what is written, a byte is zero exactly
\* where MissingChunks says so, and nothing is written past it.  An error on the way leaves a
\* gap listed that is not filled, or a part of a chunk past that end; still no zero is
\* unlisted and nothing that came is listed.
Accounted ==
  \A p \in Positions :
    /\ out[p] = Zero => InMissing(p)
    /\ InMissing(p) => out[p] \in {Zero, Blank}
    /\ p < offset => out[p] # Blank
    /\ p >= offset /\ ~Unfinished => out[p] = Blank /\ ~InMissing(p)

\* Whatever the order of arrival, a byte ends up at its own position (unless the staging file
\* lost some).
NothingMisplaced ==
  short = 0 => \A p \in Positions : out[p] \in {p, Zero, Blank}

\* The destination file is what the message says of it, byte by byte.
FileIsAccounted == TypeOK /\ Accounted /\ NothingMisplaced

\* The status in the message is true of the file: COMPLETED is only reported of a file without
\* gaps and with the checksum that its own end packet announced, where one is compared and no
\* other session had the validator; PARTIAL exactly when something is listed as missing and no
\* error stopped the session; and CRC_FAILED only of a file that was received to its
\* announced end (proto/pb/bus.proto:102).
StatusIsTrue ==
  phase = "reported" =>
    /\ status = "COMPLETED" => missing = <<>> /\ judge # "none" /\ (judge = "own" => Matches)
    /\ status = "PARTIAL" <=> (missing # <<>> /\ status # "UNKNOWN")
    /\ status = "CRC_FAILED" => \A p \in 0 .. ExpectedSize - 1 : out[p] \notin {Zero, Blank}
    /\ status = "UNKNOWN" => short + ioerr > 0

\* A file of which every byte arrived, in chunks within the announced size that do not overlap
\* but may be sent twice and in any order, is reported complete if nothing fails and the
\* validator is its own.
Covers(p) == \E i \in 1 .. Len(pushed) : pushed[i].off <= p /\ p < pushed[i].off + pushed[i].len
SameOrApart(c, d) == c = d \/ c.off + c.len <= d.off \/ d.off + d.len <= c.off
Arrived ==
  /\ \A p \in 0 .. ExpectedSize - 1 : Covers(p)
  /\ \A i \in 1 .. Len(pushed) : pushed[i].off + pushed[i].len <= ExpectedSize
  /\ \A i, j \in 1 .. Len(pushed) : SameOrApart(pushed[i], pushed[j])
WholeFileCompletes ==
  phase = "reported" /\ short = 0 /\ ioerr = 0 /\ judge \in {"lenient", "own"} /\ Arrived =>
    status = "COMPLETED"

\* The report is true, and a whole file is reported as one.
ReportIsTrue == StatusIsTrue /\ WholeFileCompletes

\* What the session shows of itself in FileReassembly: what failed, and its report.  msg.Size is
\* the announced size until the file is written to its end, which is where a status is set.
Faults == (IF short > 0 THEN {"short"} ELSE {}) \cup (IF ioerr > 0 THEN {"io"} ELSE {})
Size == IF status = "UNKNOWN" THEN ExpectedSize ELSE offset
Kept == {p \in Positions : out[p] \in Positions}
Lost == {p \in Positions : InMissing(p)}
Reports ==
  IF phase = "reported"
  THEN {[size |-> Size, bytes |-> [p \in Kept |-> out[p]], missing |-> Lost, status |-> status]}
  ELSE {}

\* Every session that is finished reports, whatever fails.
FinishedReports == closed ~> phase = "reported"

===============================================================================
