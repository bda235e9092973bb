-------------------------- MODULE MCDownlinks_proofs --------------------------
(***************************************************************************)
(* Proofs about both halves of a downlink.  The connection                 *)
(* (FprimeDownlink): the current session is the only open one, and a file  *)
(* stays among the transfers in progress until its own session has         *)
(* reported, for any number of files, losses and cancellations.  The       *)
(* session (DownlinkSession, S here): every byte of the destination file   *)
(* is accounted for and the report is true, for any sizes, any order of    *)
(* arrival and any failures; and it implements FileReassembly.             *)
(***************************************************************************)
EXTENDS MCDownlinks, SequenceTheorems, FiniteSetTheorems, FunctionTheorems, TLAPS

-----------------------------------------------------------------------------
(* Successive sessions on one connection.                                   *)

\* The number of files is a number.
LEMMA FilesAreCounted == Files \in Nat
BY DownlinksAssumption

\* A file whose start packet is still to come has no session.
StartedOnly ==
  \A f \in Ids : session[f] # "none" => f < link.file \/ (f = link.file /\ link.packet # "start")

IInv == TypeOK /\ OneOpenSession /\ InProgressUntilReported /\ StartedOnly

Contents == (Ids \cup {0}) \X (Ids \cup {0})
Links == [file : 1 .. Files + 1, packet : {"start", "piece 1", "piece 2", "end"}]

\* The invariant holds at the start.
LEMMA InitIInv == Init => IInv
<1> SUFFICES ASSUME Init PROVE IInv
  OBVIOUS
<1>1. link \in Links /\ link.packet = "start" /\ link.file = 1
  BY FilesAreCounted DEF Init, Links
<1>2. /\ content \in [Ids -> Contents] /\ hash \in Contents /\ hasher \in Seq(Contents)
      /\ session \in [Ids -> Phases] /\ ended \in [Ids -> {"no", "end", "other"}]
      /\ status \in [Ids -> {"none", "PARTIAL", "CRC_FAILED", "COMPLETED"}]
  BY DEF Init, Contents, Phases
<1>3. TypeOK
  BY <1>1, <1>2 DEF Init, TypeOK, Contents, Links, NoSession
<1>4. OneOpenSession /\ InProgressUntilReported /\ StartedOnly
  BY DEF Init, OneOpenSession, InProgressUntilReported, StartedOnly, NoSession, Ids
<1> QED
  BY <1>3, <1>4 DEF IInv

\* The parts of a link.
LEMMA LinkParts ==
  ASSUME TypeOK
  PROVE  /\ link = [file |-> link.file, packet |-> link.packet]
         /\ link.file \in 1 .. Files + 1
         /\ link.packet \in {"start", "piece 1", "piece 2", "end"}
<1>1. link \in Links
  BY DEF TypeOK, Links
<1> QED
  BY <1>1 DEF Links

\* What the flight software sends next comes later.
LEMMA FollowingIsLater ==
  ASSUME TypeOK, Sending
  PROVE  /\ Following \in Links
         /\ \/ Following.file = link.file /\ Following.packet # "start"
            \/ Following.file = link.file + 1 /\ link.packet = "end"
<1> DEFINE n == link.file
<1>1. n \in 1 .. Files + 1 /\ n + 1 \in 1 .. Files + 1
  <2>1. n \in 1 .. Files + 1 /\ n <= Files
    BY LinkParts DEF Sending
  <2> QED
    BY <2>1, FilesAreCounted
<1> HIDE DEF n
<1>2. link = [file |-> n, packet |-> link.packet]
      /\ link.packet \in {"start", "piece 1", "piece 2", "end"}
  BY LinkParts DEF n
<1>3. /\ link.packet = "start" => Following = [file |-> n, packet |-> "piece 1"]
      /\ link.packet = "piece 1" => Following = [file |-> n, packet |-> "piece 2"]
      /\ link.packet = "piece 2" => Following = [file |-> n, packet |-> "end"]
      /\ link.packet = "end" => Following = [file |-> n + 1, packet |-> "start"]
  BY <1>2 DEF Following, n
<1>4. \/ \E k \in {"piece 1", "piece 2", "end"} : Following = [file |-> n, packet |-> k]
      \/ link.packet = "end" /\ Following = [file |-> n + 1, packet |-> "start"]
  BY <1>2, <1>3
<1>5. CASE link.packet = "end" /\ Following = [file |-> n + 1, packet |-> "start"]
  <2>1. Following \in Links
    BY <1>1, <1>5 DEF Links
  <2>2. Following.file = n + 1
    BY <1>5
  <2> QED
    BY <1>5, <2>1, <2>2 DEF n
<1>6. ASSUME NEW k \in {"piece 1", "piece 2", "end"}, Following = [file |-> n, packet |-> k]
      PROVE  Following \in Links /\ Following.file = n /\ Following.packet # "start"
  BY <1>1, <1>6 DEF Links
<1> QED
  BY <1>4, <1>5, <1>6 DEF n

\* A link that moves on keeps StartedOnly when no session is opened.
LEMMA LaterKeeps ==
  ASSUME TypeOK, StartedOnly,
         \A f \in Ids : session'[f] # "none" => session[f] # "none",
         \/ link' = link
         \/ link'.file = link.file /\ link'.packet # "start"
         \/ link'.file = link.file + 1
  PROVE  StartedOnly'
<1>1. link.file \in Nat /\ Ids \subseteq Nat
  <2>1. link.file \in 1 .. Files + 1
    BY LinkParts
  <2> QED
    BY <2>1 DEF Ids
<1> QED
  BY <1>1 DEF StartedOnly

\* A start packet keeps it: the session before it is ended, its own opened.
LEMMA StartKeeps ==
  ASSUME IInv, Start
  PROVE  IInv'
<1> USE DEF IInv
<1>1. /\ link.packet = "start" /\ link.file \in Ids /\ link' = Following
      /\ link' \in Links /\ link'.file = link.file /\ link'.packet # "start"
  <2>1. link.packet = "start" /\ link.file <= Files /\ link' = Following /\ Sending
    BY DEF Start, Sending
  <2>2. link.file \in 1 .. Files + 1
    BY DEF TypeOK
  <2> QED
    BY <2>1, <2>2, FollowingIsLater DEF Ids
<1>2. session[link.file] = "none" /\ current # link.file
  <2>1. session[link.file] = "none"
    BY <1>1 DEF StartedOnly, Ids
  <2> QED
    BY <1>1, <2>1 DEF OneOpenSession
<1>0. PICK created \in BOOLEAN :
        /\ session' = [f \in Ids |-> IF f = current THEN "ended"
                                     ELSE IF f = link.file /\ created THEN "open" ELSE session[f]]
        /\ current' = IF created THEN link.file ELSE NoSession
        /\ inProgress' = IF created THEN inProgress \cup {link.file} ELSE inProgress
  BY DEF Start
<1>3. TypeOK'
  <2>1. session' \in [Ids -> Phases] /\ ended' \in [Ids -> {"no", "end", "other"}]
    BY <1>0 DEF Start, TypeOK, Phases
  <2>2. /\ current' \in Ids \cup {NoSession} /\ inProgress' \subseteq Ids
        /\ {connected', hashValid'} \subseteq BOOLEAN
        /\ UNCHANGED <<content, hash, hasher, status>>
    BY <1>0, <1>1 DEF Start, TypeOK
  <2> QED
    BY <1>1, <2>1, <2>2 DEF TypeOK, Links, Phases
<1>4. OneOpenSession'
  <2>1. \A f \in Ids : f # NoSession
    BY DEF Ids, NoSession
  <2> QED
    BY <1>0, <1>1, <1>2, <2>1 DEF OneOpenSession
<1>5. InProgressUntilReported'
  BY <1>0, <1>1, <1>2 DEF InProgressUntilReported, OneOpenSession
<1>6. StartedOnly'
  <2>1. \A f \in Ids : session'[f] # "none" => session[f] # "none" \/ f = link.file
    BY <1>0 DEF OneOpenSession
  <2> QED
    BY <1>1, <2>1 DEF StartedOnly
<1> QED
  BY <1>3, <1>4, <1>5, <1>6

\* An end or a cancel packet keeps it: the current session, if there is one, is ended.
LEMMA EndKeeps ==
  ASSUME IInv, End \/ Cancel
  PROVE  IInv'
<1> USE DEF IInv
<1>1. /\ link' \in Links
      /\ link'.file = link.file \/ link'.file = link.file + 1
      /\ link'.file = link.file => link'.packet # "start"
  <2>1. CASE End
    <3>1. Sending /\ link.packet = "end" /\ link' = Following
      BY <2>1 DEF End
    <3>2. link.file \in Nat
      <4>1. link.file \in 1 .. Files + 1
        BY LinkParts
      <4> QED
        BY <4>1
    <3> QED
      BY <3>1, <3>2, FollowingIsLater
  <2>2. CASE Cancel
    <3>1. link.file <= Files /\ link' = [file |-> link.file + 1, packet |-> "start"]
      BY <2>2 DEF Cancel, Sending
    <3>2. link.file \in 1 .. Files + 1
      BY LinkParts
    <3>3. link.file + 1 \in 1 .. Files + 1 /\ link.file + 1 # link.file
      BY <3>1, <3>2, FilesAreCounted
    <3> QED
      BY <3>1, <3>3 DEF Links
  <2> QED
    BY <2>1, <2>2
<1>2. /\ session' = [f \in Ids |-> IF f = current THEN "ended" ELSE session[f]]
      /\ current' = NoSession
      /\ ended' \in [Ids -> {"no", "end", "other"}]
  <2>1. CASE current = NoSession
    <3>1. UNCHANGED <<session, ended>> /\ current' = NoSession
      BY <2>1 DEF End, Cancel
    <3>2. \A f \in Ids : f # current
      BY <2>1 DEF NoSession, Ids
    <3>3. session = [f \in Ids |-> session[f]] /\ ended \in [Ids -> {"no", "end", "other"}]
      BY DEF TypeOK
    <3>4. session' = [f \in Ids |-> IF f = current THEN "ended" ELSE session[f]]
      BY <3>1, <3>2, <3>3
    <3> QED
      BY <3>1, <3>3, <3>4
  <2>2. CASE current # NoSession
    BY <2>2 DEF End, Cancel, EndSession, TypeOK
  <2> QED
    BY <2>1, <2>2
<1>3. /\ hash' \in Contents /\ hashValid' \in BOOLEAN
      /\ UNCHANGED <<connected, content, hasher, status, inProgress>>
  <2>1. CASE End
    <3>1. Whole(link.file) \in Contents
      <4>1. link.file \in 1 .. Files + 1 /\ link.file <= Files
        BY <2>1 DEF End, Sending, TypeOK
      <4> QED
        BY <4>1 DEF Ids, Whole, Contents
    <3> QED
      BY <2>1, <3>1 DEF End, TypeOK, Contents, validator
  <2>2. CASE Cancel
    BY <2>2 DEF Cancel, TypeOK, Contents, validator
  <2> QED
    BY <2>1, <2>2
<1>4. TypeOK'
  <2>1. session' \in [Ids -> Phases]
    BY <1>2 DEF TypeOK, Phases
  <2> QED
    <3>1. UNCHANGED <<connected, content, hasher, status, inProgress>> /\ TypeOK
      BY <1>3
    <3>2. /\ current' \in Ids \cup {NoSession} /\ {connected', hashValid'} \subseteq BOOLEAN
          /\ link' \in [file : 1 .. Files + 1, packet : {"start", "piece 1", "piece 2", "end"}]
          /\ hash' \in (Ids \cup {0}) \X (Ids \cup {0})
      <4>1. connected' \in BOOLEAN /\ hashValid' \in BOOLEAN
        BY <1>3, <3>1 DEF TypeOK
      <4> QED
        <5>1. current' \in Ids \cup {NoSession}
          BY <1>2
        <5>2. {connected', hashValid'} \subseteq BOOLEAN
          BY <4>1, Zenon
        <5>3. hash' \in (Ids \cup {0}) \X (Ids \cup {0})
          BY <1>3 DEF Contents
        <5>4. link' \in [file : 1 .. Files + 1, packet : {"start", "piece 1", "piece 2", "end"}]
          BY <1>1 DEF Links
        <5> QED
          BY <5>1, <5>2, <5>3, <5>4
    <3> QED
      BY <1>2, <2>1, <3>1, <3>2 DEF TypeOK
<1>5. OneOpenSession'
  BY <1>2 DEF OneOpenSession, NoSession, Ids
<1>6. InProgressUntilReported'
  BY <1>2, <1>3 DEF InProgressUntilReported, OneOpenSession
<1>7. StartedOnly'
  BY <1>1, <1>2, LaterKeeps DEF OneOpenSession
<1> QED
  BY <1>4, <1>5, <1>6, <1>7

\* A packet that is lost, a piece of a file and the end of the connection keep it: no
\* session changes.
LEMMA QuietKeeps ==
  ASSUME IInv, Lose \/ Disconnect \/ \E i \in Pieces : Piece(i)
  PROVE  IInv'
<1> USE DEF IInv
<1>1. /\ link' \in Links
      /\ \/ link' = link
         \/ link'.file = link.file /\ link'.packet # "start"
         \/ link'.file = link.file + 1
  BY FollowingIsLater DEF Lose, Disconnect, Piece, TypeOK, Links
<1>2. /\ UNCHANGED <<current, session, ended, validator, hasher, status, inProgress>>
      /\ connected' \in BOOLEAN
  BY DEF Lose, Disconnect, Piece, TypeOK
<1>3. content' \in [Ids -> Contents]
  <2>1. CASE content' = content
    BY <2>1 DEF TypeOK, Contents
  <2>2. ASSUME NEW i \in Pieces, Piece(i), content' # content PROVE content' \in [Ids -> Contents]
    <3>1. /\ current \in Ids /\ link.file \in Ids
          /\ content' = [content EXCEPT ![current] = [content[current] EXCEPT ![i] = link.file]]
      <4>1. /\ current # NoSession /\ link.file <= Files
            /\ content' = [content EXCEPT ![current][i] = link.file]
        BY <2>2 DEF Piece, Sending
      <4>2. link.file \in 1 .. Files + 1 /\ current \in Ids
        BY <4>1 DEF TypeOK
      <4> QED
        BY <4>1, <4>2 DEF Ids
    <3>2. content[current] \in Contents /\ i \in {1, 2}
      <4>1. i \in {1, 2}
        BY DEF Pieces
      <4> QED
        BY <3>1, <4>1 DEF TypeOK, Contents
    <3>3. [content[current] EXCEPT ![i] = link.file] \in Contents
      BY <3>1, <3>2 DEF Contents
    <3> QED
      BY <3>1, <3>3 DEF TypeOK, Contents
  <2> QED
    BY <2>1, <2>2 DEF Lose, Disconnect
<1>4. TypeOK'
  BY <1>1, <1>2, <1>3 DEF TypeOK, Links, Contents, validator, Phases
<1>5. OneOpenSession' /\ InProgressUntilReported'
  BY <1>2 DEF OneOpenSession, InProgressUntilReported
<1>6. StartedOnly'
  BY <1>1, <1>2, LaterKeeps
<1> QED
  BY <1>4, <1>5, <1>6

\* A session's goroutine keeps it: it takes its own session from phase to phase, and
\* its file off the list once it has reported.
LEMMA SessionKeeps ==
  ASSUME IInv, NEW f \in Ids, SessionStep(f)
  PROVE  IInv'
<1> USE DEF IInv
<1>1. UNCHANGED <<link, connected, current, content, ended, validator>>
  BY DEF SessionStep, Reassemble, ValidateBegin, ValidateFeed, ValidateEnd, Notify
<1>2. CASE Notify(f)
  <2>1. TypeOK'
    BY <1>1, <1>2 DEF Notify, TypeOK, validator
  <2>2. OneOpenSession' /\ InProgressUntilReported'
    BY <1>1, <1>2 DEF Notify, OneOpenSession, InProgressUntilReported
  <2>3. StartedOnly'
    BY <1>1, <1>2 DEF Notify, StartedOnly
  <2> QED
    BY <2>1, <2>2, <2>3
<1>3. CASE ~Notify(f)
  <2>1. /\ session[f] \in {"ended", "validate", "feed", "compare"}
        /\ \E p \in {"validate", "feed", "compare", "reported"} : session' = [session EXCEPT ![f] = p]
        /\ inProgress' = inProgress
        /\ status' \in [Ids -> {"none", "PARTIAL", "CRC_FAILED", "COMPLETED"}]
    <3>1. CASE Reassemble(f)
      BY <3>1 DEF Reassemble, Report, TypeOK
    <3>2. CASE ValidateBegin(f)
      BY <3>2 DEF ValidateBegin, Report, TypeOK
    <3>3. CASE ValidateFeed(f)
      BY <3>3 DEF ValidateFeed, TypeOK
    <3>4. CASE ValidateEnd(f)
      BY <3>4 DEF ValidateEnd, Report, TypeOK
    <3> QED
      BY <1>3, <3>1, <3>2, <3>3, <3>4 DEF SessionStep
  <2>2. hasher' \in Seq(Contents)
    <3>1. content[f] \in Contents /\ hasher \in Seq(Contents)
      BY DEF TypeOK, Contents
    <3>2. hasher' = hasher \/ hasher' = <<>> \/ hasher' = Append(hasher, content[f])
      BY <1>3 DEF SessionStep, Reassemble, ValidateBegin, ValidateFeed, ValidateEnd
    <3>3. <<>> \in Seq(Contents) /\ Append(hasher, content[f]) \in Seq(Contents)
      BY <3>1
    <3> QED
      BY <3>1, <3>2, <3>3
  <2>3. session' \in [Ids -> Phases]
    <3>1. session \in [Ids -> Phases] /\ {"validate", "feed", "compare", "reported"} \subseteq Phases
      BY DEF TypeOK, Phases
    <3> QED
      BY <2>1, <3>1
  <2>4. TypeOK'
    BY <1>1, <2>1, <2>2, <2>3 DEF TypeOK, Contents, validator
  <2>5. OneOpenSession'
    <3>1. \A g \in Ids : session'[g] = "open" <=> session[g] = "open"
      BY <2>1 DEF TypeOK
    <3> QED
      BY <1>1, <3>1 DEF OneOpenSession
  <2>6. InProgressUntilReported'
    BY <2>1 DEF InProgressUntilReported, TypeOK
  <2>7. StartedOnly'
    BY <1>1, <2>1 DEF StartedOnly, TypeOK
  <2> QED
    BY <2>4, <2>5, <2>6, <2>7
<1> QED
  BY <1>2, <1>3

\* The invariant is inductive: every packet, its loss, the end of the connection and
\* every step of the sessions' goroutines keep it.
THEOREM Inductive == Spec => []IInv
<1>1. IInv /\ [Next]_vars => IInv'
  <2> SUFFICES ASSUME IInv, [Next]_vars PROVE IInv'
    OBVIOUS
  <2>1. CASE UNCHANGED vars
    BY <2>1 DEF vars, validator, IInv, TypeOK, OneOpenSession, InProgressUntilReported, StartedOnly
  <2> QED
    BY <2>1, StartKeeps, EndKeeps, QuietKeeps, SessionKeeps DEF Next
<1>2. Init => IInv
  BY InitIInv
<1> QED
  BY <1>1, <1>2, PTL DEF Spec

\* Only the current session is open, and a file leaves the transfers in progress only
\* after its own session has reported.
THEOREM SessionsAreListed == Spec => []SessionsListed
<1>1. IInv => SessionsListed
  BY DEF IInv, SessionsListed
<1> QED
  BY <1>1, Inductive, PTL

-----------------------------------------------------------------------------
(* The invariant of a session.                                             *)

\* The bytes of a stored chunk are in the staging file, unless a write was short.
StagedRight ==
  short = 0 => \A i \in 1 .. Len(stored) :
    /\ stored[i].actual + stored[i].size <= Len(staging)
    /\ \A k \in 1 .. stored[i].size : staging[stored[i].actual + k] = stored[i].target + k - 1

\* While chunks are received nothing is placed; the queue is stored in the order of arrival.
Receiving ==
  phase = "receive" =>
    /\ next = 1 /\ offset = 0 /\ missing = <<>> /\ verdict = "UNKNOWN"
    /\ Len(stored) + Len(queue) = Len(pushed)
    /\ \A i \in 1 .. Len(stored) : stored[i].target = pushed[i].off /\ stored[i].size = pushed[i].len
    /\ \A i \in 1 .. Len(queue) : queue[i] = pushed[Len(stored) + i]

\* Afterwards the stored chunks are those that were pushed, by target offset.
IsStored(i, j) == stored[i].target = pushed[j].off /\ stored[i].size = pushed[j].len
Sorted ==
  phase # "receive" /\ phase # "report" /\ phase # "reported" =>
    /\ closed /\ queue = <<>>
    /\ \A i \in 1 .. Len(stored) : \E j \in 1 .. Len(pushed) : IsStored(i, j)
    /\ \A j \in 1 .. Len(pushed) : \E i \in 1 .. Len(stored) : IsStored(i, j)
    /\ \A i, j \in 1 .. Len(stored) : i < j => stored[i].target <= stored[j].target

\* What is not received any more is closed.
ClosedBy == phase # "receive" => closed

\* What is known of the status in each phase.
Verdict ==
  /\ phase = "place" => verdict = "UNKNOWN"
  /\ phase = "validate" => verdict = "UNKNOWN" /\ missing = <<>> /\ offset >= ExpectedSize
  /\ phase \in {"report", "reported"} =>
       /\ verdict = "COMPLETED" => missing = <<>> /\ judge # "none" /\ (judge = "own" => S!Matches)
       /\ verdict = "PARTIAL" <=> (missing # <<>> /\ verdict # "UNKNOWN")
       /\ verdict = "CRC_FAILED" => missing = <<>> /\ offset >= ExpectedSize
       /\ verdict = "UNKNOWN" => ~(short = 0 /\ ioerr = 0)

\* The placement of a file that arrived whole: no gap up to where it stands, and every chunk
\* before it ends there.
WholeSoFar ==
  short = 0 /\ ioerr = 0 /\ S!Arrived =>
    /\ phase = "place" =>
         /\ missing = <<>>
         /\ \A i \in 1 .. next - 1 : stored[i].target + stored[i].size <= offset
         /\ offset = 0 \/ \E i \in 1 .. next - 1 : offset = stored[i].target + stored[i].size
    /\ phase = "validate" => S!Matches
    /\ phase \in {"report", "reported"} /\ judge \in {"lenient", "own"} => verdict = "COMPLETED"

\* An I/O error ends the session.
ErrorEnds == ioerr # 0 => phase \in {"report", "reported"}

SInv ==
  /\ S!TypeOK /\ S!Accounted /\ S!NothingMisplaced
  /\ StagedRight /\ Receiving /\ Sorted /\ ClosedBy /\ Verdict /\ WholeSoFar /\ ErrorEnds

\* The file as it is while nothing failed.
Solid ==
  \A p \in S!Positions :
    IF p < offset THEN out[p] # S!Blank /\ (out[p] = S!Zero <=> S!InMissing(p))
                  ELSE out[p] = S!Blank /\ ~S!InMissing(p)

-----------------------------------------------------------------------------
(* Facts about positions, chunks and gaps.                                 *)

Byte == S!Positions \cup {S!Zero, S!Blank}
Gap == [offset : S!Positions, size : S!Positions]

\* The positions of a file are distinct from the two marks.
LEMMA Bounds ==
  /\ {S!FileEnd, ExpectedSize, MaxOffset, MaxLen} \subseteq Nat /\ S!Positions \subseteq Nat
  /\ \A n \in Nat : n \in S!Positions <=> n <= S!FileEnd
  /\ MaxOffset + MaxLen <= S!FileEnd /\ ExpectedSize <= S!FileEnd
  /\ S!Zero \notin S!Positions /\ S!Blank \notin S!Positions /\ S!Zero # S!Blank
BY DownlinksAssumption DEF S!FileEnd, S!Positions, S!Zero, S!Blank

\* The parts of a stored chunk.
LEMMA StoredParts ==
  ASSUME S!TypeOK, NEW i \in 1 .. Len(stored)
  PROVE  /\ stored[i].actual \in Nat /\ stored[i].target \in Nat /\ stored[i].size \in Nat
         /\ stored[i].target <= MaxOffset /\ stored[i].size <= MaxLen
         /\ stored[i].target \in S!Positions /\ stored[i].target + stored[i].size \in S!Positions
         /\ stored[i] = [actual |-> stored[i].actual, target |-> stored[i].target, size |-> stored[i].size]
<1>1. stored[i] \in S!Stored
  BY DEF S!TypeOK
<1>2. stored[i].actual \in Nat /\ stored[i].target \in 0 .. MaxOffset /\ stored[i].size \in 0 .. MaxLen
      /\ stored[i] = [actual |-> stored[i].actual, target |-> stored[i].target, size |-> stored[i].size]
  BY <1>1 DEF S!Stored
<1> QED
  BY <1>2, Bounds

\* The parts of a pushed chunk.
LEMMA PushedParts ==
  ASSUME S!TypeOK, NEW i \in 1 .. Len(pushed)
  PROVE  pushed[i].off \in Nat /\ pushed[i].len \in Nat /\ pushed[i].off <= MaxOffset /\ pushed[i].len <= MaxLen
<1>1. pushed[i] \in S!Chunk
  BY DEF S!TypeOK
<1> QED
  BY <1>1, DownlinksAssumption DEF S!Chunk

\* A file that no error stopped is accounted for up to its end.
LEMMA SolidFile ==
  ASSUME S!TypeOK, S!Accounted, ~S!Unfinished
  PROVE  Solid
<1> SUFFICES ASSUME NEW p \in S!Positions
             PROVE  IF p < offset THEN out[p] # S!Blank /\ (out[p] = S!Zero <=> S!InMissing(p))
                                  ELSE out[p] = S!Blank /\ ~S!InMissing(p)
  BY DEF Solid
<1>1. p \in Nat /\ offset \in Nat /\ S!Zero # S!Blank
  BY Bounds DEF S!TypeOK
<1> QED
  BY <1>1 DEF S!Accounted

\* Until the report, nothing failed.
LEMMA SolidNow ==
  ASSUME SInv, phase \notin {"report", "reported"}
  PROVE  Solid /\ ioerr = 0 /\ ~S!Unfinished
<1>1. ioerr = 0
  BY DEF SInv, ErrorEnds
<1>2. ~S!Unfinished
  BY <1>1 DEF S!Unfinished
<1> QED
  BY <1>1, <1>2, SolidFile DEF SInv

\* The gap up to end is listed.
LEMMA GapListed ==
  ASSUME S!TypeOK, NEW end \in S!Positions, offset <= end, S!Infill(offset, end)
  PROVE  /\ missing' \in Seq(Gap)
         /\ offset = end => missing' = missing
         /\ offset < end => missing' # <<>>
         /\ missing # <<>> => missing' # <<>>
         /\ \A p \in S!Positions : S!InMissing(p)' <=> S!InMissing(p) \/ (offset <= p /\ p < end)
<1> DEFINE g == [offset |-> offset, size |-> end - offset]
<1>1. offset \in Nat /\ end \in Nat /\ offset \in S!Positions /\ missing \in Seq(Gap)
  BY Bounds DEF S!TypeOK, Gap
<1>2. end - offset \in S!Positions /\ offset + (end - offset) = end
  BY <1>1, Bounds
<1>3. g \in Gap /\ g.offset = offset /\ g.size = end - offset
  BY <1>1, <1>2 DEF Gap
<1> HIDE DEF g
<1>4. missing' = IF offset < end THEN Append(missing, g) ELSE missing
  BY DEF S!Infill, g
<1>5. missing' \in Seq(Gap) /\ (offset = end => missing' = missing) /\ (offset < end => missing' # <<>>)
      /\ (missing # <<>> => missing' # <<>>)
  BY <1>1, <1>3, <1>4
<1>6. ASSUME NEW p \in S!Positions PROVE S!InMissing(p)' <=> S!InMissing(p) \/ (offset <= p /\ p < end)
  <2>1. CASE offset < end
    <3>1. Len(missing') = Len(missing) + 1 /\ Len(missing) \in Nat
          /\ missing'[Len(missing) + 1] = g
          /\ \A i \in 1 .. Len(missing) : missing'[i] = missing[i]
      BY <1>1, <1>3, <1>4, <2>1
    <3>2. \A i \in 1 .. Len(missing) : missing'[i] = missing[i]
      BY <3>1
    <3>3. S!InMissing(p)' <=> S!InMissing(p) \/ (g.offset <= p /\ p < g.offset + g.size)
      BY <3>1, <3>2 DEF S!InMissing
    <3> QED
      BY <1>2, <1>3, <3>3
  <2>2. CASE ~(offset < end)
    <3>1. missing' = missing /\ ~(offset <= p /\ p < end)
      BY <1>1, <1>4, <2>2, Bounds
    <3> QED
      BY <3>1 DEF S!InMissing
  <2> QED
    BY <2>1, <2>2
<1> QED
  BY <1>5, <1>6

\* Zeros up to a position.
LEMMA Zeros ==
  ASSUME S!TypeOK, NEW n
  PROVE  /\ S!Infilled(offset, n) \in [S!Positions -> Byte]
         /\ \A p \in S!Positions :
              S!Infilled(offset, n)[p] = IF offset <= p /\ p < n THEN S!Zero ELSE out[p]
<1>1. out \in [S!Positions -> Byte]
  BY DEF S!TypeOK, Byte
<1> QED
  BY <1>1 DEF S!Infilled, Byte

\* An infilled gap is listed as missing and holds zeros.
LEMMA Filled ==
  ASSUME S!TypeOK, Solid, NEW end \in S!Positions, offset <= end, S!Infill(offset, end)
  PROVE  /\ S!Infilled(offset, end) \in [S!Positions -> Byte]
         /\ missing' \in Seq(Gap)
         /\ offset = end => missing' = missing
         /\ offset < end => missing' # <<>>
         /\ missing # <<>> => missing' # <<>>
         /\ \A p \in S!Positions : S!Infilled(offset, end)[p] \in {out[p], S!Zero}
         /\ \A p \in S!Positions :
              IF p < end THEN S!Infilled(offset, end)[p] # S!Blank /\ (S!Infilled(offset, end)[p] = S!Zero <=> S!InMissing(p)')
                         ELSE S!Infilled(offset, end)[p] = S!Blank /\ ~S!InMissing(p)'
<1>1. offset \in Nat /\ end \in Nat
  BY Bounds DEF S!TypeOK
<1>2. /\ missing' \in Seq(Gap)
      /\ offset = end => missing' = missing
      /\ offset < end => missing' # <<>>
      /\ missing # <<>> => missing' # <<>>
      /\ \A p \in S!Positions : S!InMissing(p)' <=> S!InMissing(p) \/ (offset <= p /\ p < end)
  BY GapListed
<1>3. /\ S!Infilled(offset, end) \in [S!Positions -> Byte]
      /\ \A p \in S!Positions :
           S!Infilled(offset, end)[p] = IF offset <= p /\ p < end THEN S!Zero ELSE out[p]
  BY Zeros
<1>4. ASSUME NEW p \in S!Positions
      PROVE  /\ S!Infilled(offset, end)[p] \in {out[p], S!Zero}
             /\ IF p < end THEN S!Infilled(offset, end)[p] # S!Blank /\ (S!Infilled(offset, end)[p] = S!Zero <=> S!InMissing(p)')
                           ELSE S!Infilled(offset, end)[p] = S!Blank /\ ~S!InMissing(p)'
  <2>1. S!Infilled(offset, end)[p] = IF offset <= p /\ p < end THEN S!Zero ELSE out[p]
    BY <1>3
  <2>2. IF p < offset THEN out[p] # S!Blank /\ (out[p] = S!Zero <=> S!InMissing(p)) ELSE out[p] = S!Blank /\ ~S!InMissing(p)
    BY DEF Solid
  <2>3. p \in Nat
    BY Bounds
  <2>4. S!InMissing(p)' <=> S!InMissing(p) \/ (offset <= p /\ p < end)
    BY <1>2
  <2> QED
    BY <1>1, <2>1, <2>2, <2>3, <2>4, Bounds
<1> QED
  BY <1>2, <1>3, <1>4

\* The bytes of a stored chunk that is in the staging file, at their place.
LEMMA WrittenParts ==
  ASSUME SInv, NEW i \in 1 .. Len(stored), stored[i].actual + stored[i].size <= Len(staging),
         NEW n \in 0 .. stored[i].size, NEW file \in [S!Positions -> Byte]
  PROVE  /\ S!Written(file, stored[i], n) \in [S!Positions -> Byte]
         /\ \A p \in S!Positions :
              IF stored[i].target <= p /\ p < stored[i].target + n
              THEN /\ S!Written(file, stored[i], n)[p] \in S!Positions
                   /\ short = 0 => S!Written(file, stored[i], n)[p] = p
              ELSE S!Written(file, stored[i], n)[p] = file[p]
<1> DEFINE t == stored[i].target
           a == stored[i].actual
           z == stored[i].size
<1>1. a \in Nat /\ t \in Nat /\ z \in Nat /\ n \in Nat /\ n <= z
  <2>1. a \in Nat /\ t \in Nat /\ z \in Nat
    BY StoredParts DEF SInv
  <2> QED
    BY <2>1
<1>2. staging \in Seq(S!Positions) /\ Len(staging) \in Nat
  BY DEF SInv, S!TypeOK
<1>3. \A p \in S!Positions :
        S!Written(file, stored[i], n)[p] =
          IF t <= p /\ p < t + n THEN staging[a + (p - t) + 1] ELSE file[p]
  BY DEF S!Written
<1>4. a + z <= Len(staging)
  OBVIOUS
<1>5. short = 0 => \A k \in 1 .. z : staging[a + k] = t + k - 1
  BY DEF SInv, StagedRight
<1>6. S!Written(file, stored[i], n) =
        [p \in S!Positions |-> IF t <= p /\ p < t + n THEN staging[a + (p - t) + 1] ELSE file[p]]
  BY DEF S!Written
<1> HIDE DEF t, a, z
<1>7. ASSUME NEW p \in S!Positions, t <= p, p < t + n
      PROVE  /\ staging[a + (p - t) + 1] \in S!Positions
             /\ short = 0 => staging[a + (p - t) + 1] = p
  <2>1. p \in Nat
    BY Bounds
  <2>2. a + (p - t) + 1 \in 1 .. Len(staging) /\ p - t + 1 \in 1 .. z /\ a + (p - t) + 1 = a + (p - t + 1)
    <3>1. PICK b, u, y, m \in Nat : b = a /\ u = t /\ y = z /\ m = Len(staging)
      BY <1>1, <1>2
    <3>2. b + y <= m /\ u <= p /\ p < u + n /\ n <= y
      BY <1>1, <1>4, <1>7, <3>1
    <3>3. b + (p - u) + 1 \in 1 .. m /\ p - u + 1 \in 1 .. y /\ b + (p - u) + 1 = b + (p - u + 1)
      BY <1>1, <2>1, <3>2
    <3> QED
      BY <3>1, <3>3
  <2>3. staging[a + (p - t) + 1] \in S!Positions
    BY <1>2, <2>2
  <2>4. short = 0 => staging[a + (p - t + 1)] = t + (p - t + 1) - 1
    BY <1>5, <2>2
  <2>5. t + (p - t + 1) - 1 = p
    BY <1>1, <2>1
  <2> QED
    BY <2>2, <2>3, <2>4, <2>5
<1>8. S!Written(file, stored[i], n) \in [S!Positions -> Byte]
  <2>1. \A p \in S!Positions : t <= p /\ p < t + n => staging[a + (p - t) + 1] \in Byte
    BY <1>7 DEF Byte
  <2> QED
    BY <1>6, <2>1
<1>9. \A p \in S!Positions :
        IF t <= p /\ p < t + n
        THEN /\ S!Written(file, stored[i], n)[p] \in S!Positions
             /\ short = 0 => S!Written(file, stored[i], n)[p] = p
        ELSE S!Written(file, stored[i], n)[p] = file[p]
  BY <1>3, <1>7
<1> QED
  BY <1>8, <1>9 DEF t

-----------------------------------------------------------------------------
(* Every step keeps the invariant.                                         *)

\* The invariant holds at the start.
LEMMA SessionInit == S!Init => SInv
<1> SUFFICES ASSUME S!Init PROVE SInv
  OBVIOUS
<1>1. S!TypeOK
  <2>1. queue \in Seq(S!Chunk) /\ pushed \in Seq(S!Chunk) /\ staging \in Seq(S!Positions) /\ stored \in Seq(S!Stored)
        /\ missing \in Seq([offset : S!Positions, size : S!Positions])
        /\ Len(queue) = 0 /\ Len(pushed) = 0 /\ Len(stored) = 0
    BY DEF S!Init
  <2>2. 0 \in S!Positions /\ 1 \in 1 .. 0 + 1 /\ 0 \in 0 .. ShortWrites /\ 0 \in 0 .. IoErrors
        /\ 0 <= Capacity /\ 0 <= MaxChunks
    BY DownlinksAssumption, Bounds
  <2>3. out \in [S!Positions -> S!Positions \cup {S!Zero, S!Blank}]
    BY DEF S!Init
  <2> QED
    BY <2>1, <2>2, <2>3 DEF S!Init, S!TypeOK
<1>2. S!Accounted
  <2>1. missing = <<>> /\ Len(missing) = 0 /\ offset = 0 /\ out = [p \in S!Positions |-> S!Blank]
    BY DEF S!Init
  <2>2. \A p \in S!Positions : ~S!InMissing(p) /\ ~(p < offset)
    <3>1. 1 .. Len(missing) = {}
      BY <2>1
    <3>2. \A p \in S!Positions : ~S!InMissing(p)
      BY <3>1 DEF S!InMissing
    <3>3. \A p \in S!Positions : ~(p < offset)
      BY <2>1, Bounds
    <3> QED
      BY <3>2, <3>3
  <2>3. \A p \in S!Positions : out[p] = S!Blank /\ S!Blank # S!Zero
    BY <2>1, Bounds
  <2> QED
    BY <2>2, <2>3 DEF S!Accounted
<1>3. S!NothingMisplaced
  BY DEF S!Init, S!NothingMisplaced
<1>4. StagedRight /\ Receiving
  BY DEF S!Init, StagedRight, Receiving
<1>5. Sorted /\ ClosedBy /\ Verdict /\ WholeSoFar /\ ErrorEnds
  BY DEF S!Init, Sorted, ClosedBy, Verdict, WholeSoFar, ErrorEnds
<1> QED
  BY <1>1, <1>2, <1>3, <1>4, <1>5 DEF SInv

\* What depends on the files alone.
LEMMA FilesSame ==
  ASSUME SInv, UNCHANGED <<offset, missing, out, short, ioerr, verdict>>
  PROVE  S!Accounted' /\ S!NothingMisplaced'
BY DEF SInv, S!Accounted, S!NothingMisplaced, S!InMissing, S!Unfinished

\* A chunk is put on the queue, or the queue is closed: only a session that still receives
\* is concerned.
LEMMA PushKeeps ==
  ASSUME SInv, NEW c \in S!Chunk, S!PushChunk(c)
  PROVE  SInv'
<1>1. /\ ~closed /\ queue' = Append(queue, c) /\ pushed' = Append(pushed, c)
      /\ Len(queue) < Capacity /\ Len(pushed) < MaxChunks
      /\ UNCHANGED <<closed, phase, staging, stored, next, offset, missing, out, verdict, short, ioerr, judge>>
  BY DEF S!PushChunk, S!fileVars
<1>2. phase = "receive"
  BY <1>1 DEF SInv, ClosedBy
<1>3. /\ queue \in Seq(S!Chunk) /\ pushed \in Seq(S!Chunk)
      /\ Len(queue) \in Nat /\ Len(pushed) \in Nat /\ Len(stored) \in Nat
  BY DEF SInv, S!TypeOK
<1>4. /\ queue' \in Seq(S!Chunk) /\ Len(queue') = Len(queue) + 1
      /\ queue'[Len(queue) + 1] = c /\ \A i \in 1 .. Len(queue) : queue'[i] = queue[i]
  BY <1>1, <1>3
<1>5. /\ pushed' \in Seq(S!Chunk) /\ Len(pushed') = Len(pushed) + 1
      /\ pushed'[Len(pushed) + 1] = c /\ \A i \in 1 .. Len(pushed) : pushed'[i] = pushed[i]
  BY <1>1, <1>3
<1>6. S!TypeOK'
  <2>1. Len(queue') <= Capacity /\ Len(pushed') <= MaxChunks
    BY <1>1, <1>3, <1>4, <1>5, DownlinksAssumption
  <2> QED
    BY <1>1, <1>4, <1>5, <2>1 DEF SInv, S!TypeOK
<1>7. Receiving'
  <2>1. /\ next = 1 /\ offset = 0 /\ missing = <<>> /\ verdict = "UNKNOWN"
        /\ Len(stored) + Len(queue) = Len(pushed)
        /\ \A i \in 1 .. Len(stored) : stored[i].target = pushed[i].off /\ stored[i].size = pushed[i].len
        /\ \A i \in 1 .. Len(queue) : queue[i] = pushed[Len(stored) + i]
    BY <1>2 DEF SInv, Receiving
  <2>2. \A i \in 1 .. Len(stored) : pushed'[i] = pushed[i]
    BY <1>3, <1>5, <2>1
  <2>3. \A i \in 1 .. Len(queue') : queue'[i] = pushed'[Len(stored) + i]
    <3> TAKE i \in 1 .. Len(queue')
    <3>1. CASE i = Len(queue) + 1
      <4>1. Len(stored) + i = Len(pushed) + 1
        <5>1. Len(stored) + Len(queue) = Len(pushed)
          BY <2>1
        <5>2. Len(stored) \in Nat /\ Len(queue) \in Nat
          BY <1>3
        <5> QED
          BY <3>1, <5>1, <5>2
      <4> QED
        BY <1>4, <1>5, <3>1, <4>1
    <3>2. CASE i # Len(queue) + 1
      <4>1. i \in 1 .. Len(queue) /\ Len(stored) + i \in 1 .. Len(pushed)
        BY <1>3, <1>4, <2>1, <3>2
      <4> QED
        BY <1>4, <1>5, <2>1, <4>1
    <3> QED
      BY <3>1, <3>2
  <2>4. Len(stored) + Len(queue') = Len(pushed')
    <3>1. Len(stored) + Len(queue) = Len(pushed)
      BY <2>1
    <3>2. Len(queue') = Len(queue) + 1 /\ Len(pushed') = Len(pushed) + 1
      BY <1>4, <1>5
    <3>3. Len(stored) \in Nat /\ Len(queue) \in Nat
      BY <1>3
    <3> QED
      BY <3>1, <3>2, <3>3
  <2> QED
    BY <1>1, <2>1, <2>2, <2>3, <2>4 DEF Receiving
<1>8. StagedRight'
  BY <1>1 DEF SInv, StagedRight
<1>9. Sorted' /\ ClosedBy' /\ Verdict' /\ WholeSoFar' /\ ErrorEnds'
  BY <1>1, <1>2 DEF SInv, Sorted, ClosedBy, Verdict, WholeSoFar, ErrorEnds
<1> QED
  BY <1>1, <1>6, <1>7, <1>8, <1>9, FilesSame DEF SInv

\* Finish closes the queue.
LEMMA FinishKeeps ==
  ASSUME SInv, S!Finish
  PROVE  SInv'
<1>1. /\ ~closed /\ closed' = TRUE
      /\ judge' \in {"none", "own", judge}
      /\ UNCHANGED <<queue, pushed, phase, staging, stored, next, offset, missing, out, verdict, short, ioerr>>
  BY DEF S!Finish, S!fileVars
<1>2. phase = "receive"
  BY <1>1 DEF SInv, ClosedBy
<1>3. S!TypeOK' /\ Receiving' /\ StagedRight'
  BY <1>1 DEF SInv, S!TypeOK, Receiving, StagedRight
<1>4. Sorted' /\ ClosedBy' /\ Verdict' /\ WholeSoFar' /\ ErrorEnds'
  BY <1>1, <1>2 DEF SInv, Sorted, ClosedBy, Verdict, WholeSoFar, ErrorEnds
<1> QED
  BY <1>1, <1>3, <1>4, FilesSame DEF SInv

\* Another session uses the validator: before the verdict, on which it has its influence.
LEMMA ShareKeeps ==
  ASSUME SInv, S!Share
  PROVE  SInv'
<1>1. /\ closed /\ phase \notin {"report", "reported"} /\ judge' = "shared"
      /\ UNCHANGED <<queue, closed, pushed, phase, staging, stored, next, offset, missing, out, verdict, short, ioerr>>
  BY DEF S!Share, S!fileVars
<1>2. S!TypeOK' /\ Receiving' /\ StagedRight'
  BY <1>1 DEF SInv, S!TypeOK, Receiving, StagedRight
<1>3. S!Matches' <=> S!Matches
  BY <1>1 DEF S!Matches
<1>4. Sorted' /\ ClosedBy' /\ ErrorEnds'
  BY <1>1 DEF SInv, Sorted, IsStored, ClosedBy, ErrorEnds
<1>5. Verdict' /\ WholeSoFar'
  BY <1>1, <1>3 DEF SInv, Verdict, WholeSoFar, S!Arrived, S!Covers
<1> QED
  BY <1>1, <1>2, <1>4, <1>5, FilesSame DEF SInv

\* A chunk's bytes are appended to the staging file.
LEMMA StoreKeeps ==
  ASSUME SInv, S!Store
  PROVE  SInv'
<1> DEFINE c == Head(queue)
           e == [actual |-> Len(staging), target |-> c.off, size |-> c.len]
<1>1. /\ phase = "receive" /\ queue # <<>> /\ queue' = Tail(queue) /\ stored' = Append(stored, e)
      /\ UNCHANGED <<closed, pushed, phase, next, offset, missing, out, verdict, ioerr, judge>>
  BY DEF S!Store, S!fileVars
<1>2. PICK n \in 0 .. c.len :
        /\ n < c.len => short < ShortWrites
        /\ short' = IF n < c.len THEN short + 1 ELSE short
        /\ staging' = staging \o [k \in 1 .. n |-> c.off + k - 1]
  BY DEF S!Store
<1>3. /\ queue \in Seq(S!Chunk) /\ pushed \in Seq(S!Chunk) /\ stored \in Seq(S!Stored) /\ staging \in Seq(S!Positions)
      /\ Len(queue) \in Nat \ {0} /\ Len(pushed) \in Nat /\ Len(stored) \in Nat /\ Len(staging) \in Nat
  BY <1>1 DEF SInv, S!TypeOK
<1>4. c \in S!Chunk /\ c = queue[1] /\ c.off \in 0 .. MaxOffset /\ c.len \in 0 .. MaxLen
  <2>1. c \in S!Chunk /\ c = queue[1]
    BY <1>1, <1>3
  <2> QED
    BY <2>1 DEF S!Chunk
<1>5. /\ queue' \in Seq(S!Chunk) /\ Len(queue') = Len(queue) - 1
      /\ \A i \in 1 .. Len(queue') : queue'[i] = queue[i + 1]
  BY <1>1, <1>3, HeadTailProperties
<1>6. e \in S!Stored /\ e.actual = Len(staging) /\ e.target = c.off /\ e.size = c.len
  BY <1>3, <1>4 DEF S!Stored
<1> HIDE DEF e, c
<1>7. /\ stored' \in Seq(S!Stored) /\ Len(stored') = Len(stored) + 1
      /\ stored'[Len(stored) + 1] = e /\ \A i \in 1 .. Len(stored) : stored'[i] = stored[i]
  BY <1>1, <1>3, <1>6
<1> DEFINE piece == [k \in 1 .. n |-> c.off + k - 1]
<1>8. n \in Nat /\ n <= c.len /\ c.off \in Nat /\ c.len \in Nat
  BY <1>4, DownlinksAssumption
<1>9. piece \in Seq(S!Positions) /\ Len(piece) = n /\ \A k \in 1 .. n : piece[k] = c.off + k - 1
  <2>1. \A k \in 1 .. n : c.off + k - 1 \in S!Positions
    BY <1>4, <1>8, Bounds, DownlinksAssumption
  <2> QED
    BY <1>8, <2>1
<1> HIDE DEF piece
<1>10. /\ staging' \in Seq(S!Positions) /\ Len(staging') = Len(staging) + n
       /\ \A i \in 1 .. Len(staging) : staging'[i] = staging[i]
       /\ \A k \in 1 .. n : staging'[Len(staging) + k] = c.off + k - 1
  <2>1. staging' = staging \o piece
    BY <1>2 DEF piece
  <2>2. /\ staging' \in Seq(S!Positions) /\ Len(staging') = Len(staging) + n
        /\ \A i \in 1 .. Len(staging) + n : staging'[i] = IF i <= Len(staging) THEN staging[i] ELSE piece[i - Len(staging)]
    BY <1>3, <1>9, <2>1, ConcatProperties
  <2>3. \A k \in 1 .. n : /\ Len(staging) + k \in 1 .. Len(staging) + n /\ ~(Len(staging) + k <= Len(staging))
                          /\ (Len(staging) + k) - Len(staging) = k
    BY <1>3, <1>8
  <2>4. \A k \in 1 .. n : staging'[Len(staging) + k] = piece[k]
    BY <2>2, <2>3
  <2>5. \A i \in 1 .. Len(staging) : i \in 1 .. Len(staging) + n /\ i <= Len(staging)
    BY <1>3, <1>8
  <2> QED
    BY <1>9, <2>2, <2>4, <2>5
<1>11. short' \in 0 .. ShortWrites /\ (short' = 0 => short = 0 /\ n = c.len) /\ short \in Nat
  <2>1. short \in 0 .. ShortWrites /\ short \in Nat
    BY DownlinksAssumption DEF SInv, S!TypeOK
  <2> QED
    BY <1>2, <1>8, <2>1, DownlinksAssumption
<1>12. /\ next = 1 /\ offset = 0 /\ missing = <<>> /\ verdict = "UNKNOWN"
       /\ Len(stored) + Len(queue) = Len(pushed)
       /\ \A i \in 1 .. Len(stored) : stored[i].target = pushed[i].off /\ stored[i].size = pushed[i].len
       /\ \A i \in 1 .. Len(queue) : queue[i] = pushed[Len(stored) + i]
  BY <1>1 DEF SInv, Receiving
<1>13. S!TypeOK'
  <2>1. Len(queue') <= Capacity /\ next' \in 1 .. Len(stored') + 1
    BY <1>1, <1>3, <1>5, <1>7, <1>12, DownlinksAssumption DEF SInv, S!TypeOK
  <2> QED
    BY <1>1, <1>5, <1>7, <1>10, <1>11, <2>1 DEF SInv, S!TypeOK
<1>14. Receiving'
  <2>1. Len(stored') + Len(queue') = Len(pushed)
    <3>1. Len(stored) + Len(queue) = Len(pushed)
      BY <1>12
    <3>2. Len(stored') = Len(stored) + 1 /\ Len(queue') = Len(queue) - 1
      BY <1>5, <1>7
    <3>3. Len(stored) \in Nat /\ Len(queue) \in Nat
      BY <1>3
    <3> QED
      BY <3>1, <3>2, <3>3
  <2>2. \A i \in 1 .. Len(stored') : stored'[i].target = pushed[i].off /\ stored'[i].size = pushed[i].len
    <3> TAKE i \in 1 .. Len(stored')
    <3>1. CASE i = Len(stored) + 1
      <4>1. c = pushed[Len(stored) + 1]
        BY <1>3, <1>4, <1>12
      <4> QED
        BY <1>6, <1>7, <3>1, <4>1
    <3>2. CASE i # Len(stored) + 1
      <4>1. i \in 1 .. Len(stored)
        BY <1>3, <1>7, <3>2
      <4> QED
        BY <1>7, <1>12, <4>1
    <3> QED
      BY <3>1, <3>2
  <2>3. \A i \in 1 .. Len(queue') : queue'[i] = pushed[Len(stored') + i]
    <3> TAKE i \in 1 .. Len(queue')
    <3>1. i + 1 \in 1 .. Len(queue) /\ Len(stored') + i = Len(stored) + (i + 1)
      BY <1>3, <1>5, <1>7
    <3> QED
      BY <1>5, <1>12, <3>1
  <2> QED
    BY <1>1, <1>12, <2>1, <2>2, <2>3 DEF Receiving
<1>15. StagedRight'
  <2> SUFFICES ASSUME short' = 0, NEW i \in 1 .. Len(stored')
               PROVE  /\ stored'[i].actual + stored'[i].size <= Len(staging')
                      /\ \A k \in 1 .. stored'[i].size : staging'[stored'[i].actual + k] = stored'[i].target + k - 1
    BY DEF StagedRight
  <2>1. CASE i = Len(stored) + 1
    <3>1. stored'[i] = e /\ n = c.len
      BY <1>7, <1>11, <2>1
    <3>2. stored'[i].actual = Len(staging) /\ stored'[i].size = n /\ stored'[i].target = c.off
      BY <1>6, <3>1
    <3>3. Len(staging') = Len(staging) + n /\ \A k \in 1 .. n : staging'[Len(staging) + k] = c.off + k - 1
      BY <1>10
    <3>4. Len(staging) + n <= Len(staging) + n
      BY <1>3, <1>8
    <3> QED
      BY <3>2, <3>3, <3>4
  <2>2. CASE i # Len(stored) + 1
    <3>1. i \in 1 .. Len(stored) /\ stored'[i] = stored[i]
      BY <1>3, <1>7, <2>2
    <3>2. /\ stored[i].actual + stored[i].size <= Len(staging)
          /\ \A k \in 1 .. stored[i].size : staging[stored[i].actual + k] = stored[i].target + k - 1
      BY <1>11, <3>1 DEF SInv, StagedRight
    <3>3. stored[i].actual \in Nat /\ stored[i].size \in Nat
      BY <3>1, StoredParts DEF SInv
    <3>4. \A k \in 1 .. stored[i].size : stored[i].actual + k \in 1 .. Len(staging)
      BY <1>3, <3>2, <3>3
    <3>5. \A k \in 1 .. stored[i].size : staging'[stored[i].actual + k] = stored[i].target + k - 1
      BY <1>10, <3>2, <3>4
    <3>6. stored[i].actual + stored[i].size <= Len(staging')
      <4>1. Len(staging') = Len(staging) + n
        BY <1>10
      <4>2. Len(staging) \in Nat /\ n \in Nat
        BY <1>3, <1>8
      <4>3. stored[i].actual + stored[i].size <= Len(staging)
        BY <3>2
      <4> QED
        BY <3>3, <4>1, <4>2, <4>3
    <3> QED
      BY <3>1, <3>5, <3>6
  <2> QED
    BY <2>1, <2>2
<1>16. Sorted' /\ ClosedBy' /\ Verdict' /\ WholeSoFar' /\ ErrorEnds'
  BY <1>1 DEF SInv, Sorted, ClosedBy, Verdict, WholeSoFar, ErrorEnds
<1>17. S!Accounted' /\ S!NothingMisplaced'
  <2>1. S!Accounted'
    BY <1>1 DEF SInv, S!Accounted, S!InMissing, S!Unfinished
  <2> QED
    BY <1>1, <1>11, <2>1 DEF SInv, S!NothingMisplaced
<1> QED
  BY <1>13, <1>14, <1>15, <1>16, <1>17 DEF SInv

\* An arrangement that repeats nothing leaves nothing out.
LEMMA Arranged ==
  ASSUME NEW n \in Nat, NEW order \in [1 .. n -> 1 .. n],
         \A i, j \in 1 .. n : i # j => order[i] # order[j]
  PROVE  \A j \in 1 .. n : \E i \in 1 .. n : order[i] = j
<1>1. IsFiniteSet(1 .. n)
  BY FS_Interval
<1>2. order \in Injection(1 .. n, 1 .. n)
  BY Fun_IsInj, Zenon
<1>3. order \in Surjection(1 .. n, 1 .. n)
  BY <1>1, <1>2, FS_Injection
<1> QED
  BY <1>3 DEF Surjection

\* The queue is drained: the stored chunks are sorted, none is lost or made up.
LEMMA StartPlacingKeeps ==
  ASSUME SInv, S!StartPlacing
  PROVE  SInv'
<1>1. /\ phase = "receive" /\ queue = <<>> /\ closed /\ phase' = "place"
      /\ UNCHANGED <<queue, closed, pushed, staging, next, offset, missing, out, verdict, short, ioerr, judge>>
  BY DEF S!StartPlacing, S!Drained, S!fileVars
<1> DEFINE n == Len(stored)
<1>2. PICK order \in [1 .. n -> 1 .. n] :
        /\ \A i, j \in 1 .. n : i # j => order[i] # order[j]
        /\ \A i, j \in 1 .. n : i < j => stored[order[i]].target <= stored[order[j]].target
        /\ stored' = [i \in 1 .. n |-> stored[order[i]]]
  BY DEF S!StartPlacing
<1>3. n \in Nat /\ stored \in Seq(S!Stored) /\ Len(stored) = n
  BY DEF SInv, S!TypeOK
<1> HIDE DEF n
<1>4. \A i \in 1 .. n : order[i] \in 1 .. n
  BY <1>2
<1>5. stored' \in Seq(S!Stored) /\ Len(stored') = n /\ \A i \in 1 .. n : stored'[i] = stored[order[i]]
  <2>1. \A i \in 1 .. n : stored[order[i]] \in S!Stored
    BY <1>3, <1>4
  <2> QED
    BY <1>2, <1>3, <2>1
<1>6. \A j \in 1 .. n : \E i \in 1 .. n : order[i] = j
  BY <1>2, <1>3, Arranged
<1>7. /\ next = 1 /\ offset = 0 /\ missing = <<>> /\ verdict = "UNKNOWN" /\ n = Len(pushed)
      /\ \A i \in 1 .. n : stored[i].target = pushed[i].off /\ stored[i].size = pushed[i].len
  <2>1. Len(stored) + Len(queue) = Len(pushed) /\ Len(queue) = 0 /\ Len(pushed) \in Nat
    BY <1>1 DEF SInv, Receiving, S!TypeOK
  <2>2. n = Len(pushed)
    BY <1>3, <2>1
  <2> QED
    BY <1>1, <1>3, <2>2 DEF SInv, Receiving
<1>8. S!TypeOK'
  <2>1. next' \in 1 .. Len(stored') + 1
    BY <1>1, <1>3, <1>5, <1>7
  <2> QED
    BY <1>1, <1>5, <2>1 DEF SInv, S!TypeOK
<1>9. Sorted'
  <2>1. \A i \in 1 .. n : \E j \in 1 .. Len(pushed) : stored'[i].target = pushed[j].off /\ stored'[i].size = pushed[j].len
    BY <1>4, <1>5, <1>7
  <2>2. \A j \in 1 .. Len(pushed) : \E i \in 1 .. n : stored'[i].target = pushed[j].off /\ stored'[i].size = pushed[j].len
    <3> TAKE j \in 1 .. Len(pushed)
    <3>1. PICK i \in 1 .. n : order[i] = j
      BY <1>6, <1>7
    <3> QED
      BY <1>5, <1>7, <3>1
  <2>3. \A i, j \in 1 .. n : i < j => stored'[i].target <= stored'[j].target
    BY <1>2, <1>5
  <2> QED
    BY <1>1, <1>5, <2>1, <2>2, <2>3 DEF Sorted, IsStored
<1>10. StagedRight'
  <2> SUFFICES ASSUME short = 0, NEW i \in 1 .. n
               PROVE  /\ stored'[i].actual + stored'[i].size <= Len(staging)
                      /\ \A k \in 1 .. stored'[i].size : staging[stored'[i].actual + k] = stored'[i].target + k - 1
    BY <1>1, <1>5 DEF StagedRight
  <2>1. order[i] \in 1 .. Len(stored) /\ stored'[i] = stored[order[i]]
    BY <1>3, <1>4, <1>5
  <2>2. \A j \in 1 .. Len(stored) :
          /\ stored[j].actual + stored[j].size <= Len(staging)
          /\ \A k \in 1 .. stored[j].size : staging[stored[j].actual + k] = stored[j].target + k - 1
    BY DEF SInv, StagedRight
  <2> QED
    BY <2>1, <2>2
<1>11. WholeSoFar'
  <2>1. 1 .. next' - 1 = {}
    BY <1>1, <1>7
  <2> QED
    BY <1>1, <1>7, <2>1 DEF WholeSoFar
<1>12. Receiving' /\ ClosedBy' /\ Verdict' /\ ErrorEnds'
  BY <1>1, <1>7 DEF SInv, Receiving, ClosedBy, Verdict, ErrorEnds
<1> QED
  BY <1>1, <1>8, <1>9, <1>10, <1>11, <1>12, FilesSame DEF SInv

\* Of a file that arrived whole every chunk is stored, and what is stored lies in the file,
\* each chunk apart from the others or equal to them.
LEMMA StoredWhole ==
  ASSUME SInv, phase = "place", S!Arrived
  PROVE  /\ \A p \in 0 .. ExpectedSize - 1 : \E i \in 1 .. Len(stored) :
              stored[i].target <= p /\ p < stored[i].target + stored[i].size
         /\ \A i \in 1 .. Len(stored) : stored[i].target + stored[i].size <= ExpectedSize
         /\ \A i, j \in 1 .. Len(stored) :
              \/ stored[i].target = stored[j].target /\ stored[i].size = stored[j].size
              \/ stored[i].target + stored[i].size <= stored[j].target
              \/ stored[j].target + stored[j].size <= stored[i].target
<1>1. /\ \A i \in 1 .. Len(stored) : \E j \in 1 .. Len(pushed) : IsStored(i, j)
      /\ \A j \in 1 .. Len(pushed) : \E i \in 1 .. Len(stored) : IsStored(i, j)
  BY DEF SInv, Sorted
<1>2. \A p \in 0 .. ExpectedSize - 1 : \E i \in 1 .. Len(stored) :
        stored[i].target <= p /\ p < stored[i].target + stored[i].size
  <2> TAKE p \in 0 .. ExpectedSize - 1
  <2>1. PICK j \in 1 .. Len(pushed) : pushed[j].off <= p /\ p < pushed[j].off + pushed[j].len
    BY DEF S!Arrived, S!Covers
  <2>2. PICK i \in 1 .. Len(stored) : IsStored(i, j)
    BY <1>1
  <2> QED
    BY <2>1, <2>2 DEF IsStored
<1>3. \A i \in 1 .. Len(stored) : stored[i].target + stored[i].size <= ExpectedSize
  <2> TAKE i \in 1 .. Len(stored)
  <2>1. PICK j \in 1 .. Len(pushed) : IsStored(i, j)
    BY <1>1
  <2> QED
    BY <2>1 DEF S!Arrived, IsStored
<1>4. ASSUME NEW i \in 1 .. Len(stored), NEW j \in 1 .. Len(stored)
      PROVE  \/ stored[i].target = stored[j].target /\ stored[i].size = stored[j].size
             \/ stored[i].target + stored[i].size <= stored[j].target
             \/ stored[j].target + stored[j].size <= stored[i].target
  <2>1. PICK a \in 1 .. Len(pushed) : IsStored(i, a)
    BY <1>1
  <2>2. PICK b \in 1 .. Len(pushed) : IsStored(j, b)
    BY <1>1
  <2>3. \/ pushed[a] = pushed[b]
        \/ pushed[a].off + pushed[a].len <= pushed[b].off
        \/ pushed[b].off + pushed[b].len <= pushed[a].off
    BY DEF S!Arrived, S!SameOrApart
  <2> QED
    BY <2>1, <2>2, <2>3 DEF IsStored
<1> QED
  BY <1>2, <1>3, <1>4

\* A chunk that starts before the end of what is written ends there as well.
LEMMA PassedBy ==
  ASSUME SInv, S!Placing, short = 0, ioerr = 0, S!Arrived, offset > stored[next].target
  PROVE  stored[next].target + stored[next].size <= offset
<1>1. phase = "place" /\ next \in 1 .. Len(stored) /\ next \in Nat /\ offset \in Nat
  BY Bounds DEF S!Placing, SInv, S!TypeOK
<1>2. stored[next].target \in Nat /\ stored[next].size \in Nat
  BY <1>1, StoredParts DEF SInv
<1>3. offset # 0
  BY <1>1, <1>2
<1>4. PICK i \in 1 .. next - 1 : offset = stored[i].target + stored[i].size
  BY <1>1, <1>3 DEF SInv, WholeSoFar
<1>5. i \in 1 .. Len(stored) /\ i < next
  BY <1>1
<1>6. stored[i].target \in Nat /\ stored[i].size \in Nat /\ stored[i].target <= stored[next].target
  BY <1>1, <1>5, StoredParts DEF SInv, Sorted
<1>7. \/ stored[i].target = stored[next].target /\ stored[i].size = stored[next].size
      \/ stored[i].target + stored[i].size <= stored[next].target
      \/ stored[next].target + stored[next].size <= stored[i].target
  BY <1>1, <1>5, StoredWhole
<1> QED
  BY <1>1, <1>2, <1>4, <1>6, <1>7

\* There is no gap before a chunk.
LEMMA NoGap ==
  ASSUME SInv, S!Placing, short = 0, ioerr = 0, S!Arrived, offset <= stored[next].target
  PROVE  offset = stored[next].target
<1>1. phase = "place" /\ next \in 1 .. Len(stored) /\ next \in Nat /\ offset \in Nat /\ Len(stored) \in Nat
  BY Bounds DEF S!Placing, SInv, S!TypeOK
<1>2. stored[next].target \in Nat /\ stored[next].size \in Nat
      /\ stored[next].target + stored[next].size <= ExpectedSize
  BY <1>1, StoredParts, StoredWhole DEF SInv
<1> SUFFICES ASSUME offset < stored[next].target PROVE FALSE
  BY <1>1, <1>2
<1>3. offset \in 0 .. ExpectedSize - 1
  BY <1>1, <1>2, DownlinksAssumption
<1>4. PICK i \in 1 .. Len(stored) : stored[i].target <= offset /\ offset < stored[i].target + stored[i].size
  BY <1>1, <1>3, StoredWhole
<1>5. stored[i].target \in Nat /\ stored[i].size \in Nat
  BY StoredParts DEF SInv
<1>6. CASE i < next
  <2>1. stored[i].target + stored[i].size <= offset
    BY <1>1, <1>6 DEF SInv, WholeSoFar
  <2> QED
    BY <1>1, <1>4, <1>5, <2>1
<1>7. CASE i >= next
  <2>1. stored[next].target <= stored[i].target
    BY <1>1, <1>2, <1>7 DEF SInv, Sorted
  <2> QED
    BY <1>1, <1>2, <1>4, <1>5, <2>1
<1> QED
  BY <1>1, <1>6, <1>7

\* After the last chunk the file has its announced size.
LEMMA AtTheEnd ==
  ASSUME SInv, phase = "place", next > Len(stored), short = 0, ioerr = 0, S!Arrived
  PROVE  offset = ExpectedSize
<1>1. offset \in Nat /\ ExpectedSize \in Nat /\ next \in Nat /\ Len(stored) \in Nat /\ next = Len(stored) + 1
  BY Bounds DEF SInv, S!TypeOK
<1>2. \A i \in 1 .. Len(stored) : stored[i].target + stored[i].size <= offset
  BY <1>1 DEF SInv, WholeSoFar
<1>3. offset <= ExpectedSize
  <2>1. CASE offset = 0
    BY <1>1, <2>1
  <2>2. CASE offset # 0
    <3>1. PICK i \in 1 .. Len(stored) : offset = stored[i].target + stored[i].size
      BY <1>1, <2>2 DEF SInv, WholeSoFar
    <3> QED
      BY <3>1, StoredWhole
  <2> QED
    BY <2>1, <2>2
<1>4. ASSUME offset < ExpectedSize PROVE FALSE
  <2>1. PICK i \in 1 .. Len(stored) : stored[i].target <= offset /\ offset < stored[i].target + stored[i].size
    BY <1>1, <1>4, StoredWhole
  <2>2. stored[i].target \in Nat /\ stored[i].size \in Nat
    BY StoredParts DEF SInv
  <2> QED
    BY <1>1, <1>2, <2>1, <2>2
<1> QED
  BY <1>1, <1>3, <1>4

\* A chunk that starts before the end of what is written is dropped.
LEMMA DiscardKeeps ==
  ASSUME SInv, S!Discard
  PROVE  SInv'
<1>1. /\ S!Placing /\ phase = "place" /\ next <= Len(stored) /\ offset > stored[next].target /\ next' = next + 1
      /\ UNCHANGED <<queue, closed, pushed, phase, staging, stored, offset, missing, out, verdict, short, ioerr, judge>>
  BY DEF S!Discard, S!Placing
<1>2. next \in Nat /\ Len(stored) \in Nat /\ next \in 1 .. Len(stored) /\ next' \in 1 .. Len(stored) + 1
  BY <1>1 DEF SInv, S!TypeOK
<1>3. S!TypeOK'
  BY <1>1, <1>2 DEF SInv, S!TypeOK
<1>4. StagedRight' /\ Receiving' /\ Sorted' /\ ClosedBy' /\ ErrorEnds'
  BY <1>1 DEF SInv, StagedRight, Receiving, Sorted, IsStored, ClosedBy, ErrorEnds
<1>5. Verdict'
  BY <1>1 DEF SInv, Verdict
<1>6. WholeSoFar'
  <2> SUFFICES ASSUME short = 0, ioerr = 0, S!Arrived
               PROVE  /\ missing = <<>>
                      /\ \A i \in 1 .. next' - 1 : stored[i].target + stored[i].size <= offset
                      /\ offset = 0 \/ \E i \in 1 .. next' - 1 : offset = stored[i].target + stored[i].size
    BY <1>1 DEF WholeSoFar, S!Arrived, S!Covers
  <2>1. /\ missing = <<>>
        /\ \A i \in 1 .. next - 1 : stored[i].target + stored[i].size <= offset
        /\ offset = 0 \/ \E i \in 1 .. next - 1 : offset = stored[i].target + stored[i].size
    BY <1>1 DEF SInv, WholeSoFar
  <2>2. stored[next].target + stored[next].size <= offset
    BY <1>1, PassedBy
  <2>3. \A i \in 1 .. next' - 1 : i \in 1 .. next - 1 \/ i = next
    BY <1>1, <1>2
  <2>4. \A i \in 1 .. next - 1 : i \in 1 .. next' - 1
    BY <1>1, <1>2
  <2> QED
    BY <2>1, <2>2, <2>3, <2>4
<1> QED
  BY <1>1, <1>3, <1>4, <1>5, <1>6, FilesSame DEF SInv

\* The placing of a chunk: the gap before it is filled, its bytes are read back, or the
\* staging file is too short.
LEMMA PlaceKeeps ==
  ASSUME SInv, S!Place
  PROVE  SInv'
<1> DEFINE t == stored[next].target
           a == stored[next].actual
           z == stored[next].size
           filled == S!Infilled(offset, t)
<1>1. /\ S!Placing /\ phase = "place" /\ next <= Len(stored) /\ offset <= t /\ S!Infill(offset, t)
      /\ UNCHANGED <<queue, closed, pushed, staging, stored, verdict, short, ioerr, judge>>
  BY DEF S!Place, S!Placing
<1>2. \/ /\ a + z <= Len(staging)
         /\ out' = S!Written(filled, stored[next], z)
         /\ offset' = t + z /\ next' = next + 1 /\ phase' = phase
      \/ /\ ~(a + z <= Len(staging))
         /\ out' = filled /\ offset' = t /\ next' = next /\ phase' = "report"
  BY DEF S!Place
<1>3. /\ next \in Nat /\ Len(stored) \in Nat /\ next \in 1 .. Len(stored) /\ offset \in Nat /\ offset \in S!Positions
      /\ staging \in Seq(S!Positions) /\ Len(staging) \in Nat
  BY <1>1, Bounds DEF SInv, S!TypeOK
<1>4. a \in Nat /\ t \in Nat /\ z \in Nat /\ t \in S!Positions /\ t + z \in S!Positions
  BY <1>3, StoredParts DEF SInv
<1>0. ioerr = 0 /\ ~S!Unfinished /\ Solid
  BY <1>1, SolidNow
<1>5. /\ filled \in [S!Positions -> Byte] /\ missing' \in Seq(Gap)
      /\ offset = t => missing' = missing
      /\ \A p \in S!Positions : filled[p] \in {out[p], S!Zero}
      /\ \A p \in S!Positions : IF p < t THEN filled[p] # S!Blank /\ (filled[p] = S!Zero <=> S!InMissing(p)')
                                         ELSE filled[p] = S!Blank /\ ~S!InMissing(p)'
  BY <1>0, <1>1, <1>4, Filled DEF SInv
<1>6. a + z <= Len(staging) =>
        /\ out' \in [S!Positions -> Byte]
        /\ \A p \in S!Positions :
             IF t <= p /\ p < t + z THEN out'[p] \in S!Positions /\ (short = 0 => out'[p] = p)
                                    ELSE out'[p] = filled[p]
  <2>1. z \in 0 .. stored[next].size
    BY <1>4
  <2> HIDE DEF filled
  <2> QED
    BY <1>2, <1>3, <1>5, <2>1, WrittenParts
<1> HIDE DEF t, a, z, filled
<1>7. out' \in [S!Positions -> Byte]
  BY <1>2, <1>5, <1>6
<1>8. S!TypeOK'
  <2>1. next' \in 1 .. Len(stored) + 1 /\ offset' \in S!Positions
        /\ phase' \in {"receive", "place", "validate", "report", "reported"}
    BY <1>1, <1>2, <1>3, <1>4
  <2> QED
    BY <1>1, <1>5, <1>7, <2>1 DEF SInv, S!TypeOK, Byte, Gap
<1>9. S!Accounted'
  <2>0. ASSUME NEW p \in S!Positions
        PROVE  IF p < offset' THEN out'[p] # S!Blank /\ (out'[p] = S!Zero <=> S!InMissing(p)')
                              ELSE out'[p] = S!Blank /\ ~S!InMissing(p)'
    <3>1. p \in Nat
      BY Bounds
    <3>2. IF p < t THEN filled[p] # S!Blank /\ (filled[p] = S!Zero <=> S!InMissing(p)')
                   ELSE filled[p] = S!Blank /\ ~S!InMissing(p)'
      BY <1>5
    <3>3. CASE ~(a + z <= Len(staging))
      BY <1>2, <3>2, <3>3
    <3>4. CASE a + z <= Len(staging) /\ t <= p /\ p < t + z
      <4>1. out'[p] \in S!Positions /\ offset' = t + z
        BY <1>2, <1>6, <3>4
      <4>2. out'[p] # S!Blank /\ out'[p] # S!Zero
        BY <4>1, Bounds
      <4>3. ~(p < t)
        BY <1>4, <3>1, <3>4
      <4> QED
        BY <3>2, <3>4, <4>1, <4>2, <4>3
    <3>5. CASE a + z <= Len(staging) /\ ~(t <= p /\ p < t + z)
      <4>1. out'[p] = filled[p] /\ offset' = t + z
        BY <1>2, <1>6, <3>5
      <4>2. p < offset' <=> p < t
        BY <1>4, <3>1, <3>5, <4>1
      <4> QED
        BY <3>2, <4>1, <4>2
    <3> QED
      BY <3>3, <3>4, <3>5
  <2>1. offset' \in Nat /\ S!Positions \subseteq Nat /\ S!Zero # S!Blank
    BY <1>8, Bounds DEF S!TypeOK
  <2> QED
    BY <2>0, <2>1 DEF S!Accounted
<1>10. S!NothingMisplaced'
  <2> SUFFICES ASSUME short = 0, NEW p \in S!Positions PROVE out'[p] \in {p, S!Zero, S!Blank}
    BY <1>1 DEF S!NothingMisplaced
  <2>1. out[p] \in {p, S!Zero, S!Blank} /\ filled[p] \in {out[p], S!Zero}
    BY <1>5 DEF SInv, S!NothingMisplaced
  <2>2. CASE a + z <= Len(staging) /\ t <= p /\ p < t + z
    <3>1. out'[p] = p
      BY <1>6, <2>2
    <3> QED
      BY <3>1
  <2>3. CASE ~(a + z <= Len(staging) /\ t <= p /\ p < t + z)
    <3>1. out'[p] = filled[p]
      BY <1>2, <1>6, <2>3
    <3> QED
      BY <2>1, <3>1
  <2> QED
    BY <2>2, <2>3
<1>11. StagedRight' /\ ClosedBy' /\ ErrorEnds'
  BY <1>0, <1>1, <1>2 DEF SInv, StagedRight, ClosedBy, ErrorEnds
<1>12. Receiving' /\ Sorted'
  BY <1>1, <1>2 DEF SInv, Receiving, Sorted, IsStored
<1>13. Verdict'
  <2>1. verdict' = "UNKNOWN"
    BY <1>1 DEF SInv, Verdict
  <2>2. ~(a + z <= Len(staging)) => short # 0
    BY <1>3 DEF SInv, StagedRight, a, z
  <2> QED
    BY <1>1, <1>2, <2>1, <2>2 DEF Verdict
<1>14. WholeSoFar'
  <2> SUFFICES ASSUME short = 0, ioerr = 0, S!Arrived
               PROVE  /\ phase' = "place" /\ missing' = <<>>
                      /\ \A i \in 1 .. next' - 1 : stored[i].target + stored[i].size <= offset'
                      /\ offset' = 0 \/ \E i \in 1 .. next' - 1 : offset' = stored[i].target + stored[i].size
    BY <1>1 DEF WholeSoFar, S!Arrived, S!Covers
  <2>1. offset = t
    BY <1>1, NoGap DEF t
  <2>2. /\ missing = <<>>
        /\ \A i \in 1 .. next - 1 : stored[i].target + stored[i].size <= offset
    BY <1>1 DEF SInv, WholeSoFar
  <2>3. a + z <= Len(staging)
    BY <1>3 DEF SInv, StagedRight, a, z
  <2>4. offset' = t + z /\ next' = next + 1 /\ phase' = "place" /\ missing' = <<>>
    BY <1>1, <1>2, <1>5, <2>1, <2>2, <2>3
  <2>5. \A i \in 1 .. next' - 1 : i = next \/ i \in 1 .. next - 1
    BY <1>3, <2>4
  <2>6. next \in 1 .. next' - 1 /\ offset' = stored[next].target + stored[next].size
    BY <1>3, <2>4 DEF t, z
  <2>7. \A i \in 1 .. next - 1 : stored[i].target + stored[i].size <= offset'
    <3> TAKE i \in 1 .. next - 1
    <3>1. stored[i].target + stored[i].size <= t /\ i \in 1 .. Len(stored)
      BY <1>3, <2>1, <2>2
    <3>2. stored[i].target \in Nat /\ stored[i].size \in Nat
      BY <3>1, StoredParts DEF SInv
    <3>3. stored[i].target + stored[i].size \in Nat
      BY <3>2
    <3> QED
      BY <1>4, <2>4, <3>1, <3>3
  <2>8. offset' <= offset'
    BY <1>4, <2>4
  <2> QED
    BY <2>4, <2>5, <2>6, <2>7, <2>8
<1> QED
  BY <1>8, <1>9, <1>10, <1>11, <1>12, <1>13, <1>14 DEF SInv

\* All chunks are placed: the file is filled up to its announced size.
LEMMA EndPlacingKeeps ==
  ASSUME SInv, S!EndPlacing
  PROVE  SInv'
<1> DEFINE end == IF offset < ExpectedSize THEN ExpectedSize ELSE offset
<1>1. /\ phase = "place" /\ next > Len(stored) /\ S!Infill(offset, ExpectedSize)
      /\ out' = S!Infilled(offset, ExpectedSize) /\ offset' = end
      /\ IF missing' # <<>> THEN phase' = "report" /\ verdict' = "PARTIAL" ELSE phase' = "validate" /\ verdict' = verdict
      /\ UNCHANGED <<queue, closed, pushed, staging, stored, next, short, ioerr, judge>>
  BY DEF S!EndPlacing
<1>2. /\ offset \in Nat /\ ExpectedSize \in Nat /\ offset \in S!Positions /\ ExpectedSize \in S!Positions
      /\ out \in [S!Positions -> Byte]
  BY Bounds DEF SInv, S!TypeOK, Byte
<1>3. end \in S!Positions /\ end \in Nat /\ offset <= end /\ ExpectedSize <= end
  BY <1>2
<1>4. S!Infill(offset, end) /\ out' = S!Infilled(offset, end)
  <2>1. CASE offset < ExpectedSize
    BY <1>1, <2>1
  <2>2. CASE ~(offset < ExpectedSize)
    <3>1. ~(offset < end) /\ end = offset
      BY <1>2, <2>2
    <3>2. missing' = missing
      BY <1>1, <2>2 DEF S!Infill
    <3>3. \A p \in S!Positions : ~(offset <= p /\ p < ExpectedSize) /\ ~(offset <= p /\ p < end)
      BY <1>2, <2>2, <3>1, Bounds
    <3>4. out' = S!Infilled(offset, end)
      BY <1>1, <3>3 DEF S!Infilled
    <3> QED
      BY <3>1, <3>2, <3>4 DEF S!Infill
  <2> QED
    BY <2>1, <2>2
<1> HIDE DEF end
<1>0. ioerr = 0 /\ ~S!Unfinished /\ Solid
  BY <1>1, SolidNow
<1>5. /\ S!Infilled(offset, end) \in [S!Positions -> Byte] /\ missing' \in Seq(Gap)
      /\ offset = end => missing' = missing
      /\ missing # <<>> => missing' # <<>>
      /\ \A p \in S!Positions : S!Infilled(offset, end)[p] \in {out[p], S!Zero}
      /\ \A p \in S!Positions :
           IF p < end THEN S!Infilled(offset, end)[p] # S!Blank /\ (S!Infilled(offset, end)[p] = S!Zero <=> S!InMissing(p)')
                      ELSE S!Infilled(offset, end)[p] = S!Blank /\ ~S!InMissing(p)'
  BY <1>0, <1>3, <1>4, Filled DEF SInv
<1>6. S!TypeOK'
  BY <1>1, <1>3, <1>4, <1>5 DEF SInv, S!TypeOK, Byte, Gap
<1>7. S!Accounted'
  <2>1. \A p \in S!Positions :
          IF p < offset' THEN out'[p] # S!Blank /\ (out'[p] = S!Zero <=> S!InMissing(p)')
                         ELSE out'[p] = S!Blank /\ ~S!InMissing(p)'
    BY <1>1, <1>4, <1>5
  <2>2. offset' \in Nat /\ S!Positions \subseteq Nat /\ S!Zero # S!Blank
    BY <1>1, <1>3, Bounds
  <2> QED
    BY <2>1, <2>2 DEF S!Accounted
<1>8. S!NothingMisplaced'
  <2> SUFFICES ASSUME short = 0, NEW p \in S!Positions PROVE out'[p] \in {p, S!Zero, S!Blank}
    BY <1>1 DEF S!NothingMisplaced
  <2>1. out[p] \in {p, S!Zero, S!Blank}
    BY DEF SInv, S!NothingMisplaced
  <2> QED
    BY <1>4, <1>5, <2>1
<1>9. StagedRight' /\ ClosedBy' /\ Receiving' /\ Sorted' /\ ErrorEnds'
  BY <1>0, <1>1 DEF SInv, StagedRight, ClosedBy, Receiving, Sorted, IsStored, ErrorEnds
<1>10. Verdict'
  <2>1. verdict = "UNKNOWN"
    BY <1>1 DEF SInv, Verdict
  <2>2. CASE missing' # <<>>
    BY <1>1, <2>2 DEF Verdict
  <2>3. CASE missing' = <<>>
    <3>1. phase' = "validate" /\ verdict' = "UNKNOWN" /\ offset' = end
      BY <1>1, <2>1, <2>3
    <3> QED
      BY <1>3, <2>3, <3>1 DEF Verdict
  <2> QED
    BY <2>2, <2>3
<1>11. WholeSoFar'
  <2> SUFFICES ASSUME short = 0, ioerr = 0, S!Arrived PROVE phase' = "validate" /\ S!Matches'
    BY <1>1 DEF WholeSoFar, S!Arrived, S!Covers
  <2>1. offset = ExpectedSize /\ missing = <<>>
    BY <1>1, AtTheEnd DEF SInv, WholeSoFar
  <2>2. end = ExpectedSize
    BY <1>2, <2>1 DEF end
  <2>3. missing' = <<>> /\ phase' = "validate" /\ offset' = ExpectedSize
    BY <1>1, <1>5, <2>1, <2>2
  <2>4. \A p \in 0 .. ExpectedSize - 1 : out'[p] = p
    <3> TAKE p \in 0 .. ExpectedSize - 1
    <3>1. p \in S!Positions /\ p < end
      BY <1>2, <2>2, Bounds
    <3>2. Len(missing') = 0
      BY <2>3
    <3>3. ~S!InMissing(p)'
      BY <3>2 DEF S!InMissing
    <3>4. out'[p] # S!Blank /\ out'[p] # S!Zero
      BY <1>4, <1>5, <3>1, <3>3
    <3>5. out'[p] \in {p, S!Zero, S!Blank}
      BY <1>1, <1>8, <3>1 DEF S!NothingMisplaced
    <3> QED
      BY <3>4, <3>5
  <2> QED
    BY <2>3, <2>4 DEF S!Matches
<1> QED
  BY <1>6, <1>7, <1>8, <1>9, <1>10, <1>11 DEF SInv

\* The validator decides.
LEMMA ValidateKeeps ==
  ASSUME SInv, S!Validate
  PROVE  SInv'
<1>1. /\ phase = "validate" /\ phase' = "report" /\ verdict' \in S!Verdicts
      /\ UNCHANGED <<queue, closed, pushed, staging, stored, next, offset, missing, out, short, ioerr, judge>>
  BY DEF S!Validate, S!fileVars
<1>0. ioerr = 0 /\ ~S!Unfinished /\ Solid
  BY <1>1, SolidNow
<1>2. /\ verdict' \in {"COMPLETED", "CRC_FAILED"}
      /\ verdict' = "COMPLETED" => judge # "none" /\ (judge = "own" => S!Matches)
      /\ S!Matches /\ judge \in {"lenient", "own"} => verdict' = "COMPLETED"
  <2>1. judge \in {"lenient", "none", "own", "shared"}
    BY DEF SInv, S!TypeOK
  <2> QED
    BY <1>1, <2>1 DEF S!Verdicts
<1>3. S!TypeOK'
  BY <1>1, <1>2 DEF SInv, S!TypeOK
<1>4. StagedRight' /\ ClosedBy' /\ Receiving' /\ Sorted' /\ ErrorEnds'
  BY <1>1 DEF SInv, StagedRight, ClosedBy, Receiving, Sorted, IsStored, ErrorEnds
<1>5. S!Matches' <=> S!Matches
  BY <1>1 DEF S!Matches
<1>6. Verdict'
  <2>1. missing = <<>> /\ offset >= ExpectedSize
    BY <1>1 DEF SInv, Verdict
  <2> QED
    BY <1>1, <1>2, <1>5, <2>1 DEF Verdict
<1>7. WholeSoFar'
  <2> SUFFICES ASSUME short = 0, ioerr = 0, S!Arrived, judge \in {"lenient", "own"} PROVE verdict' = "COMPLETED"
    BY <1>1 DEF WholeSoFar, S!Arrived, S!Covers
  <2> QED
    BY <1>1, <1>2 DEF SInv, WholeSoFar
<1>8. S!Accounted'
  BY <1>0, <1>1 DEF SInv, S!Accounted, S!InMissing
<1>9. S!NothingMisplaced'
  BY <1>1 DEF SInv, S!NothingMisplaced
<1> QED
  BY <1>3, <1>4, <1>6, <1>7, <1>8, <1>9 DEF SInv

\* A failure leaves the file as an error may: no zero unlisted, nothing that came listed.
LEMMA AfterError ==
  ASSUME SInv, S!IoError
  PROVE  /\ offset' \in S!Positions /\ out' \in [S!Positions -> Byte] /\ missing' \in Seq(Gap)
         /\ S!Accounted' /\ S!NothingMisplaced'
<1>0. phase \notin {"report", "reported"}
  BY DEF S!IoError, S!OpenFails, S!Drained, S!Placing, S!PlaceFails, S!ValidateFails
<1>1. Solid /\ ioerr = 0 /\ ~S!Unfinished
  BY <1>0, SolidNow
<1>2. ioerr' = 1 /\ UNCHANGED <<stored, next, short>>
  BY <1>1 DEF S!IoError
<1>3. /\ offset \in S!Positions /\ out \in [S!Positions -> Byte] /\ missing \in Seq(Gap)
      /\ offset \in Nat /\ ExpectedSize \in S!Positions /\ S!Positions \subseteq Nat
      /\ S!Zero \notin S!Positions /\ S!Blank \notin S!Positions /\ S!Zero # S!Blank
  BY Bounds DEF SInv, S!TypeOK, Byte, Gap
<1>4. verdict = "UNKNOWN"
  BY <1>0 DEF SInv, S!TypeOK, Receiving, Verdict
<1>5. CASE S!OpenFails \/ S!ValidateFails
  <2>1. UNCHANGED <<offset, missing, out>>
    BY <1>5 DEF S!OpenFails, S!ValidateFails
  <2>2. S!Accounted'
    <3>1. \A p \in S!Positions : S!InMissing(p)' <=> S!InMissing(p)
      BY <2>1 DEF S!InMissing
    <3> QED
      BY <1>1, <1>3, <2>1, <3>1 DEF SInv, S!Accounted
  <2>3. S!NothingMisplaced'
    BY <1>2, <2>1 DEF SInv, S!NothingMisplaced
  <2> QED
    BY <1>3, <2>1, <2>2, <2>3
<1>6. ASSUME NEW end \in S!Positions, S!InfillFails(end)
      PROVE  /\ offset' \in S!Positions /\ out' \in [S!Positions -> Byte] /\ missing' \in Seq(Gap)
             /\ S!Accounted' /\ S!NothingMisplaced'
  <2>1. PICK n \in offset .. end - 1 : out' = S!Infilled(offset, n)
    BY <1>6 DEF S!InfillFails
  <2>2. offset < end /\ S!Infill(offset, end) /\ offset' = offset /\ verdict' = verdict
    BY <1>6 DEF S!InfillFails
  <2>3. end \in Nat /\ n \in Nat /\ n < end
    BY <1>3, <2>1
  <2>4. /\ out' \in [S!Positions -> Byte]
        /\ \A p \in S!Positions : out'[p] = IF offset <= p /\ p < n THEN S!Zero ELSE out[p]
    BY <2>1, Zeros DEF SInv
  <2>5. /\ missing' \in Seq(Gap)
        /\ \A p \in S!Positions : S!InMissing(p)' <=> S!InMissing(p) \/ (offset <= p /\ p < end)
    <3>1. offset <= end
      BY <1>3, <2>2, <2>3
    <3> QED
      BY <2>2, <3>1, GapListed DEF SInv
  <2>6. S!Unfinished'
    BY <1>2, <1>4, <2>2 DEF S!Unfinished
  <2>7. S!Accounted'
    <3> SUFFICES ASSUME NEW p \in S!Positions
                 PROVE  /\ out'[p] = S!Zero => S!InMissing(p)'
                        /\ S!InMissing(p)' => out'[p] \in {S!Zero, S!Blank}
                        /\ p < offset' => out'[p] # S!Blank
      BY <2>6 DEF S!Accounted
    <3>1. p \in Nat
      BY <1>3
    <3>2. out'[p] = IF offset <= p /\ p < n THEN S!Zero ELSE out[p]
      BY <2>4
    <3>3. S!InMissing(p)' <=> S!InMissing(p) \/ (offset <= p /\ p < end)
      BY <2>5
    <3>4. IF p < offset THEN out[p] # S!Blank /\ (out[p] = S!Zero <=> S!InMissing(p))
                        ELSE out[p] = S!Blank /\ ~S!InMissing(p)
      BY <1>1 DEF Solid
    <3> QED
      BY <1>3, <2>2, <2>3, <3>1, <3>2, <3>3, <3>4
  <2>8. S!NothingMisplaced'
    <3>1. short = 0 => \A p \in S!Positions : out[p] \in {p, S!Zero, S!Blank}
      BY DEF SInv, S!NothingMisplaced
    <3> QED
      BY <1>2, <2>4, <3>1 DEF S!NothingMisplaced
  <2> QED
    BY <1>3, <2>2, <2>4, <2>5, <2>7, <2>8
<1>7. CASE S!Placing /\ S!InfillFails(stored[next].target)
  <2>1. next \in 1 .. Len(stored)
    BY <1>7 DEF SInv, S!TypeOK, S!Placing
  <2>2. stored[next].target \in S!Positions
    BY <2>1, StoredParts DEF SInv
  <2> QED
    BY <1>6, <1>7, <2>2
<1>8. CASE S!InfillFails(ExpectedSize)
  BY <1>3, <1>6, <1>8
<1>9. CASE S!PlaceFails
  <2> DEFINE t == stored[next].target
             z == stored[next].size
             filled == S!Infilled(offset, t)
  <2>1. PICK n \in 0 .. z - 1 : out' = S!Written(filled, stored[next], n)
    BY <1>9 DEF S!PlaceFails
  <2>2. /\ S!Placing /\ offset <= t /\ stored[next].actual + z <= Len(staging)
        /\ S!Infill(offset, t) /\ offset' = t /\ verdict' = verdict
    BY <1>9 DEF S!PlaceFails
  <2>3. next \in 1 .. Len(stored)
    BY <2>2 DEF SInv, S!TypeOK, S!Placing
  <2>4. t \in S!Positions /\ t \in Nat /\ z \in Nat
    BY <2>3, StoredParts DEF SInv
  <2>5. n \in 0 .. z /\ n \in Nat
    BY <2>1, <2>4
  <2>6. /\ filled \in [S!Positions -> Byte] /\ missing' \in Seq(Gap)
        /\ \A p \in S!Positions : filled[p] \in {out[p], S!Zero}
        /\ \A p \in S!Positions : IF p < t THEN filled[p] # S!Blank /\ (filled[p] = S!Zero <=> S!InMissing(p)')
                                           ELSE filled[p] = S!Blank /\ ~S!InMissing(p)'
    BY <1>1, <2>2, <2>4, Filled DEF SInv
  <2> HIDE DEF filled
  <2>7. /\ out' \in [S!Positions -> Byte]
        /\ \A p \in S!Positions :
             IF t <= p /\ p < t + n THEN out'[p] \in S!Positions /\ (short = 0 => out'[p] = p)
                                    ELSE out'[p] = filled[p]
    BY <2>1, <2>2, <2>3, <2>5, <2>6, WrittenParts
  <2> HIDE DEF t, z
  <2>8. S!Unfinished'
    BY <1>2, <1>4, <2>2 DEF S!Unfinished
  <2>9. S!Accounted'
    <3> SUFFICES ASSUME NEW p \in S!Positions
                 PROVE  /\ out'[p] = S!Zero => S!InMissing(p)'
                        /\ S!InMissing(p)' => out'[p] \in {S!Zero, S!Blank}
                        /\ p < offset' => out'[p] # S!Blank
      BY <2>8 DEF S!Accounted
    <3>1. p \in Nat
      BY <1>3
    <3>2. IF t <= p /\ p < t + n THEN out'[p] \in S!Positions ELSE out'[p] = filled[p]
      BY <2>7
    <3>3. IF p < t THEN filled[p] # S!Blank /\ (filled[p] = S!Zero <=> S!InMissing(p)')
                   ELSE filled[p] = S!Blank /\ ~S!InMissing(p)'
      BY <2>6
    <3> QED
      BY <1>3, <2>2, <2>4, <2>5, <3>1, <3>2, <3>3
  <2>10. S!NothingMisplaced'
    <3> SUFFICES ASSUME short = 0, NEW p \in S!Positions PROVE out'[p] \in {p, S!Zero, S!Blank}
      BY <1>2 DEF S!NothingMisplaced
    <3>1. out[p] \in {p, S!Zero, S!Blank} /\ filled[p] \in {out[p], S!Zero}
      BY <2>6 DEF SInv, S!NothingMisplaced
    <3> QED
      BY <2>7, <3>1
  <2> QED
    BY <2>2, <2>4, <2>6, <2>7, <2>9, <2>10
<1> QED
  BY <1>5, <1>7, <1>8, <1>9 DEF S!IoError

\* A failure ends the session with what it has.
LEMMA IoErrorKeeps ==
  ASSUME SInv, S!IoError
  PROVE  SInv'
<1>1. /\ ioerr < IoErrors /\ ioerr' = ioerr + 1 /\ phase' = "report"
      /\ UNCHANGED <<queue, closed, pushed, staging, stored, next, short, judge>>
  BY DEF S!IoError
<1>0. \/ phase = "validate" /\ verdict' = "CRC_FAILED" /\ UNCHANGED <<offset, missing>>
      \/ (S!Drained \/ phase = "place") /\ verdict' = verdict
  BY DEF S!IoError, S!OpenFails, S!InfillFails, S!Placing, S!PlaceFails, S!ValidateFails
<1>2. ioerr \in Nat /\ ioerr' \in 0 .. IoErrors /\ ioerr' # 0
  <2>1. ioerr \in 0 .. IoErrors
    BY DEF SInv, S!TypeOK
  <2> QED
    BY <1>1, <2>1, DownlinksAssumption
<1>3. S!TypeOK'
  <2>1. verdict' \in {"UNKNOWN", "PARTIAL", "CRC_FAILED", "COMPLETED"}
    BY <1>0 DEF SInv, S!TypeOK
  <2> QED
    BY <1>1, <1>2, <2>1, AfterError DEF SInv, S!TypeOK, Byte, Gap
<1>4. closed
  BY <1>0 DEF S!Drained, SInv, ClosedBy
<1>5. StagedRight' /\ ClosedBy' /\ Receiving' /\ Sorted' /\ ErrorEnds'
  BY <1>1, <1>4 DEF SInv, StagedRight, ClosedBy, Receiving, Sorted, ErrorEnds
<1>6. Verdict'
  <2>1. CASE (S!Drained \/ phase = "place") /\ verdict' = verdict
    <3>1. verdict = "UNKNOWN"
      BY <2>1 DEF S!Drained, SInv, Receiving, Verdict
    <3> QED
      BY <1>1, <1>2, <2>1, <3>1 DEF Verdict
  <2>2. CASE phase = "validate" /\ verdict' = "CRC_FAILED" /\ UNCHANGED <<offset, missing>>
    <3>1. missing = <<>> /\ offset >= ExpectedSize
      BY <2>2 DEF SInv, Verdict
    <3> QED
      BY <1>1, <2>2, <3>1 DEF Verdict
  <2> QED
    BY <1>0, <2>1, <2>2
<1>7. WholeSoFar'
  BY <1>2 DEF WholeSoFar
<1> QED
  BY <1>3, <1>5, <1>6, <1>7, AfterError DEF SInv

\* The report changes nothing that it tells.
LEMMA ReportKeeps ==
  ASSUME SInv, S!Report
  PROVE  SInv'
<1>1. /\ phase = "report" /\ phase' = "reported"
      /\ UNCHANGED <<queue, closed, pushed, staging, stored, next, offset, missing, out, verdict, short, ioerr, judge>>
  BY DEF S!Report, S!fileVars
<1>2. S!TypeOK' /\ StagedRight' /\ ClosedBy' /\ Receiving' /\ Sorted' /\ ErrorEnds'
  BY <1>1 DEF SInv, S!TypeOK, StagedRight, ClosedBy, Receiving, Sorted, ErrorEnds
<1>3. S!Matches' <=> S!Matches
  BY <1>1 DEF S!Matches
<1>4. Verdict'
  BY <1>1, <1>3 DEF SInv, Verdict
<1>5. WholeSoFar'
  BY <1>1 DEF SInv, WholeSoFar, S!Arrived, S!Covers
<1> QED
  BY <1>1, <1>2, <1>4, <1>5, FilesSame DEF SInv

\* The session's invariant is inductive.
LEMMA SessionStepKeeps == SInv /\ [S!Next]_S!vars => SInv'
<1> SUFFICES ASSUME SInv, [S!Next]_S!vars PROVE SInv'
  OBVIOUS
<1>1. CASE UNCHANGED S!vars
  <2>1. UNCHANGED <<queue, closed, pushed, phase, staging, stored, next, offset, missing, out,
                    verdict, judge, short, ioerr>>
    BY <1>1 DEF S!vars, S!fileVars
  <2>2. S!TypeOK' /\ StagedRight' /\ ClosedBy' /\ Receiving' /\ ErrorEnds'
    BY <2>1 DEF SInv, S!TypeOK, StagedRight, ClosedBy, Receiving, ErrorEnds
  <2>3. S!Matches' <=> S!Matches
    BY <2>1 DEF S!Matches
  <2>4. Sorted' /\ Verdict' /\ WholeSoFar'
    BY <2>1, <2>3 DEF SInv, Sorted, IsStored, Verdict, WholeSoFar, S!Arrived, S!Covers
  <2> QED
    BY <2>1, <2>2, <2>4, FilesSame DEF SInv
<1>2. CASE S!Next
  BY <1>2, PushKeeps, FinishKeeps, ShareKeeps, StoreKeeps, StartPlacingKeeps, DiscardKeeps, PlaceKeeps,
     EndPlacingKeeps, ValidateKeeps, IoErrorKeeps, ReportKeeps DEF S!Next, S!LoopStep
<1> QED
  BY <1>1, <1>2

\* What the invariant says of the report.
LEMMA ReportFollows == SInv => S!FileIsAccounted /\ S!ReportIsTrue
<1> SUFFICES ASSUME SInv PROVE S!FileIsAccounted /\ S!ReportIsTrue
  OBVIOUS
<1>1. S!FileIsAccounted
  BY DEF SInv, S!FileIsAccounted
<1>2. S!StatusIsTrue
  <2> SUFFICES ASSUME phase = "reported"
               PROVE  /\ verdict = "COMPLETED" => missing = <<>> /\ judge # "none" /\ (judge = "own" => S!Matches)
                      /\ verdict = "PARTIAL" <=> (missing # <<>> /\ verdict # "UNKNOWN")
                      /\ verdict = "CRC_FAILED" => \A p \in 0 .. ExpectedSize - 1 : out[p] \notin {S!Zero, S!Blank}
                      /\ verdict = "UNKNOWN" => short + ioerr > 0
    BY DEF S!StatusIsTrue
  <2>1. /\ verdict = "COMPLETED" => missing = <<>> /\ judge # "none" /\ (judge = "own" => S!Matches)
        /\ verdict = "PARTIAL" <=> (missing # <<>> /\ verdict # "UNKNOWN")
        /\ verdict = "CRC_FAILED" => missing = <<>> /\ offset >= ExpectedSize
        /\ verdict = "UNKNOWN" => ~(short = 0 /\ ioerr = 0)
    BY DEF SInv, Verdict
  <2>2. ASSUME verdict = "CRC_FAILED", NEW p \in 0 .. ExpectedSize - 1 PROVE out[p] \notin {S!Zero, S!Blank}
    <3>1. missing = <<>> /\ Len(missing) = 0 /\ offset >= ExpectedSize /\ offset \in Nat /\ ExpectedSize \in Nat
      BY <2>1, <2>2, Bounds DEF SInv, S!TypeOK
    <3>2. p \in S!Positions /\ p < offset
      BY <3>1, Bounds
    <3>3. ~S!InMissing(p)
      BY <3>1 DEF S!InMissing
    <3> QED
      BY <3>2, <3>3 DEF SInv, S!Accounted
  <2>3. short \in Nat /\ ioerr \in Nat
    BY DownlinksAssumption DEF SInv, S!TypeOK
  <2>4. verdict = "UNKNOWN" => short + ioerr > 0
    BY <2>1, <2>3
  <2> QED
    BY <2>1, <2>2, <2>4
<1>3. S!WholeFileCompletes
  BY DEF SInv, WholeSoFar, S!WholeFileCompletes
<1> QED
  BY <1>1, <1>2, <1>3 DEF S!ReportIsTrue

\* Of every session, for any sizes, bounds and failures.
THEOREM SessionInductive == S!Spec => []SInv
BY SessionInit, SessionStepKeeps, PTL DEF S!Spec

\* Whatever arrives, in whatever order, and whatever fails, the destination file is what the
\* message says of it, byte by byte.
THEOREM EveryByteIsAccounted == S!Spec => []FileIsAccounted
<1>1. SInv => FileIsAccounted
  BY ReportFollows DEF FileIsAccounted
<1> QED
  BY <1>1, SessionInductive, PTL

\* The status that is reported is true of the file, and a file whose every byte arrived is
\* reported complete.
THEOREM TheReportIsTrue == S!Spec => []ReportIsTrue
<1>1. SInv => ReportIsTrue
  BY ReportFollows DEF ReportIsTrue
<1> QED
  BY <1>1, SessionInductive, PTL

-----------------------------------------------------------------------------
(* What a session promises: it implements FileReassembly.                   *)

\* What was placed came with a chunk.
CameWithChunk ==
  \A p \in S!Positions : out[p] \in S!Positions => S!Covers(p)

\* What is listed as missing came with no chunk, or only with chunks that another one reached
\* into and ended before that position.
Overtaken(i, p) == \E k \in 1 .. Len(pushed) : R!ReachesInto(k, i, p)
LostToOverlap ==
  \A p \in S!Positions : S!InMissing(p) =>
    \A i \in 1 .. Len(pushed) : R!Has(i, p) => Overtaken(i, p)

\* While chunks are placed the file ends where one of them does, and a chunk that was passed ends
\* before that or was reached into by one that does.
EndOf(i) == stored[i].target + stored[i].size
PlacedSoFar ==
  phase = "place" =>
    /\ offset = 0 \/ \E m \in 1 .. next - 1 : offset = EndOf(m)
    /\ \A i \in 1 .. next - 1 :
         \/ EndOf(i) <= offset
         \/ \E m \in 1 .. Len(stored) :
              stored[m].target <= stored[i].target /\ stored[i].target < EndOf(m) /\ EndOf(m) <= offset

\* A file with a status, or about to be validated, was written to its announced end or to that
\* of a chunk.
Ended == phase = "validate" \/ (phase \in {"report", "reported"} /\ verdict # "UNKNOWN")
WrittenToTheEnd ==
  Ended =>
    /\ offset >= ExpectedSize
    /\ offset = ExpectedSize \/ \E i \in 1 .. Len(pushed) : offset = R!End(i)

\* What the status says beyond Verdict.
Judged ==
  phase \in {"report", "reported"} /\ verdict = "CRC_FAILED" /\ ioerr = 0 =>
    judge # "lenient" /\ (judge = "own" => ~S!Matches)

\* A listed gap is not empty.
GapsAreReal == \A i \in 1 .. Len(missing) : missing[i].size > 0

Truths == CameWithChunk /\ LostToOverlap /\ PlacedSoFar /\ WrittenToTheEnd /\ Judged /\ GapsAreReal

PInv == SInv /\ Truths

\* While chunks are received nothing is written.
LEMMA NothingWritten ==
  ASSUME SInv, phase = "receive", NEW p \in S!Positions
  PROVE  out[p] = S!Blank /\ ~S!InMissing(p)
<1>1. Solid /\ offset = 0 /\ p \in Nat
  BY SolidNow, Bounds DEF SInv, Receiving
<1> QED
  BY <1>1 DEF Solid

\* What is true of the bytes stays true while nothing is written and nothing arrives, or while
\* chunks are received.
LEMMA BytesSame ==
  ASSUME SInv, CameWithChunk, LostToOverlap, out' = out, missing' = missing,
         pushed' = pushed \/ phase = "receive"
  PROVE  CameWithChunk' /\ LostToOverlap'
<1>0. \A p \in S!Positions : S!InMissing(p)' <=> S!InMissing(p)
  BY DEF S!InMissing
<1>1. CASE pushed' = pushed
  BY <1>0, <1>1 DEF CameWithChunk, LostToOverlap, Overtaken, S!Covers, R!Has, R!End, R!ReachesInto
<1>2. CASE phase = "receive"
  <2>1. \A p \in S!Positions : out'[p] = S!Blank /\ ~S!InMissing(p)'
    BY <1>0, <1>2, NothingWritten
  <2>2. S!Blank \notin S!Positions
    BY Bounds
  <2> QED
    BY <2>1, <2>2 DEF CameWithChunk, LostToOverlap
<1> QED
  BY <1>1, <1>2

\* A gap that is filled and listed is not empty.
LEMMA GapsFilled ==
  ASSUME SInv, GapsAreReal, NEW end \in S!Positions, S!Infill(offset, end)
  PROVE  GapsAreReal'
<1>1. offset \in Nat /\ end \in Nat /\ missing \in Seq(Gap) /\ Len(missing) \in Nat
  BY Bounds DEF SInv, S!TypeOK, Gap
<1>2. CASE offset < end
  <2> DEFINE g == [offset |-> offset, size |-> end - offset]
  <2>1. missing' = Append(missing, g)
    BY <1>2 DEF S!Infill
  <2>2. g.size > 0
    BY <1>1, <1>2
  <2> HIDE DEF g
  <2>3. /\ Len(missing') = Len(missing) + 1 /\ missing'[Len(missing) + 1] = g
        /\ \A i \in 1 .. Len(missing) : missing'[i] = missing[i]
    BY <1>1, <2>1
  <2> QED
    BY <1>1, <2>2, <2>3 DEF GapsAreReal
<1>3. CASE ~(offset < end)
  BY <1>3 DEF S!Infill, GapsAreReal
<1> QED
  BY <1>2, <1>3

\* The promise's invariant at the start.
LEMMA PromiseInit == S!Init => PInv
<1> SUFFICES ASSUME S!Init PROVE PInv
  OBVIOUS
<1>1. SInv
  BY SessionInit
<1>2. phase = "receive"
  BY DEF S!Init
<1>3. CameWithChunk /\ LostToOverlap
  <2>1. \A p \in S!Positions : out[p] = S!Blank /\ ~S!InMissing(p)
    BY <1>1, <1>2, NothingWritten
  <2>2. S!Blank \notin S!Positions
    BY Bounds
  <2> QED
    BY <2>1, <2>2 DEF CameWithChunk, LostToOverlap
<1> QED
  <2>1. Len(missing) = 0
    BY DEF S!Init
  <2> QED
    BY <1>1, <1>2, <1>3, <2>1 DEF PInv, Truths, PlacedSoFar, WrittenToTheEnd, Ended, Judged, GapsAreReal

\* A session that receives, and still does or begins to place.
LEMMA ReceivingPromises ==
  ASSUME PInv, S!Finish \/ S!Store \/ S!StartPlacing \/ \E c \in S!Chunk : S!PushChunk(c)
  PROVE  Truths'
<1>1. phase = "receive" /\ phase' \in {"receive", "place"} /\ UNCHANGED <<next, offset, missing, out>>
  BY DEF S!Finish, S!Store, S!StartPlacing, S!Drained, S!PushChunk, S!fileVars, PInv, SInv, ClosedBy
<1>2. offset = 0 /\ next = 1
  BY <1>1 DEF PInv, SInv, Receiving
<1>3. CameWithChunk' /\ LostToOverlap'
  BY <1>1, BytesSame DEF PInv, Truths
<1>4. PlacedSoFar'
  <2>1. 1 .. next' - 1 = {}
    BY <1>1, <1>2
  <2> QED
    BY <1>1, <1>2, <2>1 DEF PlacedSoFar
<1> QED
  BY <1>1, <1>3, <1>4 DEF PInv, Truths, WrittenToTheEnd, Ended, Judged, GapsAreReal

\* The chunk that is dropped was reached into by the one that ends where the file does.
LEMMA DiscardPromises ==
  ASSUME PInv, S!Discard
  PROVE  Truths'
<1>1. /\ phase = "place" /\ next <= Len(stored) /\ offset > stored[next].target /\ next' = next + 1
      /\ UNCHANGED <<pushed, phase, stored, offset, missing, out, verdict, short, ioerr, judge>>
  BY DEF S!Discard, S!Placing
<1>2. next \in Nat /\ Len(stored) \in Nat /\ next \in 1 .. Len(stored) /\ offset \in Nat
  BY <1>1, Bounds DEF PInv, SInv, S!TypeOK
<1>3. CameWithChunk' /\ LostToOverlap'
  BY <1>1, BytesSame DEF PInv, Truths
<1>4. stored[next].target \in Nat /\ offset # 0
  <2>1. stored[next].target \in Nat
    BY <1>2, StoredParts DEF PInv, SInv
  <2> QED
    BY <1>1, <1>2, <2>1
<1>5. PICK m \in 1 .. next - 1 : offset = EndOf(m)
  BY <1>1, <1>4 DEF PInv, Truths, PlacedSoFar
<1>6. m \in 1 .. Len(stored) /\ m < next /\ m \in 1 .. next' - 1
  BY <1>1, <1>2
<1>7. stored[m].target <= stored[next].target
  BY <1>1, <1>2, <1>6 DEF PInv, SInv, Sorted
<1>8. \A i \in 1 .. next - 1 :
        \/ EndOf(i) <= offset
        \/ \E k \in 1 .. Len(stored) :
             stored[k].target <= stored[i].target /\ stored[i].target < EndOf(k) /\ EndOf(k) <= offset
  BY <1>1 DEF PInv, Truths, PlacedSoFar
<1>9. stored[m].target <= stored[next].target /\ stored[next].target < EndOf(m) /\ EndOf(m) <= offset
  BY <1>1, <1>2, <1>5, <1>7
<1>10. \A i \in 1 .. next' - 1 : i = next \/ i \in 1 .. next - 1
  BY <1>1, <1>2
<1>11. \A i \in 1 .. next' - 1 :
        \/ EndOf(i) <= offset
        \/ \E k \in 1 .. Len(stored) :
             stored[k].target <= stored[i].target /\ stored[i].target < EndOf(k) /\ EndOf(k) <= offset
  BY <1>6, <1>8, <1>9, <1>10
<1>12. PlacedSoFar'
  BY <1>1, <1>5, <1>6, <1>11 DEF PlacedSoFar, EndOf
<1> QED
  BY <1>1, <1>3, <1>12 DEF PInv, Truths, WrittenToTheEnd, Ended, Judged, GapsAreReal

\* A gap that is filled: what arrived in it was passed, and overtaken.
LEMMA GapsAreOvertaken ==
  ASSUME PInv, phase = "place", NEW p \in S!Positions, offset <= p,
         \A i \in 1 .. Len(stored) : i >= next => p < stored[i].target,
         NEW j \in 1 .. Len(pushed), R!Has(j, p)
  PROVE  Overtaken(j, p)
<1>1. offset \in Nat /\ p \in Nat /\ next \in Nat /\ Len(stored) \in Nat
  <2>1. offset \in S!Positions /\ stored \in Seq(S!Stored) /\ next \in 1 .. Len(stored) + 1
    BY DEF PInv, SInv, S!TypeOK
  <2> QED
    BY <2>1, Bounds
<1>2. PICK i \in 1 .. Len(stored) : IsStored(i, j)
  BY DEF PInv, SInv, Sorted
<1>3. stored[i].target <= p /\ p < EndOf(i) /\ stored[i].target \in Nat /\ stored[i].size \in Nat
  BY <1>2, StoredParts DEF PInv, SInv, R!Has, R!End, IsStored, EndOf
<1>4. i \in 1 .. next - 1
  BY <1>1, <1>3
<1>5. ~(EndOf(i) <= offset)
  BY <1>1, <1>3 DEF EndOf
<1>6. PICK m \in 1 .. Len(stored) :
        stored[m].target <= stored[i].target /\ stored[i].target < EndOf(m) /\ EndOf(m) <= offset
  BY <1>4, <1>5 DEF PInv, Truths, PlacedSoFar
<1>7. PICK k \in 1 .. Len(pushed) : IsStored(m, k)
  BY DEF PInv, SInv, Sorted
<1>8. stored[m].target \in Nat /\ stored[m].size \in Nat
  BY StoredParts DEF PInv, SInv
<1>9. EndOf(m) <= p
  BY <1>1, <1>6, <1>8 DEF EndOf
<1>10. R!ReachesInto(k, j, p)
  BY <1>2, <1>6, <1>7, <1>9 DEF IsStored, EndOf, R!ReachesInto, R!End
<1> QED
  BY <1>10 DEF Overtaken

\* A gap that is listed, up to where the next chunk begins, keeps what is true of the gaps.
LEMMA ListedPromises ==
  ASSUME PInv, phase = "place", NEW end \in S!Positions, offset <= end, S!Infill(offset, end),
         \A i \in 1 .. Len(stored) : i >= next => end <= stored[i].target,
         pushed' = pushed
  PROVE  LostToOverlap' /\ GapsAreReal'
<1>1. LostToOverlap'
  <2> SUFFICES ASSUME NEW p \in S!Positions, S!InMissing(p)', NEW j \in 1 .. Len(pushed), R!Has(j, p)
               PROVE  Overtaken(j, p)
    BY DEF LostToOverlap, Overtaken, R!Has, R!End, R!ReachesInto
  <2>1. S!InMissing(p) \/ (offset <= p /\ p < end)
    BY GapListed DEF PInv, SInv
  <2>2. CASE S!InMissing(p)
    BY <2>2 DEF PInv, Truths, LostToOverlap
  <2>3. CASE offset <= p /\ p < end
    <3>1. \A i \in 1 .. Len(stored) : i >= next => p < stored[i].target
      <4> TAKE i \in 1 .. Len(stored)
      <4>1. stored[i].target \in Nat /\ p \in Nat /\ end \in Nat
        BY StoredParts, Bounds DEF PInv, SInv
      <4> QED
        BY <2>3, <4>1
    <3> QED
      BY <2>3, <3>1, GapsAreOvertaken
  <2> QED
    BY <2>1, <2>2, <2>3
<1>2. GapsAreReal'
  BY GapsFilled DEF PInv, Truths
<1> QED
  BY <1>1, <1>2

\* No chunk that is still to be placed begins before the next one.
LEMMA NextIsFirst ==
  ASSUME PInv, S!Placing
  PROVE  /\ next \in 1 .. Len(stored) /\ stored[next].target \in S!Positions
         /\ \A i \in 1 .. Len(stored) : i >= next => stored[next].target <= stored[i].target
<1>1. phase = "place" /\ next \in 1 .. Len(stored) /\ next \in Nat
  BY DEF PInv, SInv, S!TypeOK, S!Placing
<1>2. stored[next].target \in S!Positions /\ stored[next].target \in Nat
  BY <1>1, StoredParts DEF PInv, SInv
<1>3. \A i \in 1 .. Len(stored) : next < i => stored[next].target <= stored[i].target
  BY <1>1 DEF PInv, SInv, Sorted
<1> QED
  BY <1>1, <1>2, <1>3

\* A stored chunk is where a pushed one is.
LEMMA PushedFromStored ==
  ASSUME PInv, phase = "place", NEW i \in 1 .. Len(stored), NEW p \in S!Positions,
         stored[i].target <= p, p < EndOf(i)
  PROVE  S!Covers(p)
<1>1. PICK j \in 1 .. Len(pushed) : IsStored(i, j)
  BY DEF PInv, SInv, Sorted
<1> QED
  BY <1>1 DEF IsStored, EndOf, S!Covers

\* A chunk that is placed covers its own bytes; the gap before it is overtaken.
LEMMA PlacePromises ==
  ASSUME PInv, S!Place
  PROVE  Truths'
<1> DEFINE t == stored[next].target
           a == stored[next].actual
           z == stored[next].size
           filled == S!Infilled(offset, t)
<1>1. /\ phase = "place" /\ next <= Len(stored) /\ offset <= t
      /\ UNCHANGED <<pushed, staging, stored, verdict, short, ioerr, judge>>
  BY DEF S!Place, S!Placing
<1>2. \/ /\ a + z <= Len(staging)
         /\ out' = S!Written(filled, stored[next], z)
         /\ offset' = t + z /\ next' = next + 1 /\ phase' = phase
      \/ /\ ~(a + z <= Len(staging))
         /\ out' = filled /\ offset' = t /\ next' = next /\ phase' = "report"
  BY DEF S!Place
<1>3. /\ next \in Nat /\ Len(stored) \in Nat /\ next \in 1 .. Len(stored) /\ offset \in Nat
      /\ staging \in Seq(S!Positions) /\ Len(staging) \in Nat /\ short \in Nat
  BY <1>1, Bounds DEF PInv, SInv, S!TypeOK
<1>4. a \in Nat /\ t \in Nat /\ z \in Nat
  BY <1>3, StoredParts DEF PInv, SInv
<1>5. /\ filled \in [S!Positions -> Byte]
      /\ \A p \in S!Positions : filled[p] = IF offset <= p /\ p < t THEN S!Zero ELSE out[p]
  BY Zeros DEF PInv, SInv
<1>6. ASSUME NEW p \in S!Positions, out'[p] \in S!Positions
      PROVE  out[p] \in S!Positions \/ (t <= p /\ p < EndOf(next))
  <2>1. S!Zero \notin S!Positions
    BY Bounds
  <2>2. filled[p] \in S!Positions => out[p] \in S!Positions
    BY <1>5, <2>1
  <2>3. CASE a + z <= Len(staging)
    <3>1. z \in 0 .. stored[next].size
      BY <1>4
    <3> HIDE DEF filled
    <3>2. IF t <= p /\ p < t + z THEN out'[p] \in S!Positions ELSE out'[p] = filled[p]
      BY <1>2, <1>3, <1>5, <2>3, <3>1, WrittenParts DEF PInv
    <3> QED
      BY <1>6, <2>2, <3>2 DEF EndOf
  <2>4. CASE ~(a + z <= Len(staging))
    BY <1>2, <1>6, <2>2, <2>4
  <2> QED
    BY <2>3, <2>4
<1>7. CameWithChunk'
  <2> SUFFICES ASSUME NEW p \in S!Positions, out'[p] \in S!Positions PROVE S!Covers(p)'
    BY DEF CameWithChunk
  <2>1. S!Covers(p)
    BY <1>1, <1>3, <1>6, PushedFromStored DEF PInv, Truths, CameWithChunk
  <2> QED
    BY <1>1, <2>1 DEF S!Covers
<1>8. LostToOverlap' /\ GapsAreReal'
  <2>1. S!Placing /\ S!Infill(offset, t)
    BY DEF S!Place
  <2> QED
    BY <1>1, <2>1, NextIsFirst, ListedPromises
<1>9. PlacedSoFar'
  <2> SUFFICES ASSUME phase' = "place" PROVE PlacedSoFar'
    BY DEF PlacedSoFar
  <2>1. offset' = t + z /\ next' = next + 1 /\ offset' = EndOf(next)
    BY <1>2 DEF EndOf
  <2>2. next \in 1 .. next' - 1 /\ \A i \in 1 .. next' - 1 : i = next \/ i \in 1 .. next - 1
    BY <1>3, <2>1
  <2>3. \A i \in 1 .. Len(stored) : EndOf(i) \in Nat
    <3> TAKE i \in 1 .. Len(stored)
    <3>1. stored[i].target \in Nat /\ stored[i].size \in Nat
      BY StoredParts DEF PInv, SInv
    <3>2. \A b, c \in Nat : b + c \in Nat
      OBVIOUS
    <3> QED
      BY <3>1, <3>2 DEF EndOf
  <2>4. offset <= offset' /\ offset' \in Nat
    BY <1>1, <1>3, <1>4, <2>1
  <2>5. ASSUME NEW i \in 1 .. next - 1
        PROVE  \/ EndOf(i) <= offset'
               \/ \E m \in 1 .. Len(stored) :
                    stored[m].target <= stored[i].target /\ stored[i].target < EndOf(m) /\ EndOf(m) <= offset'
    <3>1. i \in 1 .. Len(stored)
      BY <1>3
    <3>2. CASE EndOf(i) <= offset
      BY <1>3, <2>3, <2>4, <3>1, <3>2
    <3>3. CASE ~(EndOf(i) <= offset)
      <4>1. PICK m \in 1 .. Len(stored) :
              stored[m].target <= stored[i].target /\ stored[i].target < EndOf(m) /\ EndOf(m) <= offset
        BY <1>1, <3>3 DEF PInv, Truths, PlacedSoFar
      <4>2. EndOf(m) <= offset'
        BY <1>3, <2>3, <2>4, <4>1
      <4> QED
        BY <4>1, <4>2
    <3> QED
      BY <3>2, <3>3
  <2>6. \A i \in 1 .. next' - 1 :
          \/ EndOf(i) <= offset'
          \/ \E m \in 1 .. Len(stored) :
               stored[m].target <= stored[i].target /\ stored[i].target < EndOf(m) /\ EndOf(m) <= offset'
    BY <2>1, <2>2, <2>4, <2>5
  <2> QED
    BY <1>1, <2>1, <2>2, <2>6 DEF PlacedSoFar, EndOf
<1>10. WrittenToTheEnd' /\ Judged'
  <2>1. CASE phase' = "place"
    BY <2>1 DEF WrittenToTheEnd, Ended, Judged
  <2>2. CASE phase' # "place"
    <3>1. ~(a + z <= Len(staging)) /\ phase' = "report"
      BY <1>1, <1>2, <2>2
    <3>2. verdict' = "UNKNOWN"
      BY <1>1 DEF PInv, SInv, Verdict
    <3> QED
      BY <1>1, <3>1, <3>2 DEF WrittenToTheEnd, Ended, Judged
  <2> QED
    BY <2>1, <2>2
<1> QED
  BY <1>7, <1>8, <1>9, <1>10 DEF Truths

\* The rest of the file is overtaken, and then it is as long as was announced, or longer.
LEMMA EndPlacingPromises ==
  ASSUME PInv, S!EndPlacing
  PROVE  Truths'
<1>1. /\ phase = "place" /\ next > Len(stored)
      /\ out' = S!Infilled(offset, ExpectedSize)
      /\ offset' = IF offset < ExpectedSize THEN ExpectedSize ELSE offset
      /\ IF missing' # <<>> THEN phase' = "report" /\ verdict' = "PARTIAL" ELSE phase' = "validate" /\ verdict' = verdict
      /\ UNCHANGED <<pushed, staging, stored, next, short, ioerr, judge>>
  BY DEF S!EndPlacing
<1>2. offset \in Nat /\ ExpectedSize \in Nat /\ next \in Nat /\ Len(stored) \in Nat /\ next = Len(stored) + 1
  BY <1>1, Bounds DEF PInv, SInv, S!TypeOK
<1>3. \A p \in S!Positions :
        out'[p] = IF offset <= p /\ p < ExpectedSize THEN S!Zero ELSE out[p]
  BY <1>1 DEF S!Infilled
<1>4. S!Zero \notin S!Positions
  BY Bounds
<1>5. CameWithChunk'
  BY <1>1, <1>3, <1>4 DEF PInv, Truths, CameWithChunk, S!Covers
<1>6. LostToOverlap' /\ GapsAreReal'
  <2>1. S!Infill(offset, ExpectedSize) /\ ExpectedSize \in S!Positions
    BY <1>2, Bounds DEF S!EndPlacing
  <2>2. CASE offset <= ExpectedSize
    <3>1. \A i \in 1 .. Len(stored) : i >= next => ExpectedSize <= stored[i].target
      BY <1>2
    <3> QED
      BY <1>1, <2>1, <2>2, <3>1, ListedPromises
  <2>3. CASE ~(offset <= ExpectedSize)
    <3>1. missing' = missing
      BY <1>2, <2>1, <2>3 DEF S!Infill
    <3>2. \A p \in S!Positions : S!InMissing(p)' <=> S!InMissing(p)
      BY <3>1 DEF S!InMissing
    <3> QED
      BY <1>1, <3>1, <3>2 DEF PInv, Truths, LostToOverlap, GapsAreReal, Overtaken, R!Has, R!End, R!ReachesInto
  <2> QED
    BY <2>2, <2>3
<1>7. WrittenToTheEnd'
  <2>1. offset' >= ExpectedSize
    BY <1>1, <1>2
  <2>2. offset' = ExpectedSize \/ \E i \in 1 .. Len(pushed) : offset' = R!End(i)
    <3>1. CASE offset < ExpectedSize \/ offset = 0
      BY <1>1, <1>2, <3>1
    <3>2. CASE ~(offset < ExpectedSize) /\ offset # 0
      <4>1. PICK m \in 1 .. next - 1 : offset = EndOf(m)
        BY <1>1, <3>2 DEF PInv, Truths, PlacedSoFar
      <4>2. m \in 1 .. Len(stored)
        BY <1>2
      <4>3. PICK k \in 1 .. Len(pushed) : IsStored(m, k)
        BY <1>1, <4>2 DEF PInv, SInv, Sorted
      <4> QED
        BY <1>1, <3>2, <4>1, <4>3 DEF IsStored, EndOf, R!End
    <3> QED
      BY <3>1, <3>2
  <2> QED
    BY <1>1, <2>1, <2>2 DEF WrittenToTheEnd, Ended, R!End
<1>8. PlacedSoFar' /\ Judged'
  <2>1. verdict' # "CRC_FAILED"
    BY <1>1 DEF PInv, SInv, Verdict
  <2> QED
    BY <1>1, <2>1 DEF PlacedSoFar, Judged
<1> QED
  BY <1>5, <1>6, <1>7, <1>8 DEF Truths

\* The validator is only shared before there is a verdict.
LEMMA SharePromises ==
  ASSUME PInv, S!Share
  PROVE  Truths'
<1>1. /\ phase \notin {"report", "reported"}
      /\ UNCHANGED <<pushed, phase, stored, next, offset, missing, out, verdict>>
  BY DEF S!Share, S!fileVars
<1>2. CameWithChunk' /\ LostToOverlap'
  BY <1>1, BytesSame DEF PInv, Truths
<1>3. PlacedSoFar' /\ WrittenToTheEnd'
  BY <1>1 DEF PInv, Truths, PlacedSoFar, EndOf, WrittenToTheEnd, Ended, R!End
<1> QED
  BY <1>1, <1>2, <1>3 DEF PInv, Truths, Judged, GapsAreReal

\* An error leaves what it has listed and written: gaps are overtaken as far as they are listed,
\* and a part of a chunk came with it.
LEMMA ErrorPromises ==
  ASSUME PInv, S!IoError
  PROVE  Truths'
<1>1. /\ phase' = "report" /\ ioerr' = ioerr + 1
      /\ UNCHANGED <<pushed, staging, stored, next, short, judge>>
  BY DEF S!IoError
<1>2. ioerr' # 0
  <2>1. ioerr \in Nat
    BY DownlinksAssumption DEF PInv, SInv, S!TypeOK
  <2> QED
    BY <1>1, <2>1
<1>3. PlacedSoFar' /\ Judged'
  BY <1>1, <1>2 DEF PlacedSoFar, Judged
<1>4. CASE S!OpenFails \/ S!ValidateFails
  <2>1. UNCHANGED <<offset, missing, out>>
    BY <1>4 DEF S!OpenFails, S!ValidateFails
  <2>2. CameWithChunk' /\ LostToOverlap' /\ GapsAreReal'
    BY <1>1, <2>1, BytesSame DEF PInv, Truths, GapsAreReal
  <2>3. WrittenToTheEnd'
    <3>1. CASE S!OpenFails
      <4>1. verdict' = "UNKNOWN"
        BY <3>1 DEF S!OpenFails, S!Drained, PInv, SInv, Receiving
      <4> QED
        BY <1>1, <4>1 DEF WrittenToTheEnd, Ended
    <3>2. CASE S!ValidateFails
      BY <1>1, <2>1, <3>2 DEF S!ValidateFails, PInv, Truths, WrittenToTheEnd, Ended, R!End
    <3> QED
      BY <1>4, <3>1, <3>2
  <2> QED
    BY <1>3, <2>2, <2>3 DEF Truths
<1>5. ASSUME phase = "place", verdict' = verdict PROVE WrittenToTheEnd'
  <2>1. verdict' = "UNKNOWN"
    BY <1>5 DEF PInv, SInv, Verdict
  <2> QED
    BY <1>1, <2>1 DEF WrittenToTheEnd, Ended
<1>6. ASSUME phase = "place", NEW end \in S!Positions, S!InfillFails(end),
             \A i \in 1 .. Len(stored) : i >= next => end <= stored[i].target
      PROVE  Truths'
  <2>1. PICK n \in offset .. end - 1 : out' = S!Infilled(offset, n)
    BY <1>6 DEF S!InfillFails
  <2>2. offset < end /\ S!Infill(offset, end) /\ verdict' = verdict
    BY <1>6 DEF S!InfillFails
  <2>3. offset <= end
    BY <2>2, Bounds DEF PInv, SInv, S!TypeOK
  <2>4. LostToOverlap' /\ GapsAreReal'
    BY <1>1, <1>6, <2>2, <2>3, ListedPromises
  <2>5. CameWithChunk'
    <3>1. \A p \in S!Positions : out'[p] \in {S!Zero, out[p]}
      BY <2>1, Zeros DEF PInv, SInv
    <3>2. S!Zero \notin S!Positions
      BY Bounds
    <3> QED
      BY <1>1, <3>1, <3>2 DEF PInv, Truths, CameWithChunk, S!Covers
  <2> QED
    BY <1>3, <1>5, <1>6, <2>2, <2>4, <2>5 DEF Truths
<1>7. CASE S!Placing /\ S!InfillFails(stored[next].target)
  BY <1>6, <1>7, NextIsFirst DEF S!Placing
<1>8. CASE phase = "place" /\ next > Len(stored) /\ S!InfillFails(ExpectedSize)
  <2>1. \A i \in 1 .. Len(stored) : ~(i >= next)
    BY <1>8 DEF PInv, SInv, S!TypeOK
  <2>2. ExpectedSize \in S!Positions
    BY Bounds
  <2> QED
    BY <1>6, <1>8, <2>1, <2>2
<1>9. CASE S!PlaceFails
  <2> DEFINE t == stored[next].target
             z == stored[next].size
             filled == S!Infilled(offset, t)
  <2>1. PICK n \in 0 .. z - 1 : out' = S!Written(filled, stored[next], n)
    BY <1>9 DEF S!PlaceFails
  <2>2. /\ S!Placing /\ phase = "place" /\ offset <= t /\ stored[next].actual + z <= Len(staging)
        /\ S!Infill(offset, t) /\ verdict' = verdict
    BY <1>9 DEF S!PlaceFails, S!Placing
  <2>3. next \in 1 .. Len(stored) /\ t \in Nat /\ z \in Nat
    BY <2>2, NextIsFirst, StoredParts DEF PInv, SInv
  <2>4. n \in 0 .. z /\ n \in Nat /\ n < z
    BY <2>1, <2>3
  <2>5. LostToOverlap' /\ GapsAreReal'
    BY <1>1, <2>2, NextIsFirst, ListedPromises
  <2>6. /\ filled \in [S!Positions -> Byte]
        /\ \A p \in S!Positions : filled[p] \in {S!Zero, out[p]}
    BY Zeros DEF PInv, SInv
  <2> HIDE DEF filled
  <2>7. \A p \in S!Positions :
          IF t <= p /\ p < t + n THEN out'[p] \in S!Positions ELSE out'[p] = filled[p]
    BY <2>1, <2>2, <2>3, <2>4, <2>6, WrittenParts DEF PInv
  <2>8. CameWithChunk'
    <3> SUFFICES ASSUME NEW p \in S!Positions, out'[p] \in S!Positions PROVE S!Covers(p)'
      BY DEF CameWithChunk
    <3>1. S!Zero \notin S!Positions /\ p \in Nat
      BY Bounds
    <3>2. out[p] \in S!Positions \/ (t <= p /\ p < t + n)
      BY <2>6, <2>7, <3>1
    <3>3. t <= p /\ p < t + n => t <= p /\ p < EndOf(next)
      BY <2>3, <2>4, <3>1 DEF EndOf
    <3>4. S!Covers(p)
      BY <2>2, <2>3, <3>2, <3>3, PushedFromStored DEF PInv, Truths, CameWithChunk
    <3> QED
      BY <1>1, <3>4 DEF S!Covers
  <2> QED
    BY <1>3, <1>5, <2>2, <2>5, <2>8 DEF Truths
<1> QED
  BY <1>4, <1>7, <1>8, <1>9 DEF S!IoError

\* The status is decided, or told.
LEMMA VerdictPromises ==
  ASSUME PInv, S!Validate \/ S!Report
  PROVE  Truths'
<1>1. UNCHANGED <<pushed, stored, next, offset, missing, out, short, ioerr, judge>>
      /\ phase' \in {"report", "reported"}
  BY DEF S!Validate, S!Report, S!fileVars
<1>2. CameWithChunk' /\ LostToOverlap'
  BY <1>1, BytesSame DEF PInv, Truths
<1>3. PlacedSoFar'
  BY <1>1 DEF PlacedSoFar
<1>4. S!Matches' <=> S!Matches
  BY <1>1 DEF S!Matches
<1>5. GapsAreReal'
  BY <1>1 DEF PInv, Truths, GapsAreReal
<1>6. WrittenToTheEnd'
  <2>1. Ended' => Ended
    BY DEF S!Validate, S!Report, Ended
  <2> QED
    BY <1>1, <2>1 DEF PInv, Truths, WrittenToTheEnd, R!End
<1>7. Judged'
  <2>1. CASE S!Validate
    <3>1. verdict' \in S!Verdicts /\ judge \in {"lenient", "none", "own", "shared"}
      BY <2>1 DEF S!Validate, PInv, SInv, S!TypeOK
    <3>2. verdict' = "CRC_FAILED" => judge # "lenient" /\ (judge = "own" => ~S!Matches)
      BY <3>1 DEF S!Verdicts
    <3> QED
      BY <1>1, <1>4, <3>2 DEF Judged
  <2>2. CASE S!Report
    BY <1>1, <1>4, <2>2 DEF S!Report, PInv, Truths, Judged
  <2> QED
    BY <2>1, <2>2
<1> QED
  BY <1>2, <1>3, <1>5, <1>6, <1>7 DEF Truths

\* The promise's invariant is inductive.
LEMMA PromiseStepKeeps == PInv /\ [S!Next]_S!vars => PInv'
<1> SUFFICES ASSUME PInv, [S!Next]_S!vars PROVE PInv'
  OBVIOUS
<1>1. SInv'
  BY SessionStepKeeps DEF PInv, Truths
<1>2. CASE UNCHANGED S!vars
  <2>1. UNCHANGED <<pushed, phase, stored, next, offset, missing, out, verdict, judge, short, ioerr>>
    BY <1>2 DEF S!vars, S!fileVars
  <2>2. CameWithChunk' /\ LostToOverlap'
    BY <2>1, BytesSame DEF PInv, Truths
  <2>3. PlacedSoFar' /\ WrittenToTheEnd'
    BY <2>1 DEF PInv, Truths, PlacedSoFar, EndOf, WrittenToTheEnd, Ended, R!End
  <2>4. Judged' /\ GapsAreReal'
    BY <2>1 DEF PInv, Truths, Judged, S!Matches, GapsAreReal
  <2> QED
    BY <1>1, <2>2, <2>3, <2>4 DEF PInv, Truths
<1>3. CASE S!Next
  BY <1>1, <1>3, ReceivingPromises, DiscardPromises, PlacePromises, EndPlacingPromises,
     SharePromises, ErrorPromises, VerdictPromises
     DEF PInv, Truths, S!Next, S!LoopStep
<1> QED
  BY <1>2, <1>3

\* What the invariant says of the report.
LEMMA ReportFits ==
  ASSUME PInv, S!Report
  PROVE  R!Report
<1> DEFINE bytes == [p \in S!Kept |-> out[p]]
           r == [size |-> S!Size, bytes |-> bytes, missing |-> S!Lost, status |-> verdict]
<1>1. /\ phase = "report" /\ phase' = "reported"
      /\ UNCHANGED <<closed, pushed, offset, missing, out, verdict, judge, short, ioerr>>
  BY DEF S!Report, S!fileVars
<1>2. closed /\ S!Reports = {} /\ S!Faults' = S!Faults
  BY <1>1 DEF PInv, SInv, ClosedBy, S!Reports, S!Faults
<1>3. S!Reports' = {r}
  BY <1>1 DEF S!Reports, S!Size, S!Kept, S!Lost, S!InMissing
<1>4. /\ offset \in Nat /\ ExpectedSize \in Nat /\ short \in Nat /\ ioerr \in Nat
      /\ out \in [S!Positions -> Byte]
      /\ verdict \in {"UNKNOWN", "PARTIAL", "CRC_FAILED", "COMPLETED"} /\ offset \in S!Positions
  BY Bounds DEF PInv, SInv, S!TypeOK, Byte
<1>5. /\ DOMAIN bytes = S!Kept /\ \A p \in S!Kept : bytes[p] = out[p]
      /\ r.size = S!Size /\ r.bytes = bytes /\ r.missing = S!Lost /\ r.status = verdict
  OBVIOUS
<1> HIDE DEF r, bytes
<1>6. S!Kept \subseteq S!Positions /\ \A p \in S!Kept : out[p] \in S!Positions
  BY DEF S!Kept
<1>7. S!Lost \subseteq S!Positions /\ \A p \in S!Lost : S!InMissing(p)
  BY DEF S!Lost
<1>8. missing = <<>> => S!Lost = {}
  <2>1. ASSUME missing = <<>>, NEW p \in S!Lost PROVE FALSE
    <3>1. Len(missing) = 0 /\ S!InMissing(p)
      BY <1>7, <2>1
    <3> QED
      BY <3>1 DEF S!InMissing
  <2> QED
    BY <2>1
<1>9. missing # <<>> => S!Lost # {}
  <2> SUFFICES ASSUME missing # <<>> PROVE \E p : p \in S!Lost
    OBVIOUS
  <2>1. missing \in Seq(Gap) /\ Len(missing) \in Nat /\ 1 \in 1 .. Len(missing)
    BY DEF PInv, SInv, S!TypeOK, Gap
  <2> DEFINE p == missing[1].offset
  <2>2. missing[1] \in Gap
    BY <2>1
  <2>3. p \in S!Positions /\ p \in Nat /\ missing[1].size \in Nat
    BY <2>2, Bounds DEF Gap
  <2>4. missing[1].size > 0
    BY <2>1 DEF PInv, Truths, GapsAreReal
  <2>5. p <= p /\ p < p + missing[1].size
    BY <2>3, <2>4
  <2>6. S!InMissing(p)
    BY <2>1, <2>5 DEF S!InMissing
  <2> QED
    BY <2>3, <2>6 DEF S!Lost
<1>10. verdict # "UNKNOWN" => S!Size = offset /\ Solid
  <2>1. verdict # "UNKNOWN" => ~S!Unfinished
    BY DEF S!Unfinished
  <2> QED
    BY <2>1, SolidFile DEF S!Size, PInv, SInv
<1>11. verdict # "UNKNOWN" => (R!Whole(r) <=> S!Matches)
  <2>1. ASSUME NEW p \in 0 .. ExpectedSize - 1
        PROVE  p \in S!Kept /\ bytes[p] = p <=> out[p] = p
    <3>1. p \in S!Positions
      BY <1>4, Bounds
    <3> QED
      BY <1>5, <3>1 DEF S!Kept
  <2> QED
    BY <1>5, <1>10, <2>1 DEF R!Whole, S!Matches
<1>12. R!BytesArrived(r)
  <2>1. \A p \in S!Kept : \E i \in 1 .. Len(pushed) : R!Has(i, p)
    BY <1>6 DEF PInv, Truths, CameWithChunk, S!Covers, R!Has, R!End
  <2>2. ASSUME "short" \notin S!Faults, NEW p \in S!Kept PROVE bytes[p] = p
    <3>1. short = 0
      BY <1>4, <2>2 DEF S!Faults
    <3>2. out[p] \in {p, S!Zero, S!Blank}
      BY <1>6, <3>1 DEF PInv, SInv, S!NothingMisplaced
    <3> QED
      BY <1>5, <1>6, <3>2, Bounds
  <2> QED
    BY <1>5, <2>1, <2>2 DEF R!BytesArrived, R!Index
<1>13. R!LossesAreOverlaps(r)
  BY <1>5, <1>7 DEF PInv, Truths, LostToOverlap, Overtaken, R!LossesAreOverlaps, R!Index
<1>14. R!SizeIsTrue(r)
  <2>1. r.missing \cap DOMAIN r.bytes = {}
    <3>1. ASSUME NEW p \in S!Lost, p \in S!Kept PROVE FALSE
      <4>1. out[p] \in {S!Zero, S!Blank} /\ out[p] \in S!Positions
        BY <1>6, <1>7, <3>1 DEF PInv, SInv, S!Accounted
      <4> QED
        BY <4>1, Bounds
    <3> QED
      BY <1>5, <3>1
  <2>2. CASE verdict = "UNKNOWN"
    BY <1>5, <2>1, <2>2 DEF S!Size, R!SizeIsTrue
  <2>3. CASE verdict # "UNKNOWN"
    <3>1. ASSUME NEW p \in S!Positions PROVE p \in S!Lost \cup S!Kept <=> p < offset
      <4>1. IF p < offset THEN out[p] # S!Blank /\ (out[p] = S!Zero <=> S!InMissing(p))
                          ELSE out[p] = S!Blank /\ ~S!InMissing(p)
        BY <1>10, <2>3 DEF Solid
      <4>2. out[p] \in S!Positions \/ out[p] = S!Zero \/ out[p] = S!Blank
        BY <1>4 DEF Byte
      <4>3. S!Blank \notin S!Positions /\ S!Zero \notin S!Positions
        BY Bounds
      <4>4. (p \in S!Lost <=> S!InMissing(p)) /\ (p \in S!Kept <=> out[p] \in S!Positions)
        BY DEF S!Lost, S!Kept
      <4> QED
        BY <4>1, <4>2, <4>3, <4>4
    <3>2. \A p : p \in 0 .. offset - 1 <=> p \in S!Positions /\ p < offset
      <4>1. ASSUME NEW p \in 0 .. offset - 1 PROVE p \in S!Positions /\ p < offset
        BY <1>4, Bounds
      <4>2. ASSUME NEW p \in S!Positions, p < offset PROVE p \in 0 .. offset - 1
        <5>1. p \in Nat
          BY Bounds
        <5> QED
          BY <1>4, <4>2, <5>1
      <4> QED
        BY <4>1, <4>2
    <3>3. S!Lost \cup S!Kept = 0 .. offset - 1
      BY <1>6, <1>7, <3>1, <3>2
    <3>4. offset >= ExpectedSize /\ (offset = ExpectedSize \/ \E i \in 1 .. Len(pushed) : offset = R!End(i))
      BY <1>1, <2>3 DEF PInv, Truths, WrittenToTheEnd, Ended
    <3> QED
      BY <1>5, <1>10, <2>1, <2>3, <3>3, <3>4 DEF R!SizeIsTrue, R!Index
  <2> QED
    BY <2>2, <2>3
<1>15. R!StatusIsTrue(r)
  <2>1. /\ verdict = "COMPLETED" => missing = <<>> /\ judge # "none" /\ (judge = "own" => S!Matches)
        /\ verdict = "PARTIAL" => missing # <<>>
        /\ verdict = "CRC_FAILED" => missing = <<>>
        /\ verdict = "UNKNOWN" => ~(short = 0 /\ ioerr = 0)
    BY <1>1 DEF PInv, SInv, Verdict
  <2>2. verdict = "CRC_FAILED" /\ ioerr = 0 => judge # "lenient" /\ (judge = "own" => ~S!Matches)
    BY <1>1 DEF PInv, Truths, Judged
  <2>3. ("io" \notin S!Faults => ioerr = 0) /\ (S!Faults = {} => short = 0 /\ ioerr = 0)
    BY <1>4 DEF S!Faults
  <2>4. CASE verdict = "COMPLETED"
    BY <1>5, <1>8, <1>11, <2>1, <2>4 DEF R!StatusIsTrue
  <2>5. CASE verdict = "PARTIAL"
    BY <1>5, <1>9, <2>1, <2>5 DEF R!StatusIsTrue
  <2>6. CASE verdict = "CRC_FAILED"
    BY <1>5, <1>8, <1>11, <2>1, <2>2, <2>3, <2>6 DEF R!StatusIsTrue
  <2>7. CASE verdict = "UNKNOWN"
    BY <1>5, <2>1, <2>3, <2>7 DEF R!StatusIsTrue
  <2> QED
    BY <1>4, <2>4, <2>5, <2>6, <2>7
<1> QED
  BY <1>1, <1>2, <1>3, <1>12, <1>13, <1>14, <1>15 DEF R!Report

\* A session step is one of the promise's, or none.
LEMMA PromiseStep == PInv /\ [S!Next]_S!vars => [R!Next]_R!vars
<1> SUFFICES ASSUME PInv, [S!Next]_S!vars PROVE [R!Next]_R!vars
  OBVIOUS
<1>1. ASSUME UNCHANGED <<phase, offset, missing, out, verdict>> \/ (phase # "reported" /\ phase' # "reported")
      PROVE  S!Reports' = S!Reports
  BY <1>1 DEF S!Reports, S!Size, S!Kept, S!Lost, S!InMissing
<1>2. ASSUME UNCHANGED <<short, ioerr>> PROVE S!Faults' = S!Faults
  BY <1>2 DEF S!Faults
<1>3. CASE UNCHANGED S!vars
  BY <1>1, <1>2, <1>3 DEF S!vars, S!fileVars, R!vars
<1>4. ASSUME NEW c \in S!Chunk, S!PushChunk(c) PROVE R!Next
  <2>1. R!Arrive(c)
    BY <1>1, <1>2, <1>4 DEF S!PushChunk, S!fileVars, R!Arrive
  <2> QED
    BY <2>1 DEF R!Next
<1>5. CASE S!Finish
  <2>1. R!Close
    BY <1>1, <1>2, <1>5 DEF S!Finish, S!fileVars, R!Close
  <2> QED
    BY <2>1 DEF R!Next
<1>10. CASE S!Share
  <2>1. /\ closed /\ judge # "lenient" /\ judge' = "shared" /\ phase # "reported" /\ phase' # "reported"
        /\ UNCHANGED <<closed, pushed, short, ioerr>>
    BY <1>10 DEF S!Share
  <2>2. S!Reports = {} /\ S!Reports' = {} /\ S!Faults' = S!Faults
    BY <2>1 DEF S!Reports, S!Faults
  <2>3. R!Share
    BY <2>1, <2>2 DEF R!Share
  <2> QED
    BY <2>3 DEF R!Next
<1>6. CASE S!Store
  <2>1. /\ phase = "receive" /\ short' \in {short, short + 1}
        /\ UNCHANGED <<closed, pushed, phase, offset, missing, out, verdict, ioerr, judge>>
    BY <1>6 DEF S!Store, S!fileVars
  <2>2. S!Reports = {} /\ S!Reports' = {}
    BY <2>1 DEF S!Reports
  <2>3. short \in Nat
    BY DEF PInv, SInv, S!TypeOK
  <2>4. S!Faults' \in {S!Faults, S!Faults \cup {"short"}}
    BY <2>1, <2>3 DEF S!Faults
  <2>5. CASE S!Faults' = S!Faults
    BY <2>1, <2>2, <2>5 DEF R!vars
  <2>6. CASE S!Faults' = S!Faults \cup {"short"}
    <3>1. R!Fail
      BY <2>1, <2>2, <2>6 DEF R!Fail
    <3> QED
      BY <3>1 DEF R!Next
  <2> QED
    BY <2>4, <2>5, <2>6
<1>7. CASE S!IoError
  <2>1. /\ ioerr' = ioerr + 1 /\ phase # "reported" /\ phase' # "reported"
        /\ UNCHANGED <<closed, pushed, short, judge>>
    BY <1>7 DEF S!IoError, S!Drained, S!OpenFails, S!Placing, S!PlaceFails, S!ValidateFails
  <2>2. S!Reports = {} /\ S!Reports' = {}
    BY <2>1 DEF S!Reports
  <2>3. ioerr \in Nat
    BY DEF PInv, SInv, S!TypeOK
  <2>4. S!Faults' = S!Faults \cup {"io"}
    BY <2>1, <2>3 DEF S!Faults
  <2>5. R!Fail
    BY <2>1, <2>2, <2>4 DEF R!Fail
  <2> QED
    BY <2>5 DEF R!Next
<1>8. CASE S!StartPlacing \/ S!Discard \/ S!Place \/ S!EndPlacing \/ S!Validate
  <2>1. phase # "reported" /\ phase' # "reported" /\ UNCHANGED <<closed, pushed, short, ioerr, judge>>
    BY <1>8 DEF S!StartPlacing, S!Drained, S!Discard, S!Place, S!Placing, S!EndPlacing, S!Validate
  <2> QED
    BY <1>1, <1>2, <2>1 DEF R!vars
<1>9. CASE S!Report
  BY <1>9, ReportFits DEF R!Next
<1> QED
  BY <1>3, <1>4, <1>5, <1>6, <1>7, <1>8, <1>9, <1>10 DEF S!Next, S!LoopStep

\* Every session keeps the promise: it reports once, on bytes that came with chunks, and gives
\* a byte that came up for an overlap alone.
THEOREM SessionsKeepThePromise == S!Spec => KeepsThePromise
<1>1. S!Init => R!Init
  <2>1. S!Init => S!Faults = {} /\ S!Reports = {}
    BY DEF S!Init, S!Faults, S!Reports
  <2> QED
    BY <2>1 DEF S!Init, R!Init
<1> QED
  BY <1>1, PromiseInit, PromiseStepKeeps, PromiseStep, PTL DEF S!Spec, R!Spec, KeepsThePromise

-----------------------------------------------------------------------------
(* The two halves together.                                                 *)

\* The run of MCDownlinks shows what it shows of either half: the connection and the session
\* each behave as their own module says.
THEOREM EachHalfIsItself == MCSpec => Spec /\ S!Spec
<1>1. MCInit => Init /\ S!Init
  BY DEF MCInit
<1>2. [MCNext]_<<half, vars, sessionVars>> => [Next]_vars
  BY DEF MCNext
<1>3. [MCNext]_<<half, vars, sessionVars>> => [S!Next]_S!vars
  BY DEF MCNext, sessionVars, S!vars, S!fileVars
<1> QED
  BY <1>1, <1>2, <1>3, PTL DEF MCSpec, Spec, S!Spec
===============================================================================
