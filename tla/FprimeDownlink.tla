---------------------------- MODULE FprimeDownlink ----------------------------
(***************************************************************************)
(* Successive file downlinks on one F Prime connection: FileDownlink.Write *)
(* (pkg/fprime/file.go) opens a session on a start packet and ends it on   *)
(* an end or cancel packet or on the next start; the goroutine of an ended *)
(* session (pkg/dwn/downlink.go) is still writing and validating its file  *)
(* while the next session receives.  All sessions of a connection share    *)
(* one fileDownlinkValidator, its expected checksum and its hasher.        *)
(*                                                                         *)
(* A file is two chunks.  A checksum is represented by what it was         *)
(* computed from.                                                          *)
(***************************************************************************)
EXTENDS Naturals, Sequences, FiniteSets

CONSTANTS
  Files,      \* bound: the files sent, 1 .. Files
  Disconnects \* the connection may be lost

Ids == 1 .. Files
Pieces == 1 .. 2
Whole(f) == <<f, f>>
NoSession == 0

VARIABLES
  link,       \* what the flight software sends next: [file, packet] (external)
  connected,  \* downlinkLoop is running
  current,    \* f.session, named by the file of its start packet
  session,    \* file -> none, open, ended (queue closed), or where its goroutine is
  content,    \* file -> the pieces its session stored, by the file they belong to
  ended,      \* history: file -> how its session was ended: no, end, other
  hashValid,  \* fileValidator.ExpectedHashValid
  hash,       \* fileValidator.ExpectedHash
  hasher,     \* fileValidator.Hasher: the contents fed to it since its reset
  status,     \* file -> status of the FileDownlink message, or none
  inProgress  \* host.FileTransfer's DownlinkInProgress

validator == <<hashValid, hash>>
vars == <<link, connected, current, session, content, ended, validator, hasher, status, inProgress>>

Init ==
  /\ link = [file |-> 1, packet |-> "start"] /\ connected = TRUE
  /\ current = NoSession
  /\ session = [f \in Ids |-> "none"]
  /\ content = [f \in Ids |-> <<0, 0>>]
  /\ ended = [f \in Ids |-> "no"]
  /\ hashValid = FALSE /\ hash = <<0, 0>> /\ hasher = <<>>
  /\ status = [f \in Ids |-> "none"]
  /\ inProgress = {}

-----------------------------------------------------------------------------
(* The flight software sends, for every file, a start packet, its pieces in *)
(* order and an end packet; it may give up with a cancel packet.  Any       *)
(* packet may be lost.                                                      *)

Following ==
  CASE link.packet = "start" -> [link EXCEPT !.packet = "piece 1"]
    [] link.packet = "piece 1" -> [link EXCEPT !.packet = "piece 2"]
    [] link.packet = "piece 2" -> [link EXCEPT !.packet = "end"]
    [] OTHER -> [file |-> link.file + 1, packet |-> "start"]

Sending == connected /\ link.file <= Files

Lose ==
  /\ Sending
  /\ link' = Following
  /\ UNCHANGED <<connected, current, session, content, ended, validator, hasher, status, inProgress>>

\* session.Finish() on the current session.
EndSession(how) ==
  /\ session' = [session EXCEPT ![current] = "ended"]
  /\ ended' = [ended EXCEPT ![current] = how]

\* Mutant: the session in progress is dropped without Finish.
StartOver ==
  /\ Sending /\ link.packet = "start"
  /\ session' = [session EXCEPT ![link.file] = "open"]
  /\ current' = link.file
  /\ hashValid' = FALSE
  /\ inProgress' = inProgress \cup {link.file}
  /\ link' = Following
  /\ UNCHANGED <<connected, content, ended, hash, hasher, status>>

\* FileStartPacket.  Without a temporary file there is no new session.
Start ==
  /\ Sending /\ link.packet = "start"
  /\ ended' = [f \in Ids |-> IF f = current THEN "other" ELSE ended[f]]
  /\ hashValid' = FALSE
  /\ \E created \in BOOLEAN :
       /\ session' = [f \in Ids |-> IF f = current THEN "ended"
                                    ELSE IF f = link.file /\ created THEN "open" ELSE session[f]]
       /\ current' = IF created THEN link.file ELSE NoSession
       /\ inProgress' = IF created THEN inProgress \cup {link.file} ELSE inProgress
  /\ link' = Following
  /\ UNCHANGED <<connected, content, hash, hasher, status>>

\* FileDataPacket: dropped without a session; a piece whose place is taken is discarded by the
\* session (DownlinkSession).
Piece(i) ==
  /\ Sending /\ link.packet = (IF i = 1 THEN "piece 1" ELSE "piece 2")
  /\ content' = IF current # NoSession /\ content[current][i] = 0
                THEN [content EXCEPT ![current][i] = link.file] ELSE content
  /\ link' = Following
  /\ UNCHANGED <<connected, current, session, ended, validator, hasher, status, inProgress>>

\* FileEndPacket: the checksum goes to the shared validator.
End ==
  /\ Sending /\ link.packet = "end"
  /\ IF current = NoSession THEN UNCHANGED <<session, ended, validator>>
     ELSE /\ hash' = Whole(link.file) /\ hashValid' = TRUE
          /\ EndSession("end")
  /\ current' = NoSession
  /\ link' = Following
  /\ UNCHANGED <<connected, content, hasher, status, inProgress>>

\* FileCancelPacket.
Cancel ==
  /\ Sending /\ link.packet # "start"
  /\ IF current = NoSession THEN UNCHANGED <<session, ended>> ELSE EndSession("other")
  /\ current' = NoSession
  /\ link' = [file |-> link.file + 1, packet |-> "start"]
  /\ UNCHANGED <<connected, content, validator, hasher, status, inProgress>>

\* downlinkLoop returns when its channel is closed; nobody ends the current session.
Disconnect ==
  /\ Disconnects /\ connected
  /\ connected' = FALSE
  /\ UNCHANGED <<link, current, session, content, ended, validator, hasher, status, inProgress>>

-----------------------------------------------------------------------------
(* The goroutine of an ended session, once its file is reassembled.         *)

Report(f, verdict) ==
  /\ status' = [status EXCEPT ![f] = verdict]
  /\ session' = [session EXCEPT ![f] = "reported"]

\* Mutant: a file with pieces missing is not reported.
ReassembleSilent(f) ==
  /\ session[f] = "ended"
  /\ \A i \in Pieces : content[f][i] # 0
  /\ session' = [session EXCEPT ![f] = "validate"]
  /\ UNCHANGED <<link, connected, current, content, ended, validator, hasher, status, inProgress>>

\* With pieces missing there is no validation.
Reassemble(f) ==
  /\ session[f] = "ended"
  /\ IF \E i \in Pieces : content[f][i] = 0
     THEN Report(f, "PARTIAL")
     ELSE session' = [session EXCEPT ![f] = "validate"] /\ UNCHANGED status
  /\ UNCHANGED <<link, connected, current, content, ended, validator, hasher, inProgress>>

\* Validate: ExpectedHashValid, then Hasher.Reset().
ValidateBegin(f) ==
  /\ session[f] = "validate"
  /\ IF hashValid
     THEN hasher' = <<>> /\ session' = [session EXCEPT ![f] = "feed"] /\ UNCHANGED status
     ELSE Report(f, "CRC_FAILED") /\ UNCHANGED hasher
  /\ UNCHANGED <<link, connected, current, content, ended, validator, inProgress>>

\* Hasher.Update.
ValidateFeed(f) ==
  /\ session[f] = "feed"
  /\ hasher' = Append(hasher, content[f])
  /\ session' = [session EXCEPT ![f] = "compare"]
  /\ UNCHANGED <<link, connected, current, content, ended, validator, status, inProgress>>

\* Hasher.Finish() and the comparison with ExpectedHash.
ValidateEnd(f) ==
  /\ session[f] = "compare"
  /\ Report(f, IF hasher = <<hash>> THEN "COMPLETED" ELSE "CRC_FAILED")
  /\ UNCHANGED <<link, connected, current, content, ended, validator, hasher, inProgress>>

\* FileTransferBus handles the message.
Notify(f) ==
  /\ session[f] = "reported" /\ f \in inProgress
  /\ inProgress' = inProgress \ {f}
  /\ UNCHANGED <<link, connected, current, session, content, ended, validator, hasher, status>>

SessionStep(f) ==
  \/ Reassemble(f) \/ ValidateBegin(f) \/ ValidateFeed(f) \/ ValidateEnd(f) \/ Notify(f)

Next ==
  \/ Lose \/ Start \/ End \/ Cancel \/ Disconnect
  \/ \E i \in Pieces : Piece(i)
  \/ \E f \in Ids : SessionStep(f)

Spec == Init /\ [][Next]_vars

\* The goroutines of the sessions run; the link promises nothing.
FairSpec == Spec /\ \A f \in Ids : WF_vars(SessionStep(f))

-----------------------------------------------------------------------------
(* Properties                                                              *)

Phases == {"none", "open", "ended", "validate", "feed", "compare", "reported"}

TypeOK ==
  /\ link \in [file : 1 .. Files + 1, packet : {"start", "piece 1", "piece 2", "end"}]
  /\ {connected, hashValid} \subseteq BOOLEAN
  /\ current \in Ids \cup {NoSession}
  /\ session \in [Ids -> Phases]
  /\ content \in [Ids -> (Ids \cup {0}) \X (Ids \cup {0})]
  /\ ended \in [Ids -> {"no", "end", "other"}]
  /\ hash \in (Ids \cup {0}) \X (Ids \cup {0})
  /\ hasher \in Seq((Ids \cup {0}) \X (Ids \cup {0}))
  /\ status \in [Ids -> {"none", "PARTIAL", "CRC_FAILED", "COMPLETED"}]
  /\ inProgress \subseteq Ids

\* Only the current session is open: every session before it has had its queue closed, or
\* its goroutine and its entry among the transfers in progress would stay for ever.
OneOpenSession == \A f \in Ids : session[f] = "open" <=> f = current

\* A transfer leaves the list of those in progress only after its own status was emitted.
InProgressUntilReported ==
  \A f \in Ids : f \in inProgress \/ session[f] \in {"none", "reported"}

\* The sessions and the list of transfers in progress agree.
SessionsListed == TypeOK /\ OneOpenSession /\ InProgressUntilReported

\* Every session that was ended is reported and leaves the list of transfers in progress.
EndedIsReported ==
  \A f \in Ids : session[f] = "ended" ~> (status[f] # "none" /\ f \notin inProgress)

\* proto/pb/bus.proto:102: CRC_FAILED says that the file was "downlinked fully (i.e. no missing
\* chunks) but the CRC failed": not of a file that is right and was closed by its end packet.
CrcFailedIsReal ==
  \A f \in Ids : status[f] = "CRC_FAILED" => content[f] # Whole(f) \/ ended[f] # "end"

===============================================================================
