----------------------------- MODULE MCDownlinks -----------------------------
(* Both halves of a downlink for TLC: the F Prime side that opens and ends  *)
(* sessions (FprimeDownlink) and the session that reassembles a file        *)
(* (DownlinkSession).  A behaviour is one of the one or of the other.       *)
EXTENDS FprimeDownlink

CONSTANTS Capacity, ExpectedSize, MaxOffset, MaxLen, MaxChunks, ShortWrites, IoErrors

ASSUME DownlinksAssumption ==
    /\ {Files, ExpectedSize, MaxOffset, MaxLen, MaxChunks, ShortWrites, IoErrors} \subseteq Nat
    /\ Capacity \in Nat \ {0}

VARIABLES half, \* which of the two
          queue, closed, pushed, phase, staging, stored, next, offset, missing, out,
          verdict, judge, short, ioerr

S == INSTANCE DownlinkSession WITH status <- verdict

sessionVars == <<queue, closed, pushed, phase, staging, stored, next, offset, missing, out,
                 verdict, judge, short, ioerr>>

MCInit == half \in {"session", "files"} /\ Init /\ S!Init /\ (half = "files" => judge = "none")

MCNext ==
    \/ half = "files" /\ Next /\ UNCHANGED <<half, sessionVars>>
    \/ half = "session" /\ S!Next /\ UNCHANGED <<half, vars>>

MCSpec ==
    /\ MCInit /\ [][MCNext]_<<half, vars, sessionVars>>
    /\ \A f \in Ids : WF_vars(half = "files" /\ SessionStep(f))
    /\ WF_sessionVars(half = "session" /\ S!LoopStep)

\* Every position of the file is placed or in a reported gap, and a byte stands at
\* its own position (DownlinkSession).
FileIsAccounted == S!FileIsAccounted

\* The reported status is true, and chunks that cover the file complete it
\* (DownlinkSession).
ReportIsTrue == S!ReportIsTrue

\* A session that was ended reports, whatever fails (DownlinkSession), and leaves the list of
\* transfers in progress (FprimeDownlink).
EndedReports == S!FinishedReports /\ EndedIsReported

R == INSTANCE FileReassembly WITH
       Chunks <- S!Chunk, Size <- ExpectedSize, arrived <- pushed, faults <- S!Faults,
       reports <- S!Reports

\* A session implements FileReassembly: whatever the order of arrival, whatever is repeated or
\* overlaps, it reports once; the bytes that it does not list as missing came with a chunk
\* and stand at their own positions, a byte that came is only given up to an overlap, and the status is true.
KeepsThePromise == R!Spec
=============================================================================
