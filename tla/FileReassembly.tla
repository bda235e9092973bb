---------------------------- MODULE FileReassembly ----------------------------
(***************************************************************************)
(* What a downlink session promises to those who read its report, without  *)
(* the queue, the staging file, the sort and the steps in which the file   *)
(* is written: chunks arrive until the session is closed, and then it      *)
(* reports once, on a file that is accounted for byte by byte.  A byte in  *)
(* the file came with a chunk; one that came is reported lost only if it   *)
(* is past a chunk that reaches into its own; and the status says what is  *)
(* true of the file, or that something failed.  A checksum is only worth   *)
(* something while no other session uses the validator.                    *)
(*                                                                         *)
(* As in DownlinkSession a byte is its position in the file on board.      *)
(***************************************************************************)
EXTENDS Naturals, Sequences

CONSTANTS
  Chunks, \* what may arrive: records of an offset and a length
  Size    \* of the file on board, as announced

VARIABLES
  arrived, \* the chunks, in order of arrival
  closed,  \* no more will come
  faults,  \* the kinds of failures so far: "short" write, "io"
  judge,   \* who decides on a file without gaps: nobody (lenient), a checksum that did not
           \* come (none), that of the file (own), or one that others may change (shared)
  reports  \* the set of reports, of one at most

vars == <<arrived, closed, faults, judge, reports>>

Init ==
  /\ arrived = <<>> /\ ~closed
  /\ faults = {} /\ judge \in {"lenient", "none"}
  /\ reports = {}

Index == 1 .. Len(arrived)
End(i) == arrived[i].off + arrived[i].len
Has(i, p) == arrived[i].off <= p /\ p < End(i)

\* A report r has the size of the file, its bytes by position, the positions listed as missing,
\* and a status.
Whole(r) == r.size = Size /\ \A p \in 0 .. Size - 1 : p \in DOMAIN r.bytes /\ r.bytes[p] = p

\* Chunk k begins before chunk i, or with it, and ends in it, up to position p.
ReachesInto(k, i, p) ==
  arrived[k].off <= arrived[i].off /\ arrived[i].off < End(k) /\ End(k) <= p

BytesArrived(r) ==
  /\ \A p \in DOMAIN r.bytes : \E i \in Index : Has(i, p)
  /\ "short" \notin faults => \A p \in DOMAIN r.bytes : r.bytes[p] = p

LossesAreOverlaps(r) ==
  \A p \in r.missing, i \in Index : Has(i, p) => \E k \in Index : ReachesInto(k, i, p)

\* A file that is written to its end has every byte or lists it; one that is not keeps the
\* announced size.
SizeIsTrue(r) ==
  /\ r.missing \cap DOMAIN r.bytes = {}
  /\ IF r.status = "UNKNOWN" THEN r.size = Size
     ELSE /\ r.missing \cup DOMAIN r.bytes = 0 .. r.size - 1
          /\ r.size >= Size
          /\ r.size = Size \/ \E i \in Index : r.size = End(i)

StatusIsTrue(r) ==
  \/ r.status = "COMPLETED" /\ r.missing = {} /\ judge # "none" /\ (judge = "own" => Whole(r))
  \/ r.status = "PARTIAL" /\ r.missing # {}
  \/ /\ r.status = "CRC_FAILED" /\ r.missing = {}
     /\ "io" \notin faults => judge # "lenient" /\ (judge = "own" => ~Whole(r))
  \/ r.status = "UNKNOWN" /\ faults # {}

Arrive(c) ==
  /\ ~closed
  /\ arrived' = Append(arrived, c)
  /\ UNCHANGED <<closed, faults, judge, reports>>

Close ==
  /\ ~closed
  /\ closed' = TRUE
  /\ judge' \in (IF judge = "none" THEN {"none", "own"} ELSE {judge})
  /\ UNCHANGED <<arrived, faults, reports>>

Share ==
  /\ closed /\ reports = {} /\ judge # "lenient"
  /\ judge' = "shared"
  /\ UNCHANGED <<arrived, closed, faults, reports>>

Fail ==
  /\ reports = {}
  /\ \E kind \in {"short", "io"} : faults' = faults \cup {kind}
  /\ UNCHANGED <<arrived, closed, judge, reports>>

Report ==
  /\ closed /\ reports = {}
  /\ \E r \in reports' :
       /\ reports' = {r}
       /\ BytesArrived(r) /\ LossesAreOverlaps(r) /\ SizeIsTrue(r) /\ StatusIsTrue(r)
  /\ UNCHANGED <<arrived, closed, faults, judge>>

Next == Close \/ Share \/ Fail \/ Report \/ \E c \in Chunks : Arrive(c)

Spec == Init /\ [][Next]_vars
===============================================================================
