----------------------------- MODULE FprimeUplink -----------------------------
(***************************************************************************)
(* A file uplink over F Prime: Fsw.Uplink (pkg/fprime/fsw.go) feeds the    *)
(* client's bytes to the chunker goroutine of NewFileChunker, which feeds  *)
(* chunks to the goroutine of uplinkFile, which feeds packets to the port  *)
(* f.Up, read by the goroutine ConnectPipeline starts.  All ports are      *)
(* unbuffered channels of stream.Message (pkg/stream/message.go): a sender *)
(* offers a message, awaits its reply, and gives up at either point when   *)
(* the message's context is done; a receiver drops a message whose context *)
(* is done when it takes it, and stops replying when the context is done.  *)
(* Fsw.Request("cancel") writes a cancel packet through the same port       *)
(* without the lock.  When the connection ends downlinkLoop closes the     *)
(* port, and a send on it panics and ends the process.                     *)
(* The bytes of the client's stream are represented by their positions.    *)
(***************************************************************************)
EXTENDS Naturals, Sequences, FiniteSets

CONSTANTS
  Uplinks,     \* calls of Fsw.Uplink
  Size,        \* header.Size
  ChunkSize,   \* Config.UplinkChunkSize
  MaxRecv,     \* bound: bytes in one chunk of the client
  MaxBytes,    \* bound: bytes the client sends in all
  Cancellable, \* uplinks whose context may be cancelled
  Faulty,      \* uplinks whose source may fail before the end of the file
  MaxFailures  \* bound: failed writes, each of another kind of packet of an uplink

ASSUME UplinkAssumption ==
  /\ {Size, MaxRecv, MaxBytes, MaxFailures} \subseteq Nat
  /\ ChunkSize \in Nat \ {0}
  /\ Cancellable \subseteq Uplinks /\ Faulty \subseteq Uplinks

None == "none"
Idle == [stage |-> "recv", from |-> None, by |-> "snd", kind |-> "data", off |-> 0, lo |-> 0,
         len |-> 0, err |-> "nil"]

VARIABLES
  lock,     \* fileUplinkInProgress: the uplink that holds it
  main,     \* uplink -> where Fsw.Uplink is
  err,      \* uplink -> its local variable err
  done,     \* uplink -> its context is done
  pos,      \* uplink -> bytes received from the client
  chk,      \* uplink -> where the chunker is: recv, offer, await, reply, ended
  flushing, \* uplink -> the chunker's message is the nil that flushes the buffer
  chkErr,   \* uplink -> its reply
  buf,      \* uplink -> [lo, hi): the part of the client's stream in the buffer
  snd,      \* uplink -> where uplinkFile's goroutine is
  sndBg,    \* uplink -> its message has the background context
  sndErr,   \* uplink -> its reply
  chunk,    \* uplink -> the chunk it handles, as a part of the client's stream
  pkt,      \* uplink -> the packet it pushes: start, data, end
  started,  \* uplink -> fileUplink.sequenceIndex # 0
  offset,   \* uplink -> fileUplink.offset
  finished, \* uplink -> fileUplink.finished
  con,      \* the goroutine that writes to the connection
  wire,     \* the packets of the uplinks written to the connection
  closed,   \* f.Up is closed
  panicked, \* a send on the closed port ended the process
  cut,      \* history: uplinks whose file a request told the flight software to drop
  failed,   \* history: uplink -> the kinds of packets of which a write failed
  source    \* history: uplink -> how its source ended: open, eof, source (it failed)

mainVars == <<lock, main, err, pos, source>>
chkVars == <<chk, flushing, chkErr, buf>>
sndVars == <<snd, sndBg, sndErr, chunk, pkt, started, offset, finished>>
linkVars == <<closed, panicked, cut>>
conVars == <<con, wire, failed, linkVars>>
vars == <<mainVars, done, chkVars, sndVars, conVars>>

Init ==
  /\ lock = None
  /\ main = [u \in Uplinks |-> "idle"] /\ err = [u \in Uplinks |-> "nil"]
  /\ done = [u \in Uplinks |-> FALSE] /\ pos = [u \in Uplinks |-> 0]
  /\ chk = [u \in Uplinks |-> "recv"] /\ flushing = [u \in Uplinks |-> FALSE]
  /\ chkErr = [u \in Uplinks |-> "nil"] /\ buf = [u \in Uplinks |-> [lo |-> 0, hi |-> 0]]
  /\ snd = [u \in Uplinks |-> "recv"] /\ sndBg = [u \in Uplinks |-> FALSE]
  /\ sndErr = [u \in Uplinks |-> "nil"] /\ chunk = [u \in Uplinks |-> [lo |-> 0, hi |-> 0]]
  /\ pkt = [u \in Uplinks |-> "start"] /\ started = [u \in Uplinks |-> FALSE]
  /\ offset = [u \in Uplinks |-> 0] /\ finished = [u \in Uplinks |-> FALSE]
  /\ con = Idle /\ wire = <<>> /\ failed = [u \in Uplinks |-> {}]
  /\ source = [u \in Uplinks |-> "open"]
  /\ closed = FALSE /\ panicked = FALSE /\ cut = {}

-----------------------------------------------------------------------------
(* Fsw.Uplink.                                                             *)

\* TryLock; the announced file may be too big for the protocol.
Begin(u) ==
  /\ main[u] = "idle" /\ lock = None
  /\ lock' = u
  /\ \E m \in {"recv", "toobig"} : main' = [main EXCEPT ![u] = m]
  /\ UNCHANGED <<err, pos, source, done, chkVars, sndVars, conVars>>

\* Mutant: that return is before the deferred Unlock.
RejectLocked(u) ==
  /\ main[u] = "toobig"
  /\ main' = [main EXCEPT ![u] = "rejected"]
  /\ UNCHANGED <<lock, err, pos, source, done, chkVars, sndVars, conVars>>

\* It is: an error is returned before any packet is written.
Reject(u) ==
  /\ main[u] = "toobig"
  /\ lock' = None
  /\ main' = [main EXCEPT ![u] = "rejected"]
  /\ UNCHANGED <<err, pos, source, done, chkVars, sndVars, conVars>>

\* TryLock fails.
Refuse(u) ==
  /\ main[u] = "idle" /\ lock # None
  /\ main' = [main EXCEPT ![u] = "refused"]
  /\ UNCHANGED <<lock, err, pos, source, done, chkVars, sndVars, conVars>>

\* data.Recv(): the next bytes, io.EOF or another error.
Recv(u) ==
  /\ main[u] = "recv"
  /\ \/ \E n \in IF u \in Faulty THEN 1 .. MaxRecv ELSE {Size} :
          /\ n > 0 /\ pos[u] + n <= IF u \in Faulty THEN MaxBytes ELSE Size
          /\ pos' = [pos EXCEPT ![u] = @ + n]
          /\ main' = [main EXCEPT ![u] = "offer"]
          /\ UNCHANGED <<err, source>>
     \/ \E e \in {"eof"} \cup (IF u \in Faulty THEN {"source"} ELSE {}) :
          /\ err' = [err EXCEPT ![u] = e]
          /\ source' = [source EXCEPT ![u] = e]
          /\ main' = [main EXCEPT ![u] = "flush"]
          /\ UNCHANGED pos
  /\ UNCHANGED <<lock, done, chkVars, sndVars, conVars>>

\* Mutant: no cancel packet when the flush is given up.
GiveUpQuietly(u) ==
  /\ done[u]
  /\ \/ main[u] \in {"offer", "await"} /\ main' = [main EXCEPT ![u] = "flush"]
     \/ main[u] \in {"flush", "flushed"} /\ main' = [main EXCEPT ![u] = "close"]
  /\ err' = [err EXCEPT ![u] = "ctx"]
  /\ UNCHANGED <<lock, pos, source, done, chkVars, sndVars, conVars>>

\* SendAndAwait returns ctx.Err(): from the loop to the flush, from the flush to the cancel
\* packet.
GiveUp(u) ==
  /\ done[u]
  /\ \/ main[u] \in {"offer", "await"} /\ main' = [main EXCEPT ![u] = "flush"]
     \/ main[u] \in {"flush", "flushed"} /\ main' = [main EXCEPT ![u] = "cancel"]
  /\ err' = [err EXCEPT ![u] = "ctx"]
  /\ UNCHANGED <<lock, pos, source, done, chkVars, sndVars, conVars>>

\* The cancel packet is offered with the background context.
OfferCancel(u) ==
  /\ main[u] = "cancel" /\ con.stage = "recv" /\ ~closed
  /\ con' = [Idle EXCEPT !.stage = "write", !.from = u, !.by = "main", !.kind = "cancel"]
  /\ main' = [main EXCEPT ![u] = "cancelled"]
  /\ UNCHANGED <<lock, err, pos, source, done, chkVars, sndVars, wire, failed, linkVars>>

\* The deferred calls: close(uplinker), then wg.Wait(), then Unlock.
CloseUplinker(u) ==
  /\ main[u] = "close"
  /\ main' = [main EXCEPT ![u] = "wait"]
  /\ UNCHANGED <<lock, err, pos, source, done, chkVars, sndVars, conVars>>

\* Mutant: Unlock without waiting for the goroutines.
ReturnAtOnce(u) ==
  /\ main[u] = "wait"
  /\ main' = [main EXCEPT ![u] = "returned"]
  /\ lock' = None
  /\ UNCHANGED <<err, pos, source, done, chkVars, sndVars, conVars>>

Return(u) ==
  /\ main[u] = "wait" /\ chk[u] = "ended" /\ snd[u] = "ended"
  /\ main' = [main EXCEPT ![u] = "returned"]
  /\ lock' = None
  /\ UNCHANGED <<err, pos, source, done, chkVars, sndVars, conVars>>

Active(u) == main[u] \notin {"idle", "refused", "rejected", "returned"}

CancelContext(u) ==
  /\ u \in Cancellable /\ ~done[u] /\ Active(u)
  /\ done' = [done EXCEPT ![u] = TRUE]
  /\ UNCHANGED <<mainVars, chkVars, sndVars, conVars>>

-----------------------------------------------------------------------------
(* NewFileChunker's goroutine.                                             *)

\* What it does next with a buffer: push a chunk or reply.
ChunkReady(b, flush) ==
  IF b.hi - b.lo >= ChunkSize \/ (flush /\ b.hi > b.lo) THEN "offer" ELSE "reply"

FirstChunk(b) ==
  IF b.hi - b.lo >= ChunkSize THEN [b EXCEPT !.hi = b.lo + ChunkSize] ELSE b

\* Mutant: the reply is sent before the chunks are pushed.
ChunkerRepliesFirst(u) ==
  /\ main[u] \in {"offer", "flush"} /\ chk[u] = "recv"
  /\ main' = [main EXCEPT ![u] = IF @ = "offer" THEN "recv" ELSE "flushed"]
  /\ LET b == [buf[u] EXCEPT !.hi = pos[u]]
         flush == main[u] = "flush" IN
       /\ buf' = [buf EXCEPT ![u] = b]
       /\ flushing' = [flushing EXCEPT ![u] = flush]
       /\ chk' = [chk EXCEPT ![u] = IF flush THEN ChunkReady(b, flush) ELSE "recv"]
       /\ chkErr' = [chkErr EXCEPT ![u] = "nil"]
  /\ UNCHANGED <<lock, err, pos, source, done, sndVars, conVars>>

\* It takes the client's bytes, or nil, from Fsw.Uplink.
ChunkerTakes(u) ==
  /\ main[u] \in {"offer", "flush"} /\ chk[u] = "recv"
  /\ main' = [main EXCEPT ![u] = IF @ = "offer" THEN "await" ELSE "flushed"]
  /\ IF done[u] THEN UNCHANGED chkVars
     ELSE LET b == [buf[u] EXCEPT !.hi = pos[u]]
              flush == main[u] = "flush" IN
            /\ buf' = [buf EXCEPT ![u] = b]
            /\ flushing' = [flushing EXCEPT ![u] = flush]
            /\ chk' = [chk EXCEPT ![u] = ChunkReady(b, flush)]
            /\ chkErr' = [chkErr EXCEPT ![u] = "nil"]
  /\ UNCHANGED <<lock, err, pos, source, done, sndVars, conVars>>

\* The push returned e: the chunk leaves the buffer whatever e is.
ChunkPushed(u, e) ==
  LET b == [buf[u] EXCEPT !.lo = FirstChunk(buf[u]).hi] IN
  /\ buf' = [buf EXCEPT ![u] = b]
  /\ chk' = [chk EXCEPT ![u] = IF e = "nil" THEN ChunkReady(b, flushing[u]) ELSE "reply"]
  /\ chkErr' = [chkErr EXCEPT ![u] = e]
  /\ UNCHANGED flushing

\* Mutant: a flush is given up like any other push.
ChunkerGivesUpAnyway(u) ==
  /\ chk[u] \in {"offer", "await"} /\ done[u]
  /\ ChunkPushed(u, "ctx")
  /\ UNCHANGED <<mainVars, done, sndVars, conVars>>

\* A flush is pushed with the background context.
ChunkerGivesUp(u) ==
  /\ chk[u] \in {"offer", "await"} /\ done[u] /\ ~flushing[u]
  /\ ChunkPushed(u, "ctx")
  /\ UNCHANGED <<mainVars, done, sndVars, conVars>>

\* Mutant: Reply without the select on the context.
ChunkerInsists(u) ==
  /\ chk[u] = "reply"
  /\ chk' = [chk EXCEPT ![u] = "recv"]
  /\ main[u] \in {"await", "flushed"}
  /\ main' = [main EXCEPT ![u] =
       IF @ = "await" THEN IF chkErr[u] = "nil" THEN "recv" ELSE "flush"
       ELSE IF chkErr[u] = "nil" THEN "close" ELSE "cancel"]
  /\ err' = [err EXCEPT ![u] = chkErr[u]]
  /\ UNCHANGED <<lock, pos, source, done, flushing, chkErr, buf, sndVars, conVars>>

\* Reply: Fsw.Uplink gets it, or its context is done and nobody does.
ChunkerReplies(u) ==
  /\ chk[u] = "reply"
  /\ chk' = [chk EXCEPT ![u] = "recv"]
  /\ \/ /\ main[u] \in {"await", "flushed"}
        /\ main' = [main EXCEPT ![u] =
             IF @ = "await" THEN IF chkErr[u] = "nil" THEN "recv" ELSE "flush"
             ELSE IF chkErr[u] = "nil" THEN "close" ELSE "cancel"]
        /\ err' = [err EXCEPT ![u] = chkErr[u]]
     \/ done[u] /\ UNCHANGED <<main, err>>
  /\ UNCHANGED <<lock, pos, source, done, flushing, chkErr, buf, sndVars, conVars>>

\* uplinker is closed: the goroutine returns and closes its output.
ChunkerEnds(u) ==
  /\ chk[u] = "recv" /\ main[u] = "wait"
  /\ chk' = [chk EXCEPT ![u] = "ended"]
  /\ UNCHANGED <<mainVars, done, flushing, chkErr, buf, sndVars, conVars>>

-----------------------------------------------------------------------------
(* uplinkFile's goroutine and processChunk.                                *)

SenderTakes(u) ==
  /\ chk[u] = "offer" /\ snd[u] = "recv"
  /\ chk' = [chk EXCEPT ![u] = "await"]
  /\ IF done[u] /\ ~flushing[u] THEN UNCHANGED sndVars
     ELSE /\ chunk' = [chunk EXCEPT ![u] = FirstChunk(buf[u])]
          /\ sndBg' = [sndBg EXCEPT ![u] = flushing[u]]
          /\ snd' = [snd EXCEPT ![u] = IF finished[u] THEN "reply" ELSE "offer"]
          /\ sndErr' = [sndErr EXCEPT ![u] = IF finished[u] THEN "past the end" ELSE "nil"]
          /\ pkt' = [pkt EXCEPT ![u] = IF started[u] THEN "data" ELSE "start"]
          /\ UNCHANGED <<started, offset, finished>>
  /\ UNCHANGED <<mainVars, done, flushing, chkErr, buf, conVars>>

\* The push of the current packet returned e.
PacketPushed(u, e) ==
  LET len == chunk[u].hi - chunk[u].lo
      last == offset[u] + len >= Size IN
  \/ /\ e # "nil"
     /\ snd' = [snd EXCEPT ![u] = "reply"]
     /\ sndErr' = [sndErr EXCEPT ![u] = e]
     /\ UNCHANGED <<pkt, started, offset, finished>>
  \/ /\ e = "nil" /\ pkt[u] = "start"
     /\ started' = [started EXCEPT ![u] = TRUE]
     /\ pkt' = [pkt EXCEPT ![u] = "data"]
     /\ snd' = [snd EXCEPT ![u] = "offer"]
     /\ UNCHANGED <<sndErr, offset, finished>>
  \/ /\ e = "nil" /\ pkt[u] = "data"
     /\ offset' = [offset EXCEPT ![u] = @ + len]
     /\ finished' = [finished EXCEPT ![u] = last]
     /\ pkt' = [pkt EXCEPT ![u] = IF last THEN "end" ELSE @]
     /\ snd' = [snd EXCEPT ![u] = IF last THEN "offer" ELSE "reply"]
     /\ UNCHANGED <<sndErr, started>>
  \/ /\ e = "nil" /\ pkt[u] = "end"
     /\ snd' = [snd EXCEPT ![u] = "reply"]
     /\ sndErr' = [sndErr EXCEPT ![u] = IF offset[u] > Size THEN "overrun" ELSE "nil"]
     /\ UNCHANGED <<pkt, started, offset, finished>>

SenderGivesUp(u) ==
  /\ snd[u] \in {"offer", "await"} /\ done[u] /\ ~sndBg[u]
  /\ PacketPushed(u, "ctx")
  /\ UNCHANGED <<mainVars, done, chkVars, sndBg, chunk, conVars>>

SenderReplies(u) ==
  /\ snd[u] = "reply"
  /\ snd' = [snd EXCEPT ![u] = "recv"]
  /\ \/ chk[u] = "await" /\ ChunkPushed(u, sndErr[u])
     \/ done[u] /\ ~sndBg[u] /\ UNCHANGED chkVars
  /\ UNCHANGED <<mainVars, done, sndBg, sndErr, chunk, pkt, started, offset, finished, conVars>>

SenderEnds(u) ==
  /\ snd[u] = "recv" /\ chk[u] = "ended"
  /\ snd' = [snd EXCEPT ![u] = "ended"]
  /\ UNCHANGED <<mainVars, done, chkVars, sndBg, sndErr, chunk, pkt, started, offset, finished, conVars>>

-----------------------------------------------------------------------------
(* The goroutine of stream.Foreach that writes packets to the connection.  *)

Background == con.by = "main" \/ sndBg[con.from]

ConTakes(u) ==
  /\ snd[u] = "offer" /\ con.stage = "recv" /\ ~closed
  /\ snd' = [snd EXCEPT ![u] = "await"]
  /\ con' = IF done[u] /\ ~sndBg[u] THEN con
            ELSE [Idle EXCEPT !.stage = "write", !.from = u, !.kind = pkt[u], !.off = offset[u],
                              !.lo = chunk[u].lo, !.len = chunk[u].hi - chunk[u].lo]
  /\ UNCHANGED <<mainVars, done, chkVars, sndBg, sndErr, chunk, pkt, started, offset, finished,
                 wire, failed, linkVars>>

Sent(u, kind) == \E i \in 1 .. Len(wire) : wire[i].from = u /\ wire[i].kind = kind
Failures == UNION {{<<u, k>> : k \in failed[u]} : u \in Uplinks}

\* conn.Write; with a rate limit, ctx.Err() when the context is done after the write.
ConWrites ==
  /\ con.stage = "write"
  /\ \/ \E e \in {"nil"} \cup (IF done[con.from] /\ ~Background THEN {"ctx"} ELSE {}) :
          /\ wire' = Append(wire, [from |-> con.from, kind |-> con.kind, off |-> con.off,
                                   lo |-> con.lo, len |-> con.len])
          /\ con' = [con EXCEPT !.stage = "reply", !.err = e]
          /\ UNCHANGED failed
     \/ /\ con.kind \notin failed[con.from] /\ Cardinality(Failures) < MaxFailures
        /\ failed' = [failed EXCEPT ![con.from] = @ \cup {con.kind}]
        /\ con' = [con EXCEPT !.stage = "reply", !.err = "write"]
        /\ UNCHANGED wire
  /\ UNCHANGED <<mainVars, done, chkVars, sndVars, linkVars>>

ConReplies ==
  LET u == con.from IN
  /\ con.stage = "reply"
  /\ con' = Idle
  /\ \/ /\ con.by = "main" /\ main[u] = "cancelled"
        /\ main' = [main EXCEPT ![u] = "close"]
        /\ UNCHANGED sndVars
     \/ /\ con.by = "snd" /\ snd[u] = "await"
        /\ PacketPushed(u, con.err)
        /\ UNCHANGED <<main, sndBg, chunk>>
     \/ done[u] /\ ~Background /\ UNCHANGED <<main, sndVars>>
  /\ UNCHANGED <<lock, err, pos, source, done, chkVars, wire, failed, linkVars>>

\* A request's cancel packet is taken.
RequestTaken ==
  /\ con.stage = "recv" /\ ~closed
  /\ con' = [Idle EXCEPT !.stage = "request"]
  /\ UNCHANGED <<mainVars, done, chkVars, sndVars, wire, failed, linkVars>>

\* The files that the flight software is in the middle of.
OpenFiles == {u \in Uplinks : Sent(u, "start") /\ ~Sent(u, "end") /\ ~Sent(u, "cancel")}

\* It is written, if the write does not fail; the request awaits the reply or has given up.
RequestWritten ==
  /\ con.stage = "request"
  /\ con' = Idle
  /\ \E cancelled \in {{}, OpenFiles} : cut' = cut \cup cancelled
  /\ UNCHANGED <<mainVars, done, chkVars, sndVars, wire, failed, closed, panicked>>

-----------------------------------------------------------------------------
(* The end of the connection.                                              *)

\* The downlink is over: downlinkLoop closes f.Up, and the goroutine above ends when it
\* comes back to it.
EndConnection ==
  /\ ~panicked /\ ~closed
  /\ closed' = TRUE
  /\ UNCHANGED <<mainVars, done, chkVars, sndVars, con, wire, failed, panicked, cut>>

\* An uplink's goroutine that sends on it, or is blocked in such a send, panics.  (So does a
\* request's, at any time: all that is then lost is the rest of the behaviour.)
SendOnClosed ==
  /\ ~panicked /\ closed
  /\ \E u \in Uplinks : snd[u] = "offer" \/ main[u] = "cancel"
  /\ panicked' = TRUE
  /\ UNCHANGED <<mainVars, done, chkVars, sndVars, con, wire, failed, closed, cut>>

UplinkStep(u) ==
  /\ ~panicked
  /\ \/ Begin(u) \/ Reject(u) \/ Refuse(u) \/ Recv(u) \/ GiveUp(u) \/ OfferCancel(u)
     \/ CloseUplinker(u) \/ Return(u)
ChunkerStep(u) ==
  ~panicked /\ (ChunkerTakes(u) \/ ChunkerGivesUp(u) \/ ChunkerReplies(u) \/ ChunkerEnds(u))
SenderStep(u) ==
  ~panicked /\ (SenderTakes(u) \/ SenderGivesUp(u) \/ SenderReplies(u) \/ SenderEnds(u))
ConStep ==
  /\ ~panicked
  /\ \/ ConWrites \/ ConReplies \/ RequestWritten
     \/ \E u \in Uplinks : ConTakes(u)

Next ==
  \/ ConStep \/ EndConnection \/ SendOnClosed
  \/ ~panicked /\ RequestTaken
  \/ \E u \in Uplinks : UplinkStep(u) \/ ChunkerStep(u) \/ SenderStep(u) \/ (~panicked /\ CancelContext(u))

Spec == Init /\ [][Next]_vars

(* Fairness: every goroutine that can proceed does, into a panic if the port is closed; the *)
(* client's stream ends, since each Recv returns bytes, io.EOF or an error.  The senders    *)
(* that a channel blocks are served in turn, so requests do not keep an uplink waiting for  *)
(* ever.  The connection need not end.                                                      *)
FairSpec ==
  /\ Spec /\ WF_vars(ConStep) /\ WF_vars(SendOnClosed)
  /\ \A u \in Uplinks : WF_vars(UplinkStep(u)) /\ WF_vars(ChunkerStep(u)) /\ WF_vars(SenderStep(u))
  /\ \A u \in Uplinks : SF_vars(~panicked /\ (ConTakes(u) \/ OfferCancel(u)))

-----------------------------------------------------------------------------
(* Properties                                                              *)

TypeOK ==
  /\ lock \in Uplinks \cup {None}
  /\ main \in [Uplinks -> {"idle", "recv", "offer", "await", "flush", "flushed", "cancel",
                           "cancelled", "close", "wait", "returned", "refused", "toobig", "rejected"}]
  /\ chk \in [Uplinks -> {"recv", "offer", "await", "reply", "ended"}]
  /\ snd \in [Uplinks -> {"recv", "offer", "await", "reply", "ended"}]
  /\ con.stage \in {"recv", "request", "write", "reply"} /\ con.from \in Uplinks \cup {None}
  /\ {closed, panicked} \subseteq BOOLEAN /\ cut \subseteq Uplinks
  /\ \A u \in Uplinks :
       /\ buf[u].lo <= buf[u].hi /\ buf[u].hi <= pos[u]
       /\ chunk[u].lo <= chunk[u].hi /\ chunk[u].hi <= chunk[u].lo + ChunkSize

DataAt(u) == {i \in 1 .. Len(wire) : wire[i].from = u /\ wire[i].kind = "data"}

\* The offset at which the last of the packets at the positions S of the wire ends.
EndOf(S) ==
  IF S = {} THEN 0
  ELSE LET last == CHOOSE i \in S : \A j \in S : j <= i IN wire[last].off + wire[last].len

Length(u) == EndOf(DataAt(u))

\* Every data packet starts where the one before it ends, in the file (off) and, for
\* InOrder, at the same place in the client's stream (lo).
Contiguous(u) == \A i \in DataAt(u) : wire[i].off = EndOf({j \in DataAt(u) : j < i})
InOrder(u) == Contiguous(u) /\ \A i \in DataAt(u) : wire[i].lo = wire[i].off

\* fsw.go:61: "FPrime uplink protocol does not support interleaved file transfers".  The
\* packets of one uplink, its cancel packet included, are all written before another uplink's
\* first: Uplink keeps the lock until both goroutines have ended.  (A request asks for no
\* lock, and its cancel packet may come between them.)
NoInterleaving ==
  \A i, j, k \in 1 .. Len(wire) :
    i < j /\ j < k /\ wire[i].from = wire[k].from => wire[j].from = wire[i].from

\* host/fsw.go:43: the next Recv does not happen until the bytes of the last one are
\* processed.  Whenever Uplink is about to receive, everything received is on the connection,
\* in order, but for less than a chunk that is in the chunker's buffer.
BackPressure ==
  \A u \in Uplinks : main[u] = "recv" =>
    /\ InOrder(u) /\ Length(u) = buf[u].lo
    /\ buf[u].hi = pos[u] /\ pos[u] - buf[u].lo < ChunkSize

\* An end packet follows a start packet and data packets that cover the file without a gap,
\* whatever writes failed and wherever the uplink was cancelled.
EndMeansCovered ==
  \A u \in Uplinks : Sent(u, "end") =>
    Sent(u, "start") /\ Contiguous(u) /\ Length(u) >= Size

\* What the flight software sees of the uplinks: one after the other, none ended with a gap.
WireIsSound == TypeOK /\ NoInterleaving /\ EndMeansCovered

\* When Uplink returns an error the flight software was told to drop the file, unless the
\* connection did not take the cancel packet.
FailureIsCancelled ==
  \A u \in Uplinks :
    main[u] = "returned" /\ err[u] # "nil" => Sent(u, "cancel") \/ "cancel" \in failed[u]

\* A client that sends exactly the announced bytes over a connection that works has its
\* whole file delivered and closed, and is told so - also when a request cut it, of which
\* Uplink knows nothing.
CleanUplinkCompletes ==
  \A u \in Uplinks :
    main[u] = "returned" /\ source[u] = "eof" /\ pos[u] = Size /\ Size > 0 /\ failed[u] = {} /\ ~done[u]
      => err[u] = "nil" /\ Sent(u, "end") /\ InOrder(u) /\ Length(u) = Size

\* What an uplink's client is told is what the flight software was told.
OutcomeIsTold == FailureIsCancelled /\ CleanUplinkCompletes

\* Uplink returns, wherever its context is cancelled, unless the connection ends in time for
\* it to send on the closed port: no goroutine waits for a reply that nobody will send.
UplinkReturns == \A u \in Uplinks : (main[u] = "recv") ~> (main[u] = "returned" \/ panicked)

(* Who can move: the guards of the goroutines' steps.                      *)

UplinkMoves(u) ==
  \/ main[u] \in {"recv", "close", "toobig"}
  \/ main[u] \in {"offer", "await", "flush", "flushed"} /\ done[u]
  \/ main[u] = "cancel" /\ con.stage = "recv"
  \/ main[u] = "wait" /\ chk[u] = "ended" /\ snd[u] = "ended"

ChunkerMoves(u) ==
  \/ chk[u] = "recv" /\ main[u] \in {"offer", "flush", "wait"}
  \/ chk[u] \in {"offer", "await"} /\ done[u] /\ ~flushing[u]
  \/ chk[u] = "reply" /\ (main[u] \in {"await", "flushed"} \/ done[u])

SenderMoves(u) ==
  \/ snd[u] = "recv" /\ chk[u] \in {"offer", "ended"}
  \/ snd[u] \in {"offer", "await"} /\ done[u] /\ ~sndBg[u]
  \/ snd[u] = "reply" /\ (chk[u] = "await" \/ (done[u] /\ ~sndBg[u]))

ConMoves ==
  \/ con.stage = "recv" /\ \E u \in Uplinks : snd[u] = "offer"
  \/ con.stage \in {"request", "write"}
  \/ /\ con.stage = "reply"
     /\ \/ con.by = "main" /\ main[con.from] = "cancelled"
        \/ con.by = "snd" /\ snd[con.from] = "await"
        \/ done[con.from] /\ ~Background

\* Nobody waits for ever: while an uplink holds the lock one of its goroutines or the
\* connection's can take a step, the connection's can whenever it has a packet, and an
\* uplink that returned left no goroutine behind, wherever its context was cancelled and
\* whatever writes failed.  To move on a port that is closed is to panic.
NobodyIsStuck ==
  /\ \A u \in Uplinks : Active(u) => UplinkMoves(u) \/ ChunkerMoves(u) \/ SenderMoves(u) \/ ConMoves
  /\ con.stage # "recv" => ConMoves
  /\ \A u \in Uplinks : main[u] = "returned" => chk[u] = "ended" /\ snd[u] = "ended"

\* What an uplink's client and the flight software see of it.
StateOf(u) ==
  IF Active(u) THEN "open"
  ELSE CASE main[u] = "idle" -> "new"
         [] main[u] \in {"refused", "rejected"} -> "refused"
         [] main[u] = "returned" -> IF err[u] = "nil" THEN "accepted" ELSE "failed"

Promise == INSTANCE FileUplinks
  WITH wire <- wire, state <- [u \in Uplinks |-> StateOf(u)], lost <- failed

\* The locks, goroutines and channels keep the promise of FileUplinks.
KeepsThePromise == Promise!Spec

\* host/fsw.go:48: "Other errors should kill the uplink".
SourceErrorKills ==
  \A u \in Uplinks : main[u] = "returned" /\ source[u] = "source" => err[u] # "nil"

===============================================================================
