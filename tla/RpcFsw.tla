-------------------------------- MODULE RpcFsw --------------------------------
(***************************************************************************)
(* Flight software that a remote provider connects over gRPC: fswClient of *)
(* pkg/rpc/provider.go and the client at the other end of the stream.      *)
(*                                                                         *)
(* A call (request, or Uplink for a file) registers a reply channel under  *)
(* a new id, pushes its packets to the bounded channel f.uplink and waits  *)
(* for the reply or for its context.  A goroutine sends what is on         *)
(* f.uplink to the client; process(), in the goroutine of the gRPC call,   *)
(* hands every reply over the unbuffered channel registered for its id     *)
(* and, when the stream ends, closes the channels.  A packet's id is the   *)
(* call that made it.                                                      *)
(***************************************************************************)
EXTENDS Naturals, Sequences, FiniteSets

CONSTANTS
  Requests,    \* calls of request(): commands, sequences, parsing
  Uplinks,     \* calls of Uplink()
  Faulty,      \* uplinks whose source may fail with an error that is not io.EOF
  Cancellable, \* calls whose context may be cancelled
  Capacity,    \* capacity of f.uplink, 8 in the code
  Window,      \* bound: packets the stream holds before the client takes them
  MaxReplies,  \* bound: a stream that holds as many replies loses the errors of ClientTakes
  MaxData,     \* bound: data packets of a file
  Closes       \* how the stream may end: a subset of {"eof", "broken"}

Calls == Requests \cup Uplinks
None == "none"
Packet == [id : Calls, kind : {"request", "header", "data", "final", "cancel"}]
Answer == {"reply", "connection closed", "send failed", "nothing"}

VARIABLES
  queue, qclosed,  \* f.uplink: its buffer, and whether it is closed
  entries,         \* the keys of f.requests
  open,            \* call -> its replyChan is made and not closed
  call,            \* call -> where it is
  next,            \* call -> the packet it pushes
  fed,             \* call -> data packets so far
  failing,         \* call -> its source has failed
  done,            \* call -> its context is done
  result,          \* call -> how it was answered
  sender,          \* the goroutine of lines 598-610: recv, send, error, stuck, ended
  sending,         \* the packet it sends
  receiver,        \* process(): recv, deliver, close replies, close uplink, ended
  reply,           \* the call whose reply it delivers
  link,            \* the stream: up, eof (half-closed by the client), broken
  toClient,        \* packets on the stream
  replies,         \* the calls whose replies are on the stream
  task,            \* call -> the client's task for it: none, running, replied
  feeds,           \* the uplinks whose chunks the client still takes, its _task_streams
  panicked         \* a send on, or a close of, a closed channel ended the process

chanVars == <<queue, qclosed>>
callVars == <<call, next, fed, failing, done>>
goVars == <<chanVars, entries, open, callVars, result>>
streamVars == <<link, toClient, replies, task, feeds>>
loopVars == <<sender, sending, receiver, reply>>
vars == <<goVars, streamVars, loopVars, panicked>>

Init ==
  /\ queue = <<>> /\ qclosed = FALSE
  /\ entries = {} /\ open = [c \in Calls |-> FALSE]
  /\ call = [c \in Calls |-> "idle"]
  /\ next = [c \in Calls |-> IF c \in Requests THEN "request" ELSE "header"]
  /\ fed = [c \in Calls |-> 0] /\ failing = [c \in Calls |-> FALSE]
  /\ done = [c \in Calls |-> FALSE] /\ result = [c \in Calls |-> None]
  /\ sender = "recv" /\ sending = <<>>
  /\ receiver = "recv" /\ reply = None
  /\ link = "up" /\ toClient = <<>> /\ replies = <<>>
  /\ task = [c \in Calls |-> "none"] /\ feeds = {}
  /\ panicked = FALSE

-----------------------------------------------------------------------------
(* The calls.                                                              *)

NewSession(c) ==
  /\ call[c] = "idle"
  /\ entries' = entries \cup {c}
  /\ open' = [open EXCEPT ![c] = TRUE]
  /\ call' = [call EXCEPT ![c] = "push"]
  /\ UNCHANGED <<chanVars, next, fed, failing, done, result, streamVars, loopVars, panicked>>

\* f.uplink <- pkt, which panics when f.uplink is closed.
Send(c, kind) ==
  IF qclosed THEN panicked' = TRUE /\ UNCHANGED queue
  ELSE /\ Len(queue) < Capacity
       /\ queue' = Append(queue, [id |-> c, kind |-> kind])
       /\ UNCHANGED panicked

Push(c) ==
  /\ call[c] = "push"
  /\ Send(c, next[c])
  /\ call' = [call EXCEPT ![c] = IF next[c] \in {"request", "final"} THEN "waiting" ELSE "source"]
  /\ UNCHANGED <<qclosed, entries, open, next, fed, failing, done, result, streamVars, loopVars>>

\* Mutant: the end of the source is taken for a failure.
EndlessSource(c) ==
  /\ call[c] = "source"
  /\ call' = [call EXCEPT ![c] = "push"]
  /\ next' = [next EXCEPT ![c] = "data"]
  /\ fed' = [fed EXCEPT ![c] = IF @ < MaxData THEN @ + 1 ELSE @]
  /\ UNCHANGED <<chanVars, entries, open, failing, done, result, streamVars, loopVars, panicked>>

\* data.Recv(): after an error that is not io.EOF the loop goes on with what Recv returned.
Source(c) ==
  /\ call[c] = "source"
  /\ \/ ~failing[c] /\ fed[c] < MaxData
        /\ fed' = [fed EXCEPT ![c] = @ + 1]
        /\ next' = [next EXCEPT ![c] = "data"]
        /\ UNCHANGED failing
     \/ ~failing[c]
        /\ next' = [next EXCEPT ![c] = "final"]
        /\ UNCHANGED <<fed, failing>>
     \/ c \in Faulty
        /\ failing' = [failing EXCEPT ![c] = TRUE]
        /\ next' = [next EXCEPT ![c] = "data"]
        /\ UNCHANGED fed
  /\ call' = [call EXCEPT ![c] = "push"]
  /\ UNCHANGED <<chanVars, entries, open, done, result, streamVars, loopVars, panicked>>

CancelContext(c) ==
  /\ c \in Cancellable /\ ~done[c] /\ call[c] \notin {"idle", "returned"}
  /\ done' = [done EXCEPT ![c] = TRUE]
  /\ UNCHANGED <<chanVars, entries, open, call, next, fed, failing, result, streamVars, loopVars, panicked>>

\* Mutant: the cancelled call does not wait for the client.
PushCancelAndGo(c) ==
  /\ call[c] = "waiting" /\ done[c]
  /\ Send(c, "cancel")
  /\ call' = [call EXCEPT ![c] = "got"]
  /\ result' = [result EXCEPT ![c] = "nothing"]
  /\ UNCHANGED <<qclosed, entries, open, next, fed, failing, done, streamVars, loopVars>>

\* The context is done: the cancel packet is pushed, then the reply is awaited.
PushCancel(c) ==
  /\ call[c] = "cancel"
  /\ Send(c, "cancel")
  /\ call' = [call EXCEPT ![c] = "drain"]
  /\ UNCHANGED <<qclosed, entries, open, next, fed, failing, done, result, streamVars, loopVars>>

\* Mutant: the call returns when its context is done.
ReturnCancelled(c) ==
  /\ call[c] = "waiting" /\ done[c]
  /\ entries' = entries \ {c}
  /\ open' = [open EXCEPT ![c] = FALSE]
  /\ call' = [call EXCEPT ![c] = "returned"]
  /\ UNCHANGED <<chanVars, next, fed, failing, done, result, streamVars, loopVars, panicked>>

TakeCancelled(c) ==
  /\ call[c] = "waiting" /\ done[c]
  /\ call' = [call EXCEPT ![c] = "cancel"]
  /\ UNCHANGED <<chanVars, entries, open, next, fed, failing, done, result, streamVars, loopVars, panicked>>

\* The waiting call finds its channel closed.
TakeClosed(c) ==
  /\ call[c] = "waiting" /\ ~open[c]
  /\ entries' = entries \ {c}
  /\ result' = [result EXCEPT ![c] = "connection closed"]
  /\ call' = [call EXCEPT ![c] = "returned"]
  /\ UNCHANGED <<chanVars, open, next, fed, failing, done, streamVars, loopVars, panicked>>

DrainClosed(c) ==
  /\ call[c] = "drain" /\ ~open[c]
  /\ result' = [result EXCEPT ![c] = "nothing"]
  /\ call' = [call EXCEPT ![c] = "got"]
  /\ UNCHANGED <<chanVars, entries, open, next, fed, failing, done, streamVars, loopVars, panicked>>

\* Mutant: the entry stays.
FinishOnly(c) ==
  /\ call[c] = "got"
  /\ open' = [open EXCEPT ![c] = FALSE]
  /\ panicked' = ~open[c]
  /\ call' = [call EXCEPT ![c] = "returned"]
  /\ UNCHANGED <<chanVars, entries, next, fed, failing, done, result, streamVars, loopVars>>

\* delete and close, once a reply was received on either path.
Finish(c) ==
  /\ call[c] = "got"
  /\ entries' = entries \ {c}
  /\ open' = [open EXCEPT ![c] = FALSE]
  /\ panicked' = (~open[c] \/ (receiver = "deliver" /\ reply = c) \/ (sender = "error" /\ sending.id = c))
  /\ call' = [call EXCEPT ![c] = "returned"]
  /\ UNCHANGED <<chanVars, next, fed, failing, done, result, streamVars, loopVars>>

\* replyChan <- answer: the call receives it.
HandOver(c, answer) ==
  /\ open[c] /\ call[c] \in {"waiting", "drain"}
  /\ result' = [result EXCEPT ![c] = answer]
  /\ call' = [call EXCEPT ![c] = "got"]
  /\ UNCHANGED <<chanVars, entries, open, next, fed, failing, done, streamVars>>

-----------------------------------------------------------------------------
(* The two goroutines of the connection.                                   *)

SenderTakes ==
  /\ sender = "recv"
  /\ \/ /\ queue # <<>>
        /\ sending' = Head(queue) /\ queue' = Tail(queue)
        /\ sender' = "send"
     \/ /\ queue = <<>> /\ qclosed
        /\ sender' = "ended"
        /\ UNCHANGED <<queue, sending>>
  /\ UNCHANGED <<qclosed, entries, open, callVars, result, streamVars, receiver, reply, panicked>>

\* stream.Send; an error looks up the call's channel, which is nil for one that returned.
SenderSends ==
  /\ sender = "send"
  /\ \/ /\ link # "broken" /\ Len(toClient) < Window
        /\ toClient' = Append(toClient, sending)
        /\ sender' = "recv"
     \/ /\ link = "broken"
        /\ sender' = IF sending.id \in entries THEN "error" ELSE "stuck"
        /\ UNCHANGED toClient
  /\ UNCHANGED <<goVars, link, replies, task, feeds, sending, receiver, reply, panicked>>

SenderReports ==
  /\ sender = "error"
  /\ \/ /\ HandOver(sending.id, "send failed")
        /\ sender' = "recv"
        /\ UNCHANGED panicked
     \/ /\ ~open[sending.id]
        /\ panicked' = TRUE
        /\ UNCHANGED <<goVars, streamVars, sender>>
  /\ UNCHANGED <<sending, receiver, reply>>

\* Mutant: the reply is dropped when its call is not waiting for it yet.
ReceiverTakesOrDrops ==
  /\ receiver = "recv" /\ replies # <<>> /\ link # "broken"
  /\ replies' = Tail(replies)
  /\ IF Head(replies) \in entries /\ call[Head(replies)] \in {"waiting", "drain"}
     THEN receiver' = "deliver" /\ reply' = Head(replies)
     ELSE UNCHANGED <<receiver, reply>>
  /\ UNCHANGED <<goVars, link, toClient, task, feeds, sender, sending, panicked>>

ReceiverTakes ==
  /\ receiver = "recv" /\ replies # <<>> /\ link # "broken"
  /\ replies' = Tail(replies)
  /\ IF Head(replies) \in entries
     THEN receiver' = "deliver" /\ reply' = Head(replies)
     ELSE UNCHANGED <<receiver, reply>>
  /\ UNCHANGED <<goVars, link, toClient, task, feeds, sender, sending, panicked>>

ReceiverDelivers ==
  /\ receiver = "deliver"
  /\ \/ /\ HandOver(reply, "reply")
        /\ receiver' = "recv"
        /\ UNCHANGED panicked
     \/ /\ ~open[reply]
        /\ panicked' = TRUE
        /\ UNCHANGED <<goVars, streamVars, receiver>>
  /\ UNCHANGED <<sender, sending, reply>>

ReceiverEnds ==
  /\ receiver = "recv"
  /\ link = "broken" \/ (link = "eof" /\ replies = <<>>)
  /\ receiver' = "close replies"
  /\ UNCHANGED <<goVars, streamVars, sender, sending, reply, panicked>>

\* The deferred function: every registered channel, then f.uplink.
CloseReplies ==
  /\ receiver = "close replies"
  /\ open' = [c \in Calls |-> open[c] /\ c \notin entries]
  /\ panicked' = ((\E c \in entries : ~open[c]) \/ (sender = "error" /\ sending.id \in entries))
  /\ receiver' = "close uplink"
  /\ UNCHANGED <<chanVars, entries, callVars, result, streamVars, sender, sending, reply>>

\* process() returns, which ends the stream.
CloseUplink ==
  /\ receiver = "close uplink"
  /\ qclosed' = TRUE
  /\ link' = "broken"
  /\ receiver' = "ended"
  /\ UNCHANGED <<queue, entries, open, callVars, result, toClient, replies, task, feeds,
                 sender, sending, reply, panicked>>

-----------------------------------------------------------------------------
(* The client, lib/python: every packet is handled by a task of its own.    *)

\* Chunks and the end of a file that is taken no more, and the cancellation of a call that is
\* answered, raise a KeyError.  (No packet of a call comes before the one that opens it.)
Unexpected(p) ==
  /\ task[p.id] = "replied"
  /\ p.kind = "cancel" \/ (p.kind \in {"data", "final"} /\ p.id \notin feeds)

\* Whatever the task of a packet raises is sent as a reply with the packet's id.
ClientTakes ==
  LET p == Head(toClient) IN
  /\ toClient # <<>>
  /\ toClient' = Tail(toClient)
  /\ task' = IF p.kind \in {"request", "header"} THEN [task EXCEPT ![p.id] = "running"] ELSE task
  /\ feeds' = IF p.kind = "header" THEN feeds \cup {p.id} ELSE feeds
  /\ IF Unexpected(p) /\ link = "up" /\ Len(replies) < MaxReplies
     THEN replies' = Append(replies, p.id)
     ELSE UNCHANGED replies
  /\ UNCHANGED <<goVars, link, loopVars, panicked>>

\* The task of a call returns, raises an error or is cancelled: it is answered.  An uplink
\* that raised leaves its feed behind.
ClientReplies(c) ==
  /\ task[c] = "running" /\ link = "up"
  /\ task' = [task EXCEPT ![c] = "replied"]
  /\ replies' = Append(replies, c)
  /\ feeds' \in {feeds, feeds \ {c}}
  /\ UNCHANGED <<goVars, link, toClient, loopVars, panicked>>

StreamEnds ==
  /\ link = "up"
  /\ link' \in Closes
  /\ UNCHANGED <<goVars, toClient, replies, task, feeds, loopVars, panicked>>

CallStep(c) ==
  \/ Push(c) \/ Source(c) \/ TakeCancelled(c) \/ PushCancel(c) \/ TakeClosed(c) \/ DrainClosed(c)
  \/ Finish(c)
SenderStep == SenderTakes \/ SenderSends \/ SenderReports
ReceiverStep == ReceiverTakes \/ ReceiverDelivers \/ ReceiverEnds \/ CloseReplies \/ CloseUplink
ClientStep == ClientTakes \/ \E c \in Calls : ClientReplies(c)

Next ==
  /\ ~panicked
  /\ \/ \E c \in Calls : NewSession(c) \/ CancelContext(c) \/ CallStep(c)
     \/ SenderStep \/ ReceiverStep \/ ClientStep \/ StreamEnds

Spec == Init /\ [][Next]_vars

(* Fairness: every goroutine that can proceed does, the stream carries what it holds, and the *)
(* client answers every request it is given.  Nobody has to call, cancel or disconnect.       *)
Fairness ==
  /\ \A c \in Calls : WF_vars(~panicked /\ CallStep(c)) /\ WF_vars(~panicked /\ ClientReplies(c))
  /\ WF_vars(~panicked /\ SenderStep) /\ WF_vars(~panicked /\ ReceiverStep)
  /\ WF_vars(~panicked /\ ClientTakes)

FairSpec == Spec /\ Fairness

-----------------------------------------------------------------------------
(* Properties                                                              *)

TypeOK ==
  /\ queue \in Seq(Packet) /\ Len(queue) <= Capacity /\ {qclosed, panicked} \subseteq BOOLEAN
  /\ entries \subseteq Calls /\ open \in [Calls -> BOOLEAN]
  /\ call \in [Calls -> {"idle", "push", "source", "waiting", "cancel", "drain", "got", "returned"}]
  /\ next \in [Calls -> {"request", "header", "data", "final"}]
  /\ fed \in [Calls -> 0 .. MaxData]
  /\ failing \in [Calls -> BOOLEAN] /\ done \in [Calls -> BOOLEAN]
  /\ result \in [Calls -> Answer \cup {None}]
  /\ sender \in {"recv", "send", "error", "stuck", "ended"}
  /\ receiver \in {"recv", "deliver", "close replies", "close uplink", "ended"}
  /\ link \in {"up", "eof", "broken"}
  /\ toClient \in Seq(Packet) /\ Len(toClient) <= Window
  /\ task \in [Calls -> {"none", "running", "replied"}]
  /\ feeds \subseteq Calls

\* f.requests holds exactly the calls in progress: none is left behind for replies that will
\* never come, and a reply to a call in progress always finds its channel.
EntriesAreCalls == \A c \in Calls : c \in entries <=> call[c] \notin {"idle", "returned"}

\* While the stream is up one thing alone makes a goroutine meet a closed channel, however
\* cancellations, replies and returns interleave: the client answers a call again - its
\* cancellation came too late, or a chunk of its file did (lines 269 to 292 of the client) -
\* and process() sends that reply (line 627) while the call closes its channel.
NoPanic ==
  panicked /\ link = "up" =>
    receiver = "deliver" /\ call[reply] = "returned" /\ result[reply] = "reply"

\* A call that returned left nothing behind at a client that is still connected: a cancelled
\* call waits until its cancellation took effect there (line 429).
NoOrphan ==
  \A c \in Calls : call[c] = "returned" /\ link = "up" => task[c] = "replied"

\* Both ends of a call agree on whether it is in progress.
EndsAgree == TypeOK /\ EntriesAreCalls /\ NoOrphan

\* While the stream is up and the client answers, every call returns, cancelled or not, unless
\* the source of an uplink failed: Uplink takes the error for an empty chunk and never ends
\* (lines 471-473), and process() waits to hand it its reply while all others wait for theirs;
\* or the process ended in the panic of NoPanic.
CallReturns ==
  \A c \in Calls :
    (call[c] = "push")
      ~> (call[c] = "returned" \/ link # "up" \/ panicked \/ \E u \in Uplinks : failing[u])

\* Where a call is between its two ends.
Asked(c) == call[c] # "idle" /\ ~(call[c] = "push" /\ next[c] \in {"request", "header"})
Opens(p, c) == p.id = c /\ p.kind \in {"request", "header"}
OnTheWay(c) ==
  \/ \E i \in 1 .. Len(queue) : Opens(queue[i], c)
  \/ sender = "send" /\ Opens(sending, c)
  \/ \E i \in 1 .. Len(toClient) : Opens(toClient[i], c)
OnTheWayBack(c) ==
  \/ \E i \in 1 .. Len(replies) : replies[i] = c
  \/ receiver = "deliver" /\ reply = c

\* Who can move: the guards of the goroutines' steps.
CallMoves(c) ==
  \/ call[c] \in {"push", "cancel"} /\ (qclosed \/ Len(queue) < Capacity)
  \/ call[c] = "source" /\ (~failing[c] \/ c \in Faulty)
  \/ call[c] = "waiting" /\ (done[c] \/ ~open[c])
  \/ call[c] = "drain" /\ ~open[c]
  \/ call[c] = "got"

Receives(c) == call[c] \in {"waiting", "drain"} \/ ~open[c]

SenderMoves ==
  \/ sender = "recv" /\ (queue # <<>> \/ qclosed)
  \/ sender = "send" /\ (link = "broken" \/ Len(toClient) < Window)
  \/ sender = "error" /\ Receives(sending.id)

ReceiverMoves ==
  \/ receiver = "recv" /\ (link # "up" \/ replies # <<>>)
  \/ receiver = "deliver" /\ Receives(reply)
  \/ receiver \in {"close replies", "close uplink"}

ClientMoves == toClient # <<>> \/ (link = "up" /\ \E c \in Calls : task[c] = "running")

\* While the stream is up no call is lost on its way - it is at the client, or a packet for
\* it is under way - and somebody can move as long as a call is in progress: the bounded
\* channels and the two rendezvous with the calls never wait in a circle, not even when a
\* source has failed or a reply comes before its call waits for it.
NoCallIsLost ==
  \A c \in Calls :
    Asked(c) /\ call[c] \notin {"got", "returned"}
      => OnTheWay(c) \/ task[c] = "running" \/ OnTheWayBack(c)

SomebodyMoves ==
  (\E c \in Calls : call[c] \notin {"idle", "returned"})
    => SenderMoves \/ ReceiverMoves \/ ClientMoves \/ \E c \in Calls : CallMoves(c)

CallsGoOn == link = "up" => NoCallIsLost /\ SomebodyMoves

\* When the stream ends, every call in progress returns with an error ("connection closed"),
\* unless the process has ended in a panic.
ClosedCallReturns ==
  \A c \in Calls :
    (receiver = "close replies" /\ c \in entries) ~> (call[c] = "returned" \/ panicked)

\* Every call returns, while the stream is up and when it ends.
EveryCallReturns == CallReturns /\ ClosedCallReturns

\* Line 589: "Cancel all running replies": closing the connection does not end the process.
ClosingIsClean == ~panicked
===============================================================================
