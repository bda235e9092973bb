--------------------------------- MODULE Bus ---------------------------------
(***************************************************************************)
(* The message bus of pkg/host/bus.go, which carries events, telemetry and *)
(* file transfer notices from the flight software connections to every     *)
(* client stream, the dashboard, the recorders and the commands that wait  *)
(* for their completion event.                                             *)
(*                                                                         *)
(* Emit, On and Wait put an item on one bounded channel.  One goroutine,   *)
(* eventLoop, takes the items in order: a subscription joins `listeners',  *)
(* a message is handed to each listener in turn, in no particular order.   *)
(* On's handlers run inside the loop; Wait's handler hands the matching    *)
(* message over an unbuffered channel to the goroutine that called Wait.   *)
(***************************************************************************)
EXTENDS Integers, Sequences, FiniteSets

CONSTANTS
  Emitters,   \* goroutines that call Emit
  Handlers,   \* subscriptions made with On
  Waiters,    \* subscriptions made with Wait
  Flushers,   \* goroutines that call Flush
  Disposers,  \* goroutines that call Dispose
  Matching,   \* the emitters whose messages satisfy the predicates of Wait
  Abandoners, \* waiters whose goroutine may return without reading the channel
  Capacity,   \* capacity of the queue, 8 in the code
  MaxEmits    \* bound: messages of one emitter

NoSub == "none"

ASSUME BusAssumption ==
  /\ Capacity \in Nat \ {0}
  /\ MaxEmits \in Nat
  /\ Handlers \cap Waiters = {} /\ NoSub \notin Handlers \cup Waiters
  /\ Matching \subseteq Emitters
  /\ Abandoners \subseteq Waiters

Subs    == Handlers \cup Waiters
Message == [from : Emitters, seq : 1 .. MaxEmits]
NoMsg   == [from |-> "nobody", seq |-> 0]

\* busMsg: exactly one of msg and sub is set.
MsgItem(m) == [msg |-> m, sub |-> NoSub]
SubItem(s) == [msg |-> NoMsg, sub |-> s]
IsMsg(item) == item.sub = NoSub

VARIABLES
  queue,      \* the channel's buffer
  qclosed,    \* the channel is closed
  closed,     \* b.closed
  wg,         \* b.wg's counter
  listeners,  \* eventLoop's map
  loop,       \* where eventLoop is: receive, dispatch, call, send, ended
  current,    \* the message being dispatched
  todo,       \* the listeners it has still to be handed to
  partner,    \* the handler it has chosen to call, or the waiter whose handler blocks it
  done,       \* subscription -> its context is done
  cleaned,    \* waiter -> cleanup() ran: its channel is closed
  emit,       \* emitter -> idle, open (b.closed was false) or sending (past wg.Add)
  emitted,    \* emitter -> number of messages it has started to emit
  client,     \* subscription -> what the goroutine that made it is doing
  flush,      \* flusher -> it is in wg.Wait()
  disposing,  \* disposer -> no, checked (it read b.closed) or marked (it stored it)
  panicked,   \* a send on, or a close of, the closed channel ended the process
  sent,       \* history: the messages put on the queue, in order
  handled,    \* history: how many of them are completely dispatched
  joined,     \* history: subscription -> Len(sent) when it was put on the queue
  received,   \* history: subscription -> the messages its handler passed on
  flushed     \* history: flusher -> Len(sent) when it called Flush

chanVars == <<queue, qclosed, closed, wg, panicked>>
loopVars == <<listeners, loop, current, todo, partner>>
subVars  == <<done, cleaned, client>>
callVars == <<emit, emitted, flush, disposing>>
history  == <<sent, handled, joined, received, flushed>>
vars == <<chanVars, loopVars, subVars, callVars, history>>

Init ==
  /\ queue = <<>> /\ qclosed = FALSE /\ closed = FALSE /\ wg = 0 /\ panicked = FALSE
  /\ listeners = {} /\ loop = "receive" /\ current = NoMsg /\ todo = {} /\ partner = NoSub
  /\ done = [s \in Subs |-> FALSE]
  /\ cleaned = [w \in Waiters |-> FALSE]
  /\ client = [s \in Subs |-> "new"]
  /\ emit = [e \in Emitters |-> "idle"]
  /\ emitted = [e \in Emitters |-> 0]
  /\ flush = [f \in Flushers |-> FALSE]
  /\ disposing = [d \in Disposers |-> "no"]
  /\ sent = <<>> /\ handled = 0
  /\ joined = [s \in Subs |-> 0]
  /\ received = [s \in Subs |-> <<>>]
  /\ flushed = [f \in Flushers |-> 0]

-----------------------------------------------------------------------------
(* The callers.  A send blocks while the buffer is full and panics when the *)
(* channel is closed.                                                       *)

Put(item) ==
  IF qclosed THEN panicked' = TRUE /\ UNCHANGED queue
  ELSE /\ Len(queue) < Capacity
       /\ queue' = Append(queue, item)
       /\ UNCHANGED panicked

\* Emit: the load of b.closed, wg.Add(1) and the send are three steps.
EmitBegin(e) ==
  /\ ~panicked /\ ~closed
  /\ emit[e] = "idle" /\ emitted[e] < MaxEmits
  /\ emit' = [emit EXCEPT ![e] = "open"]
  /\ emitted' = [emitted EXCEPT ![e] = @ + 1]
  /\ UNCHANGED <<chanVars, loopVars, subVars, flush, disposing, history>>

EmitAdd(e) ==
  /\ ~panicked
  /\ emit[e] = "open"
  /\ emit' = [emit EXCEPT ![e] = "sending"]
  /\ wg' = wg + 1
  /\ UNCHANGED <<queue, qclosed, closed, panicked, loopVars, subVars, emitted, flush, disposing,
                 history>>

EmitSend(e) ==
  LET m == [from |-> e, seq |-> emitted[e]] IN
  /\ ~panicked
  /\ emit[e] = "sending"
  /\ Put(MsgItem(m))
  /\ emit' = [emit EXCEPT ![e] = "idle"]
  /\ sent' = IF qclosed THEN sent ELSE Append(sent, m)
  /\ UNCHANGED <<qclosed, closed, wg, loopVars, subVars, emitted, flush, disposing,
                 handled, joined, received, flushed>>

\* On and Wait.
Subscribe(s) ==
  /\ ~panicked
  /\ client[s] = "new"
  /\ Put(SubItem(s))
  /\ client' = [client EXCEPT ![s] = "subscribed"]
  /\ joined' = [joined EXCEPT ![s] = Len(sent)]
  /\ UNCHANGED <<qclosed, closed, wg, loopVars, done, cleaned, callVars,
                 sent, handled, received, flushed>>

\* The subscriber's context is cancelled.
CancelContext(s) ==
  /\ ~panicked /\ ~done[s]
  /\ done' = [done EXCEPT ![s] = TRUE]
  /\ UNCHANGED <<chanVars, loopVars, cleaned, client, callVars, history>>

\* The goroutine that called Wait finds its channel closed.
WaitClosed(w) ==
  /\ ~panicked
  /\ client[w] = "subscribed" /\ cleaned[w]
  /\ client' = [client EXCEPT ![w] = "closed"]
  /\ UNCHANGED <<chanVars, loopVars, done, cleaned, callVars, history>>

\* It gives up on another error and never reads the channel.
WaitAbandoned(w) ==
  /\ ~panicked
  /\ w \in Abandoners /\ client[w] = "subscribed"
  /\ client' = [client EXCEPT ![w] = "gone"]
  /\ UNCHANGED <<chanVars, loopVars, done, cleaned, callVars, history>>

FlushBegin(f) ==
  /\ ~panicked /\ ~flush[f]
  /\ flush' = [flush EXCEPT ![f] = TRUE]
  /\ flushed' = [flushed EXCEPT ![f] = Len(sent)]
  /\ UNCHANGED <<chanVars, loopVars, subVars, emit, emitted, disposing,
                 sent, handled, joined, received>>

\* Mutant: Flush waits for the queue to be empty instead of the messages to be handled.
FlushQueueEmpty(f) ==
  /\ ~panicked /\ flush[f]
  /\ queue = <<>>
  /\ flush' = [flush EXCEPT ![f] = FALSE]
  /\ UNCHANGED <<chanVars, loopVars, subVars, emit, emitted, disposing, history>>

FlushEnd(f) ==
  /\ ~panicked /\ flush[f]
  /\ wg = 0
  /\ flush' = [flush EXCEPT ![f] = FALSE]
  /\ UNCHANGED <<chanVars, loopVars, subVars, emit, emitted, disposing, history>>

\* Dispose: the load, the store and the close are three steps.
DisposeCheck(d) ==
  /\ ~panicked /\ ~closed
  /\ disposing[d] = "no"
  /\ disposing' = [disposing EXCEPT ![d] = "checked"]
  /\ UNCHANGED <<chanVars, loopVars, subVars, emit, emitted, flush, history>>

DisposeMark(d) ==
  /\ ~panicked /\ disposing[d] = "checked"
  /\ closed' = TRUE
  /\ disposing' = [disposing EXCEPT ![d] = "marked"]
  /\ UNCHANGED <<queue, qclosed, wg, panicked, loopVars, subVars, emit, emitted, flush, history>>

DisposeClose(d) ==
  /\ ~panicked /\ disposing[d] = "marked"
  /\ IF qclosed THEN panicked' = TRUE /\ UNCHANGED qclosed
                ELSE qclosed' = TRUE /\ UNCHANGED panicked
  /\ disposing' = [disposing EXCEPT ![d] = "no"]
  /\ UNCHANGED <<queue, closed, wg, loopVars, subVars, emit, emitted, flush, history>>

-----------------------------------------------------------------------------
(* eventLoop.                                                               *)

LoopRegister ==
  /\ ~panicked /\ loop = "receive" /\ queue # <<>> /\ ~IsMsg(Head(queue))
  /\ queue' = Tail(queue)
  /\ listeners' = listeners \cup {Head(queue).sub}
  /\ UNCHANGED <<qclosed, closed, wg, panicked, loop, current, todo, partner,
                 subVars, callVars, history>>

LoopReceive ==
  /\ ~panicked /\ loop = "receive" /\ queue # <<>> /\ IsMsg(Head(queue))
  /\ queue' = Tail(queue)
  /\ loop' = "dispatch"
  /\ current' = Head(queue).msg
  /\ todo' = listeners
  /\ UNCHANGED <<qclosed, closed, wg, panicked, listeners, partner, subVars, callVars, history>>

\* Mutant: an expired listener ends the round for the listeners after it.
ExpiredEndsRound(s) ==
  /\ ~panicked /\ loop = "dispatch" /\ s \in todo
  /\ done[s]
  /\ cleaned' = [w \in Waiters |-> cleaned[w] \/ w = s]
  /\ todo' = {}
  /\ UNCHANGED <<chanVars, listeners, loop, current, partner, done, client, callVars, history>>

\* One listener's turn.  The subscription of an expired one is not removed: the loop
\* deletes the key msg.sub, which is nil for a message.
LoopExpired(s) ==
  /\ ~panicked /\ loop = "dispatch" /\ s \in todo
  /\ done[s]
  /\ cleaned' = [w \in Waiters |-> cleaned[w] \/ w = s]
  /\ todo' = todo \ {s}
  /\ UNCHANGED <<chanVars, listeners, loop, current, partner, done, client, callVars, history>>

\* Mutant: the context is not looked at before the handler is called.
CallExpired(h) ==
  /\ ~panicked /\ loop = "dispatch" /\ h \in todo \cap Handlers
  /\ loop' = "call" /\ partner' = h
  /\ todo' = todo \ {h}
  /\ UNCHANGED <<chanVars, listeners, current, subVars, callVars, history>>

\* The listener's context is looked at, and then its handler is called: the context may be
\* cancelled in between, and the handler is called all the same.
LoopCall(h) ==
  /\ ~panicked /\ loop = "dispatch" /\ h \in todo \cap Handlers
  /\ ~done[h]
  /\ loop' = "call" /\ partner' = h
  /\ todo' = todo \ {h}
  /\ UNCHANGED <<chanVars, listeners, current, subVars, callVars, history>>

LoopHandle ==
  /\ ~panicked /\ loop = "call"
  /\ received' = [received EXCEPT ![partner] = Append(@, current)]
  /\ loop' = "dispatch" /\ partner' = NoSub
  /\ UNCHANGED <<chanVars, listeners, current, todo, subVars, callVars,
                 sent, handled, joined, flushed>>

LoopOffer(w) ==
  /\ ~panicked /\ loop = "dispatch" /\ w \in todo \cap Waiters
  /\ ~done[w]
  /\ todo' = todo \ {w}
  /\ IF current.from \in Matching THEN loop' = "send" /\ partner' = w
                                  ELSE UNCHANGED <<loop, partner>>
  /\ UNCHANGED <<chanVars, listeners, current, subVars, callVars, history>>

\* Mutant: the handler sends without a select on the context.
HandOverBlindly ==
  /\ ~panicked /\ loop = "send"
  /\ client[partner] = "subscribed"
  /\ client' = [client EXCEPT ![partner] = "matched"]
  /\ received' = [received EXCEPT ![partner] = <<current>>]
  /\ done' = [done EXCEPT ![partner] = TRUE]
  /\ loop' = "dispatch"
  /\ partner' = NoSub
  /\ UNCHANGED <<chanVars, listeners, current, todo, cleaned, callVars,
                 sent, handled, joined, flushed>>

\* select: the waiting goroutine takes the message, or the context is done; then cancel().
LoopHandOver ==
  /\ ~panicked /\ loop = "send"
  /\ \/ /\ client[partner] = "subscribed"
        /\ client' = [client EXCEPT ![partner] = "matched"]
        /\ received' = [received EXCEPT ![partner] = <<current>>]
     \/ /\ done[partner]
        /\ UNCHANGED <<client, received>>
  /\ done' = [done EXCEPT ![partner] = TRUE]
  /\ loop' = "dispatch"
  /\ partner' = NoSub
  /\ UNCHANGED <<chanVars, listeners, current, todo, cleaned, callVars,
                 sent, handled, joined, flushed>>

\* b.wg.Done()
LoopDone ==
  /\ ~panicked /\ loop = "dispatch" /\ todo = {}
  /\ loop' = "receive"
  /\ current' = NoMsg
  /\ wg' = wg - 1
  /\ handled' = handled + 1
  /\ UNCHANGED <<queue, qclosed, closed, panicked, listeners, todo, partner,
                 subVars, callVars, sent, joined, received, flushed>>

\* The queue is closed and drained: the deferred function releases every waiter.
LoopEnd ==
  /\ ~panicked /\ loop = "receive" /\ queue = <<>> /\ qclosed
  /\ loop' = "ended"
  /\ done' = [s \in Subs |-> done[s] \/ s \in listeners \cap Waiters]
  /\ cleaned' = [w \in Waiters |-> cleaned[w] \/ w \in listeners]
  /\ listeners' = {}
  /\ UNCHANGED <<chanVars, current, todo, partner, client, callVars, history>>

LoopStep ==
  \/ LoopRegister \/ LoopReceive \/ LoopHandle \/ LoopHandOver \/ LoopDone \/ LoopEnd
  \/ \E s \in Subs : LoopExpired(s) \/ LoopCall(s) \/ LoopOffer(s)

Next ==
  \/ LoopStep
  \/ \E e \in Emitters : EmitBegin(e) \/ EmitAdd(e) \/ EmitSend(e)
  \/ \E s \in Subs : Subscribe(s) \/ CancelContext(s)
  \/ \E w \in Waiters : WaitClosed(w) \/ WaitAbandoned(w)
  \/ \E f \in Flushers : FlushBegin(f) \/ FlushEnd(f)
  \/ \E d \in Disposers : DisposeCheck(d) \/ DisposeMark(d) \/ DisposeClose(d)

Spec == Init /\ [][Next]_vars

(* Fairness: the Go runtime runs the event loop and every goroutine that can *)
(* proceed.  A goroutine that abandoned its Wait has returned from the call  *)
(* whose context it passed, and gRPC cancels the context of a finished call. *)
Fairness ==
  /\ WF_vars(LoopStep)
  /\ \A e \in Emitters : WF_vars(EmitSend(e))
  /\ \A w \in Waiters : WF_vars(WaitClosed(w)) /\ WF_vars(client[w] = "gone" /\ CancelContext(w))

FairSpec == Spec /\ Fairness

-----------------------------------------------------------------------------
(* Properties                                                              *)

TypeOK ==
  /\ queue \in Seq([msg : Message \cup {NoMsg}, sub : Subs \cup {NoSub}])
  /\ Len(queue) <= Capacity
  /\ {qclosed, closed, panicked} \subseteq BOOLEAN
  /\ wg \in Nat
  /\ listeners \subseteq Subs /\ todo \subseteq listeners
  /\ loop \in {"receive", "dispatch", "call", "send", "ended"}
  /\ current \in Message \cup {NoMsg}
  /\ partner \in Subs \cup {NoSub}
  /\ done \in [Subs -> BOOLEAN] /\ cleaned \in [Waiters -> BOOLEAN]
  /\ client \in [Subs -> {"new", "subscribed", "matched", "closed", "gone"}]
  /\ emit \in [Emitters -> {"idle", "open", "sending"}] /\ emitted \in [Emitters -> 0 .. MaxEmits]
  /\ flush \in [Flushers -> BOOLEAN]
  /\ disposing \in [Disposers -> {"no", "checked", "marked"}]
  /\ sent \in Seq(Message) /\ handled \in 0 .. Len(sent)
  /\ joined \in [Subs -> 0 .. Len(sent)] /\ flushed \in [Flushers -> 0 .. Len(sent)]
  /\ received \in [Subs -> Seq(Message)]

\* A registered handler whose context is open has been called with every message whose
\* dispatch is complete and that was emitted after On: no other listener's expiry,
\* cancellation or slow Wait makes the loop skip it.
NothingSkipped ==
  \A h \in Handlers \cap listeners :
    ~done[h] =>
      joined[h] + Len(received[h]) =
        handled + (IF loop \notin {"receive", "ended"} /\ h \notin todo \cup {partner} THEN 1 ELSE 0)

\* The bus keeps its types and skips nobody.
Delivers == TypeOK /\ NothingSkipped

\* Flush returns only when every handler subscribed before the call, and still interested,
\* has been called with every message queued before the call.
FlushDelivers ==
  [][\A f \in Flushers : flush[f] /\ ~flush'[f] =>
       \A h \in Handlers :
         client[h] = "subscribed" /\ ~done[h] /\ joined[h] <= flushed[f]
           => joined[h] + Len(received[h]) >= flushed[f]]_vars

\* The bus is one log: every handler reads it from where it joined, in order, without a gap
\* and until its context is done, but for the one call that the loop is about to make, and
\* every waiter gets its first match.
Log == INSTANCE MessageLog WITH
  Messages <- Message, Matches <- {m \in Message : m.from \in Matching},
  log <- sent, base <- joined, got <- received,
  members <- {s \in Subs : client[s] # "new"}, left <- {s \in Subs : done[s] /\ ~(loop = "call" /\ s = partner)}
ImplementsLog == Log!Spec

\* Every message put on the queue is dispatched to the end, whatever the goroutines that
\* called Wait do: one that gave up holds the loop only until its context is cancelled.
EmittedIsHandled ==
  \A n \in 1 .. Cardinality(Emitters) * MaxEmits :
    Len(sent) >= n ~> handled >= n \/ panicked

\* Dispose releases every goroutine blocked on a Wait (bus.go:58: "The queue closed out, we
\* should clean up all the remaining subscriptions").
DisposeReleases ==
  \A w \in Waiters : (qclosed /\ client[w] = "subscribed") ~> (client[w] # "subscribed" \/ panicked)

\* Neither the event loop nor a Wait is held for ever: what is emitted is handled, and a
\* bus that is disposed of lets go of those who wait on it.
NobodyIsHeld == EmittedIsHandled /\ DisposeReleases

=============================================================================
