----------------------------- MODULE RpcStreams -----------------------------
(***************************************************************************)
(* A subscription of the API client (RpcSubscription,                      *)
(* src/modules/rpc/src/rpc.ts): any number of listeners share one stream   *)
(* of the host, which is requested with the first listener, cancelled with *)
(* the last, and requested again when it ends while there are listeners.   *)
(* The host, and the network, may end a stream at any time; the client     *)
(* hears of the end, and of the end of a stream it cancelled, later, when  *)
(* it has taken what was on its way.                                       *)
(***************************************************************************)
EXTENDS Integers, Sequences, FiniteSets

CONSTANTS Listeners,
          MaxStreams,     \* bound: how often a stream is requested
          MaxMessages     \* bound: how many messages the host publishes

Streams == 1 .. MaxStreams
None == 0

VARIABLES listeners,    \* the listeners that are subscribed
          call,         \* the stream the subscription holds, or None
          streams,      \* how many were requested
          state,        \* state[s]: "none", "open", "ending" or "ended"
          queue,        \* queue[s]: the messages on their way
          published,    \* how many messages the host has published
          last,         \* last[l]: the latest message the listener was called with
          repeated,     \* a listener was called with a message it had been called with
          rejoined      \* history: a listener came while a cancelled stream had not ended

vars == <<listeners, call, streams, state, queue, published, last, repeated, rejoined>>

Open == {s \in Streams : state[s] = "open"}

TypeOK ==
    /\ listeners \subseteq Listeners
    /\ call \in 0 .. streams /\ streams \in 0 .. MaxStreams
    /\ state \in [Streams -> {"none", "open", "ending", "ended"}]
    /\ published \in 0 .. MaxMessages
    /\ queue \in [Streams -> Seq(1 .. MaxMessages)]
    /\ last \in [Listeners -> 0 .. MaxMessages]
    /\ repeated \in BOOLEAN /\ rejoined \in BOOLEAN

Init ==
    /\ listeners = {} /\ call = None /\ streams = 0
    /\ state = [s \in Streams |-> "none"]
    /\ queue = [s \in Streams |-> <<>>]
    /\ published = 0
    /\ last = [l \in Listeners |-> 0]
    /\ repeated = FALSE /\ rejoined = FALSE

-----------------------------------------------------------------------------
\* subscribe(): a stream of its own is requested and held.
Request ==
    /\ streams < MaxStreams
    /\ streams' = streams + 1 /\ call' = streams + 1
    /\ state' = [state EXCEPT ![streams + 1] = "open"]

\* event(listener).
Listen(l) ==
    /\ l \notin listeners
    /\ listeners' = listeners \cup {l}
    /\ IF call = None THEN Request ELSE UNCHANGED <<call, streams, state>>
    /\ rejoined' = (rejoined \/ (call = None /\ \E s \in Streams : state[s] = "ending"))
    /\ UNCHANGED <<queue, published, last, repeated>>

\* The same that keeps the stream of the last listener.
LeaveOpen(l) ==
    /\ l \in listeners
    /\ listeners' = listeners \ {l}
    /\ call' = IF listeners = {l} THEN None ELSE call
    /\ UNCHANGED <<streams, state, queue, published, last, repeated, rejoined>>

\* dispose() of what event() returned: the last listener cancels the stream that
\* is held.
Leave(l) ==
    /\ l \in listeners
    /\ listeners' = listeners \ {l}
    /\ IF listeners = {l} /\ call # None
       THEN /\ call' = None
            /\ state' = [state EXCEPT ![call] = IF @ = "open" THEN "ending" ELSE @]
       ELSE UNCHANGED <<call, state>>
    /\ UNCHANGED <<streams, queue, published, last, repeated, rejoined>>

\* "data": every listener is called, also with what a stream still carries that
\* was cancelled.
Data(s) ==
    /\ queue[s] # <<>>
    /\ queue' = [queue EXCEPT ![s] = Tail(@)]
    /\ last' = [l \in Listeners |-> IF l \in listeners THEN Head(queue[s]) ELSE last[l]]
    /\ repeated' = (repeated \/ \E l \in listeners : Head(queue[s]) <= last[l])
    /\ UNCHANGED <<listeners, call, streams, state, published, rejoined>>

\* The same that only looks whether there was an error.
EndForGood(s) ==
    /\ state[s] = "ending" /\ queue[s] = <<>>
    /\ state' = [state EXCEPT ![s] = "ended"]
    /\ UNCHANGED <<listeners, call, streams, queue, published, last, repeated, rejoined>>

\* "end": whichever stream ended, a new one is requested when there are listeners.
End(s) ==
    /\ state[s] = "ending" /\ queue[s] = <<>>
    /\ IF listeners # {}
       THEN /\ streams < MaxStreams
            /\ streams' = streams + 1 /\ call' = streams + 1
            /\ state' = [state EXCEPT ![s] = "ended", ![streams + 1] = "open"]
       ELSE state' = [state EXCEPT ![s] = "ended"] /\ UNCHANGED <<call, streams>>
    /\ UNCHANGED <<listeners, queue, published, last, repeated, rejoined>>

-----------------------------------------------------------------------------
\* The host publishes to every stream that is open.
Publish ==
    /\ published < MaxMessages
    /\ published' = published + 1
    /\ queue' = [s \in Streams |-> IF s \in Open THEN Append(queue[s], published + 1) ELSE queue[s]]
    /\ UNCHANGED <<listeners, call, streams, state, last, repeated, rejoined>>

\* The host goes away, or the network does, and takes every stream with it.
HostEnds ==
    /\ Open # {} /\ streams < MaxStreams
    /\ state' = [s \in Streams |-> IF s \in Open THEN "ending" ELSE state[s]]
    /\ UNCHANGED <<listeners, call, streams, queue, published, last, repeated, rejoined>>

Next ==
    \/ \E l \in Listeners : Listen(l) \/ Leave(l)
    \/ \E s \in Streams : Data(s) \/ End(s)
    \/ Publish \/ HostEnds

\* What is on its way arrives; nobody has to listen, leave or publish.
Fairness == \A s \in Streams : WF_vars(Data(s)) /\ WF_vars(End(s))

Spec == Init /\ [][Next]_vars /\ Fairness

-----------------------------------------------------------------------------
\* While there is a listener the subscription holds a stream that is open, or one
\* whose end, which has it requested again, is on its way.
ListenersHaveStream ==
    /\ TypeOK
    /\ listeners # {} => call # None /\ state[call] \in {"open", "ending"}

\* There is one stream, and none without a listener, and no listener is called
\* twice with one message, as long as no listener came between the cancellation of
\* a stream and its end: then the end of the old stream requests a third one beside
\* the second, which nothing cancels.
OneStream ==
    ~rejoined => /\ Open \subseteq {call} /\ ~repeated
                 /\ listeners = {} => Open = {}

\* Listeners that stay get a stream that is open again, however often the host
\* goes away, as long as it comes back.
Resubscribed ==
    (<>[](listeners # {})) => []<>(call # None /\ state[call] = "open")
=============================================================================
