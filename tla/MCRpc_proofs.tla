----------------------------- MODULE MCRpc_proofs -----------------------------
(***************************************************************************)
(* Proofs about the two patterns of the API client.  The subscriptions     *)
(* (RpcStreams): whoever listens has a stream, and it is the only one      *)
(* unless a listener came while a cancelled stream was ending, for every   *)
(* set of listeners and any number of streams and of messages.  The        *)
(* requests (RpcRequests, R here): an answer is final, for every set of    *)
(* requests and every length of a file.  The link to flight software       *)
(* (RpcFsw, F here): no goroutine meets a closed channel while the stream  *)
(* is up, and both ends agree on the calls in progress, for every set of   *)
(* calls and every capacity.                                               *)
(***************************************************************************)
EXTENDS MCRpc, SequenceTheorems, TLAPS

-----------------------------------------------------------------------------
(* The subscriptions.                                                       *)

\* The streams that may still call the listeners or request another one.
Alive == {s \in Streams : state[s] \in {"open", "ending"}}

\* The subscription holds a stream, which is alive, exactly while there are
\* listeners; what was not requested has no state.
Held ==
    /\ call = None <=> listeners = {}
    /\ call # None => call \in Alive
    /\ \A s \in Streams : s > streams => state[s] = "none"

\* Unless a listener came back too early one stream is alive, and an open one is held.
Single ==
    ~rejoined => /\ \A s, t \in Alive : s = t
                 /\ \A s \in Streams : state[s] = "open" => s = call

\* What is on its way is in order, and newer than what the listeners have.
InOrder ==
    /\ \A s \in Streams \ Alive : queue[s] = <<>>
    /\ \A s \in Streams : \A i \in 1 .. Len(queue[s]) : queue[s][i] <= published
    /\ \A s \in Streams : \A i, j \in 1 .. Len(queue[s]) : i < j => queue[s][i] < queue[s][j]
    /\ \A l \in Listeners : last[l] <= published
    /\ ~rejoined =>
         \A s \in Streams, l \in Listeners : \A i \in 1 .. Len(queue[s]) : last[l] < queue[s][i]

IInv == TypeOK /\ Held /\ Single /\ InOrder /\ (~rejoined => ~repeated)

\* The bounds are numbers.
Bounded == MaxStreams \in Nat /\ MaxMessages \in Nat

LEMMA BoundsAreNumbers == Bounded /\ Chunks \in Nat
  BY RpcAssumption DEF Bounded

\* The invariant holds at the start.
LEMMA InitIInv == Bounded /\ Init => IInv
<1> SUFFICES ASSUME Bounded, Init PROVE IInv
  OBVIOUS
<1>1. /\ listeners = {} /\ call = 0 /\ streams = 0 /\ published = 0
      /\ state = [s \in Streams |-> "none"] /\ queue = [s \in Streams |-> <<>>]
      /\ last = [l \in Listeners |-> 0] /\ repeated = FALSE /\ rejoined = FALSE
  BY DEF Init, None
<1>2. Alive = {} /\ \A s \in Streams : Len(queue[s]) = 0
  BY <1>1 DEF Alive
<1>3. TypeOK
  <2>1. queue \in [Streams -> Seq(1 .. MaxMessages)]
    BY <1>1
  <2>2. last \in [Listeners -> 0 .. MaxMessages] /\ state \in [Streams -> {"none", "open", "ending", "ended"}]
    BY <1>1 DEF Bounded
  <2>3. /\ 0 \in 0 .. MaxStreams /\ 0 \in 0 .. 0 /\ 0 \in 0 .. MaxMessages
    BY DEF Bounded
  <2>4. listeners \subseteq Listeners /\ repeated \in BOOLEAN /\ rejoined \in BOOLEAN
    BY <1>1
  <2>5. call \in 0 .. streams /\ streams \in 0 .. MaxStreams /\ published \in 0 .. MaxMessages
    BY <1>1, <2>3
  <2> QED
    BY <2>1, <2>2, <2>4, <2>5 DEF TypeOK
<1>4. Held /\ Single
  BY <1>1, <1>2 DEF Held, Single, None
<1>5. InOrder
  BY <1>1, <1>2 DEF InOrder
<1> QED
  BY <1>1, <1>3, <1>4, <1>5 DEF IInv

\* A listener that comes keeps it: the first one requests a stream.
LEMMA ListenKeeps ==
  ASSUME Bounded, IInv, NEW l \in Listeners, Listen(l)
  PROVE  IInv'
<1> USE DEF IInv, Bounded
<1>1. /\ listeners' = listeners \cup {l}
      /\ rejoined' = (rejoined \/ (call = None /\ \E s \in Streams : state[s] = "ending"))
      /\ UNCHANGED <<queue, published, last, repeated>>
  BY DEF Listen
<1>2. CASE call = None
  <2>1. /\ streams + 1 \in Streams /\ streams' = streams + 1 /\ call' = streams + 1
        /\ state' = [state EXCEPT ![streams + 1] = "open"]
    BY <1>2 DEF Listen, Request, Streams, TypeOK
  <2>2. Alive' = Alive \cup {streams + 1} /\ state[streams + 1] = "none"
    BY <2>1 DEF Alive, TypeOK, Held
  <2>3. TypeOK'
    BY <1>1, <2>1 DEF TypeOK, Streams
  <2>4. Held'
    <3>1. call' # None /\ listeners' # {} /\ call' \in Alive'
      BY <1>1, <2>1, <2>2 DEF TypeOK, None
    <3>2. ASSUME NEW s \in Streams, s > streams + 1 PROVE state'[s] = "none"
      BY <2>1, <3>2 DEF Held, TypeOK, Streams
    <3> QED
      BY <2>1, <3>1, <3>2 DEF Held
  <2>5. ~rejoined' => Alive = {}
    <3> SUFFICES ASSUME ~rejoined', NEW s \in Alive PROVE FALSE
      OBVIOUS
    <3>1. ~rejoined /\ s \in Streams /\ state[s] # "ending"
      BY <1>1, <1>2 DEF Alive
    <3>2. state[s] = "open" /\ s = call
      BY <3>1 DEF Alive, Single
    <3> QED
      BY <1>2, <3>1, <3>2 DEF Streams, None
  <2>6. Single'
    BY <1>1, <2>1, <2>2, <2>5 DEF Single, Alive, TypeOK
  <2>7. InOrder'
    BY <1>1, <2>2 DEF InOrder
  <2> QED
    BY <1>1, <2>3, <2>4, <2>6, <2>7
<1>3. CASE call # None
  <2>1. UNCHANGED <<call, streams, state>> /\ rejoined' = rejoined
    BY <1>1, <1>3 DEF Listen, TypeOK
  <2>2. Alive' = Alive
    BY <2>1 DEF Alive
  <2>3. TypeOK'
    BY <1>1, <2>1 DEF TypeOK
  <2>4. Held' /\ Single' /\ InOrder'
    BY <1>1, <1>3, <2>1, <2>2 DEF Held, Single, InOrder
  <2> QED
    BY <1>1, <2>1, <2>3, <2>4
<1> QED
  BY <1>2, <1>3

\* A listener that goes keeps it: the last one cancels the stream.
LEMMA LeaveKeeps ==
  ASSUME Bounded, IInv, NEW l \in Listeners, Leave(l)
  PROVE  IInv'
<1> USE DEF IInv, Bounded
<1>1. /\ listeners' = listeners \ {l} /\ l \in listeners
      /\ UNCHANGED <<streams, queue, published, last, repeated, rejoined>>
  BY DEF Leave
<1>2. CASE listeners = {l}
  <2>1. /\ call \in Streams /\ call' = None
        /\ state' = [state EXCEPT ![call] = IF @ = "open" THEN "ending" ELSE @]
    BY <1>2 DEF Leave, Held, Alive
  <2>2. Alive' = Alive
    BY <2>1 DEF Alive, TypeOK
  <2>3. TypeOK'
    BY <1>1, <2>1 DEF TypeOK, None
  <2>4. Held'
    BY <1>1, <1>2, <2>1 DEF Held, TypeOK
  <2>5. Single'
    BY <1>1, <2>1, <2>2 DEF Single, TypeOK
  <2>6. InOrder'
    BY <1>1, <2>2 DEF InOrder
  <2> QED
    BY <1>1, <2>3, <2>4, <2>5, <2>6
<1>3. CASE listeners # {l}
  <2>1. UNCHANGED <<call, state>>
    BY <1>3 DEF Leave
  <2>2. Alive' = Alive
    BY <2>1 DEF Alive
  <2>3. TypeOK'
    BY <1>1, <2>1 DEF TypeOK
  <2>4. Held' /\ Single' /\ InOrder'
    BY <1>1, <1>3, <2>1, <2>2 DEF Held, Single, InOrder
  <2> QED
    BY <1>1, <2>3, <2>4
<1> QED
  BY <1>2, <1>3

\* A message that is taken keeps it: what is still on its way is newer.
LEMMA DataKeeps ==
  ASSUME Bounded, IInv, NEW s \in Streams, Data(s)
  PROVE  IInv'
<1> USE DEF IInv, Bounded
<1> DEFINE q == queue[s]
<1>1. /\ q # <<>> /\ q \in Seq(1 .. MaxMessages)
      /\ queue' = [queue EXCEPT ![s] = Tail(q)]
      /\ last' = [l \in Listeners |-> IF l \in listeners THEN Head(q) ELSE last[l]]
      /\ repeated' = (repeated \/ \E l \in listeners : Head(q) <= last[l])
      /\ UNCHANGED <<listeners, call, streams, state, published, rejoined>>
  BY DEF Data, TypeOK
<1>2. /\ Len(q) \in Nat /\ Len(q) > 0 /\ Head(q) = q[1] /\ q[1] \in 1 .. MaxMessages
      /\ Tail(q) \in Seq(1 .. MaxMessages) /\ Len(Tail(q)) = Len(q) - 1
      /\ \A i \in 1 .. Len(Tail(q)) : Tail(q)[i] = q[i + 1]
  <2> HIDE DEF q
  <2>1. Len(q) \in Nat /\ Len(q) > 0
    BY <1>1
  <2>2. Head(q) = q[1] /\ q[1] \in 1 .. MaxMessages
    BY <1>1, <2>1
  <2>3. Tail(q) \in Seq(1 .. MaxMessages) /\ Len(Tail(q)) = Len(q) - 1
    BY <1>1, <2>1
  <2>4. \A i \in 1 .. Len(Tail(q)) : Tail(q)[i] = q[i + 1]
    BY <1>1, <2>1, <2>3
  <2> QED
    BY <2>1, <2>2, <2>3, <2>4
<1>3. Alive' = Alive /\ queue'[s] = Tail(q)
      /\ \A t \in Streams : t # s => queue'[t] = queue[t]
  BY <1>1 DEF Alive, TypeOK
<1>4. TypeOK'
  BY <1>1, <1>2 DEF TypeOK
<1>5. Held' /\ Single'
  BY <1>1, <1>3 DEF Held, Single
<1>6. s \in Alive /\ q[1] <= published
  BY <1>1, <1>2 DEF InOrder
<1>7. InOrder'
  <2>1. \A t \in Streams \ Alive : queue'[t] = <<>>
    BY <1>3, <1>6 DEF InOrder
  <2>2. \A i \in 1 .. Len(queue'[s]) : queue'[s][i] <= published /\ q[1] < queue'[s][i]
    BY <1>2, <1>3 DEF InOrder
  <2>3. \A i, j \in 1 .. Len(queue'[s]) : i < j => queue'[s][i] < queue'[s][j]
    BY <1>2, <1>3 DEF InOrder
  <2>4. \A l \in Listeners : last'[l] <= published
    BY <1>1, <1>2, <1>6 DEF InOrder
  <2>5. ASSUME ~rejoined, NEW t \in Streams, NEW l \in Listeners, NEW i \in 1 .. Len(queue'[t])
        PROVE  last'[l] < queue'[t][i]
    <3>1. CASE t = s
      <4>1. i + 1 \in 1 .. Len(q) /\ queue'[t][i] = q[i + 1]
        <5> HIDE DEF q
        <5>1. i \in 1 .. Len(Tail(q)) /\ queue'[t][i] = Tail(q)[i]
          BY <1>3, <3>1
        <5> QED
          BY <1>2, <5>1
      <4>3. last[l] < queue'[t][i]
        BY <2>5, <4>1 DEF InOrder
      <4>2. q[1] < queue'[t][i]
        BY <2>2, <2>5, <3>1
      <4> QED
        BY <1>1, <1>2, <4>3, <4>2
    <3>2. CASE t # s
      <4>1. t \notin Alive
        BY <1>6, <2>5, <3>2 DEF Single
      <4>2. queue'[t] = <<>>
        BY <2>1, <4>1
      <4> QED
        BY <2>5, <4>2
    <3> QED
      BY <3>1, <3>2
  <2> QED
    BY <1>1, <1>3, <2>1, <2>2, <2>3, <2>4, <2>5 DEF InOrder
<1>8. ~rejoined => ~repeated'
  <2>1. \A l \in listeners : ~rejoined => last[l] < q[1]
    BY <1>2 DEF InOrder, TypeOK
  <2>2. \A l \in listeners : last[l] \in Nat
    BY DEF TypeOK
  <2> QED
    BY <1>1, <1>2, <2>1, <2>2 DEF TypeOK
<1> QED
  BY <1>1, <1>4, <1>5, <1>7, <1>8

\* A stream that ends keeps it: with listeners another one takes its place.
LEMMA EndKeeps ==
  ASSUME Bounded, IInv, NEW s \in Streams, End(s)
  PROVE  IInv'
<1> USE DEF IInv, Bounded
<1>1. /\ state[s] = "ending" /\ queue[s] = <<>> /\ s \in Alive /\ s <= streams
      /\ UNCHANGED <<listeners, queue, published, last, repeated, rejoined>>
  BY DEF End, Alive, Held, TypeOK, Streams
<1>2. CASE listeners # {}
  <2>1. /\ streams + 1 \in Streams /\ streams' = streams + 1 /\ call' = streams + 1
        /\ state' = [state EXCEPT ![s] = "ended", ![streams + 1] = "open"] /\ s # streams + 1
    BY <1>1, <1>2 DEF End, Streams, TypeOK
  <2>0. \A t \in Streams : state'[t] = IF t = streams + 1 THEN "open"
                                       ELSE IF t = s THEN "ended" ELSE state[t]
    BY <2>1 DEF TypeOK
  <2>2. Alive' = (Alive \ {s}) \cup {streams + 1}
    <3>1. \A t \in Streams : state'[t] \in {"open", "ending"}
                            <=> t = streams + 1 \/ (t # s /\ state[t] \in {"open", "ending"})
      BY <2>0
    <3>2. Alive' = {t \in Streams : t = streams + 1 \/ (t # s /\ state[t] \in {"open", "ending"})}
      BY <3>1, Zenon DEF Alive
    <3> QED
      BY <2>1, <3>2, Zenon DEF Alive
  <2>3. TypeOK'
    <3>1. state' \in [Streams -> {"none", "open", "ending", "ended"}]
      BY <2>1 DEF TypeOK
    <3>2. streams' \in 0 .. MaxStreams /\ call' \in 0 .. streams'
      BY <2>1 DEF TypeOK, Streams
    <3> QED
      BY <1>1, <3>1, <3>2 DEF TypeOK
  <2>4. Held'
    <3>1. call' # None /\ listeners' # {} /\ call' \in Alive'
      BY <1>1, <1>2, <2>1, <2>2 DEF TypeOK, None
    <3>2. ASSUME NEW t \in Streams, t > streams + 1 PROVE state'[t] = "none"
      <4>1. t # s /\ t # streams + 1 /\ t > streams
        BY <1>1, <3>2 DEF TypeOK, Streams
      <4> QED
        BY <2>0, <4>1 DEF Held
    <3> QED
      BY <2>1, <3>1, <3>2 DEF Held
  <2>5. ~rejoined => Alive = {s} /\ \A t \in Streams : state[t] # "open"
    BY <1>1 DEF Single, Alive
  <2>6. Single'
    <3>1. ~rejoined => Alive' = {streams + 1}
      BY <2>2, <2>5
    <3>2. \A t \in Streams : state'[t] = "open" => t \in Alive'
      BY DEF Alive
    <3> QED
      BY <1>1, <2>1, <3>1, <3>2 DEF Single
  <2>7. InOrder'
    BY <1>1, <2>2 DEF InOrder
  <2> QED
    BY <1>1, <2>3, <2>4, <2>6, <2>7
<1>3. CASE listeners = {}
  <2>1. state' = [state EXCEPT ![s] = "ended"] /\ UNCHANGED <<call, streams>>
    BY <1>3 DEF End
  <2>2. Alive' = Alive \ {s} /\ call = None
    BY <1>3, <2>1 DEF Alive, TypeOK, Held
  <2>3. TypeOK'
    BY <1>1, <2>1 DEF TypeOK
  <2>4. Held'
    BY <1>1, <1>3, <2>1, <2>2 DEF Held, TypeOK, None
  <2>5. Single'
    BY <1>1, <2>1, <2>2 DEF Single, TypeOK
  <2>6. InOrder'
    BY <1>1, <2>2 DEF InOrder
  <2> QED
    BY <1>1, <2>3, <2>4, <2>5, <2>6
<1> QED
  BY <1>2, <1>3

\* A message that is published keeps it: it is the newest one.
LEMMA PublishKeeps ==
  ASSUME Bounded, IInv, Publish
  PROVE  IInv'
<1> USE DEF IInv, Bounded
<1>1. /\ published < MaxMessages /\ published' = published + 1 /\ published \in Nat
      /\ queue' = [s \in Streams |-> IF s \in Open THEN Append(queue[s], published + 1) ELSE queue[s]]
      /\ UNCHANGED <<listeners, call, streams, state, last, repeated, rejoined>>
  BY DEF Publish, TypeOK
<1>2. Alive' = Alive /\ Open \subseteq Alive
  BY <1>1 DEF Alive, Open
<1>3. \A s \in Streams : queue[s] \in Seq(1 .. MaxMessages)
  BY DEF TypeOK
<1>4. \A s \in Streams :
        \/ queue'[s] = queue[s]
        \/ /\ s \in Open /\ queue'[s] = Append(queue[s], published + 1)
           /\ Len(queue'[s]) = Len(queue[s]) + 1 /\ queue'[s][Len(queue[s]) + 1] = published + 1
           /\ \A i \in 1 .. Len(queue[s]) : queue'[s][i] = queue[s][i]
  BY <1>1, <1>3
<1>5. TypeOK'
  <2>1. queue' \in [Streams -> Seq(1 .. MaxMessages)]
    <3>1. published + 1 \in 1 .. MaxMessages
      BY <1>1
    <3>2. \A s \in Streams : Append(queue[s], published + 1) \in Seq(1 .. MaxMessages)
      BY <1>3, <3>1
    <3> QED
      BY <1>1, <1>3, <3>2
  <2> QED
    BY <1>1, <2>1 DEF TypeOK
<1>6. Held' /\ Single'
  BY <1>1, <1>2 DEF Held, Single
<1>7. InOrder'
  <2>1. \A s \in Streams \ Alive : queue'[s] = <<>>
    BY <1>2, <1>4 DEF InOrder
  <2>2. ASSUME NEW s \in Streams, NEW i \in 1 .. Len(queue'[s])
        PROVE  /\ queue'[s][i] <= published + 1
               /\ \A j \in 1 .. Len(queue'[s]) : i < j => queue'[s][i] < queue'[s][j]
               /\ \A l \in Listeners : ~rejoined => last[l] < queue'[s][i]
    <3>1. /\ \A k \in 1 .. Len(queue[s]) : queue[s][k] \in Nat /\ queue[s][k] <= published
          /\ \A k, j \in 1 .. Len(queue[s]) : k < j => queue[s][k] < queue[s][j]
          /\ \A l \in Listeners : last[l] \in Nat /\ last[l] <= published
          /\ ~rejoined => \A l \in Listeners : \A k \in 1 .. Len(queue[s]) : last[l] < queue[s][k]
          /\ Len(queue[s]) \in Nat
      BY <1>3 DEF InOrder, TypeOK
    <3>2. CASE queue'[s] = queue[s]
      BY <1>1, <2>2, <3>1, <3>2
    <3>3. CASE /\ Len(queue'[s]) = Len(queue[s]) + 1 /\ queue'[s][Len(queue[s]) + 1] = published + 1
               /\ \A k \in 1 .. Len(queue[s]) : queue'[s][k] = queue[s][k]
      BY <1>1, <2>2, <3>1, <3>3
    <3> QED
      BY <1>4, <3>2, <3>3
  <2>3. \A l \in Listeners : last[l] <= published + 1
    BY <1>1 DEF InOrder, TypeOK
  <2> QED
    BY <1>1, <1>2, <2>1, <2>2, <2>3 DEF InOrder
<1> QED
  BY <1>1, <1>5, <1>6, <1>7

\* A host that goes away keeps it: what was open is ending.
LEMMA HostEndsKeeps ==
  ASSUME IInv, HostEnds
  PROVE  IInv'
<1> USE DEF IInv
<1>1. /\ state' = [s \in Streams |-> IF s \in Open THEN "ending" ELSE state[s]]
      /\ UNCHANGED <<listeners, call, streams, queue, published, last, repeated, rejoined>>
  BY DEF HostEnds
<1>2. Alive' = Alive
  BY <1>1 DEF Alive, Open
<1>3. TypeOK'
  BY <1>1 DEF TypeOK
<1>4. Held' /\ Single'
  BY <1>1, <1>2 DEF Held, Single, Open, TypeOK
<1>5. InOrder'
  BY <1>1, <1>2 DEF InOrder
<1> QED
  BY <1>1, <1>3, <1>4, <1>5

\* The invariant is inductive: every step of the listeners, of the streams and of the
\* host keeps it.
THEOREM Inductive == Spec => []IInv
<1>1. IInv /\ [Next]_vars => IInv'
  <2> SUFFICES ASSUME IInv, [Next]_vars PROVE IInv'
    OBVIOUS
  <2>1. CASE UNCHANGED vars
    BY <2>1 DEF vars, IInv, TypeOK, Held, Single, InOrder, Alive
  <2> QED
    BY <2>1, ListenKeeps, LeaveKeeps, DataKeeps, EndKeeps, PublishKeeps, HostEndsKeeps, BoundsAreNumbers DEF Next
<1>2. Init => IInv
  BY InitIInv, BoundsAreNumbers
<1> QED
  BY <1>1, <1>2, PTL DEF Spec

\* While there is a listener the subscription holds a stream that is open or about to
\* be requested again.
THEOREM ListenersAreServed == Spec => []ListenersHaveStream
<1>1. IInv => ListenersHaveStream
  BY DEF IInv, Held, Alive, ListenersHaveStream
<1> QED
  BY <1>1, Inductive, PTL

\* There is one stream, and no listener is called twice with one message, unless one
\* came while a cancelled stream was ending.
THEOREM StreamIsSingle == Spec => []OneStream
<1>1. IInv => OneStream
  BY DEF IInv, Held, Single, Open, OneStream, Streams, None
<1> QED
  BY <1>1, Inductive, PTL

-----------------------------------------------------------------------------
(* The requests.                                                            *)

\* A request exists on both sides or on neither, and is pending until its call is
\* closed or its file could not be read.
BothSides ==
    \A r \in ApiRequests :
        /\ kind[r] = "none" <=> apiCall[r] = "none"
        /\ kind[r] = "none" <=> promise[r] = "none"
        /\ kind[r] = "none" => r \notin hooked
        /\ apiCall[r] = "closed" => promise[r] # "pending"

\* Only an uplink has a loop, which waits for one write at a time.
OneWrite ==
    \A r \in ApiRequests :
        /\ loop[r] # "none" <=> kind[r] = "uplink"
        /\ kind[r] = "none" => accepted[r] = 0
        /\ loop[r] = "writing" => sent[r] = accepted[r] + 1
        /\ loop[r] = "reading" => sent[r] = accepted[r]

RequestsInv == R!TypeOK /\ BothSides /\ OneWrite /\ R!SettledIsOver

\* The invariant holds at the start.
LEMMA InitRequestsInv == Chunks \in Nat /\ R!Init => RequestsInv
<1> SUFFICES ASSUME Chunks \in Nat, R!Init PROVE RequestsInv
  OBVIOUS
<1>1. /\ kind = [r \in ApiRequests |-> "none"] /\ apiCall = kind /\ promise = kind /\ loop = kind
      /\ hooked = {} /\ token = FALSE
      /\ sent = [r \in ApiRequests |-> 0] /\ accepted = sent
  BY DEF R!Init
<1>2. R!TypeOK
  <2>1. 0 \in 0 .. Chunks + 1
    OBVIOUS
  <2>2. /\ kind \in [ApiRequests -> R!Kinds \cup {"none"}]
        /\ apiCall \in [ApiRequests -> {"none", "open", "cancelled", "closed"}]
        /\ promise \in [ApiRequests -> {"none", "pending", "resolved", "rejected"}]
        /\ loop \in [ApiRequests -> {"none", "writing", "reading", "ended", "failed"}]
    BY <1>1
  <2>3. sent \in [ApiRequests -> 0 .. Chunks + 1] /\ accepted \in [ApiRequests -> 0 .. Chunks + 1]
    BY <1>1, <2>1
  <2> QED
    BY <1>1, <2>2, <2>3 DEF R!TypeOK
<1>3. BothSides /\ OneWrite /\ R!SettledIsOver
  BY <1>1 DEF BothSides, OneWrite, R!SettledIsOver
<1> QED
  BY <1>2, <1>3 DEF RequestsInv

\* A request that is made keeps it: it is pending, and an uplink has its header written.
LEMMA StartKeeps ==
  ASSUME Chunks \in Nat, RequestsInv, NEW r \in ApiRequests, NEW k \in R!Kinds, R!Start(r, k)
  PROVE  RequestsInv'
<1> USE DEF RequestsInv
<1>1. R!TypeOK'
  BY DEF R!Start, R!TypeOK, R!Kinds
<1>2. BothSides'
  BY DEF R!Start, R!TypeOK, BothSides, R!Kinds
<1>3. OneWrite'
  BY DEF R!Start, R!TypeOK, OneWrite, R!Kinds
<1>4. R!SettledIsOver'
  BY DEF R!Start, R!TypeOK, R!SettledIsOver
<1> QED
  BY <1>1, <1>2, <1>3, <1>4

\* The callback of a call keeps it: the call is closed and the promise settled, if
\* it was not before.
LEMMA CalledKeeps ==
  ASSUME Chunks \in Nat, RequestsInv, NEW r \in ApiRequests, NEW outcome \in {"resolved", "rejected"},
         apiCall[r] \in {"open", "cancelled"}, R!Called(r, outcome)
  PROVE  RequestsInv'
<1> USE DEF RequestsInv
<1>1. R!TypeOK'
  BY DEF R!Called, R!TypeOK
<1>2. BothSides'
  BY DEF R!Called, R!TypeOK, BothSides
<1>3. OneWrite'
  BY DEF R!Called, R!TypeOK, OneWrite
<1>4. R!SettledIsOver'
  BY DEF R!Called, R!TypeOK, R!SettledIsOver
<1> QED
  BY <1>1, <1>2, <1>3, <1>4

\* A cancellation keeps it: it closes nothing by itself.
LEMMA CancelKeeps ==
  ASSUME RequestsInv, R!Cancel \/ \E r \in ApiRequests : R!CancelLate(r)
  PROVE  RequestsInv'
<1> USE DEF RequestsInv
<1>1. /\ UNCHANGED <<kind, promise, hooked, loop, sent, accepted>>
      /\ token' \in BOOLEAN
      /\ apiCall' \in [ApiRequests -> {"none", "open", "cancelled", "closed"}]
      /\ \A r \in ApiRequests : apiCall'[r] = apiCall[r] \/ (apiCall[r] = "open" /\ apiCall'[r] = "cancelled")
  BY DEF R!Cancel, R!CancelLate, R!TypeOK
<1>2. R!TypeOK'
  BY <1>1 DEF R!TypeOK
<1>3. BothSides' /\ R!SettledIsOver'
  BY <1>1 DEF BothSides, R!SettledIsOver
<1>4. OneWrite'
  BY <1>1 DEF OneWrite
<1> QED
  BY <1>2, <1>3, <1>4

\* The loop of an uplink keeps it: it counts what was called back, and gives the
\* promise up when it fails.
LEMMA LoopKeeps ==
  ASSUME Chunks \in Nat, RequestsInv, NEW r \in ApiRequests,
         R!Written(r) \/ R!Chunk(r) \/ R!End(r) \/ R!ReadFails(r)
  PROVE  RequestsInv'
<1> USE DEF RequestsInv
<1>1. CASE R!Written(r)
  <2>1. R!TypeOK'
    BY <1>1 DEF R!Written, R!TypeOK, OneWrite
  <2>2. BothSides' /\ R!SettledIsOver'
    BY <1>1 DEF R!Written, R!TypeOK, BothSides, R!SettledIsOver
  <2>3. OneWrite'
    BY <1>1 DEF R!Written, R!TypeOK, OneWrite
  <2> QED
    BY <2>1, <2>2, <2>3
<1>2. CASE R!Chunk(r)
  <2>1. R!TypeOK'
    BY <1>2 DEF R!Chunk, R!TypeOK
  <2>2. BothSides' /\ R!SettledIsOver'
    BY <1>2 DEF R!Chunk, R!TypeOK, BothSides, R!SettledIsOver
  <2>3. OneWrite'
    BY <1>2 DEF R!Chunk, R!TypeOK, OneWrite
  <2> QED
    BY <2>1, <2>2, <2>3
<1>3. CASE R!End(r)
  <2>1. R!TypeOK'
    BY <1>3 DEF R!End, R!TypeOK
  <2>2. BothSides' /\ R!SettledIsOver'
    BY <1>3 DEF R!End, R!TypeOK, BothSides, R!SettledIsOver
  <2>3. OneWrite'
    BY <1>3 DEF R!End, R!TypeOK, OneWrite
  <2> QED
    BY <2>1, <2>2, <2>3
<1>4. CASE R!ReadFails(r)
  <2>1. R!TypeOK'
    BY <1>4 DEF R!ReadFails, R!TypeOK
  <2>2. BothSides' /\ R!SettledIsOver'
    BY <1>4 DEF R!ReadFails, R!TypeOK, BothSides, R!SettledIsOver, OneWrite
  <2>3. OneWrite'
    BY <1>4 DEF R!ReadFails, R!TypeOK, OneWrite
  <2> QED
    BY <2>1, <2>2, <2>3
<1> QED
  BY <1>1, <1>2, <1>3, <1>4

\* The invariant is inductive: every step of the callers, of the host and of the
\* loop that writes a file keeps it.
THEOREM RequestsInductive == R!Spec => []RequestsInv
<1>1. RequestsInv /\ [R!Next]_R!vars => RequestsInv'
  <2> SUFFICES ASSUME RequestsInv, [R!Next]_R!vars PROVE RequestsInv'
    OBVIOUS
  <2>1. CASE UNCHANGED R!vars
    BY <2>1 DEF R!vars, RequestsInv, R!TypeOK, BothSides, OneWrite, R!SettledIsOver
  <2>2. ASSUME NEW r \in ApiRequests, NEW k \in R!Kinds, R!Start(r, k) PROVE RequestsInv'
    BY <2>2, StartKeeps, BoundsAreNumbers
  <2>3. ASSUME NEW r \in ApiRequests, R!Answer(r) \/ R!Fail(r) PROVE RequestsInv'
    <3>1. CASE R!Answer(r)
      BY <3>1, CalledKeeps, BoundsAreNumbers DEF R!Answer
    <3>2. CASE R!Fail(r)
      BY <3>2, CalledKeeps, BoundsAreNumbers DEF R!Fail
    <3> QED
      BY <2>3, <3>1, <3>2
  <2>4. CASE R!Cancel \/ \E r \in ApiRequests : R!CancelLate(r)
    BY <2>4, CancelKeeps
  <2>5. ASSUME NEW r \in ApiRequests, R!Written(r) \/ R!Chunk(r) \/ R!End(r) \/ R!ReadFails(r) PROVE RequestsInv'
    BY <2>5, LoopKeeps, BoundsAreNumbers
  <2> QED
    BY <2>1, <2>2, <2>3, <2>4, <2>5 DEF R!Next
<1>2. R!Init => RequestsInv
  BY InitRequestsInv, BoundsAreNumbers
<1> QED
  BY <1>1, <1>2, PTL DEF R!Spec

\* An answer means that the request is over: its call is closed and its listener
\* gone, but for the calls that forget it and for an uplink whose file could not be read.
THEOREM AnsweredIsOver == R!Spec => []AnswersAreFinal
<1>1. RequestsInv => AnswersAreFinal
  BY DEF RequestsInv, AnswersAreFinal, R!AnswersAreFinal
<1> QED
  BY <1>1, RequestsInductive, PTL

-----------------------------------------------------------------------------
(* The link to flight software.                                            *)

\* What the goroutines hold.
Carried ==
  /\ replies \in Seq(F!Calls)
  /\ sender \in {"send", "error"} => sending \in F!Packet
  /\ receiver = "deliver" => reply \in F!Calls

\* A channel that is open belongs to a call in progress, and a call in progress has an open
\* one until process() closes the channels.
ChannelsOpen ==
  \A c \in F!Calls :
    /\ open[c] => c \in entries
    /\ c \in entries /\ ~open[c] => receiver \in {"close uplink", "ended"}

\* The goroutines leave their loops only when the stream has ended.
EndsLate ==
  /\ receiver \in {"close replies", "close uplink", "ended"} => link # "up"
  /\ qclosed => receiver = "ended"
  /\ sender \in {"error", "stuck"} => link = "broken"

\* The packet that opens a call is on its way at most once, before the client has a task.
Opening(p, c) == p.id = c /\ p.kind \in {"request", "header"}
InQueue(c) == \E i \in 1 .. Len(packets) : Opening(packets[i], c)
InSending(c) == sender = "send" /\ Opening(sending, c)
InStream(c) == \E i \in 1 .. Len(toClient) : Opening(toClient[i], c)
Opened(c) == fswCall[c] # "idle" /\ ~(fswCall[c] = "push" /\ next[c] \in {"request", "header"})
OnceIn(q, c) == \A i, j \in 1 .. Len(q) : Opening(q[i], c) /\ Opening(q[j], c) => i = j
OpenedOnce(c) ==
  /\ OnceIn(packets, c) /\ OnceIn(toClient, c)
  /\ InQueue(c) => ~InSending(c) /\ ~InStream(c)
  /\ InSending(c) => ~InStream(c)
  /\ InQueue(c) \/ InSending(c) \/ InStream(c) => task[c] = "none" /\ Opened(c)
  /\ task[c] # "none" => Opened(c)
OnlyOnce == \A c \in F!Calls : OpenedOnce(c)

\* The replies are of calls that the client has answered, once or again, and while the stream
\* is up a call ends with such a reply.
OnItsWay(c) == \E i \in 1 .. Len(replies) : replies[i] = c
Delivering(c) == receiver = "deliver" /\ reply = c
RepliedOnce(c) ==
  /\ OnItsWay(c) \/ Delivering(c) => task[c] = "replied"
  /\ link = "up" /\ fswCall[c] \in {"got", "returned"} => task[c] = "replied" /\ result[c] = "reply"
Replied == \A c \in F!Calls : RepliedOnce(c)

FswInv ==
  /\ F!TypeOK /\ F!EntriesAreCalls /\ F!NoPanic
  /\ Carried /\ ChannelsOpen /\ EndsLate /\ OnlyOnce /\ Replied

\* The initial state.
LEMMA FswInit == F!Init => FswInv
<1> SUFFICES ASSUME F!Init PROVE FswInv
  OBVIOUS
<1>1. F!TypeOK
  <2>1. packets \in Seq(F!Packet) /\ toClient \in Seq(F!Packet) /\ Len(packets) = 0 /\ Len(toClient) = 0
    BY DEF F!Init
  <2>2. 0 <= Capacity /\ 0 <= Window /\ 0 \in 0 .. MaxData
    BY RpcAssumption
  <2>3. next \in [F!Calls -> {"request", "header", "data", "final"}]
    BY DEF F!Init
  <2>4. fed \in [F!Calls -> 0 .. MaxData] /\ result \in [F!Calls -> F!Answer \cup {F!None}]
    BY <2>2 DEF F!Init
  <2>5. entries \subseteq F!Calls /\ open \in [F!Calls -> BOOLEAN] /\ failing \in [F!Calls -> BOOLEAN]
        /\ done \in [F!Calls -> BOOLEAN]
    BY DEF F!Init
  <2>6. fswCall \in [F!Calls -> {"idle", "push", "source", "waiting", "cancel", "drain", "got", "returned"}]
        /\ task \in [F!Calls -> {"none", "running", "replied"}]
    BY DEF F!Init
  <2> QED
    BY <2>1, <2>2, <2>3, <2>4, <2>5, <2>6 DEF F!Init, F!TypeOK
<1>2. F!EntriesAreCalls /\ F!NoPanic /\ Carried /\ ChannelsOpen /\ EndsLate
  BY DEF F!Init, F!EntriesAreCalls, F!NoPanic, Carried, ChannelsOpen, EndsLate
<1>3. OnlyOnce
  BY DEF F!Init, OnlyOnce, OpenedOnce, OnceIn, InQueue, InSending, InStream
<1>4. Replied
  BY DEF F!Init, Replied, RepliedOnce, OnItsWay, Delivering
<1> QED
  BY <1>1, <1>2, <1>3, <1>4 DEF FswInv

\* A step that moves no packet keeps the openings.
LEMMA OpeningsSame ==
  ASSUME OnlyOnce, UNCHANGED <<packets, toClient, sender, sending, task, feeds>>,
         \A c \in F!Calls : Opened(c) => Opened(c)'
  PROVE  OnlyOnce'
BY DEF OnlyOnce, OpenedOnce, OnceIn, InQueue, InSending, InStream, Opening

\* A step that moves no reply keeps the replies, if no call is answered while the stream is up.
LEMMA RepliesSame ==
  ASSUME Replied, UNCHANGED <<replies, receiver, reply, task, feeds>>, link' = "up" => link = "up",
         \A c \in F!Calls : fswCall'[c] \in {"got", "returned"} => fswCall[c] \in {"got", "returned"} \/ link' # "up",
         result' = result \/ link' # "up"
  PROVE  Replied'
BY DEF Replied, RepliedOnce, OnItsWay, Delivering

\* A call whose channel was closed, or that one closes, has lost its stream.
LEMMA ClosedIsDown ==
  ASSUME FswInv, NEW c \in F!Calls, fswCall[c] \notin {"idle", "returned"}, ~open[c]
  PROVE  link # "up"
BY DEF FswInv, F!EntriesAreCalls, ChannelsOpen, EndsLate

\* A step of a call that pushes nothing keeps the invariant.
LEMMA CallsKeep ==
  ASSUME FswInv, ~panicked, NEW c \in F!Calls,
         \/ F!NewSession(c) \/ F!CancelContext(c) \/ F!Source(c) \/ F!TakeCancelled(c) \/ F!TakeClosed(c) \/ F!DrainClosed(c)
         \/ F!Finish(c)
  PROVE  FswInv'
<1> USE DEF F!chanVars, F!streamVars, F!loopVars
<1>1. UNCHANGED <<packets, qclosed, link, toClient, replies, task, feeds, sender, sending, receiver, reply>>
  BY DEF F!NewSession, F!CancelContext, F!Source, F!TakeCancelled, F!TakeClosed, F!DrainClosed, F!Finish
<1>2. CASE F!NewSession(c)
  <2>1. fswCall[c] = "idle" /\ entries' = entries \cup {c} /\ open' = [open EXCEPT ![c] = TRUE]
        /\ fswCall' = [fswCall EXCEPT ![c] = "push"] /\ UNCHANGED <<next, fed, failing, done, result, panicked>>
    BY <1>2 DEF F!NewSession
  <2>2. F!TypeOK'
    BY <1>1, <2>1 DEF FswInv, F!TypeOK
  <2>3. F!EntriesAreCalls' /\ ChannelsOpen'
    BY <1>1, <2>1 DEF FswInv, F!TypeOK, F!EntriesAreCalls, ChannelsOpen
  <2>4. \A d \in F!Calls : Opened(d) => Opened(d)'
    BY <2>1 DEF FswInv, F!TypeOK, Opened
  <2>5. \A d \in F!Calls : fswCall'[d] \in {"got", "returned"} => fswCall[d] \in {"got", "returned"} \/ link' # "up"
    BY <2>1 DEF FswInv, F!TypeOK
  <2>6. F!NoPanic' /\ Carried' /\ EndsLate'
    BY <1>1, <2>1 DEF FswInv, F!NoPanic, Carried, EndsLate
  <2> QED
    BY <1>1, <2>1, <2>2, <2>3, <2>4, <2>5, <2>6, OpeningsSame, RepliesSame DEF FswInv
<1>3. CASE F!CancelContext(c)
  <2>1. done' = [done EXCEPT ![c] = TRUE] /\ UNCHANGED <<entries, open, fswCall, next, fed, failing, result, panicked>>
    BY <1>3 DEF F!CancelContext
  <2>2. F!TypeOK'
    BY <1>1, <2>1 DEF FswInv, F!TypeOK
  <2>3. F!EntriesAreCalls' /\ ChannelsOpen' /\ F!NoPanic' /\ Carried' /\ EndsLate'
    BY <1>1, <2>1 DEF FswInv, F!EntriesAreCalls, ChannelsOpen, F!NoPanic, Carried, EndsLate
  <2>4. \A d \in F!Calls : Opened(d) => Opened(d)'
    BY <2>1 DEF Opened
  <2> QED
    BY <1>1, <2>1, <2>2, <2>3, <2>4, OpeningsSame, RepliesSame DEF FswInv
<1>4. CASE F!Source(c)
  <2>1. fswCall[c] = "source" /\ fswCall' = [fswCall EXCEPT ![c] = "push"] /\ UNCHANGED <<entries, open, done, result, panicked>>
        /\ next' \in [F!Calls -> {"request", "header", "data", "final"}] /\ next'[c] \in {"data", "final"}
        /\ \A d \in F!Calls \ {c} : next'[d] = next[d]
    BY <1>4 DEF F!Source, FswInv, F!TypeOK
  <2>2. fed' \in [F!Calls -> 0 .. MaxData] /\ failing' \in [F!Calls -> BOOLEAN]
    <3>1. fed \in [F!Calls -> 0 .. MaxData] /\ failing \in [F!Calls -> BOOLEAN]
      BY DEF FswInv, F!TypeOK
    <3>2. fed[c] < MaxData => fed[c] + 1 \in 0 .. MaxData
      BY <3>1, RpcAssumption
    <3>3. \/ fed' = fed
          \/ fed[c] < MaxData /\ fed' = [fed EXCEPT ![c] = @ + 1]
      BY <1>4 DEF F!Source
    <3>4. failing' = failing \/ failing' = [failing EXCEPT ![c] = TRUE]
      BY <1>4 DEF F!Source
    <3> QED
      BY <3>1, <3>2, <3>3, <3>4
  <2>3. F!TypeOK'
    BY <1>1, <2>1, <2>2 DEF FswInv, F!TypeOK
  <2>4. F!EntriesAreCalls' /\ ChannelsOpen'
    BY <1>1, <2>1 DEF FswInv, F!TypeOK, F!EntriesAreCalls, ChannelsOpen
  <2>5. F!NoPanic' /\ Carried' /\ EndsLate'
    BY <1>1, <2>1 DEF FswInv, F!NoPanic, Carried, EndsLate
  <2>6. \A d \in F!Calls : Opened(d) => Opened(d)'
    BY <2>1 DEF FswInv, F!TypeOK, Opened
  <2>7. \A d \in F!Calls : fswCall'[d] \in {"got", "returned"} => fswCall[d] \in {"got", "returned"} \/ link' # "up"
    BY <2>1 DEF FswInv, F!TypeOK
  <2> QED
    BY <1>1, <2>1, <2>3, <2>4, <2>5, <2>6, <2>7, OpeningsSame, RepliesSame DEF FswInv
<1>5. CASE F!TakeCancelled(c)
  <2>1. fswCall[c] = "waiting" /\ fswCall' = [fswCall EXCEPT ![c] = "cancel"]
        /\ UNCHANGED <<entries, open, next, fed, failing, done, result, panicked>>
    BY <1>5 DEF F!TakeCancelled
  <2>2. F!TypeOK'
    BY <1>1, <2>1 DEF FswInv, F!TypeOK
  <2>3. F!EntriesAreCalls' /\ ChannelsOpen'
    BY <1>1, <2>1 DEF FswInv, F!TypeOK, F!EntriesAreCalls, ChannelsOpen
  <2>4. F!NoPanic' /\ Carried' /\ EndsLate'
    BY <1>1, <2>1 DEF FswInv, F!NoPanic, Carried, EndsLate
  <2>5. \A d \in F!Calls : Opened(d) => Opened(d)'
    BY <2>1 DEF FswInv, F!TypeOK, Opened
  <2>6. \A d \in F!Calls : fswCall'[d] \in {"got", "returned"} => fswCall[d] \in {"got", "returned"} \/ link' # "up"
    BY <2>1 DEF FswInv, F!TypeOK
  <2> QED
    BY <1>1, <2>1, <2>2, <2>3, <2>4, <2>5, <2>6, OpeningsSame, RepliesSame DEF FswInv
<1>6. CASE F!TakeClosed(c)
  <2>1. fswCall[c] = "waiting" /\ ~open[c] /\ entries' = entries \ {c} /\ fswCall' = [fswCall EXCEPT ![c] = "returned"]
        /\ result' = [result EXCEPT ![c] = "connection closed"]
        /\ UNCHANGED <<open, next, fed, failing, done, panicked>>
    BY <1>6 DEF F!TakeClosed
  <2>2. F!TypeOK'
    BY <1>1, <2>1 DEF FswInv, F!TypeOK, F!Answer
  <2>3. F!EntriesAreCalls' /\ ChannelsOpen'
    BY <1>1, <2>1 DEF FswInv, F!TypeOK, F!EntriesAreCalls, ChannelsOpen
  <2>4. F!NoPanic' /\ Carried' /\ EndsLate'
    BY <1>1, <2>1 DEF FswInv, F!NoPanic, Carried, EndsLate
  <2>5. \A d \in F!Calls : Opened(d) => Opened(d)'
    BY <2>1 DEF FswInv, F!TypeOK, Opened
  <2>6. link # "up"
    BY <2>1, ClosedIsDown
  <2> QED
    BY <1>1, <2>2, <2>3, <2>4, <2>5, <2>6, OpeningsSame, RepliesSame DEF FswInv
<1>7. CASE F!DrainClosed(c)
  <2>1. fswCall[c] = "drain" /\ ~open[c] /\ fswCall' = [fswCall EXCEPT ![c] = "got"]
        /\ result' = [result EXCEPT ![c] = "nothing"]
        /\ UNCHANGED <<entries, open, next, fed, failing, done, panicked>>
    BY <1>7 DEF F!DrainClosed
  <2>2. F!TypeOK'
    BY <1>1, <2>1 DEF FswInv, F!TypeOK, F!Answer
  <2>3. F!EntriesAreCalls' /\ ChannelsOpen'
    BY <1>1, <2>1 DEF FswInv, F!TypeOK, F!EntriesAreCalls, ChannelsOpen
  <2>4. F!NoPanic' /\ Carried' /\ EndsLate'
    BY <1>1, <2>1 DEF FswInv, F!NoPanic, Carried, EndsLate
  <2>5. \A d \in F!Calls : Opened(d) => Opened(d)'
    BY <2>1 DEF FswInv, F!TypeOK, Opened
  <2>6. link # "up"
    BY <2>1, ClosedIsDown
  <2> QED
    BY <1>1, <2>2, <2>3, <2>4, <2>5, <2>6, OpeningsSame, RepliesSame DEF FswInv
<1>8. CASE F!Finish(c)
  <2>1. fswCall[c] = "got" /\ entries' = entries \ {c} /\ open' = [open EXCEPT ![c] = FALSE]
        /\ panicked' = (~open[c] \/ (receiver = "deliver" /\ reply = c) \/ (sender = "error" /\ sending.id = c))
        /\ fswCall' = [fswCall EXCEPT ![c] = "returned"]
        /\ UNCHANGED <<next, fed, failing, done, result>>
    BY <1>8 DEF F!Finish
  <2>2. F!TypeOK'
    <3>1. panicked' \in BOOLEAN
      BY <2>1
    <3> QED
      BY <1>1, <2>1, <3>1 DEF FswInv, F!TypeOK
  <2>3. F!EntriesAreCalls' /\ ChannelsOpen'
    BY <1>1, <2>1 DEF FswInv, F!TypeOK, F!EntriesAreCalls, ChannelsOpen
  <2>4. F!NoPanic'
    <3>1. ~open[c] => link # "up"
      BY <2>1, ClosedIsDown
    <3>2. link = "up" => result[c] = "reply"
      BY <2>1 DEF FswInv, Replied, RepliedOnce
    <3>3. sender = "error" => link # "up"
      BY DEF FswInv, EndsLate
    <3>4. fswCall'[c] = "returned"
      BY <2>1 DEF FswInv, F!TypeOK
    <3> QED
      BY <1>1, <2>1, <3>1, <3>2, <3>3, <3>4 DEF F!NoPanic
  <2>5. Carried' /\ EndsLate'
    BY <1>1, <2>1 DEF FswInv, Carried, EndsLate
  <2>6. \A d \in F!Calls : Opened(d) => Opened(d)'
    BY <2>1 DEF FswInv, F!TypeOK, Opened
  <2>7. \A d \in F!Calls : fswCall'[d] \in {"got", "returned"} => fswCall[d] \in {"got", "returned"} \/ link' # "up"
    BY <2>1 DEF FswInv, F!TypeOK
  <2> QED
    BY <1>1, <2>1, <2>2, <2>3, <2>4, <2>5, <2>6, <2>7, OpeningsSame, RepliesSame DEF FswInv
<1> QED
  BY <1>2, <1>3, <1>4, <1>5, <1>6, <1>7, <1>8

\* A packet pushed to the queue keeps the openings if it opens a call for the first time.
LEMMA PushedOnce ==
  ASSUME FswInv, NEW c \in F!Calls, NEW k \in {"request", "header", "data", "final", "cancel"},
         packets' = Append(packets, [id |-> c, kind |-> k]), UNCHANGED <<toClient, sender, sending, task, feeds>>,
         k \in {"request", "header"} => ~Opened(c), \A d \in F!Calls : Opened(d) => Opened(d)', Opened(c)'
  PROVE  OnlyOnce' /\ packets' \in Seq(F!Packet) /\ Len(packets') = Len(packets) + 1
<1> DEFINE p == [id |-> c, kind |-> k]
<1>1. p \in F!Packet /\ p.id = c /\ p.kind = k
  BY DEF F!Packet
<1>2. packets \in Seq(F!Packet) /\ packets' = Append(packets, p)
  BY DEF FswInv, F!TypeOK
<1> HIDE DEF p
<1>3. /\ packets' \in Seq(F!Packet) /\ Len(packets') = Len(packets) + 1 /\ Len(packets) \in Nat
      /\ packets'[Len(packets) + 1] = p /\ \A i \in 1 .. Len(packets) : packets'[i] = packets[i]
  BY <1>1, <1>2
<1>4. ASSUME NEW d \in F!Calls PROVE InQueue(d)' <=> InQueue(d) \/ Opening(p, d)
  BY <1>3 DEF InQueue, Opening
<1>5. \A d \in F!Calls : OpenedOnce(d)
  BY DEF FswInv, OnlyOnce
<1>6. ASSUME NEW d \in F!Calls PROVE OpenedOnce(d)'
  <2>1. (InSending(d)' <=> InSending(d)) /\ (InStream(d)' <=> InStream(d)) /\ task'[d] = task[d]
    BY DEF InSending, InStream, Opening
  <2>2. OnceIn(toClient', d)
    BY <1>5 DEF OpenedOnce
  <2>3. CASE Opening(p, d)
    <3>1. d = c /\ ~Opened(d) /\ Opened(d)'
      BY <1>1, <2>3 DEF Opening
    <3>2. ~InQueue(d) /\ ~InSending(d) /\ ~InStream(d) /\ task[d] = "none"
      <4>1. task[d] \in {"none", "running", "replied"}
        BY DEF FswInv, F!TypeOK
      <4> QED
        BY <1>5, <3>1, <4>1 DEF OpenedOnce
    <3>3. \A i \in 1 .. Len(packets') : Opening(packets'[i], d) => i = Len(packets) + 1
      BY <1>3, <3>2 DEF InQueue, Opening
    <3>4. OnceIn(packets', d)
      BY <3>3 DEF OnceIn
    <3> QED
      BY <2>1, <2>2, <3>1, <3>2, <3>4 DEF OpenedOnce
  <2>4. CASE ~Opening(p, d)
    <3>1. OnceIn(packets', d)
      <4> SUFFICES ASSUME NEW i \in 1 .. Len(packets'), NEW j \in 1 .. Len(packets'),
                          Opening(packets'[i], d), Opening(packets'[j], d)
                   PROVE  i = j
        BY DEF OnceIn
      <4>1. i # Len(packets) + 1 /\ j # Len(packets) + 1
        BY <1>3, <2>4
      <4>2. i \in 1 .. Len(packets) /\ j \in 1 .. Len(packets)
        BY <1>3, <4>1
      <4>3. Opening(packets[i], d) /\ Opening(packets[j], d)
        BY <1>3, <4>2
      <4> QED
        BY <1>5, <4>2, <4>3 DEF OpenedOnce, OnceIn
    <3>2. InQueue(d)' <=> InQueue(d)
      BY <1>4, <2>4
    <3> QED
      BY <1>5, <2>1, <2>2, <3>1, <3>2 DEF OpenedOnce
  <2> QED
    BY <2>3, <2>4
<1> QED
  BY <1>3, <1>6 DEF OnlyOnce

\* A call pushes a packet, to a channel that is closed only when the stream has ended.
LEMMA PushKeeps ==
  ASSUME FswInv, ~panicked, NEW c \in F!Calls, F!Push(c) \/ F!PushCancel(c)
  PROVE  FswInv'
<1> USE DEF F!chanVars, F!streamVars, F!loopVars
<1>1. UNCHANGED <<qclosed, entries, open, next, fed, failing, done, result, link, toClient, replies, task, feeds,
                  sender, sending, receiver, reply>>
  BY DEF F!Push, F!PushCancel
<1>2. PICK k \in {"request", "header", "data", "final", "cancel"} :
        /\ F!Send(c, k)
        /\ k \in {"request", "header"} => ~Opened(c)
        /\ fswCall[c] \in {"push", "cancel"}
        /\ \E to \in {"waiting", "source", "drain"} : fswCall' = [fswCall EXCEPT ![c] = to]
  <2>1. CASE F!Push(c)
    <3>1. fswCall[c] = "push" /\ F!Send(c, next[c]) /\ next[c] \in {"request", "header", "data", "final"}
          /\ fswCall' = [fswCall EXCEPT ![c] = IF next[c] \in {"request", "final"} THEN "waiting" ELSE "source"]
      BY <2>1 DEF F!Push, FswInv, F!TypeOK
    <3>2. next[c] \in {"request", "header"} => ~Opened(c)
      BY <3>1 DEF Opened
    <3>3. PICK k \in {"request", "header", "data", "final"} : k = next[c]
      BY <3>1
    <3>4. F!Send(c, k)
      BY <3>1, <3>3 DEF F!Send
    <3> QED
      BY <3>1, <3>2, <3>3, <3>4
  <2>2. CASE F!PushCancel(c)
    BY <2>2 DEF F!PushCancel
  <2> QED
    BY <2>1, <2>2
<1>3. fswCall' \in [F!Calls -> {"idle", "push", "source", "waiting", "cancel", "drain", "got", "returned"}]
      /\ fswCall[c] \notin {"idle", "returned"} /\ fswCall'[c] \notin {"idle", "push", "got", "returned"}
      /\ \A d \in F!Calls \ {c} : fswCall'[d] = fswCall[d]
  BY <1>2 DEF FswInv, F!TypeOK
<1>4. (\A d \in F!Calls : Opened(d) => Opened(d)') /\ Opened(c)'
  BY <1>1, <1>3 DEF Opened
<1>5. OnlyOnce' /\ packets' \in Seq(F!Packet) /\ Len(packets') <= Capacity /\ panicked' \in BOOLEAN /\ F!NoPanic'
  <2>1. CASE qclosed
    <3>1. panicked' = TRUE /\ packets' = packets /\ link # "up"
      BY <1>2, <2>1 DEF F!Send, FswInv, EndsLate
    <3> QED
      BY <1>1, <1>4, <3>1, OpeningsSame DEF FswInv, F!TypeOK, F!NoPanic
  <2>2. CASE ~qclosed
    <3>1. Len(packets) < Capacity /\ packets' = Append(packets, [id |-> c, kind |-> k]) /\ panicked' = panicked
      BY <1>2, <2>2 DEF F!Send
    <3>2. OnlyOnce' /\ packets' \in Seq(F!Packet) /\ Len(packets') = Len(packets) + 1
      BY <1>1, <1>2, <1>4, <3>1, PushedOnce
    <3>3. packets \in Seq(F!Packet) /\ panicked \in BOOLEAN
      BY DEF FswInv, F!TypeOK
    <3>4. Len(packets') <= Capacity
      <4>1. Len(packets) \in Nat /\ Capacity \in Nat
        BY <3>3, RpcAssumption
      <4> QED
        BY <3>1, <3>2, <4>1
    <3>5. F!NoPanic'
      BY <3>1 DEF F!NoPanic
    <3> QED
      BY <3>1, <3>2, <3>3, <3>4, <3>5
  <2> QED
    BY <2>1, <2>2
<1>6. F!TypeOK'
  BY <1>1, <1>3, <1>5 DEF FswInv, F!TypeOK
<1>7. F!EntriesAreCalls' /\ ChannelsOpen' /\ Carried' /\ EndsLate'
  BY <1>1, <1>3 DEF FswInv, F!EntriesAreCalls, ChannelsOpen, Carried, EndsLate
<1>8. Replied'
  BY <1>1, <1>3, RepliesSame DEF FswInv
<1> QED
  BY <1>5, <1>6, <1>7, <1>8 DEF FswInv

\* The goroutine that sends to the client takes a packet.
LEMMA SenderTakesKeeps ==
  ASSUME FswInv, ~panicked, F!SenderTakes
  PROVE  FswInv'
<1> USE DEF F!chanVars, F!callVars, F!streamVars, F!loopVars
<1>1. sender = "recv" /\ UNCHANGED <<qclosed, entries, open, fswCall, next, fed, failing, done, result, link, toClient,
                                     replies, task, feeds, receiver, reply, panicked>>
  BY DEF F!SenderTakes
<1>2. CASE packets # <<>> /\ sending' = Head(packets) /\ packets' = Tail(packets) /\ sender' = "send"
  <2>1. /\ packets \in Seq(F!Packet) /\ sending' \in F!Packet /\ sending' = packets[1] /\ packets' \in Seq(F!Packet)
        /\ Len(packets) \in Nat \ {0} /\ Len(packets') = Len(packets) - 1
        /\ \A i \in 1 .. Len(packets') : packets'[i] = packets[i + 1]
    <3>1. packets \in Seq(F!Packet)
      BY DEF FswInv, F!TypeOK
    <3> QED
      BY <1>2, <3>1, HeadTailProperties
  <2>2. F!TypeOK'
    <3>1. Len(packets') <= Capacity
      <4>1. Len(packets) <= Capacity /\ Capacity \in Nat
        BY RpcAssumption DEF FswInv, F!TypeOK
      <4> QED
        BY <2>1, <4>1
    <3> QED
      BY <1>1, <1>2, <2>1, <3>1 DEF FswInv, F!TypeOK
  <2>3. ASSUME NEW c \in F!Calls PROVE OpenedOnce(c)'
    <3>1. OpenedOnce(c)
      BY DEF FswInv, OnlyOnce
    <3>2. (InStream(c)' <=> InStream(c)) /\ (Opened(c)' <=> Opened(c)) /\ task'[c] = task[c]
          /\ OnceIn(toClient', c) /\ ~InSending(c)
      BY <1>1, <3>1 DEF InStream, Opened, Opening, OpenedOnce, InSending
    <3>3. InSending(c)' <=> Opening(packets[1], c)
      BY <1>2, <2>1 DEF InSending, Opening
    <3>4. \A i \in 1 .. Len(packets') : i + 1 \in 1 .. Len(packets) /\ i + 1 # 1
      BY <2>1
    <3>5. OnceIn(packets', c)
      <4> SUFFICES ASSUME NEW i \in 1 .. Len(packets'), NEW j \in 1 .. Len(packets'),
                          Opening(packets'[i], c), Opening(packets'[j], c)
                   PROVE  i = j
        BY DEF OnceIn
      <4>1. i + 1 = j + 1
        BY <2>1, <3>1, <3>4 DEF OpenedOnce, OnceIn
      <4> QED
        BY <4>1
    <3>6. InQueue(c)' => InQueue(c) /\ ~Opening(packets[1], c)
      <4> SUFFICES ASSUME NEW i \in 1 .. Len(packets'), Opening(packets'[i], c)
                   PROVE  InQueue(c) /\ ~Opening(packets[1], c)
        BY DEF InQueue
      <4>1. Opening(packets[i + 1], c) /\ 1 \in 1 .. Len(packets)
        BY <2>1
      <4> QED
        BY <3>1, <3>4, <4>1 DEF InQueue, OpenedOnce, OnceIn
    <3>7. Opening(packets[1], c) => InQueue(c)
      BY <2>1 DEF InQueue
    <3> QED
      BY <3>1, <3>2, <3>3, <3>5, <3>6, <3>7 DEF OpenedOnce
  <2>4. F!EntriesAreCalls' /\ ChannelsOpen' /\ Carried' /\ EndsLate' /\ F!NoPanic'
    BY <1>1, <1>2, <2>1 DEF FswInv, F!EntriesAreCalls, ChannelsOpen, Carried, EndsLate, F!NoPanic
  <2>5. Replied'
    BY <1>1, RepliesSame DEF FswInv
  <2> QED
    BY <2>2, <2>3, <2>4, <2>5 DEF FswInv, OnlyOnce
<1>3. CASE packets = <<>> /\ qclosed /\ sender' = "ended" /\ UNCHANGED <<packets, sending>>
  <2>1. F!TypeOK'
    BY <1>1, <1>3 DEF FswInv, F!TypeOK
  <2>2. F!EntriesAreCalls' /\ ChannelsOpen' /\ Carried' /\ EndsLate' /\ F!NoPanic'
    BY <1>1, <1>3 DEF FswInv, F!EntriesAreCalls, ChannelsOpen, Carried, EndsLate, F!NoPanic
  <2>3. Replied'
    BY <1>1, RepliesSame DEF FswInv
  <2>4. OnlyOnce'
    BY <1>1, <1>3 DEF FswInv, OnlyOnce, OpenedOnce, OnceIn, InQueue, InSending, InStream, Opening, Opened
  <2> QED
    BY <2>1, <2>2, <2>3, <2>4 DEF FswInv
<1> QED
  BY <1>2, <1>3 DEF F!SenderTakes

\* stream.Send: the packet is on the stream, or the stream is broken.
LEMMA SenderSendsKeeps ==
  ASSUME FswInv, ~panicked, F!SenderSends
  PROVE  FswInv'
<1> USE DEF F!chanVars, F!callVars, F!goVars, F!streamVars, F!loopVars
<1>1. sender = "send" /\ UNCHANGED <<packets, qclosed, entries, open, fswCall, next, fed, failing, done, result,
                                     link, replies, task, feeds, sending, receiver, reply, panicked>>
  BY DEF F!SenderSends
<1>2. /\ sending \in F!Packet /\ toClient \in Seq(F!Packet) /\ Len(toClient) \in Nat
      /\ Len(toClient) <= Window /\ Window \in Nat
  <2>1. toClient \in Seq(F!Packet) /\ Len(toClient) <= Window /\ sending \in F!Packet
    BY <1>1 DEF FswInv, F!TypeOK, Carried
  <2> QED
    BY <2>1, RpcAssumption
<1>3. CASE link # "broken" /\ Len(toClient) < Window /\ toClient' = Append(toClient, sending) /\ sender' = "recv"
  <2>1. /\ toClient' \in Seq(F!Packet) /\ Len(toClient') = Len(toClient) + 1
        /\ toClient'[Len(toClient) + 1] = sending
        /\ \A i \in 1 .. Len(toClient) : toClient'[i] = toClient[i]
    BY <1>2, <1>3
  <2>2. F!TypeOK'
    <3>1. Len(toClient') <= Window
      BY <1>2, <1>3, <2>1
    <3> QED
      BY <1>1, <1>3, <2>1, <3>1 DEF FswInv, F!TypeOK
  <2>3. ASSUME NEW c \in F!Calls PROVE OpenedOnce(c)'
    <3>1. OpenedOnce(c)
      BY DEF FswInv, OnlyOnce
    <3>2. (InQueue(c)' <=> InQueue(c)) /\ (Opened(c)' <=> Opened(c)) /\ task'[c] = task[c] /\ OnceIn(packets', c)
      BY <1>1, <3>1 DEF InQueue, Opened, Opening, OpenedOnce
    <3>3. ~InSending(c)' /\ (InSending(c) <=> Opening(sending, c))
      BY <1>1, <1>3 DEF InSending
    <3>4. InStream(c)' <=> InStream(c) \/ Opening(sending, c)
      BY <1>2, <2>1 DEF InStream, Opening
    <3>5. OnceIn(toClient', c)
      <4> SUFFICES ASSUME NEW i \in 1 .. Len(toClient'), NEW j \in 1 .. Len(toClient'),
                          Opening(toClient'[i], c), Opening(toClient'[j], c), i # j
                   PROVE  FALSE
        BY DEF OnceIn
      <4>1. CASE Opening(sending, c)
        <5>1. ~InStream(c)
          BY <3>1, <3>3, <4>1 DEF OpenedOnce
        <5>2. \A k \in 1 .. Len(toClient) : ~Opening(toClient'[k], c)
          BY <2>1, <5>1 DEF InStream
        <5>3. i = Len(toClient) + 1 /\ j = Len(toClient) + 1
          BY <1>2, <2>1, <5>2
        <5> QED
          BY <5>3
      <4>2. CASE ~Opening(sending, c)
        <5>1. i # Len(toClient) + 1 /\ j # Len(toClient) + 1
          BY <2>1, <4>2
        <5>2. i \in 1 .. Len(toClient) /\ j \in 1 .. Len(toClient)
          BY <1>2, <2>1, <5>1
        <5>3. Opening(toClient[i], c) /\ Opening(toClient[j], c)
          BY <2>1, <5>2
        <5> QED
          BY <3>1, <5>2, <5>3 DEF OpenedOnce, OnceIn
      <4> QED
        BY <4>1, <4>2
    <3> QED
      BY <3>1, <3>2, <3>3, <3>4, <3>5 DEF OpenedOnce
  <2>4. F!EntriesAreCalls' /\ ChannelsOpen' /\ Carried' /\ EndsLate' /\ F!NoPanic'
    BY <1>1, <1>3 DEF FswInv, F!EntriesAreCalls, ChannelsOpen, Carried, EndsLate, F!NoPanic
  <2>5. Replied'
    BY <1>1, RepliesSame DEF FswInv
  <2> QED
    BY <2>2, <2>3, <2>4, <2>5 DEF FswInv, OnlyOnce
<1>4. CASE link = "broken" /\ sender' \in {"error", "stuck"} /\ toClient' = toClient
  <2>1. F!TypeOK'
    BY <1>1, <1>4 DEF FswInv, F!TypeOK
  <2>2. F!EntriesAreCalls' /\ ChannelsOpen' /\ Carried' /\ EndsLate' /\ F!NoPanic'
    BY <1>1, <1>2, <1>4 DEF FswInv, F!EntriesAreCalls, ChannelsOpen, Carried, EndsLate, F!NoPanic
  <2>3. Replied'
    BY <1>1, RepliesSame DEF FswInv
  <2>4. OnlyOnce'
    BY <1>1, <1>4 DEF FswInv, OnlyOnce, OpenedOnce, OnceIn, InQueue, InSending, InStream, Opening, Opened
  <2> QED
    BY <2>1, <2>2, <2>3, <2>4 DEF FswInv
<1> QED
  BY <1>3, <1>4 DEF F!SenderSends

\* A call that is handed its answer goes on, and nothing else moves.
LEMMA HandedOver ==
  ASSUME FswInv, NEW c \in F!Calls, NEW a \in F!Answer, F!HandOver(c, a)
  PROVE  /\ F!EntriesAreCalls' /\ fswCall' = [fswCall EXCEPT ![c] = "got"]
         /\ fswCall' \in [F!Calls -> {"idle", "push", "source", "waiting", "cancel", "drain", "got", "returned"}]
         /\ result' \in [F!Calls -> F!Answer \cup {F!None}]
         /\ \A d \in F!Calls : Opened(d) => Opened(d)'
         /\ UNCHANGED <<packets, qclosed, entries, open, next, fed, failing, done, link, toClient, replies, task, feeds>>
<1> USE DEF F!chanVars, F!streamVars
<1>1. /\ fswCall[c] \in {"waiting", "drain"} /\ fswCall' = [fswCall EXCEPT ![c] = "got"]
      /\ result' = [result EXCEPT ![c] = a]
      /\ UNCHANGED <<packets, qclosed, entries, open, next, fed, failing, done, link, toClient, replies, task, feeds>>
  BY DEF F!HandOver
<1>2. fswCall' \in [F!Calls -> {"idle", "push", "source", "waiting", "cancel", "drain", "got", "returned"}]
      /\ result' \in [F!Calls -> F!Answer \cup {F!None}]
  BY <1>1 DEF FswInv, F!TypeOK
<1>3. F!EntriesAreCalls'
  BY <1>1 DEF FswInv, F!TypeOK, F!EntriesAreCalls
<1>4. \A d \in F!Calls : Opened(d) => Opened(d)'
  BY <1>1 DEF FswInv, F!TypeOK, Opened
<1> QED
  BY <1>1, <1>2, <1>3, <1>4

\* The error of a Send is told to its call; the stream is broken by then.
LEMMA SenderReportsKeeps ==
  ASSUME FswInv, ~panicked, F!SenderReports
  PROVE  FswInv'
<1> USE DEF F!chanVars, F!callVars, F!goVars, F!streamVars, F!loopVars
<1>1. sender = "error" /\ link = "broken" /\ UNCHANGED <<sending, receiver, reply>> /\ sending \in F!Packet
  BY DEF F!SenderReports, FswInv, EndsLate, Carried
<1>2. CASE F!HandOver(sending.id, "send failed") /\ sender' = "recv" /\ panicked' = panicked
  <2>1. PICK c \in F!Calls : c = sending.id
    BY <1>1 DEF F!Packet
  <2>2. F!HandOver(c, "send failed") /\ "send failed" \in F!Answer
    BY <1>2, <2>1 DEF F!HandOver, F!Answer
  <2>3. /\ F!EntriesAreCalls' /\ fswCall' = [fswCall EXCEPT ![c] = "got"]
        /\ fswCall' \in [F!Calls -> {"idle", "push", "source", "waiting", "cancel", "drain", "got", "returned"}]
        /\ result' \in [F!Calls -> F!Answer \cup {F!None}]
        /\ \A d \in F!Calls : Opened(d) => Opened(d)'
        /\ UNCHANGED <<packets, qclosed, entries, open, next, fed, failing, done, link, toClient, replies, task, feeds>>
    BY <2>2, HandedOver
  <2>4. F!TypeOK'
    BY <1>1, <1>2, <2>3 DEF FswInv, F!TypeOK
  <2>5. ChannelsOpen' /\ Carried' /\ EndsLate' /\ F!NoPanic'
    BY <1>1, <1>2, <2>3 DEF FswInv, ChannelsOpen, Carried, EndsLate, F!NoPanic
  <2>6. Replied'
    BY <1>1, <2>3, RepliesSame DEF FswInv
  <2>7. ASSUME NEW d \in F!Calls PROVE OpenedOnce(d)'
    <3>1. OpenedOnce(d) /\ ~InSending(d) /\ ~InSending(d)'
      BY <1>1, <1>2 DEF FswInv, OnlyOnce, InSending
    <3>2. (InQueue(d)' <=> InQueue(d)) /\ (InStream(d)' <=> InStream(d)) /\ (OnceIn(packets, d)' <=> OnceIn(packets, d))
          /\ (OnceIn(toClient, d)' <=> OnceIn(toClient, d)) /\ task'[d] = task[d]
      BY <2>3 DEF InQueue, InStream, OnceIn, Opening
    <3> QED
      BY <2>3, <3>1, <3>2 DEF OpenedOnce
  <2> QED
    BY <2>3, <2>4, <2>5, <2>6, <2>7 DEF FswInv, OnlyOnce
<1>3. CASE panicked' = TRUE /\ UNCHANGED <<F!goVars, F!streamVars, sender>>
  <2>1. F!TypeOK' /\ F!EntriesAreCalls' /\ ChannelsOpen' /\ Carried' /\ EndsLate'
    BY <1>1, <1>3 DEF FswInv, F!TypeOK, F!EntriesAreCalls, ChannelsOpen, Carried, EndsLate
  <2>2. F!NoPanic'
    BY <1>1, <1>3 DEF F!NoPanic
  <2>3. OnlyOnce' /\ Replied'
    BY <1>1, <1>3, OpeningsSame, RepliesSame DEF FswInv, Opened
  <2> QED
    BY <2>1, <2>2, <2>3 DEF FswInv
<1> QED
  BY <1>2, <1>3 DEF F!SenderReports

\* process() takes a reply and looks up its channel.
LEMMA ReceiverTakesKeeps ==
  ASSUME FswInv, ~panicked, F!ReceiverTakes
  PROVE  FswInv'
<1> USE DEF F!chanVars, F!callVars, F!goVars, F!streamVars, F!loopVars
<1>1. /\ receiver = "recv" /\ replies # <<>> /\ replies' = Tail(replies)
      /\ UNCHANGED <<packets, qclosed, entries, open, fswCall, next, fed, failing, done, result, link, toClient,
                     task, feeds, sender, sending, panicked>>
      /\ \/ Head(replies) \in entries /\ receiver' = "deliver" /\ reply' = Head(replies)
         \/ UNCHANGED <<receiver, reply>>
  BY DEF F!ReceiverTakes
<1>2. /\ replies \in Seq(F!Calls) /\ replies' \in Seq(F!Calls) /\ Len(replies) \in Nat \ {0}
      /\ Len(replies') = Len(replies) - 1 /\ Head(replies) = replies[1] /\ Head(replies) \in F!Calls
      /\ \A i \in 1 .. Len(replies') : replies'[i] = replies[i + 1]
  <2>1. replies \in Seq(F!Calls)
    BY DEF FswInv, Carried
  <2> QED
    BY <1>1, <2>1, HeadTailProperties
<1>3. F!TypeOK'
  BY <1>1 DEF FswInv, F!TypeOK
<1>4. Carried' /\ F!EntriesAreCalls' /\ ChannelsOpen' /\ EndsLate' /\ F!NoPanic'
  BY <1>1, <1>2 DEF FswInv, F!EntriesAreCalls, ChannelsOpen, Carried, EndsLate, F!NoPanic
<1>5. OnlyOnce'
  BY <1>1, OpeningsSame DEF FswInv, Opened
<1>6. ASSUME NEW c \in F!Calls PROVE RepliedOnce(c)'
  <2>1. RepliedOnce(c) /\ ~Delivering(c)
    BY <1>1 DEF FswInv, Replied, Delivering
  <2>2. \A i \in 1 .. Len(replies') : i + 1 \in 1 .. Len(replies) /\ i + 1 # 1
    BY <1>2
  <2>4. OnItsWay(c)' => OnItsWay(c)
    <3> SUFFICES ASSUME NEW i \in 1 .. Len(replies'), replies'[i] = c
                 PROVE  OnItsWay(c)
      BY DEF OnItsWay
    <3>1. replies[i + 1] = c
      BY <1>2
    <3> QED
      BY <2>2, <3>1 DEF OnItsWay
  <2>5. Delivering(c)' => replies[1] = c /\ OnItsWay(c)
    <3>1. Delivering(c)' => replies[1] = c
      BY <1>1, <1>2 DEF Delivering
    <3>2. 1 \in 1 .. Len(replies)
      BY <1>2
    <3> QED
      BY <3>1, <3>2 DEF OnItsWay
  <2> QED
    BY <1>1, <2>1, <2>4, <2>5 DEF RepliedOnce
<1> QED
  BY <1>3, <1>4, <1>5, <1>6 DEF FswInv, Replied

\* A call has a task at the client only when its opening packet was pushed, so an idle call has none.
LEMMA TaskIsCalled ==
  ASSUME FswInv, NEW c \in F!Calls, task[c] # "none"
  PROVE  fswCall[c] # "idle"
BY DEF FswInv, OnlyOnce, OpenedOnce, Opened

\* process() hands the reply over; the channel of the call is still there while the stream is up.
LEMMA ReceiverDeliversKeeps ==
  ASSUME FswInv, ~panicked, F!ReceiverDelivers
  PROVE  FswInv'
<1> USE DEF F!chanVars, F!callVars, F!goVars, F!streamVars, F!loopVars
<1>1. /\ receiver = "deliver" /\ UNCHANGED <<sender, sending, reply>>
      /\ \/ F!HandOver(reply, "reply") /\ receiver' = "recv" /\ panicked' = panicked
         \/ ~open[reply] /\ panicked' = TRUE /\ UNCHANGED <<F!goVars, F!streamVars, receiver>>
  BY DEF F!ReceiverDelivers
<1>2. PICK c \in F!Calls : c = reply
  BY <1>1 DEF FswInv, Carried
<1>3. Delivering(c) /\ RepliedOnce(c) /\ task[c] = "replied"
  BY <1>1, <1>2 DEF FswInv, Replied, RepliedOnce, Delivering
<1>4. CASE F!HandOver(c, "reply") /\ receiver' = "recv" /\ panicked' = panicked
  <2>1. "reply" \in F!Answer
    BY DEF F!Answer
  <2>2. /\ F!EntriesAreCalls' /\ fswCall' = [fswCall EXCEPT ![c] = "got"]
        /\ fswCall' \in [F!Calls -> {"idle", "push", "source", "waiting", "cancel", "drain", "got", "returned"}]
        /\ result' \in [F!Calls -> F!Answer \cup {F!None}]
        /\ \A d \in F!Calls : Opened(d) => Opened(d)'
        /\ UNCHANGED <<packets, qclosed, entries, open, next, fed, failing, done, link, toClient, replies, task, feeds>>
    BY <1>4, <2>1, HandedOver
  <2>3. F!TypeOK'
    BY <1>1, <1>4, <2>2 DEF FswInv, F!TypeOK
  <2>4. ChannelsOpen' /\ Carried' /\ EndsLate' /\ F!NoPanic'
    BY <1>1, <1>4, <2>2 DEF FswInv, ChannelsOpen, Carried, EndsLate, F!NoPanic
  <2>5. OnlyOnce'
    BY <1>1, <2>2, OpeningsSame DEF FswInv
  <2>6. ASSUME NEW d \in F!Calls PROVE RepliedOnce(d)'
    <3>1. RepliedOnce(d) /\ ~Delivering(d)'
      BY <1>4 DEF FswInv, Replied, Delivering
    <3>2. (OnItsWay(d)' <=> OnItsWay(d)) /\ task'[d] = task[d] /\ replies' = replies /\ link' = link
      BY <2>2 DEF OnItsWay
    <3>3. d # c => fswCall'[d] = fswCall[d]
      BY <2>2 DEF FswInv, F!TypeOK
    <3>4. CASE d = c
      <4>1. result'[c] = "reply"
        BY <1>4 DEF F!HandOver, FswInv, F!TypeOK
      <4> QED
        BY <1>3, <3>1, <3>2, <3>4, <4>1 DEF RepliedOnce
    <3>5. CASE d # c
      <4>1. result'[d] = result[d]
        BY <1>4, <3>5 DEF F!HandOver, FswInv, F!TypeOK
      <4> QED
        BY <3>1, <3>2, <3>3, <3>5, <4>1 DEF RepliedOnce
    <3> QED
      BY <3>4, <3>5
  <2> QED
    BY <2>2, <2>3, <2>4, <2>5, <2>6 DEF FswInv, Replied
<1>5. CASE ~open[c] /\ panicked' = TRUE /\ UNCHANGED <<F!goVars, F!streamVars, receiver>>
  <2>1. F!TypeOK' /\ F!EntriesAreCalls' /\ ChannelsOpen' /\ Carried' /\ EndsLate'
    BY <1>1, <1>5 DEF FswInv, F!TypeOK, F!EntriesAreCalls, ChannelsOpen, Carried, EndsLate
  <2>2. link = "up" => fswCall[c] = "returned" /\ result[c] = "reply"
    <3>1. fswCall[c] # "idle"
      BY <1>3, TaskIsCalled
    <3>2. link = "up" => fswCall[c] = "returned"
      BY <1>5, <3>1, ClosedIsDown
    <3> QED
      BY <1>3, <3>2 DEF RepliedOnce
  <2>3. F!NoPanic'
    BY <1>1, <1>2, <1>5, <2>2 DEF F!NoPanic
  <2>4. OnlyOnce' /\ Replied'
    BY <1>1, <1>5, OpeningsSame, RepliesSame DEF FswInv, Opened
  <2> QED
    BY <2>1, <2>3, <2>4 DEF FswInv
<1> QED
  BY <1>1, <1>2, <1>4, <1>5

\* The end of the stream: process() leaves its loop, closes the channels of the calls, then f.uplink.
LEMMA ReceiverEndsKeeps ==
  ASSUME FswInv, ~panicked, F!ReceiverEnds \/ F!CloseReplies \/ F!CloseUplink
  PROVE  FswInv'
<1> USE DEF F!chanVars, F!callVars, F!goVars, F!streamVars, F!loopVars
<1>1. /\ UNCHANGED <<packets, entries, fswCall, next, fed, failing, done, result, toClient, replies, task, feeds,
                     sender, sending, reply>>
      /\ receiver # "deliver" /\ receiver' # "deliver" /\ (link' = "up" => link = "up")
      /\ receiver' \in {"close replies", "close uplink", "ended"}
  BY DEF F!ReceiverEnds, F!CloseReplies, F!CloseUplink
<1>2. Replied'
  BY <1>1 DEF FswInv, Replied, RepliedOnce, OnItsWay, Delivering
<1>3. OnlyOnce'
  BY <1>1, OpeningsSame DEF FswInv, Opened
<1>4. F!EntriesAreCalls' /\ Carried'
  BY <1>1 DEF FswInv, F!EntriesAreCalls, Carried
<1>5. CASE F!ReceiverEnds
  <2>1. receiver' = "close replies" /\ link # "up" /\ UNCHANGED <<qclosed, open, link, panicked>>
    BY <1>5 DEF F!ReceiverEnds
  <2>2. F!TypeOK' /\ ChannelsOpen' /\ EndsLate' /\ F!NoPanic'
    <3>1. receiver \notin {"close uplink", "ended"}
      BY <1>5 DEF F!ReceiverEnds
    <3> QED
      BY <1>1, <2>1, <3>1 DEF FswInv, F!TypeOK, ChannelsOpen, EndsLate, F!NoPanic
  <2> QED
    BY <1>2, <1>3, <1>4, <2>2 DEF FswInv
<1>6. CASE F!CloseReplies
  <2>1. /\ receiver = "close replies" /\ receiver' = "close uplink" /\ UNCHANGED <<qclosed, link>>
        /\ open' = [c \in F!Calls |-> open[c] /\ c \notin entries]
        /\ panicked' \in BOOLEAN
    BY <1>6 DEF F!CloseReplies
  <2>2. link # "up" /\ ~qclosed
    BY <2>1 DEF FswInv, EndsLate
  <2>3. \A c \in F!Calls : ~open'[c] /\ open'[c] \in BOOLEAN
    BY <2>1 DEF FswInv, ChannelsOpen
  <2>4. open' \in [F!Calls -> BOOLEAN]
    BY <2>1, <2>3
  <2>5. F!TypeOK'
    BY <1>1, <2>1, <2>4 DEF FswInv, F!TypeOK
  <2>6. ChannelsOpen' /\ EndsLate' /\ F!NoPanic'
    BY <1>1, <2>1, <2>2, <2>3 DEF FswInv, ChannelsOpen, EndsLate, F!NoPanic
  <2> QED
    BY <1>2, <1>3, <1>4, <2>5, <2>6 DEF FswInv
<1>7. CASE F!CloseUplink
  <2>1. /\ receiver = "close uplink" /\ receiver' = "ended" /\ qclosed' = TRUE /\ link' = "broken"
        /\ UNCHANGED <<open, panicked>>
    BY <1>7 DEF F!CloseUplink
  <2>2. F!TypeOK' /\ ChannelsOpen' /\ EndsLate' /\ F!NoPanic'
    BY <1>1, <2>1 DEF FswInv, F!TypeOK, ChannelsOpen, EndsLate, F!NoPanic
  <2> QED
    BY <1>2, <1>3, <1>4, <2>2 DEF FswInv
<1> QED
  BY <1>5, <1>6, <1>7

\* What is on its way after another reply was sent.
LEMMA AnotherReply ==
  ASSUME FswInv, NEW c \in F!Calls, replies' = Append(replies, c)
  PROVE  replies' \in Seq(F!Calls) /\ \A d \in F!Calls : OnItsWay(d)' => OnItsWay(d) \/ d = c
<1>1. replies \in Seq(F!Calls)
  BY DEF FswInv, Carried
<1>2. /\ replies' \in Seq(F!Calls) /\ Len(replies) \in Nat /\ Len(replies') = Len(replies) + 1
      /\ replies'[Len(replies) + 1] = c /\ \A i \in 1 .. Len(replies) : replies'[i] = replies[i]
  BY <1>1
<1>3. ASSUME NEW d \in F!Calls, NEW i \in 1 .. Len(replies'), replies'[i] = d, d # c
      PROVE  OnItsWay(d)
  <2>1. i # Len(replies) + 1
    BY <1>2, <1>3
  <2>2. i \in 1 .. Len(replies) /\ replies[i] = d
    BY <1>2, <1>3, <2>1
  <2> QED
    BY <2>2 DEF OnItsWay
<1> QED
  BY <1>2, <1>3 DEF OnItsWay

\* The client takes a packet from the stream; the packet that opens a call starts its task.
LEMMA ClientTakesKeeps ==
  ASSUME FswInv, ~panicked, F!ClientTakes
  PROVE  FswInv'
<1> USE DEF F!chanVars, F!callVars, F!goVars, F!loopVars
<1> DEFINE p == Head(toClient)
<1>1. /\ toClient # <<>> /\ toClient' = Tail(toClient)
      /\ task' = IF p.kind \in {"request", "header"} THEN [task EXCEPT ![p.id] = "running"] ELSE task
      /\ UNCHANGED <<packets, qclosed, entries, open, fswCall, next, fed, failing, done, result, link,
                     sender, sending, receiver, reply, panicked>>
      /\ feeds' = IF p.kind = "header" THEN feeds \cup {p.id} ELSE feeds
      /\ replies' = replies \/ (task[p.id] = "replied" /\ replies' = Append(replies, p.id))
  BY DEF F!ClientTakes, F!Unexpected
<1>2. /\ toClient \in Seq(F!Packet) /\ p \in F!Packet /\ p = toClient[1] /\ toClient' \in Seq(F!Packet)
      /\ Len(toClient) \in Nat \ {0} /\ Len(toClient') = Len(toClient) - 1
      /\ \A i \in 1 .. Len(toClient') : toClient'[i] = toClient[i + 1]
  <2>1. toClient \in Seq(F!Packet)
    BY DEF FswInv, F!TypeOK
  <2> QED
    BY <1>1, <2>1, HeadTailProperties
<1>3. p.id \in F!Calls
  BY <1>2 DEF F!Packet
<1>9. replies' \in Seq(F!Calls) /\ \A c \in F!Calls : OnItsWay(c)' => OnItsWay(c) \/ task[c] = "replied"
  <2>1. CASE replies' = replies
    BY <2>1 DEF FswInv, Carried, OnItsWay
  <2>2. CASE task[p.id] = "replied" /\ replies' = Append(replies, p.id)
    <3>1. PICK c \in F!Calls : c = p.id
      BY <1>3
    <3>2. replies' = Append(replies, c) /\ task[c] = "replied"
      BY <2>2, <3>1
    <3> QED
      BY <3>2, AnotherReply
  <2> QED
    BY <1>1, <2>1, <2>2
<1>4. /\ task' \in [F!Calls -> {"none", "running", "replied"}]
      /\ \A c \in F!Calls : task'[c] = IF Opening(p, c) THEN "running" ELSE task[c]
  <2>1. task \in [F!Calls -> {"none", "running", "replied"}]
    BY DEF FswInv, F!TypeOK
  <2> QED
    BY <1>1, <1>3, <2>1 DEF Opening
<1>5. F!TypeOK'
  <2>1. Len(toClient') <= Window
    <3>1. Len(toClient) <= Window /\ Window \in Nat
      BY RpcAssumption DEF FswInv, F!TypeOK
    <3> QED
      BY <1>2, <3>1
  <2>2. feeds' \subseteq F!Calls
    BY <1>1, <1>3 DEF FswInv, F!TypeOK
  <2> QED
    BY <1>1, <1>2, <1>4, <2>1, <2>2 DEF FswInv, F!TypeOK
<1>6. F!EntriesAreCalls' /\ ChannelsOpen' /\ Carried' /\ EndsLate' /\ F!NoPanic'
  BY <1>1, <1>9 DEF FswInv, F!EntriesAreCalls, ChannelsOpen, Carried, EndsLate, F!NoPanic
<1>8. ASSUME NEW c \in F!Calls PROVE OpenedOnce(c)' /\ RepliedOnce(c)'
  <2>1. OpenedOnce(c) /\ RepliedOnce(c)
    BY DEF FswInv, OnlyOnce, Replied
  <2>2. (InQueue(c)' <=> InQueue(c)) /\ (InSending(c)' <=> InSending(c)) /\ (Opened(c)' <=> Opened(c))
        /\ OnceIn(packets', c) /\ (Delivering(c)' <=> Delivering(c))
        /\ fswCall'[c] = fswCall[c] /\ link' = link /\ result'[c] = result[c]
        /\ (OnItsWay(c)' => OnItsWay(c) \/ task[c] = "replied")
    BY <1>1, <1>9, <2>1 DEF InQueue, InSending, Opened, Opening, OpenedOnce, Delivering
  <2>3. \A i \in 1 .. Len(toClient') : i + 1 \in 1 .. Len(toClient) /\ i + 1 # 1
    BY <1>2
  <2>4. OnceIn(toClient', c)
    <3> SUFFICES ASSUME NEW i \in 1 .. Len(toClient'), NEW j \in 1 .. Len(toClient'),
                        Opening(toClient'[i], c), Opening(toClient'[j], c)
                 PROVE  i = j
      BY DEF OnceIn
    <3>1. i + 1 = j + 1
      BY <1>2, <2>1, <2>3 DEF OpenedOnce, OnceIn
    <3> QED
      BY <3>1
  <2>5. InStream(c)' => InStream(c) /\ ~Opening(toClient[1], c)
    <3> SUFFICES ASSUME NEW i \in 1 .. Len(toClient'), Opening(toClient'[i], c)
                 PROVE  InStream(c) /\ ~Opening(toClient[1], c)
      BY DEF InStream
    <3>1. Opening(toClient[i + 1], c) /\ 1 \in 1 .. Len(toClient)
      BY <1>2
    <3> QED
      BY <2>1, <2>3, <3>1 DEF InStream, OpenedOnce, OnceIn
  <2>6. CASE Opening(toClient[1], c)
    <3>1. InStream(c)
      BY <1>2, <2>6 DEF InStream
    <3>2. task[c] = "none" /\ Opened(c) /\ ~InQueue(c) /\ ~InSending(c)
      BY <2>1, <3>1 DEF OpenedOnce
    <3>3. OpenedOnce(c)'
      BY <2>2, <2>4, <2>5, <2>6, <3>2 DEF OpenedOnce
    <3>4. ~OnItsWay(c) /\ ~Delivering(c) /\ ~(link = "up" /\ fswCall[c] \in {"got", "returned"})
      BY <2>1, <3>2 DEF RepliedOnce
    <3>5. RepliedOnce(c)'
      BY <2>2, <3>2, <3>4 DEF RepliedOnce
    <3> QED
      BY <3>3, <3>5
  <2>7. CASE ~Opening(toClient[1], c)
    <3>1. task'[c] = task[c]
      BY <1>2, <1>4, <2>7
    <3>2. OpenedOnce(c)'
      BY <2>1, <2>2, <2>4, <2>5, <3>1 DEF OpenedOnce
    <3>3. RepliedOnce(c)'
      BY <2>1, <2>2, <3>1 DEF RepliedOnce
    <3> QED
      BY <3>2, <3>3
  <2> QED
    BY <2>6, <2>7
<1> QED
  BY <1>5, <1>6, <1>8 DEF FswInv, OnlyOnce, Replied

\* The client answers a call.
LEMMA ClientRepliesKeeps ==
  ASSUME FswInv, ~panicked, NEW c \in F!Calls, F!ClientReplies(c)
  PROVE  FswInv'
<1> USE DEF F!chanVars, F!callVars, F!goVars, F!loopVars
<1>1. /\ task[c] = "running" /\ link = "up" /\ task' = [task EXCEPT ![c] = "replied"]
      /\ replies' = Append(replies, c) /\ feeds' \in {feeds, feeds \ {c}}
      /\ UNCHANGED <<packets, qclosed, entries, open, fswCall, next, fed, failing, done, result, link, toClient,
                     sender, sending, receiver, reply, panicked>>
  BY DEF F!ClientReplies
<1>2. replies' \in Seq(F!Calls) /\ \A d \in F!Calls : OnItsWay(d)' => OnItsWay(d) \/ d = c
  BY <1>1, AnotherReply
<1>3. /\ task' \in [F!Calls -> {"none", "running", "replied"}] /\ task'[c] = "replied"
      /\ \A d \in F!Calls \ {c} : task'[d] = task[d]
  BY <1>1 DEF FswInv, F!TypeOK
<1>4. F!TypeOK'
  BY <1>1, <1>3 DEF FswInv, F!TypeOK
<1>5. F!EntriesAreCalls' /\ ChannelsOpen' /\ Carried' /\ EndsLate' /\ F!NoPanic'
  BY <1>1, <1>2 DEF FswInv, F!EntriesAreCalls, ChannelsOpen, Carried, EndsLate, F!NoPanic
<1>6. fswCall[c] \notin {"got", "returned"}
  BY <1>1 DEF FswInv, Replied, RepliedOnce
<1>7. ASSUME NEW d \in F!Calls PROVE OpenedOnce(d)'
  <2>1. OpenedOnce(d)
    BY DEF FswInv, OnlyOnce
  <2>2. (InQueue(d)' <=> InQueue(d)) /\ (InSending(d)' <=> InSending(d)) /\ (Opened(d)' <=> Opened(d))
        /\ (InStream(d)' <=> InStream(d)) /\ OnceIn(packets', d) /\ OnceIn(toClient', d)
    BY <1>1, <2>1 DEF InQueue, InSending, InStream, Opened, Opening, OpenedOnce
  <2>3. task'[d] # "none" <=> task[d] # "none"
    BY <1>1, <1>3
  <2> QED
    BY <2>1, <2>2, <2>3 DEF OpenedOnce
<1>8. ASSUME NEW d \in F!Calls PROVE RepliedOnce(d)'
  <2>1. RepliedOnce(d)
    BY DEF FswInv, Replied
  <2>2. (Delivering(d)' <=> Delivering(d)) /\ fswCall'[d] = fswCall[d] /\ link' = link /\ result'[d] = result[d]
    BY <1>1 DEF Delivering
  <2>3. OnItsWay(d)' => OnItsWay(d) \/ d = c
    BY <1>2
  <2> QED
    BY <1>3, <1>6, <2>1, <2>2, <2>3 DEF RepliedOnce
<1> QED
  BY <1>4, <1>5, <1>7, <1>8 DEF FswInv, OnlyOnce, Replied

\* The stream ends.
LEMMA StreamEndsKeeps ==
  ASSUME FswInv, ~panicked, F!StreamEnds
  PROVE  FswInv'
<1> USE DEF F!chanVars, F!callVars, F!goVars, F!loopVars
<1>1. /\ link = "up" /\ link' \in {"eof", "broken"}
      /\ UNCHANGED <<packets, qclosed, entries, open, fswCall, next, fed, failing, done, result, toClient, replies,
                     task, feeds, sender, sending, receiver, reply, panicked>>
  BY RpcAssumption DEF F!StreamEnds
<1>2. F!TypeOK' /\ F!EntriesAreCalls' /\ ChannelsOpen' /\ Carried' /\ EndsLate' /\ F!NoPanic'
  BY <1>1 DEF FswInv, F!TypeOK, F!EntriesAreCalls, ChannelsOpen, Carried, EndsLate, F!NoPanic
<1>3. OnlyOnce' /\ Replied'
  BY <1>1, OpeningsSame, RepliesSame DEF FswInv, Opened
<1> QED
  BY <1>2, <1>3 DEF FswInv

\* Every step keeps the invariant.
LEMMA FswStep == FswInv /\ [F!Next]_F!vars => FswInv'
<1> SUFFICES ASSUME FswInv, [F!Next]_F!vars PROVE FswInv'
  OBVIOUS
<1>1. CASE UNCHANGED F!vars
  <2>1. UNCHANGED <<packets, qclosed, entries, open, fswCall, next, fed, failing, done, result, link, toClient, replies,
                    task, feeds, sender, sending, receiver, reply, panicked>>
    BY <1>1 DEF F!vars, F!goVars, F!chanVars, F!callVars, F!streamVars, F!loopVars
  <2>2. OnlyOnce' /\ Replied'
    BY <2>1, OpeningsSame, RepliesSame DEF FswInv, Opened
  <2> QED
    BY <2>1, <2>2 DEF FswInv, F!TypeOK, F!EntriesAreCalls, F!NoPanic, Carried, ChannelsOpen, EndsLate
<1>2. CASE F!Next
  <2>1. ~panicked
    BY <1>2 DEF F!Next
  <2>2. ASSUME NEW c \in F!Calls, F!NewSession(c) \/ F!CancelContext(c) \/ F!CallStep(c) PROVE FswInv'
    BY <2>1, <2>2, CallsKeep, PushKeeps DEF F!CallStep
  <2>3. CASE F!SenderStep
    BY <2>1, <2>3, SenderTakesKeeps, SenderSendsKeeps, SenderReportsKeeps DEF F!SenderStep
  <2>4. CASE F!ReceiverStep
    BY <2>1, <2>4, ReceiverTakesKeeps, ReceiverDeliversKeeps, ReceiverEndsKeeps DEF F!ReceiverStep
  <2>5. CASE F!ClientStep
    BY <2>1, <2>5, ClientTakesKeeps, ClientRepliesKeeps DEF F!ClientStep
  <2>6. CASE F!StreamEnds
    BY <2>1, <2>6, StreamEndsKeeps
  <2> QED
    BY <1>2, <2>2, <2>3, <2>4, <2>5, <2>6 DEF F!Next
<1> QED
  BY <1>1, <1>2

\* The invariant holds of every state.
LEMMA FswInvariant == F!Spec => []FswInv
<1> QED
  BY FswInit, FswStep, PTL DEF F!Spec

\* While the stream is up, the channels on which goroutines send are open, but for the one of a
\* call that was given its reply and returns while process() sends it another: no other
\* cancellation, reply or return of a call makes a goroutine panic.
THEOREM ReplyFindsItsChannel == F!Spec => []NoPanic
<1>1. FswInv => NoPanic
  BY DEF FswInv, NoPanic
<1> QED
  BY <1>1, FswInvariant, PTL

\* A call that returned over a stream that is still up was answered by its client, and the table of
\* the calls in progress is exact.
THEOREM BothEndsAgree == F!Spec => []EndsAgree
<1>1. FswInv => EndsAgree
  BY DEF FswInv, EndsAgree, F!EndsAgree, F!NoOrphan, Replied, RepliedOnce
<1> QED
  BY <1>1, FswInvariant, PTL

-----------------------------------------------------------------------------
(* The three together.                                                      *)

\* The run of MCRpc shows what it shows of each of the three: whatever the three do side by
\* side, each behaves as its own module says.
THEOREM EachLinkIsItself == MCSpec => Spec /\ R!Spec /\ F!Spec
<1>1. MCInit => Init /\ R!Init /\ F!Init
  BY DEF MCInit
<1>2. [MCNext]_<<part, vars, requestVars, fswVars>> => [Next]_vars
  BY DEF MCNext
<1>3. [MCNext]_<<part, vars, requestVars, fswVars>> => [R!Next]_R!vars
  BY DEF MCNext, requestVars, R!vars
<1>4. [MCNext]_<<part, vars, requestVars, fswVars>> => [F!Next]_F!vars
  BY DEF MCNext, fswVars, F!vars, F!goVars, F!chanVars, F!callVars, F!streamVars, F!loopVars
<1> QED
  BY <1>1, <1>2, <1>3, <1>4, PTL DEF MCSpec, Spec, R!Spec, F!Spec
===============================================================================
