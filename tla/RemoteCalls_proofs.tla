--------------------------- MODULE RemoteCalls_proofs ---------------------------
(***************************************************************************)
(* Proofs about the calls of a link to remote flight software (RpcFsw, F   *)
(* in MCRpc): while the stream is up no call is lost and somebody can move *)
(* as long as one is in progress, and the link keeps the promise of        *)
(* RemoteCalls (C in MCRpc).  For every set of calls, every capacity of    *)
(* f.uplink and of the stream, and any sources that fail.                  *)
(***************************************************************************)
EXTENDS MCRpc_proofs

-----------------------------------------------------------------------------
(* The invariant.                                                           *)

\* The answer of a call is the client's, unless the link is no longer served.
ToldOf(c) ==
  /\ result[c] = "reply" => task[c] = "replied"
  /\ fswCall[c] \in {"got", "returned"} /\ Served => result[c] = "reply"
Told == \A c \in F!Calls : ToldOf(c)

\* A call in progress whose packet was pushed is under way, at the client, or on its way back.
Present(c) == F!OnTheWay(c) \/ task[c] = "running" \/ F!OnTheWayBack(c)
Away(c) == F!Asked(c) /\ fswCall[c] \notin {"got", "returned"}
Somewhere == link = "up" => \A c \in F!Calls : Away(c) => Present(c)

\* A call begins with its first packet, only the uplinks that may fail do, and the sender ends
\* when f.uplink is closed.
Orderly ==
  /\ \A c \in F!Calls : fswCall[c] = "idle" => next[c] \in {"request", "header"}
  /\ \A c \in F!Calls : failing[c] => c \in Faulty
  /\ sender = "ended" => qclosed

CallsInv == FswInv /\ Told /\ Somewhere /\ Orderly

-----------------------------------------------------------------------------
(* Sequences.                                                               *)

\* What is in a sequence is its head or in its tail.
LEMMA TailHas ==
  ASSUME NEW S, NEW q \in Seq(S), q # <<>>, NEW i \in 1 .. Len(q)
  PROVE  q[i] = Head(q) \/ \E j \in 1 .. Len(Tail(q)) : Tail(q)[j] = q[i]
<1>1. /\ Len(q) \in Nat \ {0} /\ Len(Tail(q)) = Len(q) - 1 /\ Head(q) = q[1]
      /\ \A j \in 1 .. Len(Tail(q)) : Tail(q)[j] = q[j + 1]
  BY HeadTailProperties
<1>2. CASE i = 1
  BY <1>1, <1>2
<1>3. CASE i # 1
  <2>1. i - 1 \in 1 .. Len(Tail(q)) /\ (i - 1) + 1 = i
    BY <1>1, <1>3
  <2>2. Tail(q)[i - 1] = q[i]
    BY <1>1, <2>1
  <2> QED
    BY <2>1, <2>2
<1> QED
  BY <1>2, <1>3

\* What is in a sequence stays when something is appended, which is in it, too.
LEMMA AppendHas ==
  ASSUME NEW S, NEW q \in Seq(S), NEW e \in S
  PROVE  /\ \A i \in 1 .. Len(q) : i \in 1 .. Len(Append(q, e)) /\ Append(q, e)[i] = q[i]
         /\ Len(q) + 1 \in 1 .. Len(Append(q, e)) /\ Append(q, e)[Len(q) + 1] = e
<1>1. Len(q) \in Nat /\ Len(Append(q, e)) = Len(q) + 1
  OBVIOUS
<1> QED
  BY <1>1

-----------------------------------------------------------------------------
(* The steps.                                                               *)

\* The link is served while it is up, and never again when it is not.
LEMMA UpIsServed == FswInv /\ link = "up" => Served
BY DEF FswInv, F!TypeOK, EndsLate, Served

LEMMA ServedOnce ==
  ASSUME FswInv, F!Next, Served'
  PROVE  Served
<1> USE DEF F!goVars, F!chanVars, F!callVars, F!streamVars, F!loopVars
<1>1. ASSUME NEW c \in F!Calls, F!NewSession(c) \/ F!CancelContext(c) \/ F!CallStep(c)
      PROVE  UNCHANGED <<link, receiver>>
  BY <1>1 DEF F!NewSession, F!CancelContext, F!CallStep, F!Push, F!Source, F!TakeCancelled, F!PushCancel, F!TakeClosed,
              F!DrainClosed, F!Finish
<1>2. F!SenderStep => UNCHANGED <<link, receiver>>
  BY DEF F!SenderStep, F!SenderTakes, F!SenderSends, F!SenderReports, F!HandOver
<1>3. F!ReceiverStep => Served
  BY DEF F!ReceiverStep, F!ReceiverTakes, F!ReceiverDelivers, F!ReceiverEnds, F!CloseReplies, F!CloseUplink, F!HandOver, Served
<1>4. F!ClientStep => UNCHANGED <<link, receiver>>
  BY DEF F!ClientStep, F!ClientTakes, F!ClientReplies
<1>5. F!StreamEnds => Served
  BY UpIsServed DEF F!StreamEnds
<1> QED
  BY <1>1, <1>2, <1>3, <1>4, <1>5 DEF F!Next, Served

\* A task that has replied is over.
LEMMA RepliedStays ==
  ASSUME FswInv, F!Next, NEW c \in F!Calls, task[c] = "replied"
  PROVE  task'[c] = "replied"
<1> USE DEF F!goVars, F!chanVars, F!callVars, F!streamVars, F!loopVars
<1>1. F!ClientTakes => task'[c] = "replied"
  <2> SUFFICES ASSUME F!ClientTakes PROVE task'[c] = "replied"
    OBVIOUS
  <2> DEFINE p == Head(toClient)
  <2>1. /\ toClient # <<>>
        /\ task' = IF p.kind \in {"request", "header"} THEN [task EXCEPT ![p.id] = "running"] ELSE task
    BY DEF F!ClientTakes
  <2>2. toClient \in Seq(F!Packet) /\ task \in [F!Calls -> {"none", "running", "replied"}]
    BY DEF FswInv, F!TypeOK
  <2>3. 1 \in 1 .. Len(toClient) /\ p = toClient[1]
    BY <2>1, <2>2, HeadTailProperties
  <2>4. Opening(p, c) => InStream(c)
    BY <2>3 DEF InStream
  <2>5. ~Opening(p, c)
    BY <2>4 DEF FswInv, OnlyOnce, OpenedOnce
  <2> QED
    BY <2>1, <2>2, <2>5 DEF Opening
<1>2. ASSUME NEW d \in F!Calls, F!ClientReplies(d) PROVE task'[c] = "replied"
  BY <1>2 DEF F!ClientReplies, FswInv, F!TypeOK
<1>3. ~F!ClientStep => task' = task
  BY DEF F!Next, F!NewSession, F!CancelContext, F!CallStep, F!Push, F!Source, F!TakeCancelled, F!PushCancel, F!TakeClosed,
         F!DrainClosed, F!Finish, F!SenderStep, F!SenderTakes, F!SenderSends, F!SenderReports, F!HandOver,
         F!ReceiverStep, F!ReceiverTakes, F!ReceiverDelivers, F!ReceiverEnds, F!CloseReplies, F!CloseUplink, F!StreamEnds
<1> QED
  BY <1>1, <1>2, <1>3 DEF F!ClientStep

\* A step that answers nobody keeps the answers.
LEMMA ToldSame ==
  ASSUME CallsInv, F!Next, NEW c \in F!Calls, result'[c] = result[c],
         fswCall'[c] \in {"got", "returned"} => fswCall[c] \in {"got", "returned"}
  PROVE  ToldOf(c)'
BY ServedOnce, RepliedStays DEF CallsInv, Told, ToldOf

\* A call is handed the client's answer, or the error of a stream that is broken.
LEMMA ToldHandOver ==
  ASSUME CallsInv, F!Next, NEW c \in F!Calls, NEW a \in F!Answer, F!HandOver(c, a),
         (a = "reply" /\ task[c] = "replied") \/ (a # "reply" /\ ~Served')
  PROVE  Told'
<1> SUFFICES ASSUME NEW d \in F!Calls PROVE ToldOf(d)'
  BY DEF Told
<1>1. /\ result' = [result EXCEPT ![c] = a] /\ fswCall' = [fswCall EXCEPT ![c] = "got"]
      /\ result \in [F!Calls -> F!Answer \cup {F!None}] /\ DOMAIN fswCall = F!Calls
  BY DEF F!HandOver, CallsInv, FswInv, F!TypeOK
<1>2. CASE d = c
  <2>1. result'[c] = a
    BY <1>1
  <2> QED
    BY <1>2, <2>1, RepliedStays DEF ToldOf, CallsInv
<1>3. CASE d # c
  <2>1. result'[d] = result[d] /\ fswCall'[d] = fswCall[d]
    BY <1>1, <1>3
  <2> QED
    BY <2>1, ToldSame
<1> QED
  BY <1>2, <1>3

\* Every step keeps the answers.
LEMMA ToldKeeps ==
  ASSUME CallsInv, F!Next
  PROVE  Told'
<1> USE DEF F!goVars, F!chanVars, F!callVars, F!streamVars, F!loopVars
<1>0. /\ fswCall \in [F!Calls -> {"idle", "push", "source", "waiting", "cancel", "drain", "got", "returned"}]
      /\ result \in [F!Calls -> F!Answer \cup {F!None}]
  BY DEF CallsInv, FswInv, F!TypeOK
<1>1. ASSUME NEW c \in F!Calls,
             \/ F!NewSession(c) \/ F!CancelContext(c) \/ F!Push(c) \/ F!Source(c) \/ F!TakeCancelled(c)
             \/ F!PushCancel(c) \/ F!Finish(c)
      PROVE  Told'
  <2>1. result' = result /\ \E s \in {"push", "source", "waiting", "cancel", "drain", "returned"} :
          /\ fswCall' = [fswCall EXCEPT ![c] = s] \/ fswCall' = fswCall
          /\ s = "returned" => fswCall[c] = "got"
    BY <1>1 DEF F!NewSession, F!CancelContext, F!Push, F!Source, F!TakeCancelled, F!PushCancel, F!Finish
  <2>2. \A d \in F!Calls : fswCall'[d] \in {"got", "returned"} => fswCall[d] \in {"got", "returned"}
    BY <1>0, <2>1
  <2> QED
    BY <2>1, <2>2, ToldSame DEF Told
<1>2. ASSUME NEW c \in F!Calls, F!TakeClosed(c) \/ F!DrainClosed(c) PROVE Told'
  <2>1. /\ fswCall[c] \in {"waiting", "drain"} /\ ~open[c] /\ UNCHANGED <<link, receiver>>
        /\ \E a \in {"connection closed", "nothing"} : result' = [result EXCEPT ![c] = a]
        /\ \E s \in {"got", "returned"} : fswCall' = [fswCall EXCEPT ![c] = s]
    BY <1>2 DEF F!TakeClosed, F!DrainClosed
  <2>2. ~Served'
    <3>1. receiver \in {"close uplink", "ended"}
      BY <2>1 DEF CallsInv, FswInv, ChannelsOpen, F!EntriesAreCalls
    <3> QED
      BY <2>1, <3>1 DEF Served
  <2>3. ASSUME NEW d \in F!Calls PROVE ToldOf(d)'
    <3>1. CASE d = c
      BY <1>0, <2>1, <2>2, <3>1 DEF ToldOf
    <3>2. CASE d # c
      <4>1. result'[d] = result[d] /\ fswCall'[d] = fswCall[d]
        BY <1>0, <2>1, <3>2
      <4> QED
        BY <4>1, ToldSame
    <3> QED
      BY <3>1, <3>2
  <2> QED
    BY <2>3 DEF Told
<1>3. CASE F!SenderReports
  <2>1. sender = "error" /\ link = "broken" /\ sending \in F!Packet
    BY <1>3 DEF F!SenderReports, CallsInv, FswInv, EndsLate, Carried
  <2>2. CASE F!HandOver(sending.id, "send failed")
    <3>1. sending.id \in F!Calls /\ link' = link /\ "send failed" \in F!Answer
      BY <2>1, <2>2 DEF F!HandOver, F!Packet, F!Answer
    <3>2. ~Served'
      BY <2>1, <3>1 DEF Served
    <3> QED
      BY <2>2, <3>1, <3>2, ToldHandOver
  <2>3. CASE UNCHANGED F!goVars
    BY <2>3, ToldSame DEF Told
  <2> QED
    BY <1>3, <2>2, <2>3 DEF F!SenderReports
<1>4. CASE F!ReceiverDelivers
  <2>1. reply \in F!Calls /\ task[reply] = "replied"
    BY <1>4 DEF F!ReceiverDelivers, CallsInv, FswInv, Carried, Replied, RepliedOnce, Delivering
  <2>2. CASE F!HandOver(reply, "reply")
    BY <2>1, <2>2, ToldHandOver DEF F!Answer
  <2>3. CASE UNCHANGED F!goVars
    BY <2>3, ToldSame DEF Told
  <2> QED
    BY <1>4, <2>2, <2>3 DEF F!ReceiverDelivers
<1>5. CASE F!SenderTakes \/ F!SenderSends \/ F!ReceiverTakes \/ F!ReceiverEnds \/ F!CloseReplies \/ F!CloseUplink
           \/ F!ClientStep \/ F!StreamEnds
  <2>1. UNCHANGED <<fswCall, result>>
    BY <1>5 DEF F!SenderTakes, F!SenderSends, F!ReceiverTakes, F!ReceiverEnds, F!CloseReplies, F!CloseUplink,
                F!ClientStep, F!ClientTakes, F!ClientReplies, F!StreamEnds
  <2> QED
    BY <2>1, ToldSame DEF Told
<1> QED
  BY <1>1, <1>2, <1>3, <1>4, <1>5 DEF F!Next, F!CallStep, F!SenderStep, F!ReceiverStep

\* A call that is where it was, or has moved on, is somewhere.
LEMMA SomewhereSame ==
  ASSUME CallsInv, F!Next, link' = "up", link = "up",
         \A c \in F!Calls : Away(c)' => Away(c), \A c \in F!Calls : Away(c) /\ Present(c) => Present(c)' \/ ~Away(c)'
  PROVE  Somewhere'
BY DEF CallsInv, Somewhere

\* The steps of a call other than a push keep its packets where they are.
LEMMA CallsStaySomewhere ==
  ASSUME CallsInv, F!Next, NEW c \in F!Calls, link = "up",
         \/ F!NewSession(c) \/ F!CancelContext(c) \/ F!Source(c) \/ F!TakeCancelled(c) \/ F!TakeClosed(c) \/ F!DrainClosed(c)
         \/ F!Finish(c)
  PROVE  Somewhere'
<1> USE DEF F!chanVars, F!streamVars, F!loopVars
<1>1. UNCHANGED <<packets, link, toClient, replies, task, sender, sending, receiver, reply>>
  BY DEF F!NewSession, F!CancelContext, F!Source, F!TakeCancelled, F!TakeClosed, F!DrainClosed, F!Finish
<1>2. /\ fswCall \in [F!Calls -> {"idle", "push", "source", "waiting", "cancel", "drain", "got", "returned"}]
      /\ next \in [F!Calls -> {"request", "header", "data", "final"}]
      /\ fswCall[c] = "idle" => next[c] \in {"request", "header"}
  BY DEF CallsInv, FswInv, F!TypeOK, Orderly
<1>3. \A d \in F!Calls \ {c} : fswCall'[d] = fswCall[d] /\ next'[d] = next[d]
  BY <1>2 DEF F!NewSession, F!CancelContext, F!Source, F!TakeCancelled, F!TakeClosed, F!DrainClosed, F!Finish
<1>4. Away(c)' => Away(c)
  BY <1>2 DEF F!NewSession, F!CancelContext, F!Source, F!TakeCancelled, F!TakeClosed, F!DrainClosed, F!Finish, Away, F!Asked
<1>5. \A d \in F!Calls : Away(d)' => Away(d)
  BY <1>3, <1>4 DEF Away, F!Asked
<1>6. \A d \in F!Calls : Present(d) => Present(d)'
  BY <1>1 DEF Present, F!OnTheWay, F!OnTheWayBack, F!Opens
<1> QED
  BY <1>1, <1>5, <1>6, SomewhereSame

\* A call that pushes its first packet is in the queue, every other stays where it is.
LEMMA PushStaysSomewhere ==
  ASSUME CallsInv, F!Next, NEW c \in F!Calls, F!Push(c) \/ F!PushCancel(c), link = "up"
  PROVE  Somewhere'
<1> USE DEF F!chanVars, F!streamVars, F!loopVars
<1>1. /\ UNCHANGED <<next, link, toClient, replies, task, sender, sending, receiver, reply>>
      /\ fswCall \in [F!Calls -> {"idle", "push", "source", "waiting", "cancel", "drain", "got", "returned"}]
      /\ packets \in Seq(F!Packet) /\ ~qclosed
  BY DEF F!Push, F!PushCancel, CallsInv, FswInv, F!TypeOK, EndsLate
<1>2. PICK k \in {"request", "header", "data", "final", "cancel"} :
        /\ packets' = Append(packets, [id |-> c, kind |-> k])
        /\ ~Away(c) => k \in {"request", "header"}
        /\ \A d \in F!Calls \ {c} : fswCall'[d] = fswCall[d]
  <2>1. CASE F!Push(c)
    <3>1. next[c] \in {"request", "header", "data", "final"} /\ fswCall[c] = "push"
          /\ packets' = Append(packets, [id |-> c, kind |-> next[c]])
          /\ \A d \in F!Calls \ {c} : fswCall'[d] = fswCall[d]
      BY <1>1, <2>1 DEF F!Push, F!Send, CallsInv, FswInv, F!TypeOK
    <3>2. ~Away(c) => next[c] \in {"request", "header"}
      BY <3>1 DEF Away, F!Asked
    <3> QED
      BY <3>1, <3>2
  <2>2. CASE F!PushCancel(c)
    <3>1. fswCall[c] = "cancel" /\ packets' = Append(packets, [id |-> c, kind |-> "cancel"])
          /\ \A d \in F!Calls \ {c} : fswCall'[d] = fswCall[d]
      BY <1>1, <2>2 DEF F!PushCancel, F!Send
    <3>2. Away(c)
      BY <3>1 DEF Away, F!Asked
    <3> QED
      BY <3>1, <3>2
  <2> QED
    BY <2>1, <2>2
<1> DEFINE p == [id |-> c, kind |-> k]
<1>3. p \in F!Packet /\ p.id = c /\ p.kind = k
  BY DEF F!Packet
<1> HIDE DEF p
<1>4. /\ \A i \in 1 .. Len(packets) : i \in 1 .. Len(packets') /\ packets'[i] = packets[i]
      /\ Len(packets) + 1 \in 1 .. Len(packets') /\ packets'[Len(packets) + 1] = p
  <2>1. packets' = Append(packets, p)
    BY <1>2 DEF p
  <2> QED
    BY <1>1, <1>3, <2>1, AppendHas
<1>5. ASSUME NEW d \in F!Calls, Present(d) PROVE Present(d)'
  <2>1. F!OnTheWay(d) => F!OnTheWay(d)'
    BY <1>1, <1>4 DEF F!OnTheWay, F!Opens
  <2> QED
    BY <1>1, <1>5, <2>1 DEF Present, F!OnTheWayBack
<1>6. ~Away(c) => Present(c)'
  <2>1. ~Away(c) => F!Opens(packets'[Len(packets) + 1], c)
    BY <1>2, <1>3, <1>4 DEF F!Opens
  <2> QED
    BY <1>4, <2>1 DEF Present, F!OnTheWay, F!Opens
<1>7. \A d \in F!Calls \ {c} : Away(d)' => Away(d)
  BY <1>1, <1>2 DEF Away, F!Asked
<1> QED
  BY <1>5, <1>6, <1>7 DEF CallsInv, Somewhere

\* The sender's steps move the packets on.
LEMMA SenderStaysSomewhere ==
  ASSUME CallsInv, F!Next, F!SenderStep, link = "up"
  PROVE  Somewhere'
<1> USE DEF F!chanVars, F!callVars, F!goVars, F!streamVars, F!loopVars
<1>1. ~F!SenderReports
  BY DEF F!SenderReports, CallsInv, FswInv, EndsLate
<1>2. UNCHANGED <<fswCall, next, link, replies, task, receiver, reply>>
  BY <1>1 DEF F!SenderStep, F!SenderTakes, F!SenderSends
<1>3. \A d \in F!Calls : Away(d)' => Away(d)
  BY <1>2 DEF Away, F!Asked
<1>4. \A d \in F!Calls : F!OnTheWayBack(d) => F!OnTheWayBack(d)'
  BY <1>2 DEF F!OnTheWayBack
<1>5. ASSUME NEW d \in F!Calls, F!OnTheWay(d) PROVE F!OnTheWay(d)'
  <2>1. CASE F!SenderTakes
    <3>1. packets \in Seq(F!Packet) /\ sender = "recv" /\ ~qclosed /\ toClient' = toClient
      BY <2>1 DEF F!SenderTakes, CallsInv, FswInv, F!TypeOK, EndsLate
    <3>2. packets # <<>> /\ sending' = Head(packets) /\ packets' = Tail(packets) /\ sender' = "send"
      BY <2>1, <3>1 DEF F!SenderTakes
    <3>3. CASE \E i \in 1 .. Len(packets) : F!Opens(packets[i], d)
      <4>1. PICK i \in 1 .. Len(packets) : F!Opens(packets[i], d)
        BY <3>3
      <4>2. packets[i] = sending' \/ \E j \in 1 .. Len(packets') : packets'[j] = packets[i]
        BY <3>1, <3>2, TailHas
      <4> QED
        BY <3>2, <4>1, <4>2 DEF F!OnTheWay, F!Opens
    <3>4. CASE \E i \in 1 .. Len(toClient) : F!Opens(toClient[i], d)
      BY <3>1, <3>4 DEF F!OnTheWay, F!Opens
    <3> QED
      BY <1>5, <3>1, <3>3, <3>4 DEF F!OnTheWay
  <2>2. CASE F!SenderSends
    <3>1. toClient \in Seq(F!Packet) /\ sender = "send" /\ sending \in F!Packet /\ packets' = packets
          /\ toClient' = Append(toClient, sending)
      BY <2>2 DEF F!SenderSends, CallsInv, FswInv, F!TypeOK, Carried
    <3>2. /\ \A i \in 1 .. Len(toClient) : i \in 1 .. Len(toClient') /\ toClient'[i] = toClient[i]
          /\ Len(toClient) + 1 \in 1 .. Len(toClient') /\ toClient'[Len(toClient) + 1] = sending
      BY <3>1, AppendHas
    <3> QED
      BY <1>5, <3>1, <3>2 DEF F!OnTheWay, F!Opens
  <2> QED
    BY <1>1, <2>1, <2>2 DEF F!SenderStep
<1>6. \A d \in F!Calls : Present(d) => Present(d)'
  BY <1>2, <1>4, <1>5 DEF Present
<1> QED
  BY <1>2, <1>3, <1>6, SomewhereSame

\* process() hands the replies on; the one it delivers ends its call.
LEMMA ReceiverStaysSomewhere ==
  ASSUME CallsInv, F!Next, F!ReceiverStep, link = "up"
  PROVE  Somewhere'
<1> USE DEF F!chanVars, F!callVars, F!goVars, F!streamVars, F!loopVars
<1>1. ~F!ReceiverEnds /\ ~F!CloseReplies /\ ~F!CloseUplink
  BY DEF F!ReceiverEnds, F!CloseReplies, F!CloseUplink, CallsInv, FswInv, EndsLate
<1>2. UNCHANGED <<packets, next, link, toClient, task, sender, sending>>
  BY <1>1 DEF F!ReceiverStep, F!ReceiverTakes, F!ReceiverDelivers, F!HandOver
<1>3. \A d \in F!Calls : F!OnTheWay(d) => F!OnTheWay(d)'
  BY <1>2 DEF F!OnTheWay, F!Opens
<1>4. CASE F!ReceiverTakes
  <2>1. /\ replies \in Seq(F!Calls) /\ receiver = "recv" /\ replies # <<>> /\ replies' = Tail(replies) /\ fswCall' = fswCall
        /\ Head(replies) \in entries => receiver' = "deliver" /\ reply' = Head(replies)
    BY <1>4 DEF F!ReceiverTakes, CallsInv, FswInv, Carried
  <2>2. \A d \in F!Calls : Away(d)' <=> Away(d)
    BY <1>2, <2>1 DEF Away, F!Asked
  <2>3. ASSUME NEW d \in F!Calls, Away(d), F!OnTheWayBack(d) PROVE F!OnTheWayBack(d)'
    <3>1. PICK i \in 1 .. Len(replies) : replies[i] = d
      BY <2>1, <2>3 DEF F!OnTheWayBack
    <3>2. Head(replies) = d \/ \E j \in 1 .. Len(replies') : replies'[j] = d
      BY <2>1, <3>1, TailHas
    <3>3. d \in entries
      BY <2>3 DEF Away, F!Asked, CallsInv, FswInv, F!EntriesAreCalls
    <3> QED
      BY <2>1, <3>2, <3>3 DEF F!OnTheWayBack
  <2>4. \A d \in F!Calls : Away(d) /\ Present(d) => Present(d)'
    BY <1>2, <1>3, <2>3 DEF Present
  <2> QED
    BY <1>2, <2>2, <2>4, SomewhereSame
<1>5. CASE F!ReceiverDelivers
  <2>1. CASE F!HandOver(reply, "reply") /\ receiver' = "recv"
    <3>1. /\ fswCall \in [F!Calls -> {"idle", "push", "source", "waiting", "cancel", "drain", "got", "returned"}]
          /\ fswCall' = [fswCall EXCEPT ![reply] = "got"] /\ reply \in F!Calls /\ replies' = replies
          /\ receiver = "deliver"
      BY <1>5, <2>1 DEF F!ReceiverDelivers, F!HandOver, CallsInv, FswInv, F!TypeOK, Carried
    <3>2. \A d \in F!Calls : Away(d)' => Away(d) /\ d # reply
      BY <1>2, <3>1 DEF Away, F!Asked
    <3>3. \A d \in F!Calls \ {reply} : F!OnTheWayBack(d) => F!OnTheWayBack(d)'
      BY <3>1 DEF F!OnTheWayBack
    <3>4. \A d \in F!Calls : Away(d) /\ Present(d) => Present(d)' \/ ~Away(d)'
      BY <1>2, <1>3, <3>2, <3>3 DEF Present
    <3> QED
      BY <1>2, <3>2, <3>4, SomewhereSame
  <2>2. CASE UNCHANGED <<F!goVars, F!streamVars, receiver>>
    <3>1. UNCHANGED <<fswCall, replies, receiver, reply>>
      BY <1>5, <2>2 DEF F!ReceiverDelivers
    <3>2. \A d \in F!Calls : Away(d)' => Away(d)
      BY <1>2, <3>1 DEF Away, F!Asked
    <3>3. \A d \in F!Calls : Present(d) => Present(d)'
      BY <1>2, <1>3, <3>1 DEF Present, F!OnTheWayBack
    <3> QED
      BY <1>2, <3>2, <3>3, SomewhereSame
  <2> QED
    BY <1>5, <2>1, <2>2 DEF F!ReceiverDelivers
<1> QED
  BY <1>1, <1>4, <1>5 DEF F!ReceiverStep

\* The client turns a packet into a task, and a task into a reply.
LEMMA ClientStaysSomewhere ==
  ASSUME CallsInv, F!Next, F!ClientStep, link = "up"
  PROVE  Somewhere'
<1> USE DEF F!chanVars, F!callVars, F!goVars, F!streamVars, F!loopVars
<1>1. UNCHANGED <<packets, fswCall, next, link, sender, sending, receiver, reply>>
      /\ task \in [F!Calls -> {"none", "running", "replied"}]
  BY DEF F!ClientStep, F!ClientTakes, F!ClientReplies, CallsInv, FswInv, F!TypeOK
<1>2. \A d \in F!Calls : Away(d)' => Away(d)
  BY <1>1 DEF Away, F!Asked
<1>3. ASSUME NEW d \in F!Calls, Present(d) PROVE Present(d)'
  <2>1. CASE F!ClientTakes
    <3> DEFINE p == Head(toClient)
    <3>1. /\ toClient \in Seq(F!Packet) /\ toClient # <<>> /\ toClient' = Tail(toClient)
          /\ replies' \in {replies, Append(replies, p.id)}
          /\ task' = IF p.kind \in {"request", "header"} THEN [task EXCEPT ![p.id] = "running"] ELSE task
      BY <2>1 DEF F!ClientTakes, CallsInv, FswInv, F!TypeOK
    <3> HIDE DEF p
    <3>2. F!Opens(p, d) => task'[d] = "running"
      BY <1>1, <3>1 DEF F!Opens
    <3>3. task[d] = "running" => task'[d] = "running"
      BY <1>1, <3>1
    <3>4. F!OnTheWayBack(d) => F!OnTheWayBack(d)'
      <4>1. replies \in Seq(F!Calls) /\ p.id \in F!Calls
        <5>1. p \in F!Packet
          BY <3>1, HeadTailProperties DEF p
        <5> QED
          BY <5>1 DEF F!Packet, CallsInv, FswInv, Carried
      <4>2. \A i \in 1 .. Len(replies) : i \in 1 .. Len(replies') /\ replies'[i] = replies[i]
        BY <3>1, <4>1, AppendHas
      <4> QED
        BY <1>1, <4>2 DEF F!OnTheWayBack
    <3>5. ASSUME NEW i \in 1 .. Len(toClient), F!Opens(toClient[i], d)
          PROVE  task'[d] = "running" \/ F!OnTheWay(d)'
      <4>1. toClient[i] = p \/ \E j \in 1 .. Len(toClient') : toClient'[j] = toClient[i]
        BY <3>1, TailHas DEF p
      <4> QED
        BY <3>2, <3>5, <4>1 DEF F!OnTheWay, F!Opens
    <3>6. F!OnTheWay(d) => task'[d] = "running" \/ F!OnTheWay(d)'
      BY <1>1, <3>5 DEF F!OnTheWay, F!Opens
    <3> QED
      BY <1>3, <3>3, <3>4, <3>6 DEF Present
  <2>2. ASSUME NEW c \in F!Calls, F!ClientReplies(c) PROVE Present(d)'
    <3>1. /\ replies \in Seq(F!Calls) /\ replies' = Append(replies, c) /\ toClient' = toClient
          /\ task' = [task EXCEPT ![c] = "replied"]
      BY <2>2 DEF F!ClientReplies, CallsInv, FswInv, Carried
    <3>2. /\ \A i \in 1 .. Len(replies) : i \in 1 .. Len(replies') /\ replies'[i] = replies[i]
          /\ Len(replies) + 1 \in 1 .. Len(replies') /\ replies'[Len(replies) + 1] = c
      BY <3>1, AppendHas
    <3>3. F!OnTheWay(d) => F!OnTheWay(d)'
      BY <1>1, <3>1 DEF F!OnTheWay, F!Opens
    <3>4. F!OnTheWayBack(d) \/ d = c => F!OnTheWayBack(d)'
      BY <1>1, <3>2 DEF F!OnTheWayBack
    <3>5. d # c => task'[d] = task[d]
      BY <1>1, <3>1
    <3> QED
      BY <1>3, <3>3, <3>4, <3>5 DEF Present
  <2> QED
    BY <2>1, <2>2 DEF F!ClientStep
<1> QED
  BY <1>1, <1>2, <1>3, SomewhereSame

\* No step loses a call.
LEMMA SomewhereKeeps ==
  ASSUME CallsInv, F!Next
  PROVE  Somewhere'
<1>1. CASE link # "up" \/ F!StreamEnds
  <2>1. link' # "up"
    <3> USE RpcAssumption DEF F!goVars, F!chanVars, F!callVars, F!streamVars, F!loopVars
    <3>1. ASSUME NEW c \in F!Calls, F!NewSession(c) \/ F!CancelContext(c) \/ F!CallStep(c) PROVE link' = link
      BY <3>1 DEF F!NewSession, F!CancelContext, F!CallStep, F!Push, F!Source, F!TakeCancelled, F!PushCancel, F!TakeClosed,
                  F!DrainClosed, F!Finish
    <3>2. F!SenderStep \/ F!ReceiverStep \/ F!ClientStep => link' \in {link, "broken"}
      BY DEF F!SenderStep, F!SenderTakes, F!SenderSends, F!SenderReports, F!HandOver, F!ReceiverStep, F!ReceiverTakes,
             F!ReceiverDelivers, F!ReceiverEnds, F!CloseReplies, F!CloseUplink, F!ClientStep, F!ClientTakes, F!ClientReplies
    <3>3. F!StreamEnds => link' # "up"
      BY DEF F!StreamEnds
    <3> QED
      BY <1>1, <3>1, <3>2, <3>3 DEF F!Next, F!StreamEnds
  <2> QED
    BY <2>1 DEF Somewhere
<1>2. CASE link = "up" /\ ~F!StreamEnds
  <2>1. ASSUME NEW c \in F!Calls, F!NewSession(c) \/ F!CancelContext(c) \/ F!CallStep(c) PROVE Somewhere'
    BY <1>2, <2>1, CallsStaySomewhere, PushStaysSomewhere DEF F!CallStep
  <2> QED
    BY <1>2, <2>1, SenderStaysSomewhere, ReceiverStaysSomewhere, ClientStaysSomewhere DEF F!Next
<1> QED
  BY <1>1, <1>2

\* Every step keeps the order.
LEMMA OrderlyKeeps ==
  ASSUME CallsInv, F!Next
  PROVE  Orderly'
<1> USE DEF F!goVars, F!chanVars, F!callVars, F!streamVars, F!loopVars
<1>1. /\ fswCall \in [F!Calls -> {"idle", "push", "source", "waiting", "cancel", "drain", "got", "returned"}]
      /\ next \in [F!Calls -> {"request", "header", "data", "final"}]
      /\ failing \in [F!Calls -> BOOLEAN]
  BY DEF CallsInv, FswInv, F!TypeOK
<1>2. (sender = "ended" => qclosed) /\ Orderly
  BY DEF CallsInv, Orderly
<1>3. ASSUME NEW c \in F!Calls, F!NewSession(c) \/ F!CancelContext(c) \/ F!CallStep(c) PROVE Orderly'
  <2>1. qclosed' = qclosed /\ sender' = sender
    BY <1>3 DEF F!NewSession, F!CancelContext, F!CallStep, F!Push, F!Source, F!TakeCancelled, F!PushCancel, F!TakeClosed,
                F!DrainClosed, F!Finish
  <2>2. CASE F!Source(c)
    <3>1. /\ fswCall' = [fswCall EXCEPT ![c] = "push"] /\ \A d \in F!Calls \ {c} : next'[d] = next[d]
          /\ failing' = failing \/ (c \in Faulty /\ failing' = [failing EXCEPT ![c] = TRUE])
      BY <1>1, <2>2 DEF F!Source
    <3> QED
      BY <1>1, <1>2, <2>1, <3>1 DEF Orderly
  <2>3. CASE ~F!Source(c)
    <3>1. /\ next' = next /\ failing' = failing
          /\ fswCall' = fswCall
             \/ \E s \in {"push", "source", "waiting", "cancel", "drain", "got", "returned"} : fswCall' = [fswCall EXCEPT ![c] = s]
      BY <1>3, <2>3 DEF F!NewSession, F!CancelContext, F!CallStep, F!Push, F!TakeCancelled, F!PushCancel, F!TakeClosed,
                        F!DrainClosed, F!Finish
    <3> QED
      BY <1>1, <1>2, <2>1, <3>1 DEF Orderly
  <2> QED
    BY <2>2, <2>3
<1>4. CASE F!SenderReports \/ F!ReceiverDelivers
  <2>1. UNCHANGED <<qclosed, next, failing>> /\ (sender' # "ended" \/ sender' = sender)
    BY <1>4 DEF F!SenderReports, F!ReceiverDelivers, F!HandOver
  <2>2. fswCall' = fswCall \/ \E c : fswCall' = [fswCall EXCEPT ![c] = "got"]
    BY <1>4 DEF F!SenderReports, F!ReceiverDelivers, F!HandOver
  <2> QED
    BY <1>1, <1>2, <2>1, <2>2 DEF Orderly
<1>5. CASE F!SenderTakes \/ F!SenderSends \/ F!ReceiverTakes \/ F!ReceiverEnds \/ F!CloseReplies \/ F!CloseUplink
           \/ F!ClientStep \/ F!StreamEnds
  <2>1. UNCHANGED <<fswCall, next, failing>> /\ qclosed' \in {qclosed, TRUE} /\ (sender' = "ended" => qclosed \/ sender = "ended")
    <3>1. CASE F!SenderTakes \/ F!SenderSends
      BY <3>1 DEF F!SenderTakes, F!SenderSends
    <3>2. CASE F!ReceiverTakes \/ F!ReceiverEnds
      BY <3>2 DEF F!ReceiverTakes, F!ReceiverEnds
    <3>4. CASE F!CloseReplies \/ F!CloseUplink
      BY <3>4 DEF F!CloseReplies, F!CloseUplink
    <3>3. CASE F!ClientStep \/ F!StreamEnds
      BY <3>3 DEF F!ClientStep, F!ClientTakes, F!ClientReplies, F!StreamEnds
    <3> QED
      BY <1>5, <3>1, <3>2, <3>3, <3>4
  <2>2. sender' = "ended" => qclosed' = TRUE
    <3>1. qclosed \in BOOLEAN
      BY DEF CallsInv, FswInv, F!TypeOK
    <3> QED
      BY <1>2, <2>1, <3>1
  <2> QED
    BY <1>2, <2>1, <2>2 DEF Orderly
<1> QED
  BY <1>3, <1>4, <1>5 DEF F!Next, F!SenderStep, F!ReceiverStep

\* The invariant is inductive.
THEOREM CallsInductive == F!Spec => []CallsInv
<1>1. F!Init => CallsInv
  <2> SUFFICES ASSUME F!Init PROVE CallsInv
    OBVIOUS
  <2>1. Told /\ Orderly
    BY DEF F!Init, Told, ToldOf, Orderly, F!None
  <2>2. Somewhere
    BY DEF F!Init, Somewhere, Away, F!Asked
  <2> QED
    BY <2>1, <2>2, FswInit DEF CallsInv
<1>2. CallsInv /\ [F!Next]_F!vars => CallsInv'
  <2> SUFFICES ASSUME CallsInv, [F!Next]_F!vars PROVE CallsInv'
    OBVIOUS
  <2>1. FswInv'
    BY FswStep DEF CallsInv
  <2>2. CASE F!Next
    BY <2>1, <2>2, ToldKeeps, SomewhereKeeps, OrderlyKeeps DEF CallsInv
  <2>3. CASE UNCHANGED F!vars
    <3>1. UNCHANGED <<packets, qclosed, entries, open, fswCall, next, fed, failing, done, result, link, toClient, replies,
                      task, sender, sending, receiver, reply, panicked>>
      BY <2>3 DEF F!vars, F!goVars, F!chanVars, F!callVars, F!streamVars, F!loopVars
    <3>2. Told' /\ Orderly'
      BY <3>1 DEF CallsInv, Told, ToldOf, Served, Orderly
    <3>3. Somewhere'
      BY <3>1 DEF CallsInv, Somewhere, Away, F!Asked, Present, F!OnTheWay, F!OnTheWayBack, F!Opens
    <3> QED
      BY <2>1, <3>2, <3>3 DEF CallsInv
  <2> QED
    BY <2>2, <2>3
<1> QED
  BY <1>1, <1>2, PTL DEF F!Spec

-----------------------------------------------------------------------------
(* Somebody can move.                                                       *)

\* While the stream is up f.uplink is emptied: where a packet is under way the sender or the
\* client can take a step.
LEMMA PacketsMove ==
  ASSUME CallsInv, link = "up", packets # <<>> \/ sender = "send" \/ toClient # <<>>
  PROVE  F!SenderMoves \/ F!ClientMoves
<1>1. sender \in {"recv", "send", "ended"} /\ ~qclosed
  BY DEF CallsInv, FswInv, F!TypeOK, EndsLate
<1>2. sender # "ended"
  BY <1>1 DEF CallsInv, Orderly
<1>3. CASE sender = "recv"
  BY <1>3 DEF F!SenderMoves, F!ClientMoves
<1>4. CASE sender = "send"
  <2>1. toClient \in Seq(F!Packet) /\ Window \in Nat \ {0}
    BY RpcAssumption DEF CallsInv, FswInv, F!TypeOK
  <2>2. toClient = <<>> => Len(toClient) < Window
    BY <2>1
  <2> QED
    BY <1>4, <2>2 DEF F!SenderMoves, F!ClientMoves
<1> QED
  BY <1>1, <1>2, <1>3, <1>4

\* A call that is not waiting for its reply can move, or f.uplink is full and is emptied.
LEMMA CallerMoves ==
  ASSUME CallsInv, link = "up", NEW c \in F!Calls, fswCall[c] \in {"push", "source", "cancel", "got"}
  PROVE  F!CallMoves(c) \/ F!SenderMoves \/ F!ClientMoves
<1>1. CASE fswCall[c] \in {"push", "cancel"}
  <2>1. packets \in Seq(F!Packet) /\ Capacity \in Nat \ {0}
    BY RpcAssumption DEF CallsInv, FswInv, F!TypeOK
  <2>2. packets = <<>> => Len(packets) < Capacity
    BY <2>1
  <2> QED
    BY <1>1, <2>2, PacketsMove DEF F!CallMoves
<1>2. CASE fswCall[c] = "source"
  BY <1>2 DEF F!CallMoves, CallsInv, Orderly
<1>3. CASE fswCall[c] = "got"
  BY <1>3 DEF F!CallMoves
<1> QED
  BY <1>1, <1>2, <1>3

\* A reply that is on its way back is received, handed over, or its call can move.
LEMMA RepliesMove ==
  ASSUME CallsInv, link = "up", NEW c \in F!Calls, F!OnTheWayBack(c)
  PROVE  F!SenderMoves \/ F!ReceiverMoves \/ F!ClientMoves \/ \E d \in F!Calls : F!CallMoves(d)
<1>1. receiver \in {"recv", "deliver"}
  BY DEF CallsInv, FswInv, F!TypeOK, EndsLate
<1>2. CASE receiver = "recv"
  <2>1. replies \in Seq(F!Calls)
    BY DEF CallsInv, FswInv, Carried
  <2>2. PICK i \in 1 .. Len(replies) : replies[i] = c
    BY <1>2 DEF F!OnTheWayBack
  <2>3. replies # <<>>
    BY <2>1, <2>2
  <2> QED
    BY <1>2, <2>3 DEF F!ReceiverMoves
<1>3. CASE receiver = "deliver"
  <2>1. reply \in F!Calls /\ task[reply] = "replied"
    BY <1>3 DEF CallsInv, FswInv, Carried, Replied, RepliedOnce, Delivering
  <2>2. fswCall[reply] # "idle"
    BY <2>1 DEF CallsInv, FswInv, OnlyOnce, OpenedOnce, Opened
  <2>3. fswCall[reply] \in {"push", "source", "cancel", "waiting", "drain", "got", "returned"}
    BY <2>1, <2>2 DEF CallsInv, FswInv, F!TypeOK
  <2>4. fswCall[reply] = "returned" => ~open[reply]
    BY <2>1 DEF CallsInv, FswInv, ChannelsOpen, F!EntriesAreCalls
  <2>5. fswCall[reply] \in {"waiting", "drain", "returned"} => F!ReceiverMoves
    BY <1>3, <2>4 DEF F!ReceiverMoves, F!Receives
  <2> QED
    BY <2>1, <2>3, <2>5, CallerMoves
<1> QED
  BY <1>1, <1>2, <1>3

\* While the stream is up no call is lost, and somebody can move as long as one is in progress.
THEOREM CallsAlwaysGoOn == F!Spec => []CallsGoOn
<1>1. CallsInv => CallsGoOn
  <2> SUFFICES ASSUME CallsInv, link = "up" PROVE F!NoCallIsLost /\ F!SomebodyMoves
    BY DEF CallsGoOn, F!CallsGoOn
  <2>1. F!NoCallIsLost
    BY DEF CallsInv, Somewhere, Away, Present, F!NoCallIsLost
  <2>2. ASSUME NEW c \in F!Calls, fswCall[c] \notin {"idle", "returned"}
        PROVE  F!SenderMoves \/ F!ReceiverMoves \/ F!ClientMoves \/ \E d \in F!Calls : F!CallMoves(d)
    <3>1. fswCall[c] \in {"push", "source", "cancel", "got", "waiting", "drain"}
      BY <2>2 DEF CallsInv, FswInv, F!TypeOK
    <3>2. CASE fswCall[c] \in {"waiting", "drain"}
      <4>1. F!OnTheWay(c) \/ task[c] = "running" \/ F!OnTheWayBack(c)
        BY <2>1, <3>2 DEF F!NoCallIsLost, F!Asked
      <4>2. F!OnTheWay(c) => packets # <<>> \/ sender = "send" \/ toClient # <<>>
        BY DEF F!OnTheWay
      <4>3. task[c] = "running" => F!ClientMoves
        BY DEF F!ClientMoves
      <4> QED
        BY <4>1, <4>2, <4>3, PacketsMove, RepliesMove
    <3> QED
      BY <3>1, <3>2, CallerMoves
  <2> QED
    BY <2>1, <2>2 DEF F!SomebodyMoves
<1> QED
  BY <1>1, CallsInductive, PTL

-----------------------------------------------------------------------------
(* The promise.                                                             *)

\* What the client and the callers see of a state.
Seen == [c \in F!Calls |-> CallState(c)]

\* Nothing of it changes.
LEMMA SeenSame ==
  ASSUME \A c \in F!Calls : CallState(c)' = CallState(c)
  PROVE  Seen' = Seen
BY DEF Seen

\* One call changes.
LEMMA SeenOne ==
  ASSUME NEW c \in F!Calls, NEW s, \A d \in F!Calls : CallState(d)' = IF d = c THEN s ELSE CallState(d)
  PROVE  Seen' = [Seen EXCEPT ![c] = s]
BY DEF Seen

\* The states of a call, one by one.
LEMMA StatesOfCalls ==
  ASSUME NEW c \in F!Calls
  PROVE  /\ fswCall[c] = "idle" => CallState(c) = "new"
         /\ fswCall[c] \notin {"idle", "returned"} => CallState(c) = "asked"
         /\ fswCall[c] = "returned" => CallState(c) = IF result[c] = "reply" THEN "answered" ELSE "failed"
BY DEF CallState

\* A step of the abstract calls, in the terms of the concrete ones.
LEMMA PromiseOf ==
  /\ C!vars = <<Served, Seen, task>>
  /\ C!Init <=> Served = TRUE /\ Seen = [c \in F!Calls |-> "new"] /\ task = [c \in F!Calls |-> "none"]
BY DEF C!vars, C!Init, Seen

\* A call is made.
LEMMA AskKeepsPromise ==
  ASSUME CallsInv, NEW c \in F!Calls, F!NewSession(c)
  PROVE  C!Ask(c)
<1> USE DEF F!chanVars, F!streamVars, F!loopVars
<1>1. /\ fswCall[c] = "idle" /\ fswCall' = [fswCall EXCEPT ![c] = "push"] /\ DOMAIN fswCall = F!Calls
      /\ UNCHANGED <<result, task, link, receiver>>
  BY DEF F!NewSession, CallsInv, FswInv, F!TypeOK
<1>2. \A d \in F!Calls : CallState(d)' = IF d = c THEN "asked" ELSE CallState(d)
  BY <1>1 DEF CallState
<1>3. Seen' = [Seen EXCEPT ![c] = "asked"] /\ Seen[c] = "new"
  BY <1>1, <1>2, SeenOne DEF Seen, CallState
<1> QED
  BY <1>1, <1>3 DEF C!Ask, Seen, Served

\* A step that neither makes a call nor ends one is not seen.
LEMMA UnseenKeepsPromise ==
  ASSUME CallsInv, UNCHANGED <<task, Served>>,
         \A c \in F!Calls : (fswCall'[c] = fswCall[c] /\ result'[c] = result[c])
                            \/ (fswCall[c] \notin {"idle", "returned"} /\ fswCall'[c] \notin {"idle", "returned"})
  PROVE  UNCHANGED C!vars
<1>1. \A c \in F!Calls : CallState(c)' = CallState(c)
  BY DEF CallState
<1> QED
  BY <1>1, SeenSame, PromiseOf DEF C!vars, Seen

\* A call returns: with the client's answer, or the link is no longer served.
LEMMA ReturnKeepsPromise ==
  ASSUME CallsInv, NEW c \in F!Calls, F!TakeClosed(c) \/ F!Finish(c)
  PROVE  C!Return(c)
<1> USE DEF F!chanVars, F!streamVars, F!loopVars
<1>1. /\ fswCall[c] \in {"waiting", "got"} /\ fswCall' = [fswCall EXCEPT ![c] = "returned"] /\ DOMAIN fswCall = F!Calls
      /\ UNCHANGED <<task, link, receiver>> /\ \A d \in F!Calls \ {c} : result'[d] = result[d]
  BY DEF F!TakeClosed, F!Finish, CallsInv, FswInv, F!TypeOK
<1>2. result'[c] = "reply" => task[c] = "replied"
  <2>1. CASE F!Finish(c)
    BY <2>1 DEF F!Finish, CallsInv, Told, ToldOf
  <2>2. CASE F!TakeClosed(c)
    BY <2>2 DEF F!TakeClosed, CallsInv, FswInv, F!TypeOK
  <2> QED
    BY <2>1, <2>2
<1>3. result'[c] # "reply" => ~Served
  <2>1. CASE F!Finish(c)
    BY <2>1 DEF F!Finish, CallsInv, Told, ToldOf
  <2>2. CASE F!TakeClosed(c)
    BY <2>2 DEF F!TakeClosed, CallsInv, FswInv, ChannelsOpen, F!EntriesAreCalls, Served
  <2> QED
    BY <2>1, <2>2
<1>4. PICK s \in {"answered", "failed"} : s = IF result'[c] = "reply" THEN "answered" ELSE "failed"
  OBVIOUS
<1>5. \A d \in F!Calls : CallState(d)' = IF d = c THEN s ELSE CallState(d)
  BY <1>1, <1>4 DEF CallState
<1>6. Seen' = [Seen EXCEPT ![c] = s] /\ Seen[c] = "asked"
  BY <1>1, <1>5, SeenOne DEF Seen, CallState
<1> QED
  BY <1>1, <1>2, <1>3, <1>4, <1>6 DEF C!Return, Seen, Served

\* The client takes a packet: the one that opens a call starts its task, for the first time.
LEMMA RunKeepsPromise ==
  ASSUME CallsInv, F!ClientTakes
  PROVE  UNCHANGED C!vars \/ \E c \in F!Calls : C!Run(c)
<1> USE DEF F!chanVars, F!callVars, F!goVars, F!loopVars
<1> DEFINE p == Head(toClient)
<1>1. /\ toClient # <<>> /\ toClient \in Seq(F!Packet) /\ UNCHANGED <<fswCall, result, link, receiver>>
      /\ task' = IF p.kind \in {"request", "header"} THEN [task EXCEPT ![p.id] = "running"] ELSE task
  BY DEF F!ClientTakes, CallsInv, FswInv, F!TypeOK
<1>2. p \in F!Packet /\ p = toClient[1] /\ 1 \in 1 .. Len(toClient)
  BY <1>1, HeadTailProperties
<1> HIDE DEF p
<1>3. Seen' = Seen /\ Served' = Served
  BY <1>1, SeenSame DEF CallState, Served
<1>4. CASE p.kind \notin {"request", "header"}
  BY <1>1, <1>3, <1>4, PromiseOf DEF C!vars, Seen
<1>5. CASE p.kind \in {"request", "header"}
  <2>1. PICK c \in F!Calls : c = p.id
    BY <1>2 DEF F!Packet
  <2>2. task[c] = "none" /\ fswCall[c] # "idle"
    <3>1. InStream(c)
      BY <1>2, <1>5, <2>1 DEF InStream, Opening
    <3> QED
      BY <3>1 DEF CallsInv, FswInv, OnlyOnce, OpenedOnce, Opened
  <2>3. Seen[c] = "asked" \/ (Seen[c] = "failed" /\ ~Served)
    <3>1. CASE fswCall[c] = "returned"
      <4>1. ToldOf(c)
        BY DEF CallsInv, Told
      <4> QED
        BY <2>2, <3>1, <4>1 DEF Seen, CallState, ToldOf
    <3>2. CASE fswCall[c] # "returned"
      BY <2>2, <3>2 DEF Seen, CallState
    <3> QED
      BY <3>1, <3>2
  <2>4. C!Run(c)
    BY <1>1, <1>3, <1>5, <2>1, <2>2, <2>3 DEF C!Run, Seen
  <2> QED
    BY <2>4
<1> QED
  BY <1>4, <1>5

\* The client answers a call that waits for it.
LEMMA ReplyKeepsPromise ==
  ASSUME CallsInv, NEW c \in F!Calls, F!ClientReplies(c)
  PROVE  C!Reply(c)
<1> USE DEF F!chanVars, F!callVars, F!goVars, F!loopVars
<1>1. /\ task[c] = "running" /\ link = "up" /\ task' = [task EXCEPT ![c] = "replied"]
      /\ UNCHANGED <<fswCall, result, link, receiver>>
  BY DEF F!ClientReplies
<1>2. Seen' = Seen /\ Served' = Served
  BY <1>1, SeenSame DEF CallState, Served
<1>3. Served
  BY <1>1, UpIsServed DEF CallsInv
<1>4. fswCall[c] \notin {"idle", "returned"}
  BY <1>1 DEF CallsInv, FswInv, OnlyOnce, OpenedOnce, Opened, Replied, RepliedOnce
<1>5. Seen[c] = "asked"
  BY <1>4 DEF Seen, CallState
<1> QED
  BY <1>1, <1>2, <1>3, <1>5 DEF C!Reply, Seen

\* Every step is one of the abstract calls, or is not seen.
LEMMA StepKeepsPromise ==
  ASSUME CallsInv, CallsInv', F!Next
  PROVE  [C!Next]_C!vars
<1> USE DEF F!goVars, F!chanVars, F!callVars, F!streamVars, F!loopVars
<1>1. /\ fswCall \in [F!Calls -> {"idle", "push", "source", "waiting", "cancel", "drain", "got", "returned"}]
      /\ result \in [F!Calls -> F!Answer \cup {F!None}]
  BY DEF CallsInv, FswInv, F!TypeOK
<1>2. ASSUME NEW c \in F!Calls, F!NewSession(c) \/ F!TakeClosed(c) \/ F!Finish(c) PROVE [C!Next]_C!vars
  BY <1>2, AskKeepsPromise, ReturnKeepsPromise DEF C!Next
<1>3. ASSUME NEW c \in F!Calls,
             \/ F!CancelContext(c) \/ F!Push(c) \/ F!Source(c) \/ F!TakeCancelled(c) \/ F!PushCancel(c) \/ F!DrainClosed(c)
      PROVE  [C!Next]_C!vars
  <2>1. UNCHANGED <<task, link, receiver>>
    BY <1>3 DEF F!CancelContext, F!Push, F!Source, F!TakeCancelled, F!PushCancel, F!DrainClosed
  <2>2. CASE F!CancelContext(c)
    BY <2>1, <2>2, UnseenKeepsPromise DEF F!CancelContext, Served
  <2>3. CASE ~F!CancelContext(c)
    <3>1. /\ fswCall[c] \notin {"idle", "returned"}
          /\ \E s \in {"push", "source", "waiting", "cancel", "drain", "got"} : fswCall' = [fswCall EXCEPT ![c] = s]
          /\ \A d \in F!Calls \ {c} : result'[d] = result[d]
      BY <1>1, <1>3, <2>3 DEF F!Push, F!Source, F!TakeCancelled, F!PushCancel, F!DrainClosed
    <3>2. \A d \in F!Calls : (fswCall'[d] = fswCall[d] /\ result'[d] = result[d])
                            \/ (fswCall[d] \notin {"idle", "returned"} /\ fswCall'[d] \notin {"idle", "returned"})
      BY <1>1, <3>1
    <3> QED
      BY <2>1, <3>2, UnseenKeepsPromise DEF Served
  <2> QED
    BY <2>2, <2>3
<1>4. CASE F!SenderReports \/ F!ReceiverDelivers
  <2>1. task' = task /\ Served' = Served
    BY <1>4 DEF F!SenderReports, F!ReceiverDelivers, F!HandOver, Served
  <2>2. CASE UNCHANGED F!goVars
    BY <2>1, <2>2, UnseenKeepsPromise
  <2>3. ASSUME NEW c, NEW a, F!HandOver(c, a) PROVE UNCHANGED C!vars
    <3>1. /\ fswCall[c] \in {"waiting", "drain"} /\ fswCall' = [fswCall EXCEPT ![c] = "got"]
          /\ result' = [result EXCEPT ![c] = a]
      BY <2>3 DEF F!HandOver
    <3>2. \A d \in F!Calls : (fswCall'[d] = fswCall[d] /\ result'[d] = result[d])
                            \/ (fswCall[d] \notin {"idle", "returned"} /\ fswCall'[d] \notin {"idle", "returned"})
      BY <1>1, <3>1
    <3> QED
      BY <2>1, <3>2, UnseenKeepsPromise
  <2> QED
    BY <1>4, <2>2, <2>3 DEF F!SenderReports, F!ReceiverDelivers
<1>5. CASE F!SenderTakes \/ F!SenderSends \/ F!ReceiverTakes \/ F!ReceiverEnds \/ F!CloseReplies \/ F!CloseUplink
           \/ F!StreamEnds
  <2>1. UNCHANGED <<fswCall, result, task>>
    BY <1>5 DEF F!SenderTakes, F!SenderSends, F!ReceiverTakes, F!ReceiverEnds, F!CloseReplies, F!CloseUplink, F!StreamEnds
  <2>2. Served' => Served
    BY ServedOnce DEF CallsInv
  <2>3. Seen' = Seen
    BY <2>1, SeenSame DEF CallState
  <2>4. CASE Served /\ ~Served'
    <3>1. Served' = FALSE
      BY <2>4
    <3> QED
      BY <2>1, <2>3, <2>4 DEF C!Next, C!Break, Seen, Served
  <2>5. CASE Served' = Served
    BY <2>1, <2>3, <2>5, PromiseOf DEF C!vars, Seen
  <2>6. Served \in BOOLEAN /\ Served' \in BOOLEAN
    BY DEF Served
  <2> QED
    BY <2>2, <2>4, <2>5, <2>6
<1>6. CASE F!ClientStep
  BY <1>6, RunKeepsPromise, ReplyKeepsPromise DEF F!ClientStep, C!Next
<1> QED
  BY <1>2, <1>3, <1>4, <1>5, <1>6 DEF F!Next, F!CallStep, F!SenderStep, F!ReceiverStep

\* The link keeps the promise of RemoteCalls.
THEOREM CallsKeepThePromise == F!Spec => KeepsThePromise
<1>1. F!Init => C!Init
  BY DEF F!Init, C!Init, Served, CallState
<1>2. CallsInv /\ CallsInv' /\ [F!Next]_F!vars => [C!Next]_C!vars
  <2> SUFFICES ASSUME CallsInv, CallsInv', [F!Next]_F!vars PROVE [C!Next]_C!vars
    OBVIOUS
  <2>1. CASE UNCHANGED F!vars
    <3>1. UNCHANGED <<fswCall, result, task, link, receiver>>
      BY <2>1 DEF F!vars, F!goVars, F!callVars, F!streamVars, F!loopVars
    <3> QED
      BY <3>1, UnseenKeepsPromise DEF Served
  <2> QED
    BY <2>1, StepKeepsPromise
<1> QED
  BY <1>1, <1>2, CallsInductive, PTL DEF F!Spec, C!Spec, KeepsThePromise
=============================================================================
