------------------------- MODULE FprimeUplink_proofs -------------------------
(***************************************************************************)
(* Proofs about the uplinks of one F Prime connection (FprimeUplink), for  *)
(* any number of uplinks, cancellations and failed writes: they do not     *)
(* interleave, what an end packet closes is a whole file, the client's     *)
(* bytes are on the connection but for less than a chunk before more are   *)
(* received, and a failure is told with a cancel packet.  The point of the *)
(* first is the packet that is written late: when the context is done an   *)
(* uplink still pushes its flush and its cancel packet, and it must hold   *)
(* the lock until the connection is done with them.                        *)
(***************************************************************************)
EXTENDS FprimeUplink, Integers, FiniteSetTheorems, SequenceTheorems, TLAPS

Busy == con.stage \in {"write", "reply"}

Types ==
  /\ lock \in Uplinks \cup {None}
  /\ main \in [Uplinks -> {"idle", "recv", "offer", "await", "flush", "flushed", "cancel",
                           "cancelled", "close", "wait", "returned", "refused", "toobig", "rejected"}]
  /\ chk \in [Uplinks -> {"recv", "offer", "await", "reply", "ended"}]
  /\ snd \in [Uplinks -> {"recv", "offer", "await", "reply", "ended"}]
  /\ con = [stage |-> con.stage, from |-> con.from, by |-> con.by, kind |-> con.kind,
            off |-> con.off, lo |-> con.lo, len |-> con.len, err |-> con.err]
  /\ \E S : wire \in Seq(S)

\* The lock is its holder's from Begin to Return.
Locked == \A u \in Uplinks : Active(u) <=> lock = u

\* The goroutines work for an uplink that has not returned, and whose file is not too big.
Running(u) == Active(u) /\ main[u] # "toobig"
Working ==
  \A u \in Uplinks :
    chk[u] \in {"offer", "await", "reply"} \/ snd[u] \in {"offer", "await", "reply"} => Running(u)

\* What is on the connection, or about to be written to it, is of an uplink that began.
Seen ==
  /\ \A i \in 1 .. Len(wire) : wire[i].from \in Uplinks /\ main[wire[i].from] \notin {"idle", "refused", "toobig", "rejected"}
  /\ Busy => con.from \in Uplinks /\ main[con.from] \notin {"idle", "refused", "toobig", "rejected"}

\* Whatever another uplink's packet is written or taken after has returned, and has
\* no packet to write any more.
Over ==
  /\ Busy => \A i \in 1 .. Len(wire) : wire[i].from # con.from => main[wire[i].from] = "returned"
  /\ \A i, j \in 1 .. Len(wire) :
       i < j /\ wire[i].from # wire[j].from =>
         main[wire[i].from] = "returned" /\ (Busy => con.from # wire[i].from)

IInv == Types /\ Locked /\ Working /\ Seen /\ Over /\ NoInterleaving

\* The invariant holds at the start.
LEMMA InitIInv == None \notin Uplinks /\ Init => IInv
<1> SUFFICES ASSUME None \notin Uplinks, Init PROVE IInv
  OBVIOUS
<1>1. wire = <<>> /\ Len(wire) = 0 /\ con = Idle /\ ~Busy
  BY DEF Init, Idle, Busy
<1>2. Types
  BY <1>1 DEF Init, Types, Idle
<1>3. Locked /\ Working
  BY DEF Init, Locked, Working, Running, Active
<1>4. Seen /\ Over /\ NoInterleaving
  BY <1>1 DEF Seen, Over, NoInterleaving
<1> QED
  BY <1>2, <1>3, <1>4 DEF IInv

\* A step of an uplink or of its goroutines that writes nothing and takes no packet
\* keeps the invariant, if it takes no uplink that began back and none that returned.
LEMMA LocalKeeps ==
  ASSUME IInv, Types', Locked', Working', UNCHANGED wire, con' = con \/ ~(Busy \/ Busy'),
         \A u \in Uplinks : /\ main[u] = "returned" => main'[u] = "returned"
                            /\ main[u] \notin {"idle", "refused", "toobig", "rejected"} => main'[u] \notin {"idle", "refused", "toobig", "rejected"}
  PROVE  IInv'
<1> USE DEF IInv
<1>1. (Busy' <=> Busy) /\ (Busy => con' = con)
  BY DEF Busy
<1>2. Seen' /\ NoInterleaving'
  BY <1>1 DEF Seen, NoInterleaving
<1>3. Over'
  BY <1>1 DEF Over, Seen
<1> QED
  BY <1>2, <1>3

\* The steps of Fsw.Uplink, but for the cancel packet.
LEMMA UplinkKeeps ==
  ASSUME None \notin Uplinks, IInv, NEW u \in Uplinks,
         \/ Begin(u) \/ Reject(u) \/ Refuse(u) \/ Recv(u) \/ GiveUp(u) \/ CloseUplinker(u) \/ Return(u)
  PROVE  IInv'
<1> USE DEF IInv
<1> DEFINE stages == {"recv", "offer", "await", "flush", "flushed", "cancel", "cancelled", "close", "wait"}
<1>1. UNCHANGED <<chk, snd, con, wire>>
  BY DEF Begin, Reject, Refuse, Recv, GiveUp, CloseUplinker, Return, chkVars, sndVars, conVars
<1>2. \/ /\ main[u] = "idle" /\ lock = None /\ lock' = u
         /\ \E m \in {"recv", "toobig"} : main' = [main EXCEPT ![u] = m]
      \/ main[u] = "toobig" /\ lock' = None /\ main' = [main EXCEPT ![u] = "rejected"]
      \/ main[u] = "idle" /\ lock' = lock /\ main' = [main EXCEPT ![u] = "refused"]
      \/ main[u] \in stages /\ lock' = lock /\ \E m \in stages : main' = [main EXCEPT ![u] = m]
      \/ /\ main[u] = "wait" /\ chk[u] = "ended" /\ snd[u] = "ended"
         /\ lock' = None /\ main' = [main EXCEPT ![u] = "returned"]
  BY DEF Begin, Reject, Refuse, Recv, GiveUp, CloseUplinker, Return
<1>3. Types'
  BY <1>1, <1>2 DEF Types
<1>4. Locked'
  BY <1>2 DEF Types, Locked, Active
<1>5. Working'
  BY <1>1, <1>2 DEF Types, Working, Running, Active
<1>6. \A v \in Uplinks : /\ main[v] = "returned" => main'[v] = "returned"
                         /\ main[v] \notin {"idle", "refused", "toobig", "rejected"} => main'[v] \notin {"idle", "refused", "toobig", "rejected"}
  BY <1>2 DEF Types
<1> QED
  BY <1>1, <1>3, <1>4, <1>5, <1>6, LocalKeeps

\* A stage of a chunker after ChunkReady is one of its stages.
LEMMA ReadyStage == \A b, f : ChunkReady(b, f) \in {"offer", "reply"}
  BY DEF ChunkReady

\* The steps of the chunker.
LEMMA ChunkerKeeps ==
  ASSUME None \notin Uplinks, IInv, NEW u \in Uplinks, ChunkerStep(u)
  PROVE  IInv'
<1> USE DEF IInv
<1> DEFINE stages == {"recv", "offer", "await", "flush", "flushed", "cancel", "cancelled", "close", "wait"}
<1>1. UNCHANGED <<lock, snd, con, wire>>
  BY DEF ChunkerStep, ChunkerTakes, ChunkerGivesUp, ChunkerReplies, ChunkerEnds, mainVars, sndVars, conVars
<1>2. \/ main' = main
      \/ main[u] \in stages /\ \E m \in stages : main' = [main EXCEPT ![u] = m]
  <2>1. CASE ChunkerTakes(u)
    BY <2>1 DEF ChunkerTakes
  <2>2. CASE ChunkerGivesUp(u) \/ ChunkerEnds(u)
    BY <2>2 DEF ChunkerGivesUp, ChunkerEnds, mainVars
  <2>3. CASE ChunkerReplies(u)
    BY <2>3 DEF ChunkerReplies
  <2> QED
    BY <2>1, <2>2, <2>3 DEF ChunkerStep
<1>3. \/ chk' = chk
      \/ chk' = [chk EXCEPT ![u] = "recv"] \/ chk' = [chk EXCEPT ![u] = "ended"]
      \/ Running(u) /\ \E c \in {"offer", "reply"} : chk' = [chk EXCEPT ![u] = c]
  <2>1. CASE ChunkerTakes(u)
    BY <2>1, ReadyStage DEF ChunkerTakes, Running, Active, chkVars
  <2>2. CASE ChunkerGivesUp(u)
    BY <2>2, ReadyStage DEF ChunkerGivesUp, ChunkPushed, Working
  <2>3. CASE ChunkerReplies(u) \/ ChunkerEnds(u)
    BY <2>3 DEF ChunkerReplies, ChunkerEnds
  <2> QED
    BY <2>1, <2>2, <2>3 DEF ChunkerStep
<1>4. \A v \in Uplinks : (Active(v)' <=> Active(v)) /\ (Running(v)' <=> Running(v))
  BY <1>2 DEF Active, Running, Types
<1>5. Types'
  BY <1>1, <1>2, <1>3 DEF Types
<1>6. Locked' /\ Working'
  BY <1>1, <1>3, <1>4 DEF Locked, Working, Types
<1>7. \A v \in Uplinks : /\ main[v] = "returned" => main'[v] = "returned"
                         /\ main[v] \notin {"idle", "refused", "toobig", "rejected"} => main'[v] \notin {"idle", "refused", "toobig", "rejected"}
  BY <1>2 DEF Types
<1> QED
  BY <1>1, <1>5, <1>6, <1>7, LocalKeeps

\* What PacketPushed makes of the stage of the goroutine.
LEMMA PushedStage ==
  ASSUME NEW u \in Uplinks, NEW e, PacketPushed(u, e)
  PROVE  \E c \in {"offer", "reply"} : snd' = [snd EXCEPT ![u] = c]
  BY DEF PacketPushed

\* The steps of uplinkFile's goroutine.
LEMMA SenderKeeps ==
  ASSUME None \notin Uplinks, IInv, NEW u \in Uplinks, SenderStep(u)
  PROVE  IInv'
<1> USE DEF IInv
<1>1. UNCHANGED <<lock, main, con, wire>>
  BY DEF SenderStep, SenderTakes, SenderGivesUp, SenderReplies, SenderEnds, mainVars, conVars
<1>2. \/ chk' = chk
      \/ Running(u) /\ \E c \in {"offer", "await", "reply"} : chk' = [chk EXCEPT ![u] = c]
  <2>1. CASE SenderTakes(u)
    BY <2>1 DEF SenderTakes, Working
  <2>2. CASE SenderReplies(u)
    BY <2>2, ReadyStage DEF SenderReplies, ChunkPushed, Working, chkVars
  <2>3. CASE SenderGivesUp(u) \/ SenderEnds(u)
    BY <2>3 DEF SenderGivesUp, SenderEnds, chkVars
  <2> QED
    BY <2>1, <2>2, <2>3 DEF SenderStep
<1>3. \/ snd' = snd
      \/ snd' = [snd EXCEPT ![u] = "recv"] \/ snd' = [snd EXCEPT ![u] = "ended"]
      \/ Running(u) /\ \E c \in {"offer", "reply"} : snd' = [snd EXCEPT ![u] = c]
  <2>1. CASE SenderTakes(u)
    BY <2>1 DEF SenderTakes, Working, sndVars
  <2>2. CASE SenderGivesUp(u)
    BY <2>2, PushedStage DEF SenderGivesUp, Working
  <2>3. CASE SenderReplies(u) \/ SenderEnds(u)
    BY <2>3 DEF SenderReplies, SenderEnds
  <2> QED
    BY <2>1, <2>2, <2>3 DEF SenderStep
<1>4. Types'
  BY <1>1, <1>2, <1>3 DEF Types
<1>5. Locked' /\ Working'
  BY <1>1, <1>2, <1>3 DEF Locked, Working, Types, Running, Active
<1> QED
  BY <1>1, <1>4, <1>5, LocalKeeps

\* A packet that is handed to the connection keeps the invariant: its uplink has the
\* lock, and so all the others with packets written have returned.
LEMMA HandedKeeps ==
  ASSUME None \notin Uplinks, IInv, NEW u \in Uplinks, Running(u), ~Busy,
         Types', Locked', Working', UNCHANGED wire,
         Busy' => con'.from = u,
         \A v \in Uplinks : /\ main[v] = "returned" => main'[v] = "returned"
                            /\ main[v] \notin {"idle", "refused", "toobig", "rejected"} => main'[v] \notin {"idle", "refused", "toobig", "rejected"}
  PROVE  IInv'
<1> USE DEF IInv
<1>1. \A i \in 1 .. Len(wire) : wire[i].from \in Uplinks /\ main[wire[i].from] \notin {"idle", "refused", "toobig", "rejected"}
  BY DEF Seen
<1>2. \A i \in 1 .. Len(wire) : wire[i].from # u => main[wire[i].from] = "returned"
  BY <1>1 DEF Locked, Running, Active
<1>3. Seen'
  BY <1>1 DEF Seen, Running, Active
<1>4. Over'
  BY <1>1, <1>2 DEF Over, Running, Active
<1>5. NoInterleaving'
  BY DEF NoInterleaving
<1> QED
  BY <1>3, <1>4, <1>5

\* The cancel packet is handed to the connection.
LEMMA CancelKeeps ==
  ASSUME None \notin Uplinks, IInv, NEW u \in Uplinks, OfferCancel(u)
  PROVE  IInv'
<1> USE DEF IInv
<1>1. /\ main[u] = "cancel" /\ main' = [main EXCEPT ![u] = "cancelled"] /\ ~Busy
      /\ con' = [Idle EXCEPT !.stage = "write", !.from = u, !.by = "main", !.kind = "cancel"]
      /\ UNCHANGED <<lock, chk, snd, wire>>
  BY DEF OfferCancel, Busy, chkVars, sndVars
<1>2. con' = [stage |-> "write", from |-> u, by |-> "main", kind |-> "cancel", off |-> 0, lo |-> 0,
              len |-> 0, err |-> "nil"]
  BY <1>1 DEF Idle
<1>3. Types'
  BY <1>1, <1>2 DEF Types
<1>4. \A v \in Uplinks : (Active(v)' <=> Active(v)) /\ (Running(v)' <=> Running(v))
  BY <1>1 DEF Types, Active, Running
<1>5. Locked' /\ Working'
  BY <1>1, <1>4 DEF Locked, Working
<1>6. \A v \in Uplinks : /\ main[v] = "returned" => main'[v] = "returned"
                         /\ main[v] \notin {"idle", "refused", "toobig", "rejected"} => main'[v] \notin {"idle", "refused", "toobig", "rejected"}
  BY <1>1 DEF Types
<1> QED
  BY <1>1, <1>2, <1>3, <1>5, <1>6, HandedKeeps DEF Running, Active

\* A packet of uplinkFile's goroutine is handed to the connection, or dropped.
LEMMA TakesKeeps ==
  ASSUME None \notin Uplinks, IInv, NEW u \in Uplinks, ConTakes(u)
  PROVE  IInv'
<1> USE DEF IInv
<1> DEFINE packet == [stage |-> "write", from |-> u, by |-> "snd", kind |-> pkt[u], off |-> offset[u],
                      lo |-> chunk[u].lo, len |-> chunk[u].hi - chunk[u].lo, err |-> "nil"]
<1>1. /\ snd[u] = "offer" /\ snd' = [snd EXCEPT ![u] = "await"] /\ ~Busy
      /\ UNCHANGED <<lock, main, chk, wire>>
  BY DEF ConTakes, Busy, mainVars, chkVars
<1>2. con' = con \/ con' = packet
  BY DEF ConTakes, Idle
<1>3. Running(u)
  BY <1>1 DEF Working
<1>4. Types'
  BY <1>1, <1>2 DEF Types
<1>5. Locked' /\ Working'
  BY <1>1, <1>3 DEF Locked, Working, Types, Running, Active
<1>6. Busy' => con'.from = u
  BY <1>1, <1>2 DEF Busy
<1> QED
  BY <1>1, <1>3, <1>4, <1>5, <1>6, HandedKeeps

\* A packet that is written, or fails to be, keeps the invariant.
LEMMA WritesKeeps ==
  ASSUME None \notin Uplinks, IInv, ConWrites
  PROVE  IInv'
<1> USE DEF IInv
<1> DEFINE written == [from |-> con.from, kind |-> con.kind, off |-> con.off, lo |-> con.lo, len |-> con.len]
<1>1. /\ con.stage = "write" /\ Busy /\ UNCHANGED <<lock, main, chk, snd>>
      /\ \E e : con' = [con EXCEPT !.stage = "reply", !.err = e]
      /\ wire' = wire \/ wire' = Append(wire, written)
  BY DEF ConWrites, Busy, mainVars, chkVars, sndVars
<1>2. /\ con' = [stage |-> con'.stage, from |-> con'.from, by |-> con'.by, kind |-> con'.kind,
                 off |-> con'.off, lo |-> con'.lo, len |-> con'.len, err |-> con'.err]
      /\ con'.stage = "reply" /\ con'.from = con.from /\ Busy'
  BY <1>1 DEF Types, Busy
<1>3. PICK S : wire \in Seq(S)
  BY DEF Types
<1>4. wire \in Seq(S \cup {written})
  BY <1>3, SeqMonotonic
<1>5. \E T : wire' \in Seq(T)
  BY <1>1, <1>4
<1>6. Types'
  BY <1>1, <1>2, <1>5 DEF Types
<1>7. Locked' /\ Working'
  BY <1>1 DEF Locked, Working, Running, Active
<1>8. CASE wire' = wire
  BY <1>1, <1>2, <1>6, <1>7, <1>8 DEF Seen, Over, NoInterleaving
<1>9. CASE wire' = Append(wire, written)
  <2> DEFINE n == Len(wire) + 1
  <2>1. /\ Len(wire) \in Nat /\ Len(wire') = n /\ wire'[n].from = con.from
        /\ \A i \in 1 .. Len(wire) : wire'[i] = wire[i]
    BY <1>4, <1>9
  <2>2. \A i \in 1 .. Len(wire') : i \in 1 .. Len(wire) \/ i = n
    BY <2>1
  <2> HIDE DEF n
  <2>3. Seen'
    BY <1>1, <1>2, <2>1, <2>2 DEF Seen
  <2>4. Over'
    <3>1. \A i \in 1 .. Len(wire') : wire'[i].from # con.from => main[wire'[i].from] = "returned"
      BY <1>1, <2>1, <2>2 DEF Over
    <3>2. ASSUME NEW i \in 1 .. Len(wire'), NEW j \in 1 .. Len(wire'), i < j, wire'[i].from # wire'[j].from
          PROVE  main[wire'[i].from] = "returned" /\ con.from # wire'[i].from
      <4>1. i \in 1 .. Len(wire)
        BY <2>1, <2>2, <3>2 DEF n
      <4>2. CASE j = n
        BY <2>1, <3>1, <3>2, <4>2
      <4>3. CASE j \in 1 .. Len(wire)
        BY <1>1, <2>1, <3>2, <4>1, <4>3 DEF Over
      <4> QED
        BY <2>2, <4>2, <4>3
    <3> QED
      BY <1>1, <1>2, <3>1, <3>2 DEF Over
  <2>5. NoInterleaving'
    <3> SUFFICES ASSUME NEW i \in 1 .. Len(wire'), NEW j \in 1 .. Len(wire'), NEW k \in 1 .. Len(wire'),
                        i < j, j < k, wire'[i].from = wire'[k].from
                 PROVE  wire'[j].from = wire'[i].from
      BY DEF NoInterleaving
    <3>1. i \in 1 .. Len(wire) /\ j \in 1 .. Len(wire)
      BY <2>1, <2>2 DEF n
    <3>2. CASE k = n
      BY <1>1, <2>1, <3>1, <3>2 DEF Over
    <3>3. CASE k \in 1 .. Len(wire)
      BY <2>1, <3>1, <3>3 DEF NoInterleaving
    <3> QED
      BY <2>2, <3>2, <3>3
  <2> QED
    BY <1>6, <1>7, <2>3, <2>4, <2>5
<1> QED
  BY <1>1, <1>8, <1>9

\* A reply of the connection keeps the invariant: it has no packet to write any more.
LEMMA RepliesKeeps ==
  ASSUME None \notin Uplinks, IInv, ConReplies
  PROVE  IInv'
<1> USE DEF IInv
<1> DEFINE u == con.from
<1>1. /\ Busy /\ con' = Idle /\ ~Busy' /\ u \in Uplinks
      /\ UNCHANGED <<lock, chk, wire>>
  BY DEF ConReplies, Busy, Idle, Seen, chkVars
<1>2. \/ UNCHANGED <<main, snd>>
      \/ main[u] = "cancelled" /\ main' = [main EXCEPT ![u] = "close"] /\ snd' = snd
      \/ /\ snd[u] = "await" /\ main' = main
         /\ \E c \in {"offer", "reply"} : snd' = [snd EXCEPT ![u] = c]
  BY <1>1, PushedStage DEF ConReplies, sndVars
<1> HIDE DEF u
<1>3. \A v \in Uplinks : (Active(v)' <=> Active(v)) /\ (Running(v)' <=> Running(v))
  BY <1>1, <1>2 DEF Active, Running, Types
<1>4. Types'
  BY <1>1, <1>2 DEF Types, Idle
<1>5. Locked' /\ Working'
  BY <1>1, <1>2, <1>3 DEF Locked, Working, Types
<1>6. \A v \in Uplinks : /\ main[v] = "returned" => main'[v] = "returned"
                         /\ main[v] \notin {"idle", "refused", "toobig", "rejected"} => main'[v] \notin {"idle", "refused", "toobig", "rejected"}
  BY <1>1, <1>2 DEF Types
<1>7. Seen' /\ Over' /\ NoInterleaving'
  BY <1>1, <1>6 DEF Seen, Over, NoInterleaving
<1> QED
  BY <1>4, <1>5, <1>7

\* The steps of the link that are no uplink's: a request's packet is taken or written, the
\* connection ends, a send on its port panics.
LinkStep == RequestTaken \/ RequestWritten \/ EndConnection \/ SendOnClosed

\* They change nothing of an uplink.
LEMMA LinkIs ==
  ASSUME LinkStep
  PROVE  /\ UNCHANGED <<mainVars, done, chkVars, sndVars, wire, failed>>
         /\ \/ con' = con
            \/ ~Busy /\ ~Busy' /\ \E s \in {"recv", "request"} : con' = [Idle EXCEPT !.stage = s]
<1>1. CASE RequestTaken
  BY <1>1 DEF RequestTaken, Busy, Idle
<1>2. CASE RequestWritten
  <2>1. Idle = [Idle EXCEPT !.stage = "recv"]
    BY DEF Idle
  <2> QED
    BY <1>2, <2>1 DEF RequestWritten, Busy, Idle
<1>3. CASE EndConnection \/ SendOnClosed
  BY <1>3 DEF EndConnection, SendOnClosed
<1> QED
  BY <1>1, <1>2, <1>3 DEF LinkStep

LEMMA LinkKeeps ==
  ASSUME IInv, LinkStep
  PROVE  IInv'
<1>1. UNCHANGED <<lock, main, chk, snd, wire>> /\ (con' = con \/ ~(Busy \/ Busy'))
  BY LinkIs DEF mainVars, chkVars, sndVars
<1>2. con' = con \/ \E s \in {"recv", "request"} :
        con' = [stage |-> s, from |-> None, by |-> "snd", kind |-> "data", off |-> 0, lo |-> 0,
                len |-> 0, err |-> "nil"]
  BY LinkIs DEF Idle
<1>3. Types'
  BY <1>1, <1>2 DEF IInv, Types
<1>4. Locked' /\ Working'
  BY <1>1 DEF IInv, Locked, Working, Running, Active
<1> QED
  BY <1>1, <1>3, <1>4, LocalKeeps

\* The invariant is inductive: every step of the uplinks, of their goroutines and of the
\* connection's keeps it.
THEOREM Inductive == ASSUME None \notin Uplinks PROVE Spec => []IInv
<1>1. IInv /\ [Next]_vars => IInv'
  <2> SUFFICES ASSUME IInv, [Next]_vars PROVE IInv'
    OBVIOUS
  <2>1. CASE UNCHANGED vars
    BY <2>1 DEF vars, mainVars, chkVars, sndVars, conVars, IInv, Types, Locked, Working, Running, Active, Seen,
                Over, Busy, NoInterleaving
  <2>2. CASE ConWrites \/ ConReplies \/ \E u \in Uplinks : ConTakes(u)
    BY <2>2, WritesKeeps, RepliesKeeps, TakesKeeps
  <2>6. CASE LinkStep
    BY <2>6, LinkKeeps
  <2>3. ASSUME NEW u \in Uplinks, UplinkStep(u) PROVE IInv'
    BY <2>3, UplinkKeeps, CancelKeeps DEF UplinkStep
  <2>4. ASSUME NEW u \in Uplinks, ChunkerStep(u) \/ SenderStep(u) PROVE IInv'
    BY <2>4, ChunkerKeeps, SenderKeeps
  <2>5. ASSUME NEW u \in Uplinks, CancelContext(u) PROVE IInv'
    <3>1. UNCHANGED <<lock, main, chk, snd, con, wire>>
      BY <2>5 DEF CancelContext, mainVars, chkVars, sndVars, conVars
    <3> QED
      BY <3>1, LocalKeeps DEF IInv, Types, Locked, Working, Running, Active
  <2> QED
    BY <2>1, <2>2, <2>3, <2>4, <2>5, <2>6 DEF Next, ConStep, LinkStep
<1>2. Init => IInv
  BY InitIInv
<1> QED
  BY <1>1, <1>2, PTL DEF Spec

\* The packets of one uplink, its cancel packet included, are all written before another
\* uplink's first.
THEOREM UplinksDoNotInterleave == ASSUME None \notin Uplinks PROVE Spec => []NoInterleaving
<1>1. IInv => NoInterleaving
  BY DEF IInv
<1> QED
  BY <1>1, Inductive, PTL

-----------------------------------------------------------------------------
(* The data of the uplinks.                                                 *)

Errors == {"nil", "ctx", "write", "past the end", "overrun"}
Kinds  == {"start", "data", "end", "cancel"}
Span   == {b \in [lo : Nat, hi : Nat] : b.lo <= b.hi}
Packet == [from : Uplinks, kind : Kinds, off : Nat, lo : Nat, len : Nat]
Written == [from |-> con.from, kind |-> con.kind, off |-> con.off, lo |-> con.lo, len |-> con.len]

DataTypes ==
  /\ done \in [Uplinks -> BOOLEAN] /\ pos \in [Uplinks -> Nat]
  /\ err \in [Uplinks -> Errors \cup {"eof", "source"}]
  /\ source \in [Uplinks -> {"open", "eof", "source"}]
  /\ flushing \in [Uplinks -> BOOLEAN] /\ chkErr \in [Uplinks -> Errors]
  /\ sndBg \in [Uplinks -> BOOLEAN] /\ sndErr \in [Uplinks -> Errors]
  /\ pkt \in [Uplinks -> {"start", "data", "end"}]
  /\ started \in [Uplinks -> BOOLEAN] /\ finished \in [Uplinks -> BOOLEAN]
  /\ offset \in [Uplinks -> Nat]
  /\ buf \in [Uplinks -> Span] /\ chunk \in [Uplinks -> Span]
  /\ \A u \in Uplinks : buf[u].hi <= pos[u] /\ chunk[u].hi <= chunk[u].lo + ChunkSize
  /\ con.stage \in {"recv", "request", "write", "reply"} /\ con.from \in Uplinks \cup {None}
  /\ con.by \in {"snd", "main"} /\ con.kind \in Kinds
  /\ con.off \in Nat /\ con.lo \in Nat /\ con.len \in Nat /\ con.err \in {"nil", "ctx", "write"}
  /\ failed \in [Uplinks -> SUBSET Kinds]
  /\ wire \in Seq(Packet)
  /\ closed \in BOOLEAN /\ panicked \in BOOLEAN /\ cut \subseteq Uplinks

\* A chunk is the beginning of the buffer, not longer than the chunk size, and not empty
\* unless the buffer is.
LEMMA FirstChunkIs ==
  ASSUME NEW b \in Span
  PROVE  /\ FirstChunk(b) \in Span
         /\ FirstChunk(b).lo = b.lo /\ FirstChunk(b).hi <= b.hi
         /\ FirstChunk(b).hi <= b.lo + ChunkSize
         /\ b.lo < b.hi => b.lo < FirstChunk(b).hi
<1>1. ChunkSize \in Nat \ {0}
  BY UplinkAssumption
<1>2. CASE b.hi - b.lo >= ChunkSize
  <2>1. FirstChunk(b) = [lo |-> b.lo, hi |-> b.lo + ChunkSize]
    BY <1>2 DEF FirstChunk, Span
  <2> QED
    BY <1>1, <1>2, <2>1 DEF Span
<1>3. CASE ~(b.hi - b.lo >= ChunkSize)
  <2>1. FirstChunk(b) = b
    BY <1>3 DEF FirstChunk
  <2> QED
    BY <1>1, <1>3, <2>1 DEF Span
<1> QED
  BY <1>2, <1>3

\* The buffer after its first chunk was pushed.
Rest(b) == [b EXCEPT !.lo = FirstChunk(b).hi]

\* It is the part of the buffer behind the chunk.
LEMMA RestIs ==
  ASSUME NEW b \in Span
  PROVE  Rest(b) \in Span /\ Rest(b).hi = b.hi /\ Rest(b).lo = FirstChunk(b).hi
BY FirstChunkIs DEF Rest, Span

\* The uplink's and the chunker's steps keep the data well typed.
LEMMA MainDataTypes ==
  ASSUME DataTypes, Types, NEW u \in Uplinks, UplinkStep(u) \/ CancelContext(u)
  PROVE  DataTypes'
<1> USE DEF chkVars, sndVars, conVars, mainVars, linkVars
<1>1. CASE Begin(u) \/ Reject(u) \/ Refuse(u) \/ GiveUp(u) \/ CloseUplinker(u) \/ Return(u) \/ CancelContext(u)
  <2>1. UNCHANGED <<pos, source, chkVars, sndVars, conVars>>
    BY <1>1 DEF Begin, Reject, Refuse, GiveUp, CloseUplinker, Return, CancelContext
  <2>2. \/ UNCHANGED <<err, done>>
        \/ err' = [err EXCEPT ![u] = "ctx"] /\ done' = done
        \/ done' = [done EXCEPT ![u] = TRUE] /\ err' = err
    BY <1>1 DEF Begin, Reject, Refuse, GiveUp, CloseUplinker, Return, CancelContext
  <2>3. err' \in [Uplinks -> Errors \cup {"eof", "source"}] /\ done' \in [Uplinks -> BOOLEAN]
    BY <2>2 DEF DataTypes, Errors
  <2> QED
    BY <2>1, <2>3 DEF DataTypes
<1>2. CASE Recv(u)
  <2>1. UNCHANGED <<done, chkVars, sndVars, conVars>>
    BY <1>2 DEF Recv
  <2>2. /\ err' \in [Uplinks -> Errors \cup {"eof", "source"}]
        /\ source' \in [Uplinks -> {"open", "eof", "source"}]
    <3>1. \/ UNCHANGED <<err, source>>
          \/ \E e \in {"eof", "source"} : err' = [err EXCEPT ![u] = e] /\ source' = [source EXCEPT ![u] = e]
      BY <1>2 DEF Recv
    <3>2. /\ err \in [Uplinks -> Errors \cup {"eof", "source"}]
          /\ source \in [Uplinks -> {"open", "eof", "source"}]
      BY DEF DataTypes
    <3> QED
      BY <3>1, <3>2
  <2>3. pos' \in [Uplinks -> Nat] /\ \A v \in Uplinks : pos'[v] >= pos[v]
    <3>1. pos' = pos \/ \E n \in Nat : pos' = [pos EXCEPT ![u] = pos[u] + n]
      <4>1. (IF u \in Faulty THEN 1 .. MaxRecv ELSE {Size}) \subseteq Nat
        BY UplinkAssumption
      <4> QED
        BY <1>2, <4>1 DEF Recv
    <3>2. pos \in [Uplinks -> Nat]
      BY DEF DataTypes
    <3> QED
      BY <3>1, <3>2
  <2>4. \A v \in Uplinks : buf[v].hi \in Nat /\ pos[v] \in Nat /\ buf[v].hi <= pos[v]
    BY DEF DataTypes, Span
  <2>5. \A v \in Uplinks : buf'[v].hi <= pos'[v]
    BY <2>1, <2>3, <2>4
  <2> QED
    BY <2>1, <2>2, <2>3, <2>5 DEF DataTypes
<1>3. CASE OfferCancel(u)
  <2>1. con' = [stage |-> "write", from |-> u, by |-> "main", kind |-> "cancel", off |-> 0, lo |-> 0,
                len |-> 0, err |-> "nil"]
    BY <1>3 DEF OfferCancel, Idle
  <2>2. UNCHANGED <<err, pos, source, done, chkVars, sndVars, wire, failed, linkVars>>
    BY <1>3 DEF OfferCancel
  <2> QED
    BY <2>1, <2>2 DEF DataTypes, Kinds
<1> QED
  BY <1>1, <1>2, <1>3 DEF UplinkStep

\* ChunkPushed keeps the buffer well typed.
LEMMA ChunkPushedTypes ==
  ASSUME DataTypes, NEW u \in Uplinks, NEW e \in Errors, ChunkPushed(u, e)
  PROVE  /\ buf' = [buf EXCEPT ![u] = Rest(buf[u])] /\ buf' \in [Uplinks -> Span]
         /\ \A v \in Uplinks : buf'[v].hi = buf[v].hi
         /\ chkErr' = [chkErr EXCEPT ![u] = e] /\ flushing' = flushing
         /\ chk' = [chk EXCEPT ![u] = IF e = "nil" THEN ChunkReady(Rest(buf[u]), flushing[u]) ELSE "reply"]
BY RestIs DEF ChunkPushed, DataTypes, Rest

\* PacketPushed keeps the sender's state well typed.
LEMMA PacketPushedTypes ==
  ASSUME DataTypes, NEW u \in Uplinks, NEW e \in {"nil", "ctx", "write"}, PacketPushed(u, e)
  PROVE  /\ pkt' \in [Uplinks -> {"start", "data", "end"}] /\ sndErr' \in [Uplinks -> Errors]
         /\ started' \in [Uplinks -> BOOLEAN] /\ finished' \in [Uplinks -> BOOLEAN]
         /\ offset' \in [Uplinks -> Nat]
<1>1. chunk[u].lo \in Nat /\ chunk[u].hi \in Nat /\ chunk[u].lo <= chunk[u].hi
  BY DEF DataTypes, Span
<1>2. offset[u] + (chunk[u].hi - chunk[u].lo) \in Nat
  BY <1>1 DEF DataTypes
<1>3. /\ \E k \in {"start", "data", "end"} : pkt' = pkt \/ pkt' = [pkt EXCEPT ![u] = k]
      /\ \E x \in Errors : sndErr' = sndErr \/ sndErr' = [sndErr EXCEPT ![u] = x]
      /\ started' = started \/ started' = [started EXCEPT ![u] = TRUE]
      /\ \E b \in BOOLEAN : finished' = finished \/ finished' = [finished EXCEPT ![u] = b]
      /\ \E n \in Nat : offset' = offset \/ offset' = [offset EXCEPT ![u] = n]
  <2>1. CASE e # "nil"
    BY <2>1 DEF PacketPushed, Errors
  <2>2. CASE e = "nil" /\ pkt[u] = "data"
    <3>1. /\ offset' = [offset EXCEPT ![u] = offset[u] + (chunk[u].hi - chunk[u].lo)]
          /\ finished' = [finished EXCEPT ![u] = offset[u] + (chunk[u].hi - chunk[u].lo) >= Size]
          /\ UNCHANGED <<sndErr, started>>
      BY <2>2 DEF PacketPushed
    <3>2. pkt' = [pkt EXCEPT ![u] = "end"] \/ pkt' = [pkt EXCEPT ![u] = "data"]
      BY <2>2 DEF PacketPushed
    <3>3. (offset[u] + (chunk[u].hi - chunk[u].lo) >= Size) \in BOOLEAN
      OBVIOUS
    <3>4. \E b \in BOOLEAN : finished' = finished \/ finished' = [finished EXCEPT ![u] = b]
      BY <3>1, <3>3, Zenon
    <3> QED
      BY <1>2, <3>1, <3>2, <3>4 DEF Errors
  <2>3. CASE e = "nil" /\ pkt[u] # "data"
    BY <2>3 DEF PacketPushed, Errors
  <2> QED
    BY <2>1, <2>2, <2>3
<1>4. pkt' \in [Uplinks -> {"start", "data", "end"}]
  <2>1. pkt \in [Uplinks -> {"start", "data", "end"}]
    BY DEF DataTypes
  <2> QED
    BY <1>3, <2>1
<1>5. sndErr' \in [Uplinks -> Errors]
  <2>1. sndErr \in [Uplinks -> Errors]
    BY DEF DataTypes
  <2> QED
    BY <1>3, <2>1
<1>6. started' \in [Uplinks -> BOOLEAN] /\ finished' \in [Uplinks -> BOOLEAN]
  <2>1. started \in [Uplinks -> BOOLEAN] /\ finished \in [Uplinks -> BOOLEAN]
    BY DEF DataTypes
  <2> QED
    BY <1>3, <2>1
<1>7. offset' \in [Uplinks -> Nat]
  <2>1. offset \in [Uplinks -> Nat]
    BY DEF DataTypes
  <2> QED
    BY <1>3, <2>1
<1> QED
  BY <1>4, <1>5, <1>6, <1>7

\* The chunker's steps keep the data well typed.
LEMMA ChunkerDataTypes ==
  ASSUME DataTypes, Types, NEW u \in Uplinks, ChunkerStep(u)
  PROVE  DataTypes'
<1> USE DEF chkVars, sndVars, conVars, mainVars, linkVars
<1>1. CASE ChunkerTakes(u)
  <2>1. UNCHANGED <<err, pos, source, done, sndVars, conVars>>
    BY <1>1 DEF ChunkerTakes
  <2>2. [buf[u] EXCEPT !.hi = pos[u]] \in Span /\ [buf[u] EXCEPT !.hi = pos[u]].hi = pos[u]
    <3>1. buf[u] \in Span /\ pos[u] \in Nat /\ buf[u].hi <= pos[u]
      BY DEF DataTypes
    <3> QED
      BY <3>1 DEF Span
  <2>3. \/ UNCHANGED chkVars
        \/ /\ buf' = [buf EXCEPT ![u] = [buf[u] EXCEPT !.hi = pos[u]]]
           /\ flushing' = [flushing EXCEPT ![u] = main[u] = "flush"]
           /\ chkErr' = [chkErr EXCEPT ![u] = "nil"]
    BY <1>1 DEF ChunkerTakes
  <2>4. flushing' \in [Uplinks -> BOOLEAN] /\ chkErr' \in [Uplinks -> Errors]
    BY <2>3 DEF DataTypes, Errors
  <2>5. buf' \in [Uplinks -> Span] /\ \A v \in Uplinks : buf'[v].hi <= pos[v]
    <3>1. PICK b \in Span : b.hi = pos[u] /\ (buf' = buf \/ buf' = [buf EXCEPT ![u] = b])
      BY <2>2, <2>3
    <3>2. /\ buf \in [Uplinks -> Span] /\ pos \in [Uplinks -> Nat]
          /\ \A v \in Uplinks : buf[v].hi <= pos[v]
      BY DEF DataTypes
    <3> QED
      BY <3>1, <3>2
  <2> QED
    BY <2>1, <2>4, <2>5 DEF DataTypes
<1>2. CASE ChunkerGivesUp(u)
  <2>1. ChunkPushed(u, "ctx") /\ "ctx" \in Errors /\ UNCHANGED <<mainVars, done, sndVars, conVars>>
    BY <1>2 DEF ChunkerGivesUp, Errors
  <2>2. /\ buf' \in [Uplinks -> Span] /\ \A v \in Uplinks : buf'[v].hi = buf[v].hi
        /\ chkErr' = [chkErr EXCEPT ![u] = "ctx"] /\ flushing' = flushing
    BY <2>1, ChunkPushedTypes
  <2>3. chkErr' \in [Uplinks -> Errors]
    BY <2>1, <2>2 DEF DataTypes
  <2> QED
    BY <2>1, <2>2, <2>3 DEF DataTypes
<1>3. CASE ChunkerReplies(u) \/ ChunkerEnds(u)
  <2>1. UNCHANGED <<pos, source, done, flushing, chkErr, buf, sndVars, conVars>>
    BY <1>3 DEF ChunkerReplies, ChunkerEnds
  <2>2. err' = err \/ err' = [err EXCEPT ![u] = chkErr[u]]
    BY <1>3 DEF ChunkerReplies, ChunkerEnds
  <2>3. err' \in [Uplinks -> Errors \cup {"eof", "source"}]
    BY <2>2 DEF DataTypes
  <2> QED
    BY <2>1, <2>3 DEF DataTypes
<1> QED
  BY <1>1, <1>2, <1>3 DEF ChunkerStep

\* The steps of uplinkFile's goroutine keep the data well typed.
LEMMA SenderDataTypes ==
  ASSUME DataTypes, Types, NEW u \in Uplinks, SenderStep(u)
  PROVE  DataTypes'
<1> USE DEF chkVars, sndVars, conVars, mainVars, linkVars
<1>1. CASE SenderTakes(u)
  <2>1. FirstChunk(buf[u]) \in Span /\ FirstChunk(buf[u]).hi <= FirstChunk(buf[u]).lo + ChunkSize
    BY FirstChunkIs DEF DataTypes
  <2>2. \/ UNCHANGED sndVars
        \/ /\ chunk' = [chunk EXCEPT ![u] = FirstChunk(buf[u])]
           /\ sndBg' = [sndBg EXCEPT ![u] = flushing[u]]
           /\ sndErr' = [sndErr EXCEPT ![u] = IF finished[u] THEN "past the end" ELSE "nil"]
           /\ pkt' = [pkt EXCEPT ![u] = IF started[u] THEN "data" ELSE "start"]
           /\ UNCHANGED <<started, offset, finished>>
    BY <1>1 DEF SenderTakes
  <2>3. /\ chunk' \in [Uplinks -> Span] /\ \A v \in Uplinks : chunk'[v].hi <= chunk'[v].lo + ChunkSize
        /\ sndBg' \in [Uplinks -> BOOLEAN]
        /\ UNCHANGED <<started, offset, finished>>
    <3>1. PICK c \in Span : /\ c.hi <= c.lo + ChunkSize
                            /\ chunk' = chunk \/ chunk' = [chunk EXCEPT ![u] = c]
      BY <2>1, <2>2
    <3>2. /\ chunk \in [Uplinks -> Span] /\ sndBg \in [Uplinks -> BOOLEAN] /\ flushing[u] \in BOOLEAN
          /\ \A v \in Uplinks : chunk[v].hi <= chunk[v].lo + ChunkSize
      BY DEF DataTypes
    <3>3. \A v \in Uplinks : chunk'[v].hi <= chunk'[v].lo + ChunkSize
      BY <3>1, <3>2
    <3> QED
      BY <2>2, <3>1, <3>2, <3>3
  <2>5. sndErr' = sndErr \/ \E x \in Errors : sndErr' = [sndErr EXCEPT ![u] = x]
    BY <2>2 DEF Errors
  <2>6. pkt' = pkt \/ \E x \in {"start", "data", "end"} : pkt' = [pkt EXCEPT ![u] = x]
    BY <2>2
  <2>7. sndErr' \in [Uplinks -> Errors] /\ pkt' \in [Uplinks -> {"start", "data", "end"}]
    BY <2>5, <2>6 DEF DataTypes
  <2>4. UNCHANGED <<mainVars, done, flushing, chkErr, buf, conVars>>
    BY <1>1 DEF SenderTakes
  <2> QED
    BY <2>3, <2>4, <2>7 DEF DataTypes
<1>2. CASE SenderGivesUp(u)
  BY <1>2, PacketPushedTypes DEF SenderGivesUp, DataTypes
<1>3. CASE SenderReplies(u)
  <2>1. \/ ChunkPushed(u, sndErr[u])
        \/ UNCHANGED chkVars
    BY <1>3 DEF SenderReplies
  <2>2. UNCHANGED <<mainVars, done, sndBg, sndErr, chunk, pkt, started, offset, finished, conVars>>
    BY <1>3 DEF SenderReplies
  <2>3. sndErr[u] \in Errors
    BY DEF DataTypes
  <2>4. /\ buf' \in [Uplinks -> Span] /\ \A v \in Uplinks : buf'[v].hi = buf[v].hi
        /\ flushing' = flushing /\ chkErr' \in [Uplinks -> Errors]
    <3>1. CASE ChunkPushed(u, sndErr[u])
      <4>1. chkErr \in [Uplinks -> Errors]
        BY DEF DataTypes
      <4> QED
        BY <2>3, <3>1, <4>1, ChunkPushedTypes
    <3>2. CASE UNCHANGED chkVars
      BY <3>2 DEF DataTypes
    <3> QED
      BY <2>1, <3>1, <3>2
  <2> QED
    BY <2>2, <2>4 DEF DataTypes
<1>4. CASE SenderEnds(u)
  BY <1>4 DEF SenderEnds, DataTypes
<1> QED
  BY <1>1, <1>2, <1>3, <1>4 DEF SenderStep

\* The connection's steps keep the data well typed.
LEMMA ConDataTypes ==
  ASSUME DataTypes, IInv, ConWrites \/ ConReplies \/ \E u \in Uplinks : ConTakes(u)
  PROVE  DataTypes'
<1> USE DEF chkVars, sndVars, conVars, mainVars, linkVars
<1>1. CASE ConWrites
  <2>1. /\ UNCHANGED <<mainVars, done, chkVars, sndVars, linkVars>> /\ con.stage = "write"
        /\ \E e \in {"nil", "ctx", "write"} : con' = [con EXCEPT !.stage = "reply", !.err = e]
        /\ wire' = wire \/ wire' = Append(wire, Written)
        /\ failed' = failed \/ failed' = [failed EXCEPT ![con.from] = @ \cup {con.kind}]
    BY <1>1 DEF ConWrites, Written
  <2>2. con.from \in Uplinks /\ Written \in Packet
    BY <2>1 DEF IInv, Seen, Busy, DataTypes, Packet, Written
  <2>3. wire' \in Seq(Packet)
    <3>1. wire \in Seq(Packet)
      BY DEF DataTypes
    <3> QED
      BY <2>1, <2>2, <3>1
  <2>4. failed' \in [Uplinks -> SUBSET Kinds]
    <3>1. failed \in [Uplinks -> SUBSET Kinds] /\ con.kind \in Kinds
      BY DEF DataTypes
    <3>2. failed[con.from] \cup {con.kind} \in SUBSET Kinds
      BY <2>2, <3>1
    <3> QED
      BY <2>1, <3>1, <3>2
  <2>5. /\ con'.stage = "reply" /\ con'.by = con.by /\ con'.kind = con.kind /\ con'.off = con.off
        /\ con'.lo = con.lo /\ con'.len = con.len /\ con'.err \in {"nil", "ctx", "write"}
    BY <2>1 DEF IInv, Types
  <2> QED
    BY <2>1, <2>3, <2>4, <2>5 DEF DataTypes
<1>2. CASE ConReplies
  <2>1. con' = Idle /\ UNCHANGED <<err, pos, source, done, chkVars, wire, failed, linkVars>> /\ con.from \in Uplinks
    BY <1>2 DEF ConReplies, IInv, Seen, Busy
  <2>2. \/ UNCHANGED sndVars
        \/ PacketPushed(con.from, con.err) /\ UNCHANGED <<sndBg, chunk>>
    BY <1>2 DEF ConReplies
  <2>3. con.err \in {"nil", "ctx", "write"}
    BY DEF DataTypes
  <2>4. /\ sndBg' = sndBg /\ chunk' = chunk
        /\ pkt' \in [Uplinks -> {"start", "data", "end"}] /\ sndErr' \in [Uplinks -> Errors]
        /\ started' \in [Uplinks -> BOOLEAN] /\ finished' \in [Uplinks -> BOOLEAN]
        /\ offset' \in [Uplinks -> Nat]
    <3>1. CASE UNCHANGED sndVars
      BY <3>1 DEF DataTypes
    <3>2. CASE PacketPushed(con.from, con.err) /\ UNCHANGED <<sndBg, chunk>>
      BY <2>1, <2>3, <3>2, PacketPushedTypes
    <3> QED
      BY <2>2, <3>1, <3>2
  <2> QED
    BY <2>1, <2>4 DEF DataTypes, Idle, Kinds
<1>3. ASSUME NEW u \in Uplinks, ConTakes(u) PROVE DataTypes'
  <2>1. UNCHANGED <<mainVars, done, chkVars, sndBg, sndErr, chunk, pkt, started, offset, finished, wire, failed,
                    linkVars>>
    BY <1>3 DEF ConTakes
  <2>2. con' = con \/ con' = [stage |-> "write", from |-> u, by |-> "snd", kind |-> pkt[u], off |-> offset[u],
                               lo |-> chunk[u].lo, len |-> chunk[u].hi - chunk[u].lo, err |-> "nil"]
    BY <1>3 DEF ConTakes, Idle
  <2>3. chunk[u].lo \in Nat /\ chunk[u].hi \in Nat /\ chunk[u].lo <= chunk[u].hi /\ offset[u] \in Nat /\ pkt[u] \in Kinds
    BY DEF DataTypes, Span, Kinds
  <2>4. chunk[u].hi - chunk[u].lo \in Nat
    BY <2>3
  <2>5. /\ con'.stage \in {"recv", "request", "write", "reply"} /\ con'.from \in Uplinks \cup {None}
        /\ con'.by \in {"snd", "main"} /\ con'.kind \in Kinds
        /\ con'.off \in Nat /\ con'.lo \in Nat /\ con'.len \in Nat /\ con'.err \in {"nil", "ctx", "write"}
    <3>1. CASE con' = con
      BY <3>1 DEF DataTypes
    <3>2. CASE con' # con
      BY <2>2, <2>3, <2>4, <3>2
    <3> QED
      BY <3>1, <3>2
  <2> QED
    BY <2>1, <2>5 DEF DataTypes
<1> QED
  BY <1>1, <1>2, <1>3

\* So do a request, the end of the connection and a panic.
LEMMA LinkDataTypes ==
  ASSUME DataTypes, LinkStep
  PROVE  DataTypes'
<1>1. UNCHANGED <<mainVars, done, chkVars, sndVars, wire, failed>>
  BY LinkIs
<1>2. /\ con'.stage \in {"recv", "request", "write", "reply"} /\ con'.from \in Uplinks \cup {None}
      /\ con'.by \in {"snd", "main"} /\ con'.kind \in Kinds
      /\ con'.off \in Nat /\ con'.lo \in Nat /\ con'.len \in Nat /\ con'.err \in {"nil", "ctx", "write"}
  <2>1. CASE con' = con
    BY <2>1 DEF DataTypes
  <2>2. CASE \E s \in {"recv", "request"} : con' = [Idle EXCEPT !.stage = s]
    BY <2>2 DEF Idle, Kinds
  <2> QED
    BY <2>1, <2>2, LinkIs
<1>3. OpenFiles \subseteq Uplinks
  BY DEF OpenFiles
<1>4. closed' \in BOOLEAN /\ panicked' \in BOOLEAN /\ cut' \subseteq Uplinks
  <2>1. closed \in BOOLEAN /\ panicked \in BOOLEAN /\ cut \subseteq Uplinks
    BY DEF DataTypes
  <2>2. CASE RequestTaken
    BY <2>1, <2>2 DEF RequestTaken, linkVars
  <2>3. CASE RequestWritten
    BY <1>3, <2>1, <2>3 DEF RequestWritten
  <2>4. CASE EndConnection \/ SendOnClosed
    BY <2>1, <2>4 DEF EndConnection, SendOnClosed
  <2> QED
    BY <2>2, <2>3, <2>4 DEF LinkStep
<1> QED
  BY <1>1, <1>2, <1>4 DEF DataTypes, mainVars, chkVars, sndVars

\* The data are well typed in every reachable state.
THEOREM DataInductive == ASSUME None \notin Uplinks PROVE Spec => [](IInv /\ DataTypes)
<1>1. Init => DataTypes
  <2> SUFFICES ASSUME Init PROVE DataTypes
    OBVIOUS
  <2>1. [lo |-> 0, hi |-> 0] \in Span
    BY DEF Span
  <2>2. wire \in Seq(Packet)
    BY DEF Init
  <2>3. closed \in BOOLEAN /\ panicked \in BOOLEAN /\ cut \subseteq Uplinks
    BY DEF Init
  <2> QED
    BY <2>1, <2>2, <2>3, UplinkAssumption DEF Init, DataTypes, Idle, Errors, Kinds
<1>2. IInv /\ DataTypes /\ [Next]_vars => DataTypes'
  <2> SUFFICES ASSUME IInv, DataTypes, [Next]_vars PROVE DataTypes'
    OBVIOUS
  <2>1. CASE UNCHANGED vars
    BY <2>1 DEF vars, mainVars, chkVars, sndVars, conVars, linkVars, DataTypes
  <2>2. Types
    BY DEF IInv
  <2> QED
    BY <2>1, <2>2, ConDataTypes, LinkDataTypes, MainDataTypes, ChunkerDataTypes, SenderDataTypes
       DEF Next, ConStep, LinkStep
<1> QED
  BY <1>1, <1>2, Inductive, PTL DEF Spec

-----------------------------------------------------------------------------
(* The packets on the wire.                                                 *)

\* A set of positions has a last one, unless it is empty: no infinite descent in the sets
\* of the positions above one of its elements.
LEMMA LastExists ==
  ASSUME NEW n \in Nat, NEW S \in SUBSET (1 .. n), S # {}
  PROVE  \E i \in S : \A j \in S : j <= i
<1> DEFINE Above(i) == {j \in S : j > i}
           T == {Above(i) : i \in S}
           R == StrictSubsetOrdering(S)
<1>1. IsFiniteSet(S)
  <2>1. IsFiniteSet(1 .. n)
    BY FS_Interval
  <2> QED
    BY <2>1, FS_Subset
<1>2. IsWellFoundedOn(R, SUBSET S)
  BY <1>1, FS_StrictSubsetOrderingWellFounded, FS_FiniteSubsetsOfFinite
<1>3. T \in SUBSET (SUBSET S) /\ T # {}
  OBVIOUS
<1>4. \E x \in T : \A y \in T : ~(<<y, x>> \in R)
  <2> HIDE DEF T, R
  <2> QED
    BY <1>2, <1>3, WFMin
<1>5. PICK i \in S : \A j \in S : ~(<<Above(j), Above(i)>> \in R)
  BY <1>4
<1>6. ASSUME NEW j \in S, j > i PROVE FALSE
  <2>1. i \in Nat /\ \A k \in S : k \in Nat
    OBVIOUS
  <2>2. \A k \in S : k > j => k > i
    BY <1>6, <2>1
  <2>3. j \in Above(i) /\ j \notin Above(j)
    BY <1>6, <2>1
  <2>4. <<Above(j), Above(i)>> \in R
    BY <2>2, <2>3 DEF StrictSubsetOrdering
  <2> QED
    BY <2>4, <1>5
<1> QED
  BY <1>6

\* What is said of an uplink's packets depends on the wire alone.
LEMMA WireSame ==
  ASSUME NEW u, wire' = wire
  PROVE  /\ Length(u)' = Length(u) /\ (Contiguous(u)' <=> Contiguous(u)) /\ (InOrder(u)' <=> InOrder(u))
         /\ \A k : Sent(u, k)' <=> Sent(u, k)
BY DEF Length, Contiguous, InOrder, Sent, DataAt, EndOf

\* A packet p is appended: what is known of the packets already there stays, and if p is a
\* data packet of u, u's packets end where p does.
LEMMA WireGrows ==
  ASSUME NEW u \in Uplinks, NEW p \in Packet, wire \in Seq(Packet), wire' = Append(wire, p)
  PROVE  /\ \A k : Sent(u, k)' <=> Sent(u, k) \/ (p.from = u /\ p.kind = k)
         /\ ~(p.from = u /\ p.kind = "data") =>
              Length(u)' = Length(u) /\ (Contiguous(u)' <=> Contiguous(u)) /\ (InOrder(u)' <=> InOrder(u))
         /\ p.from = u /\ p.kind = "data" =>
              /\ Length(u)' = p.off + p.len
              /\ p.off = Length(u) => (Contiguous(u) => Contiguous(u)')
              /\ p.off = Length(u) /\ p.lo = p.off => (InOrder(u) => InOrder(u)')
<1> DEFINE Below(i) == {j \in DataAt(u) : j < i}
<1>0. PICK n \in Nat : n = Len(wire) + 1
  OBVIOUS
<1>1. /\ Len(wire) \in Nat /\ Len(wire') = n /\ wire'[n] = p
      /\ \A i \in 1 .. Len(wire) : wire'[i] = wire[i]
  BY <1>0
<1>2. \A i : i \in 1 .. Len(wire') <=> i \in 1 .. Len(wire) \/ i = n
  BY <1>0, <1>1
<1>3. n \notin 1 .. Len(wire) /\ \A i \in 1 .. Len(wire) : i < n /\ i <= n /\ i \in Nat
  BY <1>0, <1>1
<1>4. \A k : Sent(u, k)' <=> Sent(u, k) \/ (p.from = u /\ p.kind = k)
  BY <1>1, <1>2 DEF Sent
<1>5. DataAt(u)' = IF p.from = u /\ p.kind = "data" THEN DataAt(u) \cup {n} ELSE DataAt(u)
  BY <1>1, <1>2 DEF DataAt
<1>6. DataAt(u) \subseteq 1 .. Len(wire)
  BY DEF DataAt
<1>7. \A S \in SUBSET (1 .. Len(wire)) : EndOf(S)' = EndOf(S)
  <2> TAKE S \in SUBSET (1 .. Len(wire))
  <2>1. CASE S = {}
    BY <2>1 DEF EndOf
  <2>2. CASE S # {}
    <3> DEFINE m == CHOOSE i \in S : \A j \in S : j <= i
    <3>1. m \in 1 .. Len(wire)
      BY <1>1, <2>2, LastExists
    <3>2. EndOf(S) = wire[m].off + wire[m].len /\ EndOf(S)' = wire'[m].off + wire'[m].len
      BY <2>2 DEF EndOf
    <3> QED
      BY <1>1, <3>1, <3>2
  <2> QED
    BY <2>1, <2>2
<1>8. \A i \in 1 .. Len(wire) : EndOf(Below(i))' = EndOf(Below(i))
  <2> TAKE i \in 1 .. Len(wire)
  <2>1. \A j : j \in {k \in DataAt(u)' : k < i} <=> j \in Below(i)
    BY <1>3, <1>5
  <2> QED
    BY <1>6, <1>7, <2>1
<1> HIDE DEF Below
<1>9. CASE ~(p.from = u /\ p.kind = "data")
  <2>1. DataAt(u)' = DataAt(u)
    BY <1>5, <1>9
  <2>2. Length(u)' = Length(u)
    BY <1>6, <1>7, <2>1 DEF Length
  <2>3. Contiguous(u)' <=> Contiguous(u)
    BY <1>1, <1>6, <1>8, <2>1 DEF Contiguous, Below
  <2>4. InOrder(u)' <=> InOrder(u)
    BY <1>1, <1>6, <2>1, <2>3 DEF InOrder
  <2> QED
    BY <1>4, <1>9, <2>2, <2>3, <2>4
<1>10. CASE p.from = u /\ p.kind = "data"
  <2>1. DataAt(u)' = DataAt(u) \cup {n}
    BY <1>5, <1>10
  <2>2. Length(u)' = p.off + p.len
    <3> DEFINE m == CHOOSE i \in DataAt(u)' : \A j \in DataAt(u)' : j <= i
    <3>1. n \in DataAt(u)' /\ \A j \in DataAt(u)' : j <= n
      BY <1>3, <1>6, <2>1
    <3>2. m = n
      <4>1. m \in DataAt(u)' /\ \A j \in DataAt(u)' : j <= m
        BY <3>1
      <4>2. m <= n /\ n <= m /\ m \in Nat
        BY <1>3, <1>6, <2>1, <3>1, <4>1
      <4> QED
        BY <4>2
    <3>3. Length(u)' = wire'[m].off + wire'[m].len
      BY <3>1 DEF Length, EndOf
    <3> QED
      BY <1>1, <3>2, <3>3
  <2>3. Below(n)' = DataAt(u)
    <3>1. \A j : j \in {k \in DataAt(u)' : k < n} <=> j \in DataAt(u)
      BY <1>3, <1>6, <2>1
    <3> QED
      BY <3>1 DEF Below
  <2>4. EndOf(Below(n))' = Length(u)
    BY <1>6, <1>7, <2>3 DEF Length
  <2>5. p.off = Length(u) => (Contiguous(u) => Contiguous(u)')
    BY <1>1, <1>6, <1>8, <2>1, <2>4 DEF Contiguous, Below
  <2>6. p.off = Length(u) /\ p.lo = p.off => (InOrder(u) => InOrder(u)')
    BY <1>1, <1>6, <2>1, <2>5 DEF InOrder
  <2> QED
    BY <1>4, <1>10, <2>2, <2>5, <2>6
<1> QED
  BY <1>9, <1>10

-----------------------------------------------------------------------------
(* What an uplink's goroutines and the connection agree on.                 *)

\* The connection has a packet of u's goroutine.
OnCon(u) == Busy /\ con.by = "snd" /\ con.from = u

\* The chunk in hand was given up with the context: no more of the file will be written.
Gone(u) ==
  /\ done[u] /\ chk[u] # "offer" /\ (chk[u] = "await" => ~flushing[u])
  /\ snd[u] # "offer" /\ (snd[u] = "reply" => sndErr[u] # "nil")
  /\ snd[u] = "await" => ~sndBg[u] /\ ~OnCon(u)

\* The connection's packet is the one its goroutine awaits the reply to.
Carried(u) ==
  /\ snd[u] = "await" /\ con.kind = pkt[u] /\ con.off = offset[u] /\ con.lo = chunk[u].lo
  /\ con.len = chunk[u].hi - chunk[u].lo

Paired(u) ==
  /\ snd[u] \in {"offer", "await", "reply"} =>
       \/ chk[u] = "await" /\ flushing[u] = sndBg[u]
       \/ done[u] /\ ~sndBg[u] /\ chk[u] \in {"reply", "recv", "ended"}
  /\ OnCon(u) => Carried(u) \/ Gone(u)
  /\ snd[u] = "await" /\ ~OnCon(u) => done[u] /\ ~sndBg[u]
  /\ snd[u] = "ended" => chk[u] = "ended"
  /\ OnCon(u) /\ con.stage = "reply" /\ con.err = "ctx" => done[u] /\ ~sndBg[u]

\* A data packet was written whose goroutine has not been told.
Landed(u) ==
  OnCon(u) /\ con.stage = "reply" /\ con.kind = "data" /\ snd[u] = "await" /\ con.err # "write"

\* The packets written fill the file from its start, up to the offset of the goroutine.
Placed(u) ==
  /\ Contiguous(u)
  /\ Length(u) = offset[u] \/ Landed(u) \/ Gone(u)
  /\ Landed(u) => Length(u) = con.off + con.len
  /\ OnCon(u) /\ con.stage = "write" /\ con.kind = "data" => con.off = Length(u)

\* The start packet is before the data, and the data before the end packet.
Begun(u) ==
  /\ started[u] => Sent(u, "start")
  /\ finished[u] => started[u] /\ Length(u) >= Size /\ Length(u) \in Nat
  /\ snd[u] \in {"offer", "await"} /\ pkt[u] # "start" => started[u]
  /\ snd[u] \in {"offer", "await"} /\ pkt[u] = "end" => finished[u]
  /\ OnCon(u) => con.kind # "cancel" /\ (con.kind # "start" => started[u]) /\ (con.kind = "end" => finished[u])
  /\ OnCon(u) /\ con.kind = "start" /\ con.stage = "reply" /\ con.err # "write" => Sent(u, "start")
  /\ Sent(u, "end") => finished[u]

\* The cancel packet was written, or its write failed.
CancelTold(u) == Sent(u, "cancel") \/ "cancel" \in failed[u]

\* Uplink offers a cancel packet before it returns an error.
ByMain(u) == Busy /\ con.by = "main" /\ con.from = u
Told(u) ==
  /\ ByMain(u) => main[u] = "cancelled" /\ con.kind = "cancel" /\ (con.stage = "reply" => CancelTold(u))
  /\ main[u] = "cancelled" => ByMain(u)
  /\ main[u] \in {"close", "wait", "returned"} /\ err[u] # "nil" => CancelTold(u)

Sound(u) == Paired(u) /\ Placed(u) /\ Begun(u) /\ Told(u)

\* Nothing of v's changes.
SndKept(v) ==
  /\ snd'[v] = snd[v] /\ sndBg'[v] = sndBg[v] /\ sndErr'[v] = sndErr[v] /\ chunk'[v] = chunk[v]
  /\ pkt'[v] = pkt[v] /\ started'[v] = started[v] /\ offset'[v] = offset[v] /\ finished'[v] = finished[v]
ChkKept(v) == chk'[v] = chk[v] /\ flushing'[v] = flushing[v] /\ chkErr'[v] = chkErr[v] /\ buf'[v] = buf[v]
MainKept(v) ==
  main'[v] = main[v] /\ err'[v] = err[v] /\ pos'[v] = pos[v] /\ source'[v] = source[v]
WireKept(v) ==
  /\ Length(v)' = Length(v) /\ (Contiguous(v)' <=> Contiguous(v)) /\ (InOrder(v)' <=> InOrder(v))
  /\ \A k : Sent(v, k)' <=> Sent(v, k)
Untouched(v) ==
  /\ SndKept(v) /\ ChkKept(v) /\ MainKept(v) /\ done'[v] = done[v] /\ failed'[v] = failed[v] /\ WireKept(v)
  /\ con' = con \/ ~((Busy /\ con.from = v) \/ (Busy /\ con.from = v)')

\* Then what is said of v stays true.
LEMMA UntouchedSound == ASSUME NEW v \in Uplinks, Untouched(v), Sound(v) PROVE Sound(v)'
<1> USE DEF Untouched, SndKept, ChkKept, MainKept, WireKept, OnCon, Busy
<1>0. (OnCon(v)' <=> OnCon(v)) /\ (OnCon(v) => con' = con) /\ (ByMain(v)' <=> ByMain(v)) /\ (ByMain(v) => con' = con)
  BY DEF ByMain
<1>1. Gone(v)' <=> Gone(v)
  BY <1>0 DEF Gone
<1>2. (Carried(v) /\ OnCon(v))' <=> Carried(v) /\ OnCon(v)
  BY <1>0 DEF Carried
<1>3. Landed(v)' <=> Landed(v)
  BY <1>0 DEF Landed
<1> HIDE DEF OnCon, Busy
<1>4. Paired(v)'
  BY <1>0, <1>1, <1>2 DEF Sound, Paired
<1>5. Placed(v)'
  BY <1>0, <1>1, <1>3 DEF Sound, Placed, Landed
<1>6. Begun(v)'
  BY <1>0 DEF Sound, Begun
<1>7. Told(v)'
  BY <1>0 DEF Sound, Told, CancelTold
<1> QED
  BY <1>4, <1>5, <1>6, <1>7 DEF Sound

\* Every variable that is kept per uplink is a function of the uplinks.
PerUplink ==
  /\ DOMAIN main = Uplinks /\ DOMAIN err = Uplinks /\ DOMAIN pos = Uplinks /\ DOMAIN source = Uplinks
  /\ DOMAIN done = Uplinks /\ DOMAIN failed = Uplinks
  /\ DOMAIN chk = Uplinks /\ DOMAIN flushing = Uplinks /\ DOMAIN chkErr = Uplinks /\ DOMAIN buf = Uplinks
  /\ DOMAIN snd = Uplinks /\ DOMAIN sndBg = Uplinks /\ DOMAIN sndErr = Uplinks /\ DOMAIN chunk = Uplinks
  /\ DOMAIN pkt = Uplinks /\ DOMAIN started = Uplinks /\ DOMAIN offset = Uplinks /\ DOMAIN finished = Uplinks

LEMMA Domains == ASSUME IInv, DataTypes PROVE PerUplink
BY DEF IInv, Types, DataTypes, PerUplink

\* The reply to one uplink's packet or chunk leaves the others alone.
LEMMA PushOfAnother ==
  ASSUME PerUplink, NEW u \in Uplinks, NEW v \in Uplinks, u # v, NEW e
  PROVE  /\ PacketPushed(u, e) =>
              /\ snd'[v] = snd[v] /\ sndErr'[v] = sndErr[v] /\ pkt'[v] = pkt[v]
              /\ started'[v] = started[v] /\ offset'[v] = offset[v] /\ finished'[v] = finished[v]
         /\ ChunkPushed(u, e) => ChkKept(v)
<1>1. ASSUME PacketPushed(u, e)
      PROVE  /\ snd'[v] = snd[v] /\ sndErr'[v] = sndErr[v] /\ pkt'[v] = pkt[v]
             /\ started'[v] = started[v] /\ offset'[v] = offset[v] /\ finished'[v] = finished[v]
  BY <1>1 DEF PacketPushed, PerUplink
<1>2. ASSUME ChunkPushed(u, e) PROVE ChkKept(v)
  BY <1>2 DEF ChunkPushed, ChkKept, PerUplink
<1> QED
  BY <1>1, <1>2

\* A step for one uplink leaves the others alone.
LEMMA OthersUntouched ==
  ASSUME IInv, DataTypes, NEW u \in Uplinks, NEW v \in Uplinks, u # v,
         \/ UplinkStep(u) \/ ChunkerStep(u) \/ SenderStep(u) \/ CancelContext(u) \/ ConTakes(u)
         \/ con.from = u /\ (ConWrites \/ ConReplies)
  PROVE  Untouched(v)
<1> USE DEF mainVars, chkVars, sndVars, conVars
<1>0. PerUplink
  BY Domains
<1>1. ASSUME wire' = wire PROVE WireKept(v)
  BY <1>1, WireSame DEF WireKept
<1>2. CASE (UplinkStep(u) /\ ~OfferCancel(u)) \/ CancelContext(u)
  <2>1. UNCHANGED <<chkVars, sndVars, conVars>>
    BY <1>2 DEF UplinkStep, Begin, Reject, Refuse, Recv, GiveUp, CloseUplinker, Return, CancelContext
  <2>2. MainKept(v) /\ done'[v] = done[v]
    BY <1>2 DEF UplinkStep, Begin, Reject, Refuse, Recv, GiveUp, CloseUplinker, Return, CancelContext, MainKept, IInv, Types, DataTypes
  <2> QED
    BY <1>1, <2>1, <2>2 DEF Untouched, SndKept, ChkKept
<1>3. CASE OfferCancel(u)
  <2>1. UNCHANGED <<err, pos, source, done, chkVars, sndVars, wire, failed>> /\ main' = [main EXCEPT ![u] = "cancelled"]
    BY <1>3 DEF OfferCancel
  <2>2. con.stage = "recv" /\ con'.from = u
    BY <1>3 DEF OfferCancel, Idle
  <2> QED
    BY <1>1, <2>1, <2>2 DEF Untouched, SndKept, ChkKept, MainKept, Busy
<1>4. CASE ChunkerStep(u)
  <2>1. UNCHANGED <<pos, source, done, sndVars, conVars>>
    BY <1>4 DEF ChunkerStep, ChunkerTakes, ChunkerGivesUp, ChunkerReplies, ChunkerEnds
  <2>2. MainKept(v) /\ ChkKept(v)
    <3>1. CASE ChunkerTakes(u)
      BY <1>0, <3>1 DEF ChunkerTakes, MainKept, ChkKept, PerUplink
    <3>2. CASE ChunkerGivesUp(u)
      BY <1>0, <3>2, PushOfAnother DEF ChunkerGivesUp, MainKept, PerUplink
    <3>3. CASE ChunkerReplies(u)
      BY <1>0, <3>3 DEF ChunkerReplies, MainKept, ChkKept, PerUplink
    <3>4. CASE ChunkerEnds(u)
      BY <1>0, <3>4 DEF ChunkerEnds, MainKept, ChkKept, PerUplink
    <3> QED
      BY <1>4, <3>1, <3>2, <3>3, <3>4 DEF ChunkerStep
  <2> QED
    BY <1>1, <2>1, <2>2 DEF Untouched, SndKept
<1>5. CASE SenderStep(u)
  <2>1. UNCHANGED <<mainVars, done, conVars>>
    BY <1>5 DEF SenderStep, SenderTakes, SenderGivesUp, SenderReplies, SenderEnds
  <2>2. SndKept(v) /\ ChkKept(v)
    <3>1. CASE SenderTakes(u)
      BY <1>0, <3>1 DEF SenderTakes, SndKept, ChkKept, PerUplink
    <3>2. CASE SenderGivesUp(u)
      BY <1>0, <3>2, PushOfAnother DEF SenderGivesUp, SndKept, ChkKept, PerUplink
    <3>3. CASE SenderReplies(u)
      <4>1. SndKept(v)
        BY <1>0, <3>3 DEF SenderReplies, SndKept, PerUplink
      <4>2. ChunkPushed(u, sndErr[u]) \/ UNCHANGED chkVars
        BY <3>3 DEF SenderReplies
      <4>3. ChkKept(v)
        BY <1>0, <4>2, PushOfAnother DEF ChkKept, PerUplink
      <4> QED
        BY <4>1, <4>3
    <3>4. CASE SenderEnds(u)
      BY <1>0, <3>4 DEF SenderEnds, SndKept, ChkKept, PerUplink
    <3> QED
      BY <1>5, <3>1, <3>2, <3>3, <3>4 DEF SenderStep
  <2> QED
    BY <1>1, <2>1, <2>2 DEF Untouched, MainKept
<1>6. CASE ConTakes(u)
  <2>1. UNCHANGED <<mainVars, done, chkVars, sndBg, sndErr, chunk, pkt, started, offset, finished, wire, failed>>
    BY <1>6 DEF ConTakes
  <2>2. snd'[v] = snd[v] /\ con.stage = "recv" /\ (con' = con \/ con'.from = u)
    BY <1>6 DEF ConTakes, Idle
  <2> QED
    BY <1>1, <2>1, <2>2 DEF Untouched, SndKept, ChkKept, MainKept, Busy
<1>7. CASE con.from = u /\ ConWrites
  <2>1. /\ UNCHANGED <<mainVars, done, chkVars, sndVars>>
        /\ con'.from = u
        /\ wire' = wire \/ wire' = Append(wire, Written)
        /\ failed'[v] = failed[v]
    <3>1. /\ UNCHANGED <<mainVars, done, chkVars, sndVars>>
          /\ \E e : con' = [con EXCEPT !.stage = "reply", !.err = e]
          /\ wire' = wire \/ wire' = Append(wire, Written)
          /\ failed' = failed \/ failed' = [failed EXCEPT ![u] = @ \cup {con.kind}]
      BY <1>7 DEF ConWrites, Written
    <3> QED
      BY <1>0, <1>7, <3>1 DEF IInv, Types, PerUplink
  <2>2. Written \in Packet /\ Written.from = u /\ wire \in Seq(Packet)
    BY <1>7 DEF DataTypes, Packet, Written
  <2>3. WireKept(v)
    BY <1>1, <2>1, <2>2, WireGrows DEF WireKept
  <2> QED
    BY <1>7, <2>1, <2>3 DEF Untouched, SndKept, ChkKept, MainKept, Busy
<1>8. CASE con.from = u /\ ConReplies
  <2>1. UNCHANGED <<err, pos, source, done, chkVars, wire, failed>> /\ ~Busy'
    BY <1>8 DEF ConReplies, Busy, Idle
  <2>2. MainKept(v) /\ SndKept(v)
    <3>1. \/ main' = [main EXCEPT ![u] = "close"] /\ UNCHANGED sndVars
          \/ PacketPushed(u, con.err) /\ UNCHANGED <<main, sndBg, chunk>>
          \/ UNCHANGED <<main, sndVars>>
      BY <1>8 DEF ConReplies
    <3>2. CASE PacketPushed(u, con.err) /\ UNCHANGED <<main, sndBg, chunk>>
      BY <1>0, <2>1, <3>2, PushOfAnother DEF MainKept, SndKept
    <3>3. CASE \/ main' = [main EXCEPT ![u] = "close"] /\ UNCHANGED sndVars
               \/ UNCHANGED <<main, sndVars>>
      BY <1>0, <2>1, <3>3 DEF MainKept, SndKept, PerUplink
    <3> QED
      BY <3>1, <3>2, <3>3
  <2> QED
    BY <1>1, <1>8, <2>1, <2>2 DEF Untouched, ChkKept
<1> QED
  BY <1>2, <1>3, <1>4, <1>5, <1>6, <1>7, <1>8 DEF UplinkStep

\* A step of the link is nobody's.
LEMMA LinkUntouched ==
  ASSUME LinkStep, NEW v \in Uplinks
  PROVE  Untouched(v)
<1>1. UNCHANGED <<mainVars, done, chkVars, sndVars, wire, failed>> /\ (con' = con \/ ~(Busy \/ Busy'))
  BY LinkIs
<1>2. WireKept(v)
  BY <1>1, WireSame DEF WireKept
<1> QED
  BY <1>1, <1>2 DEF Untouched, SndKept, ChkKept, MainKept, mainVars, chkVars, sndVars

\* The steps of Fsw.Uplink and the cancellation of its context.
LEMMA UplinkSound ==
  ASSUME IInv, DataTypes, NEW u \in Uplinks, Sound(u), UplinkStep(u) \/ CancelContext(u)
  PROVE  Sound(u)'
<1> USE DEF mainVars, chkVars, sndVars, conVars
<1>0. PerUplink
  BY Domains
<1>1. CASE (UplinkStep(u) /\ ~OfferCancel(u)) \/ CancelContext(u)
  <2>1. UNCHANGED <<chkVars, sndVars, conVars>> /\ (done[u] => done'[u])
    BY <1>0, <1>1 DEF UplinkStep, Begin, Reject, Refuse, Recv, GiveUp, CloseUplinker, Return, CancelContext, PerUplink
  <2>2. WireKept(u)
    BY <2>1, WireSame DEF WireKept
  <2>3. (OnCon(u)' <=> OnCon(u)) /\ (Gone(u) => Gone(u)') /\ (Carried(u)' <=> Carried(u)) /\ (Landed(u)' <=> Landed(u))
    BY <2>1 DEF OnCon, Busy, Gone, Carried, Landed
  <2>4. Paired(u)'
    BY <2>1, <2>3 DEF Sound, Paired
  <2>5. Placed(u)' /\ Begun(u)'
    BY <2>1, <2>2, <2>3 DEF Sound, Placed, Begun, WireKept
  <2>6. (ByMain(u)' <=> ByMain(u)) /\ (CancelTold(u)' <=> CancelTold(u))
    BY <2>1, <2>2 DEF ByMain, Busy, CancelTold, WireKept
  <2>7. \/ main'[u] = main[u] /\ err'[u] = err[u]
        \/ /\ main[u] # "cancelled"
           /\ main'[u] \in {"recv", "toobig", "rejected", "refused", "offer", "flush", "cancel"}
        \/ main[u] \in {"close", "wait"} /\ main'[u] \in {"wait", "returned"} /\ err'[u] = err[u]
    BY <1>0, <1>1 DEF UplinkStep, Begin, Reject, Refuse, Recv, GiveUp, CloseUplinker, Return, CancelContext, PerUplink
  <2>8. Told(u)'
    BY <2>1, <2>6, <2>7 DEF Sound, Told
  <2> QED
    BY <2>4, <2>5, <2>8 DEF Sound
<1>2. CASE OfferCancel(u)
  <2>1. UNCHANGED <<err, done, chkVars, sndVars, wire, failed>> /\ main[u] = "cancel" /\ main'[u] = "cancelled"
    BY <1>0, <1>2 DEF OfferCancel, PerUplink
  <2>2. ~Busy /\ con'.stage = "write" /\ con'.from = u /\ con'.by = "main" /\ con'.kind = "cancel"
    BY <1>2 DEF OfferCancel, Idle, Busy
  <2>3. WireKept(u)
    BY <2>1, WireSame DEF WireKept
  <2>4. ~OnCon(u) /\ ~OnCon(u)' /\ ByMain(u)' /\ ~Landed(u) /\ ~Landed(u)'
    BY <2>2 DEF OnCon, Busy, ByMain, Landed
  <2>5. Gone(u) => Gone(u)'
    BY <2>1, <2>4 DEF Gone
  <2>6. Paired(u)'
    BY <2>1, <2>4 DEF Sound, Paired
  <2>7. Placed(u)' /\ Begun(u)'
    BY <2>1, <2>3, <2>4, <2>5 DEF Sound, Placed, Begun, WireKept
  <2>8. Told(u)'
    BY <2>1, <2>2, <2>4 DEF Sound, Told
  <2> QED
    BY <2>6, <2>7, <2>8 DEF Sound
<1> QED
  BY <1>1, <1>2 DEF UplinkStep

\* The steps of the chunker.
LEMMA ChunkerSound ==
  ASSUME IInv, DataTypes, NEW u \in Uplinks, Sound(u), ChunkerStep(u)
  PROVE  Sound(u)'
<1> USE DEF mainVars, chkVars, sndVars, conVars
<1>0. PerUplink
  BY Domains
<1>1. UNCHANGED <<done, sndVars, conVars>>
  BY DEF ChunkerStep, ChunkerTakes, ChunkerGivesUp, ChunkerReplies, ChunkerEnds
<1>2. WireKept(u)
  BY <1>1, WireSame DEF WireKept
<1>3. (OnCon(u)' <=> OnCon(u)) /\ (Carried(u)' <=> Carried(u)) /\ (Landed(u)' <=> Landed(u)) /\ (ByMain(u)' <=> ByMain(u))
  BY <1>1 DEF OnCon, Busy, Carried, Landed, ByMain
<1>4. (CancelTold(u)' <=> CancelTold(u))
  BY <1>1, <1>2 DEF CancelTold, WireKept
<1>5. Begun(u)'
  BY <1>1, <1>2, <1>3 DEF Sound, Begun, WireKept
<1>6. \/ chk'[u] = chk[u] /\ flushing'[u] = flushing[u]
      \/ ~done[u] /\ chk[u] = "recv" /\ chk'[u] \in {"offer", "reply"}
      \/ done[u] /\ ~flushing[u] /\ chk[u] \in {"offer", "await"} /\ chk'[u] = "reply" /\ flushing'[u] = flushing[u]
      \/ chk[u] = "reply" /\ chk'[u] = "recv" /\ flushing'[u] = flushing[u]
      \/ chk[u] = "recv" /\ chk'[u] = "ended" /\ flushing'[u] = flushing[u]
  <2>1. CASE ChunkerTakes(u)
    BY <1>0, <2>1, ReadyStage DEF ChunkerTakes, PerUplink
  <2>2. CASE ChunkerGivesUp(u)
    BY <1>0, <2>2 DEF ChunkerGivesUp, ChunkPushed, PerUplink
  <2>3. CASE ChunkerReplies(u) \/ ChunkerEnds(u)
    BY <1>0, <2>3 DEF ChunkerReplies, ChunkerEnds, PerUplink
  <2> QED
    BY <2>1, <2>2, <2>3 DEF ChunkerStep
<1>7. Gone(u) => Gone(u)'
  BY <1>1, <1>3, <1>6 DEF Gone
<1>8. Paired(u)'
  BY <1>1, <1>3, <1>6, <1>7 DEF Sound, Paired
<1>9. Placed(u)'
  BY <1>1, <1>2, <1>3, <1>7 DEF Sound, Placed, WireKept
<1>10. \/ main'[u] = main[u] /\ err'[u] = err[u]
       \/ main[u] # "cancelled" /\ main'[u] \in {"recv", "flush", "flushed", "await", "cancel"}
       \/ main[u] # "cancelled" /\ main'[u] = "close" /\ err'[u] = "nil"
  <2>1. CASE ChunkerTakes(u)
    BY <1>0, <2>1 DEF ChunkerTakes, PerUplink
  <2>2. CASE ChunkerGivesUp(u) \/ ChunkerEnds(u)
    BY <2>2 DEF ChunkerGivesUp, ChunkerEnds
  <2>3. CASE ChunkerReplies(u)
    BY <1>0, <2>3 DEF ChunkerReplies, PerUplink
  <2> QED
    BY <2>1, <2>2, <2>3 DEF ChunkerStep
<1>11. Told(u)'
  BY <1>1, <1>3, <1>4, <1>10 DEF Sound, Told
<1> QED
  BY <1>5, <1>8, <1>9, <1>11 DEF Sound

\* The steps of uplinkFile's goroutine.
LEMMA SenderSound ==
  ASSUME IInv, DataTypes, NEW u \in Uplinks, Sound(u), SenderStep(u)
  PROVE  Sound(u)'
<1> USE DEF mainVars, chkVars, sndVars, conVars
<1>0. PerUplink
  BY Domains
<1>1. UNCHANGED <<mainVars, done, conVars>>
  BY DEF SenderStep, SenderTakes, SenderGivesUp, SenderReplies, SenderEnds
<1>2. WireKept(u)
  BY <1>1, WireSame DEF WireKept
<1>3. (OnCon(u)' <=> OnCon(u)) /\ (ByMain(u)' <=> ByMain(u)) /\ (CancelTold(u)' <=> CancelTold(u))
  BY <1>1, <1>2 DEF OnCon, Busy, ByMain, CancelTold, WireKept
<1>4. Told(u)'
  BY <1>1, <1>3 DEF Sound, Told
<1>5. CASE SenderTakes(u)
  <2>1. /\ chk[u] = "offer" /\ snd[u] = "recv" /\ chk'[u] = "await" /\ flushing' = flushing
        /\ UNCHANGED <<started, offset, finished>>
    BY <1>0, <1>5 DEF SenderTakes, PerUplink
  <2>2. \/ done[u] /\ ~flushing[u] /\ UNCHANGED sndVars
        \/ /\ sndBg'[u] = flushing[u] /\ pkt'[u] = (IF started[u] THEN "data" ELSE "start")
           /\ \/ snd'[u] = "reply" /\ sndErr'[u] = "past the end"
              \/ snd'[u] = "offer" /\ ~finished[u]
    BY <1>0, <1>5 DEF SenderTakes, PerUplink
  <2>3. ~OnCon(u) /\ ~Gone(u)
    BY <2>1 DEF Sound, Paired, Carried, Gone
  <2>4. Paired(u)'
    BY <1>1, <1>3, <2>1, <2>2, <2>3 DEF Sound, Paired
  <2>5. Placed(u)'
    BY <1>2, <1>3, <2>1, <2>3 DEF Sound, Placed, WireKept, Landed
  <2>6. Begun(u)'
    BY <1>1, <1>2, <1>3, <2>1, <2>2, <2>3 DEF Sound, Begun, WireKept
  <2> QED
    BY <1>4, <2>4, <2>5, <2>6 DEF Sound
<1>6. CASE SenderGivesUp(u)
  <2>1. /\ snd[u] \in {"offer", "await"} /\ done[u] /\ ~sndBg[u] /\ snd'[u] = "reply" /\ sndErr'[u] = "ctx"
        /\ UNCHANGED <<chkVars, sndBg, chunk, pkt, started, offset, finished>>
    BY <1>0, <1>6 DEF SenderGivesUp, PacketPushed, PerUplink
  <2>2. Gone(u)'
    BY <1>1, <1>3, <2>1 DEF Sound, Paired, Gone
  <2>3. Paired(u)'
    BY <1>1, <1>3, <2>1, <2>2 DEF Sound, Paired
  <2>4. Placed(u)'
    BY <1>1, <1>2, <1>3, <2>1, <2>2 DEF Sound, Placed, WireKept, Landed
  <2>5. Begun(u)'
    BY <1>1, <1>2, <1>3, <2>1 DEF Sound, Begun, WireKept
  <2> QED
    BY <1>4, <2>3, <2>4, <2>5 DEF Sound
<1>7. CASE SenderReplies(u)
  <2>1. /\ snd[u] = "reply" /\ snd'[u] = "recv"
        /\ UNCHANGED <<sndBg, sndErr, chunk, pkt, started, offset, finished>>
    BY <1>0, <1>7 DEF SenderReplies, PerUplink
  <2>2. \/ chk[u] = "await" /\ flushing' = flushing /\ chk'[u] = "reply" /\ sndErr[u] # "nil"
        \/ chk[u] = "await" /\ flushing' = flushing /\ chk'[u] \in {"offer", "reply"} /\ sndErr[u] = "nil"
        \/ done[u] /\ ~sndBg[u] /\ UNCHANGED chkVars
    BY <1>0, <1>7, ReadyStage DEF SenderReplies, ChunkPushed, PerUplink
  <2>3. OnCon(u) => Gone(u)
    BY <2>1 DEF Sound, Paired, Carried
  <2>4. Gone(u) => Gone(u)'
    BY <1>1, <1>3, <2>1, <2>2 DEF Gone
  <2>5. ~Landed(u) /\ ~Landed(u)'
    BY <2>1 DEF Landed
  <2>6. Paired(u)'
    BY <1>1, <1>3, <2>1, <2>2, <2>3, <2>4 DEF Sound, Paired
  <2>7. Placed(u)'
    BY <1>1, <1>2, <1>3, <2>1, <2>4, <2>5 DEF Sound, Placed, WireKept
  <2>8. Begun(u)'
    BY <1>1, <1>2, <1>3, <2>1 DEF Sound, Begun, WireKept
  <2> QED
    BY <1>4, <2>6, <2>7, <2>8 DEF Sound
<1>8. CASE SenderEnds(u)
  <2>1. /\ snd[u] = "recv" /\ snd'[u] = "ended" /\ chk[u] = "ended"
        /\ UNCHANGED <<chkVars, sndBg, sndErr, chunk, pkt, started, offset, finished>>
    BY <1>0, <1>8 DEF SenderEnds, PerUplink
  <2>2. (Gone(u) => Gone(u)') /\ ~Landed(u) /\ ~Landed(u)'
    BY <1>1, <1>3, <2>1 DEF Gone, Landed
  <2>3. Paired(u)'
    BY <1>1, <1>3, <2>1, <2>2 DEF Sound, Paired, Carried
  <2>4. Placed(u)' /\ Begun(u)'
    BY <1>1, <1>2, <1>3, <2>1, <2>2 DEF Sound, Placed, Begun, WireKept
  <2> QED
    BY <1>4, <2>3, <2>4 DEF Sound
<1> QED
  BY <1>5, <1>6, <1>7, <1>8 DEF SenderStep

\* The connection takes a packet, or drops it.
LEMMA TakesSound ==
  ASSUME IInv, DataTypes, NEW u \in Uplinks, Sound(u), ConTakes(u)
  PROVE  Sound(u)'
<1> USE DEF mainVars, chkVars, sndVars, conVars
<1>0. PerUplink
  BY Domains
<1>1. /\ UNCHANGED <<mainVars, done, chkVars, sndBg, sndErr, chunk, pkt, started, offset, finished, wire, failed>>
      /\ snd[u] = "offer" /\ snd'[u] = "await" /\ ~Busy
  BY <1>0 DEF ConTakes, PerUplink, Busy
<1>2. \/ done[u] /\ ~sndBg[u] /\ con' = con
      \/ /\ con'.stage = "write" /\ con'.from = u /\ con'.by = "snd" /\ con'.kind = pkt[u] /\ con'.off = offset[u]
         /\ con'.lo = chunk[u].lo /\ con'.len = chunk[u].hi - chunk[u].lo
  BY DEF ConTakes, Idle
<1>3. WireKept(u)
  BY <1>1, WireSame DEF WireKept
<1>4. ~OnCon(u) /\ ~ByMain(u) /\ ~ByMain(u)' /\ ~Landed(u) /\ ~Landed(u)' /\ ~Gone(u) /\ (CancelTold(u)' <=> CancelTold(u))
  BY <1>1, <1>2, <1>3 DEF OnCon, Busy, ByMain, Landed, Gone, CancelTold, WireKept
<1>5. OnCon(u)' => con'.stage = "write" /\ Carried(u)'
  BY <1>1, <1>2 DEF OnCon, Busy, Carried
<1>6. ~OnCon(u)' => done[u] /\ ~sndBg[u]
  BY <1>2 DEF OnCon, Busy
<1>7. Paired(u)'
  BY <1>1, <1>4, <1>5, <1>6 DEF Sound, Paired
<1>8. Length(u) = offset[u] /\ Contiguous(u)
  BY <1>4 DEF Sound, Placed
<1>9. Placed(u)'
  BY <1>1, <1>3, <1>4, <1>5, <1>8 DEF Placed, WireKept, Carried
<1>10. pkt[u] \in {"start", "data", "end"}
  BY DEF DataTypes
<1>11. Begun(u)'
  BY <1>1, <1>3, <1>4, <1>5, <1>10 DEF Sound, Begun, WireKept, Carried
<1>12. Told(u)'
  BY <1>1, <1>4 DEF Sound, Told
<1> QED
  BY <1>7, <1>9, <1>11, <1>12 DEF Sound

\* The connection writes a packet, or fails to.
LEMMA WritesSound ==
  ASSUME IInv, DataTypes, NEW u \in Uplinks, Sound(u), con.from = u, ConWrites
  PROVE  Sound(u)'
<1> USE DEF mainVars, chkVars, sndVars, conVars
<1>0. PerUplink
  BY Domains
<1>1. /\ UNCHANGED <<mainVars, done, chkVars, sndVars>> /\ con.stage = "write"
      /\ \E e \in {"nil", "ctx", "write"} : con' = [con EXCEPT !.stage = "reply", !.err = e]
  BY DEF ConWrites
<1>2. /\ con'.stage = "reply" /\ con'.from = con.from /\ con'.by = con.by /\ con'.kind = con.kind
      /\ con'.off = con.off /\ con'.lo = con.lo /\ con'.len = con.len
  BY <1>1 DEF IInv, Types
<1>3. \/ /\ wire' = Append(wire, Written) /\ failed' = failed /\ con'.err # "write"
         /\ con'.err = "ctx" => done[u] /\ con.by # "main" /\ ~sndBg[u]
      \/ wire' = wire /\ con'.err = "write" /\ failed'[u] = failed[u] \cup {con.kind}
  BY <1>0 DEF ConWrites, Written, Background, IInv, Types, PerUplink
<1>4. Written \in Packet /\ Written.from = u /\ Written.kind = con.kind /\ wire \in Seq(Packet)
      /\ Written.off = con.off /\ Written.len = con.len
  BY DEF DataTypes, Packet, Written
<1>5. Busy /\ Busy' /\ (OnCon(u)' <=> OnCon(u)) /\ (ByMain(u)' <=> ByMain(u)) /\ (Carried(u)' <=> Carried(u)) /\ ~Landed(u)
  BY <1>1, <1>2 DEF OnCon, Busy, ByMain, Carried, Landed
<1>6. Gone(u)' <=> Gone(u)
  BY <1>1, <1>5 DEF Gone
<1>7. OnCon(u) \/ ByMain(u)
  BY <1>5 DEF OnCon, ByMain, DataTypes
<1>8. Paired(u)'
  <2>1. OnCon(u)' /\ con'.err = "ctx" => done[u] /\ ~sndBg[u]
    BY <1>3 DEF OnCon
  <2> QED
    BY <1>1, <1>5, <1>6, <2>1 DEF Sound, Paired
<1>9. /\ \A k : Sent(u, k) => Sent(u, k)'
      /\ \A k : Sent(u, k)' => Sent(u, k) \/ (con.kind = k /\ con'.err # "write")
      /\ \A k : con.kind = k /\ con'.err # "write" => Sent(u, k)'
      /\ con'.err = "write" => con.kind \in failed'[u]
      /\ \A k \in failed[u] : k \in failed'[u]
  <2>1. CASE wire' = Append(wire, Written) /\ failed' = failed /\ con'.err # "write"
    <3>1. \A k : Sent(u, k)' <=> Sent(u, k) \/ con.kind = k
      BY <1>4, <2>1, WireGrows
    <3> QED
      BY <2>1, <3>1
  <2>2. CASE wire' = wire /\ con'.err = "write" /\ failed'[u] = failed[u] \cup {con.kind}
    BY <2>2, WireSame
  <2> QED
    BY <1>3, <2>1, <2>2
<1>10. Told(u)'
  <2>1. CancelTold(u) => CancelTold(u)'
    BY <1>9 DEF CancelTold
  <2>2. con.kind = "cancel" => CancelTold(u)'
    BY <1>9 DEF CancelTold
  <2> QED
    BY <1>1, <1>2, <1>5, <2>1, <2>2 DEF Sound, Told
<1>11. CASE ~(OnCon(u) /\ con.kind = "data" /\ con'.err # "write")
  <2>1. Length(u)' = Length(u) /\ (Contiguous(u)' <=> Contiguous(u))
    <3>1. con.kind = "data" => OnCon(u)
      BY <1>7 DEF Sound, Told
    <3> QED
      BY <1>3, <1>4, <1>11, <3>1, WireGrows, WireSame
  <2>2. ~Landed(u)'
    BY <1>2, <1>5, <1>11 DEF Landed
  <2>3. Placed(u)'
    BY <1>1, <1>2, <1>5, <1>6, <2>1, <2>2 DEF Sound, Placed
  <2>4. Begun(u)'
    BY <1>1, <1>2, <1>5, <1>7, <1>9, <2>1 DEF Sound, Begun, Told
  <2> QED
    BY <1>8, <1>10, <2>3, <2>4 DEF Sound
<1>12. CASE OnCon(u) /\ con.kind = "data" /\ con'.err # "write"
  <2>1. con.off = Length(u) /\ con.off \in Nat /\ con.len \in Nat
    BY <1>1, <1>12 DEF Sound, Placed, DataTypes
  <2>2. Length(u)' = con.off + con.len /\ Contiguous(u)'
    BY <1>3, <1>4, <1>12, <2>1, WireGrows DEF Sound, Placed
  <2>3. Placed(u)'
    BY <1>1, <1>2, <1>5, <1>6, <1>12, <2>2 DEF Sound, Placed, Landed, Paired, Carried
  <2>4. Size \in Nat /\ Length(u)' \in Nat /\ Length(u)' >= Length(u)
    BY <2>1, <2>2, UplinkAssumption
  <2>5. Begun(u)'
    BY <1>1, <1>2, <1>5, <1>9, <1>12, <2>1, <2>4 DEF Sound, Begun
  <2> QED
    BY <1>8, <1>10, <2>3, <2>5 DEF Sound
<1> QED
  BY <1>11, <1>12

\* The connection replies, or nobody takes its reply.
LEMMA RepliesSound ==
  ASSUME IInv, DataTypes, NEW u \in Uplinks, Sound(u), con.from = u, ConReplies
  PROVE  Sound(u)'
<1> USE DEF mainVars, chkVars, sndVars, conVars
<1>0. PerUplink
  BY Domains
<1>1. con.stage = "reply" /\ con' = Idle /\ UNCHANGED <<err, pos, source, done, chkVars, wire, failed>>
  BY DEF ConReplies
<1>2. Busy /\ ~Busy' /\ ~OnCon(u)' /\ ~ByMain(u)' /\ ~Landed(u)'
  BY <1>1 DEF Busy, OnCon, ByMain, Landed, Idle
<1>3. WireKept(u) /\ (CancelTold(u)' <=> CancelTold(u))
  BY <1>1, WireSame DEF WireKept, CancelTold
<1>4. CASE con.by = "main" /\ main[u] = "cancelled" /\ main' = [main EXCEPT ![u] = "close"] /\ UNCHANGED sndVars
  <2>1. main'[u] = "close" /\ ByMain(u) /\ ~OnCon(u) /\ ~Landed(u)
    BY <1>0, <1>2, <1>4 DEF PerUplink, ByMain, OnCon, Landed
  <2>2. Gone(u)' <=> Gone(u)
    BY <1>1, <1>2, <1>4, <2>1 DEF Gone
  <2>3. Paired(u)'
    BY <1>1, <1>2, <1>4, <2>1 DEF Sound, Paired
  <2>4. Placed(u)' /\ Begun(u)'
    BY <1>1, <1>2, <1>3, <1>4, <2>1, <2>2 DEF Sound, Placed, Begun, WireKept
  <2>5. Told(u)'
    BY <1>1, <1>2, <1>3, <2>1 DEF Sound, Told
  <2> QED
    BY <2>3, <2>4, <2>5 DEF Sound
<1>5. CASE con.by = "snd" /\ snd[u] = "await" /\ PacketPushed(u, con.err) /\ UNCHANGED <<main, sndBg, chunk>>
  <2> DEFINE len == chunk[u].hi - chunk[u].lo
  <2>1. OnCon(u) /\ ~ByMain(u) /\ Carried(u)
    BY <1>2, <1>5 DEF OnCon, ByMain, Sound, Paired, Gone
  <2>2. Told(u)'
    BY <1>1, <1>2, <1>3, <1>5, <2>1 DEF Sound, Told
  <2>3. CASE con.err # "nil"
    <3>1. snd'[u] = "reply" /\ sndErr'[u] = con.err /\ UNCHANGED <<pkt, started, offset, finished>>
      BY <1>0, <1>5, <2>3 DEF PacketPushed, PerUplink
    <3>2. Paired(u)'
      BY <1>1, <1>2, <1>5, <2>1, <3>1 DEF Sound, Paired
    <3>3. con.err = "ctx" => Gone(u)'
      BY <1>1, <1>2, <1>5, <2>1, <2>3, <3>1 DEF Sound, Paired, Gone
    <3>4. con.err = "write" => Length(u) = offset[u]
      BY <1>5, <2>1 DEF Sound, Placed, Landed, Gone
    <3>5. con.err \in {"ctx", "write"}
      BY <2>3 DEF DataTypes
    <3>6. Placed(u)'
      BY <1>1, <1>2, <1>3, <3>1, <3>3, <3>4, <3>5 DEF Sound, Placed, WireKept
    <3>7. Begun(u)'
      BY <1>1, <1>2, <1>3, <1>5, <3>1 DEF Sound, Begun, WireKept
    <3> QED
      BY <2>2, <3>2, <3>6, <3>7 DEF Sound
  <2>4. CASE con.err = "nil" /\ pkt[u] = "start"
    <3>1. started'[u] /\ pkt'[u] = "data" /\ snd'[u] = "offer" /\ UNCHANGED <<sndErr, offset, finished>>
      BY <1>0, <1>5, <2>4 DEF PacketPushed, PerUplink
    <3>2. Length(u) = offset[u] /\ Sent(u, "start")
      BY <1>1, <1>5, <2>1, <2>4 DEF Sound, Placed, Begun, Landed, Gone, Carried
    <3>3. Paired(u)'
      BY <1>1, <1>2, <1>5, <2>1, <3>1 DEF Sound, Paired
    <3>4. Placed(u)'
      BY <1>1, <1>2, <1>3, <3>1, <3>2 DEF Sound, Placed, WireKept
    <3>5. Begun(u)'
      BY <1>1, <1>2, <1>3, <1>5, <3>1, <3>2 DEF Sound, Begun, WireKept
    <3> QED
      BY <2>2, <3>3, <3>4, <3>5 DEF Sound
  <2>5. CASE con.err = "nil" /\ pkt[u] = "data"
    <3>1. /\ offset'[u] = offset[u] + len /\ (finished'[u] <=> offset[u] + len >= Size) /\ started' = started
          /\ pkt'[u] = (IF finished'[u] THEN "end" ELSE "data")
          /\ snd'[u] = (IF finished'[u] THEN "offer" ELSE "reply") /\ sndErr' = sndErr
      BY <1>0, <1>5, <2>5 DEF PacketPushed, PerUplink
    <3>2. Length(u) = offset[u] + len /\ started[u]
      BY <1>1, <1>5, <2>1, <2>5 DEF Sound, Placed, Landed, Carried, Begun
    <3>3. offset[u] + len \in Nat
      BY DEF DataTypes, Span
    <3> HIDE DEF len
    <3>4. Paired(u)'
      BY <1>1, <1>2, <1>5, <2>1, <3>1 DEF Sound, Paired
    <3>5. Placed(u)'
      BY <1>1, <1>2, <1>3, <3>1, <3>2 DEF Sound, Placed, WireKept
    <3>6. Begun(u)'
      BY <1>1, <1>2, <1>3, <3>1, <3>2, <3>3 DEF Sound, Begun, WireKept
    <3> QED
      BY <2>2, <3>4, <3>5, <3>6 DEF Sound
  <2>6. CASE con.err = "nil" /\ pkt[u] = "end"
    <3>1. snd'[u] = "reply" /\ UNCHANGED <<pkt, started, offset, finished>>
      BY <1>0, <1>5, <2>6 DEF PacketPushed, PerUplink
    <3>2. Length(u) = offset[u]
      BY <1>5, <2>1, <2>6 DEF Sound, Placed, Landed, Gone, Carried
    <3>3. Paired(u)'
      BY <1>1, <1>2, <1>5, <2>1, <3>1 DEF Sound, Paired
    <3>4. Placed(u)'
      BY <1>1, <1>2, <1>3, <3>1, <3>2 DEF Sound, Placed, WireKept
    <3>5. Begun(u)'
      BY <1>1, <1>2, <1>3, <1>5, <3>1 DEF Sound, Begun, WireKept
    <3> QED
      BY <2>2, <3>3, <3>4, <3>5 DEF Sound
  <2>7. pkt[u] \in {"start", "data", "end"}
    BY DEF DataTypes
  <2> QED
    BY <2>3, <2>4, <2>5, <2>6, <2>7
<1>6. CASE done[u] /\ ~Background /\ UNCHANGED <<main, sndVars>>
  <2>1. con.by = "snd" /\ ~sndBg[u]
    BY <1>6 DEF Background, DataTypes
  <2>2. OnCon(u) /\ ~ByMain(u)
    BY <1>2, <2>1 DEF OnCon, ByMain
  <2>3. Paired(u)'
    BY <1>1, <1>2, <1>6, <2>1, <2>2 DEF Sound, Paired
  <2>4. Gone(u)' \/ (snd[u] = "await" /\ ~Gone(u))
    BY <1>1, <1>2, <1>6, <2>2 DEF Gone, Sound, Paired, Carried
  <2>5. snd[u] = "await" => Gone(u)'
    BY <1>1, <1>2, <1>6, <2>1, <2>2 DEF Gone, Sound, Paired
  <2>6. Placed(u)'
    BY <1>1, <1>2, <1>3, <2>4, <2>5 DEF Sound, Placed, WireKept
  <2>7. Begun(u)' /\ Told(u)'
    BY <1>1, <1>2, <1>3, <1>6, <2>2 DEF Sound, Begun, Told, WireKept
  <2> QED
    BY <2>3, <2>6, <2>7 DEF Sound
<1> QED
  BY <1>4, <1>5, <1>6 DEF ConReplies

\* Everything so far, in every reachable state.
AllSound == \A u \in Uplinks : Sound(u)
Inv == IInv /\ DataTypes /\ AllSound

THEOREM SoundInductive == ASSUME None \notin Uplinks PROVE Spec => []Inv
<1>1. Init => AllSound
  <2> SUFFICES ASSUME Init, NEW u \in Uplinks PROVE Sound(u)
    BY DEF AllSound
  <2>1. wire = <<>> /\ Len(wire) = 0 /\ con.stage = "recv"
    BY DEF Init, Idle
  <2>2. DataAt(u) = {} /\ \A k : ~Sent(u, k)
    BY <2>1 DEF DataAt, Sent
  <2>3. Length(u) = 0 /\ Contiguous(u)
    BY <2>2 DEF Length, EndOf, Contiguous
  <2>4. ~OnCon(u) /\ ~ByMain(u) /\ ~Landed(u)
    BY <2>1 DEF OnCon, ByMain, Busy, Landed
  <2>5. Paired(u) /\ Placed(u) /\ Told(u) /\ Begun(u)
    BY <2>2, <2>3, <2>4 DEF Paired, Placed, Told, Begun, Init
  <2> QED
    BY <2>5 DEF Sound
<1>2. IInv /\ DataTypes /\ AllSound /\ [Next]_vars => AllSound'
  <2> SUFFICES ASSUME IInv, DataTypes, AllSound, [Next]_vars, NEW v \in Uplinks PROVE Sound(v)'
    BY DEF AllSound
  <2>a. \A u \in Uplinks : Sound(u)
    BY DEF AllSound
  <2>1. ASSUME NEW u \in Uplinks, Untouched(v) \/ (u = v /\ Sound(v)') PROVE Sound(v)'
    BY <2>a, <2>1, UntouchedSound
  <2>2. ASSUME NEW u \in Uplinks, UplinkStep(u) \/ CancelContext(u) PROVE Sound(v)'
    BY <2>a, <2>2, <2>1, OthersUntouched, UplinkSound
  <2>3. ASSUME NEW u \in Uplinks, ChunkerStep(u) PROVE Sound(v)'
    BY <2>a, <2>3, <2>1, OthersUntouched, ChunkerSound
  <2>4. ASSUME NEW u \in Uplinks, SenderStep(u) PROVE Sound(v)'
    BY <2>a, <2>4, <2>1, OthersUntouched, SenderSound
  <2>5. ASSUME NEW u \in Uplinks, ConTakes(u) PROVE Sound(v)'
    BY <2>a, <2>5, <2>1, OthersUntouched, TakesSound
  <2>6. CASE ConWrites \/ ConReplies
    <3>1. con.from \in Uplinks
      BY <2>6 DEF ConWrites, ConReplies, IInv, Seen, Busy
    <3>2. Untouched(v) \/ con.from = v
      BY <2>6, <3>1, OthersUntouched
    <3> QED
      BY <2>a, <2>6, <3>2, UntouchedSound, WritesSound, RepliesSound
  <2>7. CASE UNCHANGED vars
    <3>1. UNCHANGED <<mainVars, done, chkVars, sndVars, conVars>>
      BY <2>7 DEF vars
    <3>2. Untouched(v)
      BY <3>1, WireSame DEF Untouched, SndKept, ChkKept, MainKept, WireKept, mainVars, chkVars, sndVars, conVars
    <3> QED
      BY <2>a, <3>2, UntouchedSound
  <2>8. CASE LinkStep
    BY <2>a, <2>8, LinkUntouched, UntouchedSound
  <2> QED
    BY <2>2, <2>3, <2>4, <2>5, <2>6, <2>7, <2>8 DEF Next, ConStep, LinkStep
<1> QED
  BY <1>1, <1>2, DataInductive, PTL DEF Spec, Inv

\* What the flight software sees of the uplinks: one after the other, and none that is
\* ended by an end packet lacks its start packet or has a gap, whatever writes failed and
\* wherever an uplink was cancelled.
THEOREM TheWireIsSound == ASSUME None \notin Uplinks PROVE Spec => []WireIsSound
<1>1. Inv => WireIsSound
  <2> SUFFICES ASSUME Inv PROVE WireIsSound
    OBVIOUS
  <2>1. NoInterleaving
    BY DEF Inv, IInv
  <2>2. TypeOK
    <3>2. \A u \in Uplinks : buf[u].lo <= buf[u].hi /\ chunk[u].lo <= chunk[u].hi
      BY DEF Inv, DataTypes, Span
    <3> QED
      BY <3>2 DEF Inv, IInv, Types, DataTypes, TypeOK
  <2>3. EndMeansCovered
    BY DEF EndMeansCovered, Inv, AllSound, Sound, Begun, Placed
  <2> QED
    BY <2>1, <2>2, <2>3 DEF WireIsSound
<1> QED
  BY <1>1, SoundInductive, PTL

-----------------------------------------------------------------------------
(* Where the client's bytes are while nothing has gone wrong.               *)

\* Nothing that can fail has failed.
Clean(u) ==
  /\ ~done[u] /\ failed[u] = {} /\ pos[u] <= Size /\ source[u] # "source"
  /\ main[u] \notin {"refused", "toobig", "rejected"}

\* Uplink has not left its loop, or nothing has gone wrong.
Going(u) == main[u] \in {"idle", "recv", "offer", "await"} \/ Clean(u)

\* The packets written carry the client's stream up to the offset of uplinkFile's goroutine.
Aligned(u) ==
  /\ InOrder(u) /\ Length(u) = offset[u]
  /\ finished[u] <=> offset[u] > 0 /\ offset[u] >= Size
EndSent(u) == Clean(u) /\ finished[u] => Sent(u, "end")

\* No chunk is on its way.
Still(u) ==
  /\ snd[u] \in {"recv", "ended"} /\ ~OnCon(u)
  /\ Aligned(u) /\ offset[u] = buf[u].lo /\ EndSent(u)

\* The chunker has a chunk to push.
Ready(u) == buf[u].hi - buf[u].lo >= ChunkSize \/ (flushing[u] /\ buf[u].hi > buf[u].lo)

\* A packet of the chunk in hand is on its way.
Push(u) ==
  /\ chunk[u] = FirstChunk(buf[u]) /\ buf[u].lo < buf[u].hi /\ sndErr[u] = "nil"
  /\ Landed(u) => offset[u] = chunk[u].lo /\ InOrder(u) /\ Length(u) = chunk[u].hi /\ ~finished[u]
  /\ ~Landed(u) /\ pkt[u] # "end" => Aligned(u) /\ offset[u] = chunk[u].lo /\ ~finished[u]
  /\ ~Landed(u) /\ pkt[u] = "end" => Aligned(u) /\ offset[u] = chunk[u].hi
  /\ OnCon(u) /\ con.stage = "reply" =>
       (Clean(u) => con.err = "nil") /\ (pkt[u] = "end" /\ con.err # "write" => Sent(u, "end"))

\* The chunk in hand was pushed.
Pushed(u) ==
  /\ sndErr[u] = "nil" =>
       /\ ~OnCon(u) /\ chunk[u] = FirstChunk(buf[u]) /\ buf[u].lo < buf[u].hi
       /\ Aligned(u) /\ offset[u] = chunk[u].hi /\ EndSent(u)
  /\ Clean(u) => sndErr[u] = "nil"

\* The chunker works on what Uplink handed it.
Work(u) ==
  /\ (flushing[u] <=> main[u] = "flushed") /\ buf[u].hi = pos[u]
  /\ chk[u] = "offer" => Still(u) /\ Ready(u)
  /\ chk[u] = "await" =>
       /\ snd[u] \in {"recv", "ended"} => done[u]
       /\ snd[u] = "offer" \/ (snd[u] = "await" /\ OnCon(u)) => Push(u)
       /\ snd[u] = "reply" => Pushed(u)
  /\ chk[u] = "reply" => (chkErr[u] = "nil" => Still(u) /\ ~Ready(u)) /\ (Clean(u) => chkErr[u] = "nil")

\* Where the bytes are, for each stage of Uplink.
Idling(u) == chk[u] \in {"recv", "ended"} /\ Still(u) /\ buf[u].hi - buf[u].lo < ChunkSize
Flow(u) ==
  /\ main[u] \notin {"cancel", "cancelled"}
  /\ main[u] \in {"idle", "recv", "offer", "await"} => source[u] = "open"
  /\ main[u] \notin {"await", "flushed"} => Idling(u)
  /\ main[u] \notin {"await", "flushed", "offer"} => buf[u].hi = pos[u]
  /\ main[u] \in {"await", "flushed"} => chk[u] # "ended" /\ (chk[u] = "recv" => done[u]) /\ (chk[u] # "recv" => Work(u))
  /\ main[u] \in {"close", "wait", "returned"} => err[u] = "nil" /\ buf[u].lo = buf[u].hi

Flows(u) == Going(u) => Flow(u)

\* What is said of v stays true while nothing of v's changes.
LEMMA UntouchedFlows == ASSUME NEW v \in Uplinks, Untouched(v), Flows(v) PROVE Flows(v)'
<1> USE DEF Untouched, SndKept, ChkKept, MainKept, WireKept
<1>1. (OnCon(v)' <=> OnCon(v)) /\ (OnCon(v) => con' = con)
  BY DEF OnCon, Busy
<1>2. Landed(v)' <=> Landed(v)
  BY <1>1 DEF Landed
<1>3. (Clean(v)' <=> Clean(v)) /\ (Going(v)' <=> Going(v)) /\ (Ready(v)' <=> Ready(v))
  BY DEF Clean, Going, Ready
<1>4. (Aligned(v)' <=> Aligned(v)) /\ (EndSent(v)' <=> EndSent(v))
  BY <1>3 DEF Aligned, EndSent
<1>5. Still(v)' <=> Still(v)
  BY <1>1, <1>4 DEF Still
<1>6. Push(v) => Push(v)'
  BY <1>1, <1>2, <1>3, <1>4 DEF Push, Landed
<1>7. Pushed(v) => Pushed(v)'
  BY <1>1, <1>3, <1>4 DEF Pushed
<1>8. Work(v) => Work(v)'
  BY <1>1, <1>3, <1>5, <1>6, <1>7 DEF Work
<1> QED
  BY <1>3, <1>5, <1>8 DEF Flows, Flow, Idling

\* What depends on the wire, the connection and the sender only.
LEMMA SndSame ==
  ASSUME NEW u \in Uplinks, WireKept(u), SndKept(u), con' = con
  PROVE  /\ OnCon(u)' <=> OnCon(u)
         /\ Landed(u)' <=> Landed(u)
         /\ Aligned(u)' <=> Aligned(u)
<1>1. OnCon(u)' <=> OnCon(u)
  BY DEF OnCon, Busy
<1> QED
  BY <1>1 DEF Landed, Aligned, WireKept, SndKept

\* The steps of Fsw.Uplink and the cancellation of its context.
LEMMA UplinkFlows ==
  ASSUME IInv, DataTypes, NEW u \in Uplinks, Sound(u), Flows(u), UplinkStep(u) \/ CancelContext(u)
  PROVE  Flows(u)'
<1> USE DEF mainVars, chkVars, sndVars, conVars
<1>0. PerUplink
  BY Domains
<1> SUFFICES ASSUME Going(u)' PROVE Flow(u)'
  BY DEF Flows
<1>1. CASE OfferCancel(u)
  <2>1. main[u] = "cancel" /\ main'[u] = "cancelled" /\ UNCHANGED <<done, failed, pos, source>>
    BY <1>0, <1>1 DEF OfferCancel, PerUplink
  <2> QED
    BY <2>1 DEF Going, Clean, Flows, Flow
<1>2. CASE GiveUp(u)
  <2>1. done'[u] /\ main'[u] \in {"flush", "cancel"}
    BY <1>0, <1>2 DEF GiveUp, PerUplink
  <2> QED
    BY <2>1 DEF Going, Clean
<1>3. CASE Refuse(u) \/ Reject(u) \/ (Begin(u) /\ main'[u] = "toobig")
  <2>1. main'[u] \in {"refused", "rejected", "toobig"}
    BY <1>0, <1>3 DEF Refuse, Reject, PerUplink
  <2> QED
    BY <2>1 DEF Going, Clean
<1>4. CASE (Begin(u) /\ main'[u] # "toobig") \/ Recv(u) \/ CloseUplinker(u) \/ Return(u) \/ CancelContext(u)
  <2>1. UNCHANGED <<chkVars, sndVars, conVars>>
    BY <1>4 DEF Begin, Recv, CloseUplinker, Return, CancelContext
  <2>2. SndKept(u) /\ ChkKept(u) /\ WireKept(u)
    BY <2>1, WireSame DEF SndKept, ChkKept, WireKept
  <2>3. \/ main[u] = "idle" /\ main'[u] = "recv" /\ UNCHANGED <<err, pos, source, done>>
        \/ main[u] = "recv" /\ main'[u] = "offer" /\ pos'[u] >= pos[u] /\ UNCHANGED <<err, source, done>>
        \/ main[u] = "recv" /\ main'[u] = "flush" /\ source'[u] = err'[u] /\ err'[u] \in {"eof", "source"} /\ UNCHANGED <<pos, done>>
        \/ main[u] = "close" /\ main'[u] = "wait" /\ UNCHANGED <<err, pos, source, done>>
        \/ main[u] = "wait" /\ main'[u] = "returned" /\ UNCHANGED <<err, pos, source, done>>
        \/ done'[u] /\ UNCHANGED <<main, err, pos, source>>
    <3>1. pos[u] \in Nat
      BY DEF DataTypes
    <3>2. CASE Recv(u)
      <4>0. (IF u \in Faulty THEN 1 .. MaxRecv ELSE {Size}) \subseteq Nat
        BY UplinkAssumption
      <4>1. CASE \E n \in Nat : pos' = [pos EXCEPT ![u] = @ + n] /\ main' = [main EXCEPT ![u] = "offer"] /\ UNCHANGED <<err, source>>
        BY <1>0, <3>1, <3>2, <4>1 DEF Recv, PerUplink
      <4>2. CASE \E e \in {"eof", "source"} : err' = [err EXCEPT ![u] = e] /\ source' = [source EXCEPT ![u] = e]
                    /\ main' = [main EXCEPT ![u] = "flush"] /\ UNCHANGED pos
        BY <1>0, <3>2, <4>2 DEF Recv, PerUplink
      <4> QED
        BY <3>2, <4>0, <4>1, <4>2 DEF Recv
    <3>3. CASE (Begin(u) /\ main'[u] # "toobig") \/ CloseUplinker(u) \/ Return(u) \/ CancelContext(u)
      BY <1>0, <3>3 DEF Begin, CloseUplinker, Return, CancelContext, PerUplink
    <3> QED
      BY <1>4, <3>2, <3>3
  <2>4. Going(u)
    <3>1. CASE main[u] \in {"idle", "recv"}
      BY <3>1 DEF Going
    <3>2. CASE main[u] \notin {"idle", "recv"}
      BY <2>1, <2>3, <3>2 DEF Going, Clean
    <3> QED
      BY <3>1, <3>2
  <2>5. Clean(u)' => Clean(u)
    <3>1. pos[u] \in Nat /\ pos'[u] \in Nat /\ Size \in Nat
      BY MainDataTypes, UplinkAssumption DEF DataTypes, IInv
    <3>2. CASE main[u] = "recv" /\ main'[u] \in {"offer", "flush"} /\ done' = done
      <4>1. source[u] = "open" /\ pos'[u] >= pos[u]
        BY <2>3, <2>4, <3>1, <3>2 DEF Flows, Flow
      <4> QED
        BY <2>1, <3>1, <3>2, <4>1 DEF Clean
    <3>3. CASE ~(main[u] = "recv" /\ main'[u] \in {"offer", "flush"} /\ done' = done)
      BY <2>1, <2>3, <3>3 DEF Clean
    <3> QED
      BY <3>2, <3>3
  <2>6. con' = con
    BY <2>1
  <2>7. (OnCon(u)' <=> OnCon(u)) /\ (Landed(u)' <=> Landed(u)) /\ (Aligned(u)' <=> Aligned(u))
    BY <2>2, <2>6, SndSame
  <2>8. EndSent(u) => EndSent(u)'
    BY <2>2, <2>5 DEF EndSent, SndKept, WireKept
  <2>9. Still(u) => Still(u)'
    BY <2>2, <2>7, <2>8 DEF Still, SndKept, ChkKept
  <2>10. Idling(u) => Idling(u)'
    BY <2>2, <2>9 DEF Idling, ChkKept
  <2>11. CASE main[u] \in {"idle", "recv", "close", "wait"} /\ main'[u] \notin {"await", "flushed"}
    <3>1. Idling(u)'
      BY <2>4, <2>10, <2>11 DEF Flows, Flow
    <3>2. main'[u] # "offer" => buf[u].hi = pos'[u]
      BY <2>3, <2>4, <2>11 DEF Flows, Flow
    <3>3. main'[u] \in {"close", "wait", "returned"} => err'[u] = "nil" /\ buf[u].lo = buf[u].hi
      BY <2>3, <2>4, <2>11 DEF Flows, Flow
    <3>4. /\ main'[u] \notin {"cancel", "cancelled"}
          /\ main'[u] \in {"idle", "recv", "offer", "await"} => source'[u] = "open"
      BY <2>3, <2>4, <2>11 DEF Flows, Flow
    <3> QED
      BY <2>2, <2>11, <3>1, <3>2, <3>3, <3>4 DEF Flow, ChkKept
  <2>12. CASE done'[u] /\ UNCHANGED <<main, err, pos, source>>
    <3>1. ~Clean(u)'
      BY <2>12 DEF Clean
    <3>2. Push(u) => Push(u)'
      BY <2>2, <2>6, <2>7, <3>1 DEF Push, SndKept, ChkKept, WireKept
    <3>3. Pushed(u) => Pushed(u)'
      BY <2>2, <2>7, <2>8, <3>1 DEF Pushed, SndKept, ChkKept
    <3>4. Ready(u)' <=> Ready(u)
      BY <2>2 DEF Ready, ChkKept
    <3>5. Work(u) => Work(u)'
      BY <2>2, <2>7, <2>9, <2>12, <3>1, <3>2, <3>3, <3>4 DEF Work, SndKept, ChkKept
    <3> QED
      BY <2>2, <2>4, <2>10, <2>12, <3>1, <3>5 DEF Flows, Flow, ChkKept
  <2> QED
    BY <2>3, <2>11, <2>12
<1> QED
  BY <1>1, <1>2, <1>3, <1>4 DEF UplinkStep

\* The chunker takes what Uplink hands it.
LEMMA ChunkerTakesFlows ==
  ASSUME IInv, DataTypes, NEW u \in Uplinks, Sound(u), Flows(u), ChunkerTakes(u), Going(u)'
  PROVE  Flow(u)'
<1> USE DEF mainVars, chkVars, sndVars, conVars
<1>0. PerUplink
  BY Domains
<1>1. /\ UNCHANGED <<err, pos, source, done, sndVars, conVars>>
      /\ main[u] \in {"offer", "flush"} /\ chk[u] = "recv"
      /\ main'[u] = (IF main[u] = "offer" THEN "await" ELSE "flushed")
  BY <1>0 DEF ChunkerTakes, PerUplink
<1>2. SndKept(u) /\ WireKept(u) /\ con' = con
  BY <1>1, WireSame DEF SndKept, WireKept
<1>3. (OnCon(u)' <=> OnCon(u)) /\ (Landed(u)' <=> Landed(u)) /\ (Aligned(u)' <=> Aligned(u))
  BY <1>2, SndSame
<1>4. (Clean(u)' <=> Clean(u)) /\ (EndSent(u)' <=> EndSent(u))
  BY <1>1, <1>2 DEF Clean, EndSent, SndKept, WireKept
<1>5. Going(u) /\ Flow(u)
  BY <1>1, <1>4 DEF Going, Flows
<1>6. Idling(u) /\ (main[u] = "offer" => source[u] = "open")
  BY <1>1, <1>5 DEF Flow
<1>7. CASE done[u]
  <2>1. chk'[u] = "recv" /\ main'[u] = "await"
    BY <1>0, <1>1, <1>4, <1>7 DEF ChunkerTakes, PerUplink, Going, Clean
  <2> QED
    BY <1>1, <1>6, <1>7, <2>1 DEF Flow
<1>8. CASE ~done[u]
  <2> DEFINE b == [buf[u] EXCEPT !.hi = pos[u]]
             flush == main[u] = "flush"
  <2>1. /\ buf'[u] = b /\ flushing'[u] = flush /\ chk'[u] = ChunkReady(b, flush) /\ chkErr'[u] = "nil"
    BY <1>0, <1>8 DEF ChunkerTakes, PerUplink
  <2>2. b.lo = buf[u].lo /\ b.hi = pos[u]
    BY DEF DataTypes, Span
  <2> HIDE DEF b
  <2>3. Still(u)'
    BY <1>2, <1>3, <1>4, <1>6, <2>1, <2>2 DEF Idling, Still, SndKept
  <2>4. /\ chk'[u] \in {"offer", "reply"}
        /\ chk'[u] = "offer" <=> Ready(u)'
    BY <2>1 DEF ChunkReady, Ready
  <2>5. (flushing'[u] <=> main'[u] = "flushed") /\ buf'[u].hi = pos'[u]
    BY <1>1, <2>1, <2>2
  <2>6. Work(u)'
    BY <2>1, <2>3, <2>4, <2>5 DEF Work
  <2> QED
    BY <1>1, <1>6, <2>4, <2>6 DEF Flow
<1> QED
  BY <1>7, <1>8

\* The chunker's other steps.
LEMMA ChunkerFlows ==
  ASSUME IInv, DataTypes, NEW u \in Uplinks, Sound(u), Flows(u), ChunkerStep(u)
  PROVE  Flows(u)'
<1> USE DEF mainVars, chkVars, sndVars, conVars
<1>0. PerUplink
  BY Domains
<1> SUFFICES ASSUME Going(u)' PROVE Flow(u)'
  BY DEF Flows
<1>1. UNCHANGED <<pos, source, done, sndVars, conVars>>
  BY DEF ChunkerStep, ChunkerTakes, ChunkerGivesUp, ChunkerReplies, ChunkerEnds
<1>2. SndKept(u) /\ WireKept(u) /\ con' = con
  BY <1>1, WireSame DEF SndKept, WireKept
<1>3. (OnCon(u)' <=> OnCon(u)) /\ (Landed(u)' <=> Landed(u)) /\ (Aligned(u)' <=> Aligned(u))
  BY <1>2, SndSame
<1>4. CASE ChunkerGivesUp(u)
  <2>1. /\ chk[u] \in {"offer", "await"} /\ done[u] /\ chk'[u] = "reply" /\ chkErr'[u] = "ctx" /\ flushing' = flushing
        /\ main' = main /\ err' = err
    BY <1>0, <1>4 DEF ChunkerGivesUp, ChunkPushed, PerUplink
  <2>2. buf'[u].hi = buf[u].hi
    BY <1>4, ChunkPushedTypes DEF ChunkerGivesUp, Errors
  <2>3. ~Clean(u)' /\ ~Clean(u)
    BY <1>1, <2>1 DEF Clean
  <2>4. main[u] = "await" /\ Flow(u)
    BY <2>1, <2>3 DEF Going, Flows, Flow, Idling
  <2>5. Work(u)'
    BY <1>1, <2>1, <2>2, <2>3, <2>4 DEF Work, Flow
  <2> QED
    BY <1>1, <2>1, <2>4, <2>5 DEF Flow
<1>5. CASE ChunkerReplies(u)
  <2>1. /\ chk[u] = "reply" /\ chk'[u] = "recv" /\ UNCHANGED <<flushing, chkErr, buf>>
        /\ \/ main[u] = "await" /\ main'[u] = (IF chkErr[u] = "nil" THEN "recv" ELSE "flush") /\ err'[u] = chkErr[u]
           \/ main[u] = "flushed" /\ main'[u] = (IF chkErr[u] = "nil" THEN "close" ELSE "cancel") /\ err'[u] = chkErr[u]
           \/ done[u] /\ UNCHANGED <<main, err>>
    BY <1>0, <1>5 DEF ChunkerReplies, PerUplink
  <2>2. (Clean(u)' => Clean(u)) /\ (main'[u] # "refused" => (Clean(u) => Clean(u)'))
    BY <1>1, <2>1 DEF Clean
  <2>3. Going(u) /\ Flow(u) /\ main[u] \in {"await", "flushed"}
    BY <2>1, <2>2 DEF Going, Flows, Flow, Idling
  <2>4. Work(u)
    BY <2>1, <2>3 DEF Flow
  <2>5. CASE done[u] /\ UNCHANGED <<main, err>>
    <3>1. main[u] = "await"
      BY <1>1, <2>3, <2>5 DEF Going, Clean
    <3> QED
      BY <1>1, <2>1, <2>3, <2>5, <3>1 DEF Flow
  <2>6. CASE ~(done[u] /\ UNCHANGED <<main, err>>)
    <3>1. chkErr[u] = "nil"
      BY <2>1, <2>2, <2>4, <2>6 DEF Work, Going
    <3>2. Still(u) /\ ~Ready(u)
      BY <2>1, <2>4, <3>1 DEF Work
    <3>3. Still(u)'
      BY <1>1, <1>2, <1>3, <2>1, <2>2, <3>2 DEF Still, EndSent, SndKept, WireKept
    <3>4. buf[u].lo \in Nat /\ buf[u].hi \in Nat /\ buf[u].lo <= buf[u].hi /\ ChunkSize \in Nat
      BY UplinkAssumption DEF DataTypes, Span
    <3>5. Idling(u)'
      BY <2>1, <3>2, <3>3, <3>4 DEF Idling, Ready
    <3>6. buf[u].hi = pos[u] /\ (main[u] = "flushed" => buf[u].lo = buf[u].hi)
      BY <2>4, <3>2, <3>4 DEF Work, Ready
    <3> QED
      BY <1>1, <2>1, <2>3, <2>6, <3>1, <3>5, <3>6 DEF Flow
  <2> QED
    BY <2>5, <2>6
<1>6. CASE ChunkerEnds(u)
  <2>1. /\ chk[u] = "recv" /\ main[u] = "wait" /\ chk'[u] = "ended"
        /\ UNCHANGED <<main, err, flushing, chkErr, buf>>
    BY <1>0, <1>6 DEF ChunkerEnds, PerUplink
  <2>2. Clean(u)' <=> Clean(u)
    BY <1>1, <2>1 DEF Clean
  <2>3. Flow(u)
    BY <2>1, <2>2 DEF Going, Flows
  <2>4. Still(u)'
    BY <1>1, <1>2, <1>3, <2>1, <2>2, <2>3 DEF Flow, Idling, Still, EndSent, SndKept, WireKept
  <2> QED
    BY <1>1, <2>1, <2>3, <2>4 DEF Flow, Idling
<1> QED
  BY <1>4, <1>5, <1>6, ChunkerTakesFlows DEF ChunkerStep

\* uplinkFile's goroutine takes a chunk.
LEMMA SenderTakesFlows ==
  ASSUME IInv, DataTypes, NEW u \in Uplinks, Sound(u), Flows(u), SenderTakes(u)
  PROVE  Flows(u)'
<1> USE DEF mainVars, chkVars, sndVars, conVars
<1>0. PerUplink
  BY Domains
<1> SUFFICES ASSUME Going(u)' PROVE Flow(u)'
  BY DEF Flows
<1>1. /\ UNCHANGED <<mainVars, done, flushing, chkErr, buf, conVars, started, offset, finished>>
      /\ chk[u] = "offer" /\ snd[u] = "recv" /\ chk'[u] = "await"
  BY <1>0 DEF SenderTakes, PerUplink
<1>2. WireKept(u) /\ con' = con
  BY <1>1, WireSame DEF WireKept
<1>3. (Clean(u)' <=> Clean(u)) /\ (OnCon(u)' <=> OnCon(u)) /\ (Aligned(u)' <=> Aligned(u))
  BY <1>1, <1>2 DEF Clean, OnCon, Busy, Aligned, WireKept
<1>4. Flow(u) /\ main[u] \in {"await", "flushed"} /\ Work(u)
  BY <1>1, <1>3 DEF Going, Flows, Flow, Idling
<1>5. Still(u) /\ Ready(u) /\ buf[u].hi = pos[u]
  BY <1>1, <1>4 DEF Work
<1>6. buf[u] \in Span /\ buf[u].lo \in Nat /\ buf[u].hi \in Nat /\ pos[u] \in Nat /\ Size \in Nat /\ ChunkSize \in Nat \ {0}
  BY UplinkAssumption DEF DataTypes, Span
<1>7. buf[u].lo < buf[u].hi
  BY <1>5, <1>6 DEF Ready
<1>8. Work(u)'
  <2>1. CASE done[u] /\ snd'[u] = "recv"
    BY <1>1, <1>3, <1>4, <2>1 DEF Work
  <2>2. CASE snd'[u] = "reply" /\ finished[u] /\ sndErr'[u] = "past the end"
    <3>1. ~Clean(u)
      <4>1. buf[u].lo >= Size
        BY <1>5, <2>2 DEF Still, Aligned
      <4>2. ~(pos[u] <= Size)
        BY <1>5, <1>6, <1>7, <4>1
      <4> QED
        BY <4>2 DEF Clean
    <3>2. Pushed(u)'
      BY <1>3, <2>2, <3>1 DEF Pushed
    <3> QED
      BY <1>1, <1>3, <1>4, <2>2, <3>2 DEF Work
  <2>3. CASE snd'[u] = "offer" /\ ~finished[u] /\ sndErr'[u] = "nil" /\ pkt'[u] # "end" /\ chunk'[u] = FirstChunk(buf[u])
    <3>1. Push(u)'
      BY <1>1, <1>2, <1>3, <1>5, <1>6, <1>7, <2>3, FirstChunkIs DEF Push, Still, Landed
    <3> QED
      BY <1>1, <1>3, <1>4, <2>3, <3>1 DEF Work
  <2>4. \/ done[u] /\ snd'[u] = "recv"
        \/ snd'[u] = "reply" /\ finished[u] /\ sndErr'[u] = "past the end"
        \/ snd'[u] = "offer" /\ ~finished[u] /\ sndErr'[u] = "nil" /\ pkt'[u] # "end" /\ chunk'[u] = FirstChunk(buf[u])
    BY <1>0, <1>1 DEF SenderTakes, PerUplink
  <2> QED
    BY <2>1, <2>2, <2>3, <2>4
<1> QED
  BY <1>1, <1>4, <1>8 DEF Flow

\* The other steps of uplinkFile's goroutine.
LEMMA SenderFlows ==
  ASSUME IInv, DataTypes, NEW u \in Uplinks, Sound(u), Flows(u), SenderStep(u)
  PROVE  Flows(u)'
<1> USE DEF mainVars, chkVars, sndVars, conVars
<1>0. PerUplink
  BY Domains
<1>1. UNCHANGED <<mainVars, done, conVars>>
  BY DEF SenderStep, SenderTakes, SenderGivesUp, SenderReplies, SenderEnds
<1>2. WireKept(u) /\ con' = con
  BY <1>1, WireSame DEF WireKept
<1>3. (Clean(u)' <=> Clean(u)) /\ (Going(u)' <=> Going(u)) /\ (OnCon(u)' <=> OnCon(u))
  BY <1>1 DEF Clean, Going, OnCon, Busy
<1>4. ASSUME Going(u)', SenderGivesUp(u) PROVE Flow(u)'
  <2>1. /\ snd[u] \in {"offer", "await"} /\ done[u] /\ snd'[u] = "reply" /\ sndErr'[u] = "ctx"
        /\ UNCHANGED <<chkVars, sndBg, chunk, pkt, started, offset, finished>>
    BY <1>0, <1>4 DEF SenderGivesUp, PacketPushed, PerUplink
  <2>2. ~Clean(u)
    BY <2>1 DEF Clean
  <2>3. Flow(u) /\ main[u] \in {"await", "flushed"}
    BY <1>3, <1>4, <2>1, <2>2 DEF Going, Flows, Flow, Idling, Still
  <2>4. Pushed(u)'
    BY <1>3, <2>1, <2>2 DEF Pushed
  <2>5. Work(u) => Work(u)'
    BY <1>1, <1>3, <2>1, <2>2, <2>4 DEF Work, Still
  <2> QED
    BY <1>1, <2>1, <2>3, <2>5 DEF Flow
<1>5. ASSUME Going(u)', SenderReplies(u) PROVE Flow(u)'
  <2>1. /\ snd[u] = "reply" /\ snd'[u] = "recv"
        /\ UNCHANGED <<sndBg, sndErr, chunk, pkt, started, offset, finished>>
    BY <1>0, <1>5 DEF SenderReplies, PerUplink
  <2>2. Flow(u) /\ main[u] \in {"await", "flushed"}
    BY <1>3, <1>5, <2>1 DEF Going, Flows, Flow, Idling, Still
  <2>3. (Aligned(u)' <=> Aligned(u)) /\ (EndSent(u)' <=> EndSent(u))
    BY <1>2, <1>3, <2>1 DEF Aligned, EndSent, WireKept
  <2>4. CASE chk[u] = "await" /\ ChunkPushed(u, sndErr[u])
    <3>1. Work(u) /\ Pushed(u)
      BY <2>1, <2>2, <2>4 DEF Flow, Work
    <3>2. sndErr[u] \in Errors /\ buf[u] \in Span
      BY DEF DataTypes
    <3>3. /\ buf'[u] = Rest(buf[u]) /\ flushing' = flushing /\ chkErr'[u] = sndErr[u]
          /\ chk'[u] = (IF sndErr[u] = "nil" THEN ChunkReady(Rest(buf[u]), flushing[u]) ELSE "reply")
      BY <1>0, <2>4, <3>2, ChunkPushedTypes DEF PerUplink
    <3>4. buf'[u].hi = buf[u].hi /\ buf'[u].lo = FirstChunk(buf[u]).hi
      BY <3>2, <3>3, RestIs
    <3>5. CASE sndErr[u] = "nil"
      <4>1. Still(u)'
        BY <1>3, <2>1, <2>3, <3>1, <3>4, <3>5 DEF Pushed, Still
      <4>2. chk'[u] \in {"offer", "reply"} /\ (chk'[u] = "offer" <=> Ready(u)')
        BY <3>3, <3>5 DEF ChunkReady, Ready
      <4>3. Work(u)'
        BY <1>1, <3>1, <3>3, <3>4, <3>5, <4>1, <4>2 DEF Work
      <4> QED
        BY <1>1, <2>2, <4>2, <4>3 DEF Flow
    <3>6. CASE sndErr[u] # "nil"
      <4>1. ~Clean(u)'
        BY <1>3, <3>1, <3>6 DEF Pushed
      <4>2. Work(u)'
        BY <1>1, <3>1, <3>3, <3>4, <3>6, <4>1 DEF Work
      <4> QED
        BY <1>1, <2>2, <3>3, <3>6, <4>2 DEF Flow
    <3> QED
      BY <3>5, <3>6
  <2>5. CASE done[u] /\ UNCHANGED chkVars
    <3>1. ~Clean(u)
      BY <2>5 DEF Clean
    <3>2. Work(u) => Work(u)'
      BY <1>1, <1>3, <2>1, <2>5, <3>1 DEF Work, Still
    <3> QED
      BY <1>1, <2>2, <2>5, <3>2 DEF Flow
  <2> QED
    BY <1>5, <2>4, <2>5 DEF SenderReplies
<1>6. ASSUME Going(u)', SenderEnds(u) PROVE Flow(u)'
  <2>1. /\ snd[u] = "recv" /\ snd'[u] = "ended" /\ chk[u] = "ended"
        /\ UNCHANGED <<chkVars, sndBg, sndErr, chunk, pkt, started, offset, finished>>
    BY <1>0, <1>6 DEF SenderEnds, PerUplink
  <2>2. Flow(u) /\ main[u] \notin {"await", "flushed"}
    BY <1>3, <1>6, <2>1 DEF Flows, Flow
  <2>3. (Aligned(u)' <=> Aligned(u)) /\ (EndSent(u)' <=> EndSent(u))
    BY <1>2, <1>3, <2>1 DEF Aligned, EndSent, WireKept
  <2>4. Idling(u)'
    BY <1>3, <2>1, <2>2, <2>3 DEF Flow, Idling, Still
  <2> QED
    BY <1>1, <2>1, <2>2, <2>4 DEF Flow
<1> QED
  BY <1>4, <1>5, <1>6, SenderTakesFlows DEF SenderStep, Flows

\* The connection takes a packet, or drops it.
LEMMA TakesFlows ==
  ASSUME IInv, DataTypes, NEW u \in Uplinks, Sound(u), Flows(u), ConTakes(u)
  PROVE  Flows(u)'
<1> USE DEF mainVars, chkVars, sndVars, conVars
<1>0. PerUplink
  BY Domains
<1>1. /\ UNCHANGED <<mainVars, done, chkVars, sndBg, sndErr, chunk, pkt, started, offset, finished, wire, failed>>
      /\ snd[u] = "offer" /\ snd'[u] = "await" /\ ~Busy
  BY <1>0 DEF ConTakes, PerUplink, Busy
<1>2. \/ done[u] /\ con' = con
      \/ con'.stage = "write"
  BY DEF ConTakes, Idle
<1>3. WireKept(u)
  BY <1>1, WireSame DEF WireKept
<1>4. (Clean(u)' <=> Clean(u)) /\ (Going(u)' <=> Going(u)) /\ ~OnCon(u) /\ ~Landed(u) /\ ~Landed(u)'
      /\ (Aligned(u)' <=> Aligned(u))
  BY <1>1, <1>2, <1>3 DEF Clean, Going, OnCon, Busy, Landed, Aligned, WireKept
<1> SUFFICES ASSUME Going(u)' PROVE Flow(u)'
  BY DEF Flows
<1>5. Flow(u) /\ main[u] \in {"await", "flushed"}
  BY <1>1, <1>4 DEF Flows, Flow, Idling, Still
<1>6. Push(u) => (OnCon(u)' => Push(u)')
  BY <1>1, <1>2, <1>3, <1>4 DEF Push, WireKept, OnCon, Busy
<1>7. Work(u) => Work(u)'
  BY <1>1, <1>4, <1>6 DEF Work, Still
<1> QED
  BY <1>1, <1>5, <1>7 DEF Flow

\* The connection writes a packet, or fails to.
LEMMA WritesFlows ==
  ASSUME IInv, DataTypes, NEW u \in Uplinks, Sound(u), Flows(u), con.from = u, ConWrites
  PROVE  Flows(u)'
<1> USE DEF mainVars, chkVars, sndVars, conVars
<1>0. PerUplink
  BY Domains
<1> SUFFICES ASSUME Going(u)' PROVE Flow(u)'
  BY DEF Flows
<1>1. /\ UNCHANGED <<mainVars, done, chkVars, sndVars>> /\ con.stage = "write"
      /\ \E e \in {"nil", "ctx", "write"} : con' = [con EXCEPT !.stage = "reply", !.err = e]
  BY DEF ConWrites
<1>2. /\ con'.stage = "reply" /\ con'.from = con.from /\ con'.by = con.by /\ con'.kind = con.kind
      /\ con'.off = con.off /\ con'.lo = con.lo /\ con'.len = con.len /\ con'.err \in {"nil", "ctx", "write"}
  BY <1>1 DEF IInv, Types
<1>3. \/ /\ wire' = Append(wire, Written) /\ failed' = failed /\ con'.err # "write"
         /\ con'.err = "ctx" => done[u] /\ con.by # "main" /\ ~sndBg[u]
      \/ wire' = wire /\ con'.err = "write" /\ failed'[u] = failed[u] \cup {con.kind}
  BY <1>0 DEF ConWrites, Written, Background, IInv, Types, PerUplink
<1>4. Written \in Packet /\ Written.from = u /\ Written.kind = con.kind /\ wire \in Seq(Packet)
      /\ Written.off = con.off /\ Written.len = con.len /\ Written.lo = con.lo
  BY DEF DataTypes, Packet, Written
<1>5. (Clean(u)' => Clean(u) /\ con'.err = "nil") /\ Going(u)
  BY <1>1, <1>2, <1>3 DEF Clean, Going
<1>6. Flow(u)
  BY <1>5 DEF Flows
<1>7. OnCon(u) /\ OnCon(u)' /\ ~Landed(u)
  <2>1. ~ByMain(u)
    BY <1>6 DEF Flow, Sound, Told
  <2> QED
    BY <1>1, <1>2, <2>1 DEF OnCon, ByMain, Busy, Landed, DataTypes
<1>8. main[u] \in {"await", "flushed"} /\ chk[u] # "offer" /\ snd[u] # "offer"
  BY <1>6, <1>7 DEF Flow, Idling, Still, Work, Sound, Paired, Carried, Gone
<1>9. ASSUME Work(u), chk[u] = "await", snd[u] = "await" PROVE Push(u)'
  <2>1. Push(u) /\ Carried(u)
    BY <1>7, <1>9 DEF Work, Sound, Paired, Gone
  <2>2. (Clean(u)' => con'.err = "nil") /\ (pkt[u] = "end" /\ con'.err # "write" => Sent(u, "end")')
    <3>1. pkt[u] = "end" /\ con'.err # "write" => Sent(u, "end")'
      BY <1>3, <1>4, <2>1, WireGrows DEF Carried
    <3> QED
      BY <1>5, <3>1
  <2>3. CASE con.kind = "data" /\ con'.err # "write"
    <3>1. InOrder(u) /\ con.off = Length(u) /\ con.lo = con.off /\ offset[u] = chunk[u].lo /\ ~finished[u]
          /\ pkt[u] = "data"
      BY <1>7, <2>1, <2>3 DEF Push, Carried, Aligned
    <3>2. Length(u)' = con.off + con.len /\ InOrder(u)'
      BY <1>3, <1>4, <2>3, <3>1, WireGrows
    <3>3. con.off + con.len = chunk[u].hi
      <4>1. chunk[u] \in Span
        BY DEF DataTypes
      <4>2. chunk[u].lo \in Nat /\ chunk[u].hi \in Nat
        BY <4>1 DEF Span
      <4> QED
        BY <2>1, <3>1, <4>2 DEF Carried
    <3>4. Landed(u)'
      BY <1>1, <1>2, <1>7, <1>9, <2>3 DEF Landed
    <3> QED
      BY <1>1, <1>2, <2>1, <2>2, <3>1, <3>2, <3>3, <3>4 DEF Push
  <2>4. CASE ~(con.kind = "data" /\ con'.err # "write")
    <3>1. Length(u)' = Length(u) /\ (InOrder(u)' <=> InOrder(u))
      BY <1>3, <1>4, <2>4, WireGrows, WireSame
    <3>2. ~Landed(u)' /\ (Aligned(u)' <=> Aligned(u))
      BY <1>1, <1>2, <2>4, <3>1 DEF Landed, Aligned
    <3> QED
      BY <1>1, <1>2, <1>7, <2>1, <2>2, <3>2 DEF Push
  <2> QED
    BY <2>3, <2>4
<1>10. ASSUME Work(u), chk[u] = "await", snd[u] = "reply" PROVE Pushed(u)'
  BY <1>1, <1>5, <1>7, <1>10 DEF Work, Pushed
<1>11. Work(u) => Work(u)'
  <2>1. Work(u) /\ chk[u] = "reply" => chkErr[u] # "nil" /\ ~Clean(u)'
    BY <1>5, <1>7 DEF Work, Still
  <2> QED
    BY <1>1, <1>8, <1>9, <1>10, <2>1 DEF Work
<1> QED
  BY <1>1, <1>6, <1>8, <1>11 DEF Flow

\* The connection replies, or nobody takes its reply.
LEMMA RepliesFlows ==
  ASSUME IInv, DataTypes, NEW u \in Uplinks, Sound(u), Flows(u), con.from = u, ConReplies
  PROVE  Flows(u)'
<1> USE DEF mainVars, chkVars, sndVars, conVars
<1>0. PerUplink
  BY Domains
<1> SUFFICES ASSUME Going(u)' PROVE Flow(u)'
  BY DEF Flows
<1>1. con.stage = "reply" /\ con' = Idle /\ UNCHANGED <<err, pos, source, done, chkVars, wire, failed>>
  BY DEF ConReplies
<1>2. ~OnCon(u)' /\ ~Landed(u)'
  BY <1>1 DEF Busy, OnCon, Landed, Idle
<1>3. WireKept(u)
  BY <1>1, WireSame DEF WireKept
<1>4. CASE con.by = "main" /\ main[u] = "cancelled" /\ main' = [main EXCEPT ![u] = "close"]
  <2>1. main'[u] = "close"
    BY <1>0, <1>4 DEF PerUplink
  <2>2. Clean(u)' /\ Clean(u)
    BY <1>1, <1>4, <2>1 DEF Going, Clean
  <2> QED
    BY <1>4, <2>2 DEF Flows, Flow, Going
<1>5. CASE con.by = "snd" /\ snd[u] = "await" /\ PacketPushed(u, con.err) /\ UNCHANGED <<main, sndBg, chunk>>
  <2>1. (Clean(u)' <=> Clean(u)) /\ Going(u)
    BY <1>1, <1>5 DEF Clean, Going
  <2>2. Flow(u) /\ OnCon(u) /\ main[u] \in {"await", "flushed"} /\ chk[u] # "offer" /\ Carried(u)
    BY <1>1, <1>5, <2>1 DEF Flows, Flow, OnCon, Busy, Idling, Still, Work, Sound, Paired, Gone
  <2>3. Work(u) /\ chk[u] = "reply" => chkErr[u] # "nil" /\ ~Clean(u)
    BY <2>2 DEF Work, Still
  <2>4. snd'[u] \in {"reply", "offer"}
    BY <1>0, <1>5 DEF PacketPushed, PerUplink
  <2>5. ASSUME Work(u), chk[u] = "await"
        PROVE  (snd'[u] = "offer" => Push(u)') /\ (snd'[u] = "reply" => Pushed(u)')
    <3>1. Push(u)
      BY <1>5, <2>2, <2>5 DEF Work
    <3>2. CASE con.err # "nil"
      <4>1. snd'[u] = "reply" /\ sndErr'[u] = con.err
        BY <1>0, <1>5, <3>2 DEF PacketPushed, PerUplink
      <4> QED
        BY <1>1, <2>1, <2>2, <3>1, <3>2, <4>1 DEF Push, Pushed
    <3>3. CASE con.err = "nil" /\ pkt[u] = "start"
      <4>1. pkt'[u] = "data" /\ snd'[u] = "offer" /\ UNCHANGED <<sndErr, offset, finished, chunk>>
        BY <1>0, <1>5, <3>3 DEF PacketPushed, PerUplink
      <4>2. ~Landed(u) /\ Aligned(u) /\ offset[u] = chunk[u].lo /\ ~finished[u]
        BY <2>2, <3>1, <3>3 DEF Push, Landed, Carried
      <4>3. Aligned(u)'
        BY <1>3, <4>1, <4>2 DEF Aligned, WireKept
      <4> QED
        BY <1>1, <1>2, <3>1, <4>1, <4>2, <4>3 DEF Push
    <3>4. CASE con.err = "nil" /\ pkt[u] = "data"
      <4> DEFINE len == chunk[u].hi - chunk[u].lo
      <4>1. /\ offset'[u] = offset[u] + len /\ (finished'[u] <=> offset[u] + len >= Size)
            /\ pkt'[u] = (IF finished'[u] THEN "end" ELSE "data")
            /\ snd'[u] = (IF finished'[u] THEN "offer" ELSE "reply") /\ sndErr' = sndErr /\ chunk' = chunk
        BY <1>0, <1>5, <3>4 DEF PacketPushed, PerUplink
      <4>2. Landed(u)
        BY <1>1, <1>5, <2>2, <3>4 DEF Landed, Carried
      <4>3. offset[u] = chunk[u].lo /\ InOrder(u) /\ Length(u) = chunk[u].hi
        BY <3>1, <4>2 DEF Push
      <4>4. chunk[u].lo \in Nat /\ chunk[u].hi \in Nat /\ chunk[u].lo < chunk[u].hi
        <5>1. buf[u] \in Span /\ chunk[u] \in Span
          BY DEF DataTypes
        <5>2. FirstChunk(buf[u]).lo = buf[u].lo /\ buf[u].lo < FirstChunk(buf[u]).hi
          BY <3>1, <5>1, FirstChunkIs DEF Push
        <5> QED
          BY <3>1, <5>1, <5>2 DEF Push, Span
      <4>5. offset'[u] = chunk[u].hi /\ offset'[u] > 0
        BY <4>1, <4>3, <4>4
      <4>6. Aligned(u)'
        BY <1>3, <4>1, <4>3, <4>4, <4>5 DEF Aligned, WireKept
      <4> HIDE DEF len
      <4>7. snd'[u] = "offer" => Push(u)'
        BY <1>1, <1>2, <3>1, <4>1, <4>5, <4>6 DEF Push
      <4>8. snd'[u] = "reply" => Pushed(u)'
        BY <1>1, <1>2, <3>1, <4>1, <4>5, <4>6 DEF Push, Pushed, EndSent
      <4> QED
        BY <4>7, <4>8
    <3>5. CASE con.err = "nil" /\ pkt[u] = "end"
      <4>1. /\ snd'[u] = "reply" /\ UNCHANGED <<offset, finished, chunk>>
            /\ sndErr'[u] = (IF offset[u] > Size THEN "overrun" ELSE "nil")
        BY <1>0, <1>5, <3>5 DEF PacketPushed, PerUplink
      <4>2. ~Landed(u) /\ Aligned(u) /\ offset[u] = chunk[u].hi /\ Sent(u, "end")
        BY <1>1, <2>2, <3>1, <3>5 DEF Push, Landed, Carried
      <4>3. Aligned(u)' /\ EndSent(u)'
        BY <1>3, <4>1, <4>2 DEF Aligned, EndSent, WireKept
      <4>4. Clean(u) => offset[u] <= Size
        <5>1. buf[u] \in Span /\ buf[u].hi <= pos[u] /\ pos[u] \in Nat
          BY DEF DataTypes
        <5>2. chunk[u].hi <= buf[u].hi /\ chunk[u] \in Span
          BY <3>1, <5>1, FirstChunkIs DEF Push
        <5>3. Size \in Nat
          BY UplinkAssumption
        <5> QED
          BY <4>2, <5>1, <5>2, <5>3 DEF Clean, Span
      <4>5. Size \in Nat /\ offset[u] \in Nat
        BY UplinkAssumption DEF DataTypes
      <4> QED
        BY <1>1, <1>2, <2>1, <3>1, <4>1, <4>2, <4>3, <4>4, <4>5 DEF Pushed, Push
    <3>6. pkt[u] \in {"start", "data", "end"}
      BY DEF DataTypes
    <3> QED
      BY <3>2, <3>3, <3>4, <3>5, <3>6
  <2>6. Work(u) => Work(u)'
    BY <1>1, <1>5, <2>1, <2>2, <2>3, <2>4, <2>5 DEF Work
  <2> QED
    BY <1>1, <1>5, <2>2, <2>6 DEF Flow
<1>6. CASE done[u] /\ ~Background /\ UNCHANGED <<main, sndVars>>
  <2>1. (Clean(u)' <=> Clean(u)) /\ Going(u) /\ ~Clean(u)
    BY <1>1, <1>6 DEF Clean, Going
  <2>2. OnCon(u) /\ Flow(u)
    BY <1>1, <1>6, <2>1 DEF Flows, OnCon, Busy, Background, DataTypes
  <2>3. main[u] \in {"await", "flushed"} /\ chk[u] # "offer" /\ snd[u] # "offer"
    BY <2>2 DEF Flow, Idling, Still, Work, Sound, Paired, Carried, Gone
  <2>4. Work(u) => Work(u)'
    <3>1. Work(u) /\ chk[u] = "reply" => chkErr[u] # "nil"
      BY <2>2 DEF Work, Still
    <3>2. Work(u) /\ chk[u] = "await" /\ snd[u] = "reply" => sndErr[u] # "nil"
      BY <2>2 DEF Work, Pushed
    <3> QED
      BY <1>1, <1>2, <1>6, <2>1, <2>3, <3>1, <3>2 DEF Work, Pushed
  <2> QED
    BY <1>1, <1>6, <2>2, <2>3, <2>4 DEF Flow
<1> QED
  BY <1>4, <1>5, <1>6 DEF ConReplies

\* In every reachable state.
AllFlows == \A u \in Uplinks : Flows(u)

THEOREM FlowInductive == ASSUME None \notin Uplinks PROVE Spec => [](Inv /\ AllFlows)
<1>1. Init => AllFlows
  <2> SUFFICES ASSUME Init, NEW u \in Uplinks PROVE Flow(u)
    BY DEF AllFlows, Flows
  <2>1. wire = <<>> /\ Len(wire) = 0 /\ con.stage = "recv"
    BY DEF Init, Idle
  <2>2. DataAt(u) = {}
    BY <2>1 DEF DataAt
  <2>3. Length(u) = 0 /\ InOrder(u) /\ ~OnCon(u)
    BY <2>1, <2>2 DEF Length, EndOf, InOrder, Contiguous, OnCon, Busy
  <2>4. buf[u].lo = 0 /\ buf[u].hi = 0 /\ offset[u] = 0 /\ ~finished[u] /\ pos[u] = 0
    BY DEF Init
  <2>5. Still(u)
    BY <2>3, <2>4 DEF Still, Aligned, EndSent, Init
  <2>6. Idling(u)
    BY <2>4, <2>5, UplinkAssumption DEF Idling, Init
  <2> QED
    BY <2>4, <2>6 DEF Flow, Init
<1>2. Inv /\ AllFlows /\ [Next]_vars => AllFlows'
  <2> SUFFICES ASSUME IInv, DataTypes, AllSound, AllFlows, [Next]_vars, NEW v \in Uplinks PROVE Flows(v)'
    BY DEF AllFlows, Inv
  <2>a. \A u \in Uplinks : Sound(u) /\ Flows(u)
    BY DEF AllSound, AllFlows
  <2>1. ASSUME NEW u \in Uplinks, Untouched(v) \/ (u = v /\ Flows(v)') PROVE Flows(v)'
    BY <2>a, <2>1, UntouchedFlows
  <2>2. ASSUME NEW u \in Uplinks, UplinkStep(u) \/ CancelContext(u) PROVE Flows(v)'
    BY <2>a, <2>2, <2>1, OthersUntouched, UplinkFlows
  <2>3. ASSUME NEW u \in Uplinks, ChunkerStep(u) PROVE Flows(v)'
    BY <2>a, <2>3, <2>1, OthersUntouched, ChunkerFlows
  <2>4. ASSUME NEW u \in Uplinks, SenderStep(u) PROVE Flows(v)'
    BY <2>a, <2>4, <2>1, OthersUntouched, SenderFlows
  <2>5. ASSUME NEW u \in Uplinks, ConTakes(u) PROVE Flows(v)'
    BY <2>a, <2>5, <2>1, OthersUntouched, TakesFlows
  <2>6. CASE ConWrites \/ ConReplies
    <3>1. con.from \in Uplinks
      BY <2>6 DEF ConWrites, ConReplies, IInv, Seen, Busy
    <3>2. Untouched(v) \/ con.from = v
      BY <2>6, <3>1, OthersUntouched
    <3> QED
      BY <2>a, <2>6, <3>2, UntouchedFlows, WritesFlows, RepliesFlows
  <2>7. CASE UNCHANGED vars
    <3>1. UNCHANGED <<mainVars, done, chkVars, sndVars, conVars>>
      BY <2>7 DEF vars
    <3>2. Untouched(v)
      BY <3>1, WireSame DEF Untouched, SndKept, ChkKept, MainKept, WireKept, mainVars, chkVars, sndVars, conVars
    <3> QED
      BY <2>a, <3>2, UntouchedFlows
  <2>8. CASE LinkStep
    BY <2>a, <2>8, LinkUntouched, UntouchedFlows
  <2> QED
    BY <2>2, <2>3, <2>4, <2>5, <2>6, <2>7, <2>8 DEF Next, ConStep, LinkStep
<1> QED
  BY <1>1, <1>2, SoundInductive, PTL DEF Spec

\* Uplink does not receive before the bytes it has received are on the connection, in order,
\* but for less than a chunk: no failure and no cancellation lets its loop run ahead.
THEOREM BytesAreProcessed == ASSUME None \notin Uplinks PROVE Spec => []BackPressure
<1>1. Inv /\ AllFlows => BackPressure
  <2> SUFFICES ASSUME Inv, AllFlows, NEW u \in Uplinks, main[u] = "recv"
               PROVE  /\ InOrder(u) /\ Length(u) = buf[u].lo
                      /\ buf[u].hi = pos[u] /\ pos[u] - buf[u].lo < ChunkSize
    BY DEF BackPressure
  <2>1. Flow(u)
    BY DEF AllFlows, Flows, Going
  <2> QED
    BY <2>1 DEF Flow, Idling, Still, Aligned
<1> QED
  BY <1>1, FlowInductive, PTL

\* An uplink that returns an error has sent its cancel packet, unless the connection did not
\* take it; an uplink that nothing went wrong with has delivered the whole file, in order,
\* with its end packet, and returns no error.
THEOREM TheOutcomeIsTold == ASSUME None \notin Uplinks PROVE Spec => []OutcomeIsTold
<1>1. Inv => FailureIsCancelled
  BY DEF Inv, AllSound, Sound, Told, CancelTold, FailureIsCancelled
<1>2. Inv /\ AllFlows => CleanUplinkCompletes
  <2> SUFFICES ASSUME Inv, AllFlows, NEW u \in Uplinks, main[u] = "returned", source[u] = "eof",
                      pos[u] = Size, Size > 0, failed[u] = {}, ~done[u]
               PROVE  err[u] = "nil" /\ Sent(u, "end") /\ InOrder(u) /\ Length(u) = Size
    BY DEF CleanUplinkCompletes
  <2>1. Size \in Nat
    BY UplinkAssumption
  <2>2. Clean(u)
    BY <2>1 DEF Clean
  <2>3. Flow(u)
    BY <2>2 DEF AllFlows, Flows, Going
  <2>4. Still(u) /\ buf[u].lo = Size /\ err[u] = "nil"
    BY <2>3 DEF Flow, Idling
  <2> QED
    BY <2>1, <2>2, <2>4 DEF Still, Aligned, EndSent
<1> QED
  BY <1>1, <1>2, FlowInductive, PTL DEF OutcomeIsTold
=============================================================================
