-------------------------- MODULE FileUplinks_proofs --------------------------
(***************************************************************************)
(* Two more facts about the uplinks of one F Prime connection, for any     *)
(* number of uplinks, cancellations and failed writes: nobody is stuck,    *)
(* and the lock, the goroutines and their channels implement FileUplinks.  *)
(* Both rest on one invariant, Orderly: what the three goroutines of an    *)
(* uplink and the connection's know of each other (Moving), that no packet *)
(* is sent twice (Once), and how an uplink comes to its end (Ending).      *)
(***************************************************************************)
EXTENDS FprimeUplink_proofs

\* Whoever awaits a reply awaits it of somebody who works for it, or may give up.
Moving(u) ==
  /\ chk[u] \in {"offer", "await", "reply"} =>
       \/ done[u]
       \/ main[u] = "await" /\ ~flushing[u]
       \/ main[u] = "flushed" /\ flushing[u]
  /\ main[u] \in {"await", "flushed"} /\ chk[u] \in {"recv", "ended"} => done[u]
  /\ chk[u] = "ended" => main[u] \in {"wait", "returned"}
  /\ main[u] = "returned" => chk[u] = "ended" /\ snd[u] = "ended"
  /\ chk[u] = "await" /\ snd[u] \in {"recv", "ended"} => done[u] /\ ~flushing[u]
  /\ OnCon(u) => Carried(u) \/ (Gone(u) /\ ~sndBg[u])

\* A start packet that was written is known to its goroutine, or will be, or it is over;
\* after the end packet nothing is pushed.
Once(u) ==
  /\ ~started[u] /\ Sent(u, "start") =>
       \/ OnCon(u) /\ con.stage = "reply" /\ con.kind = "start" /\ con.err # "write"
       \/ Gone(u)
  /\ OnCon(u) /\ con.stage = "write" /\ con.kind = "start" => ~Sent(u, "start")
  /\ snd[u] \in {"offer", "await"} /\ pkt[u] = "start" => ~started[u]
  /\ snd[u] \in {"offer", "await"} /\ finished[u] => pkt[u] = "end"
  /\ snd[u] = "offer" => ~Sent(u, "end")
  /\ OnCon(u) /\ con.stage = "write" => ~Sent(u, "end")

\* The cancel packet is pushed once, when there is an error, and no packet outlives its
\* uplink: what the connection still has of it then is of its flush.
Ending(u) ==
  /\ main[u] \in {"idle", "toobig"} => failed[u] = {}
  /\ main[u] \notin {"cancelled", "close", "wait", "returned"} => ~CancelTold(u)
  /\ ByMain(u) /\ con.stage = "write" => ~CancelTold(u)
  /\ main[u] \in {"cancel", "cancelled"} => err[u] # "nil"
  /\ main[u] \in {"close", "wait", "returned"} /\ err[u] = "nil" => ~CancelTold(u)
  /\ chk[u] = "reply" /\ chkErr[u] = "nil" => snd[u] \in {"recv", "ended"} /\ ~OnCon(u)
  /\ main[u] \in {"cancelled", "close", "wait", "returned"} /\ OnCon(u) => sndBg[u] /\ snd[u] = "await"

Orderly(u) == Moving(u) /\ Once(u) /\ Ending(u)

\* A step that does not touch v keeps its order.
LEMMA UntouchedOrderly ==
  ASSUME NEW v \in Uplinks, Untouched(v), Orderly(v)
  PROVE  Orderly(v)'
<1> USE DEF Untouched, SndKept, ChkKept, MainKept, WireKept, OnCon, Busy
<1>0. (OnCon(v)' <=> OnCon(v)) /\ (OnCon(v) => con' = con) /\ (ByMain(v)' <=> ByMain(v)) /\ (ByMain(v) => con' = con)
  BY DEF ByMain
<1>1. Gone(v)' <=> Gone(v)
  BY <1>0 DEF Gone
<1>2. (Carried(v) /\ OnCon(v))' <=> Carried(v) /\ OnCon(v)
  BY <1>0 DEF Carried
<1>3. CancelTold(v)' <=> CancelTold(v)
  BY DEF CancelTold
<1> HIDE DEF OnCon, Busy
<1>4. Moving(v)'
  BY <1>0, <1>1, <1>2 DEF Orderly, Moving
<1>5. Once(v)'
  BY <1>0, <1>1 DEF Orderly, Once
<1>6. Ending(v)'
  BY <1>0, <1>3 DEF Orderly, Ending
<1> QED
  BY <1>4, <1>5, <1>6 DEF Orderly

\* The steps of Fsw.Uplink and the cancellation of its context.
LEMMA UplinkOrderly ==
  ASSUME IInv, DataTypes, NEW u \in Uplinks, Sound(u), Orderly(u), UplinkStep(u) \/ CancelContext(u)
  PROVE  Orderly(u)'
<1> USE DEF mainVars, chkVars, sndVars, conVars, linkVars
<1>0. PerUplink
  BY Domains
<1>1. CASE (UplinkStep(u) /\ ~OfferCancel(u)) \/ CancelContext(u)
  <2>1. UNCHANGED <<chkVars, sndVars, conVars>> /\ (done[u] => done'[u])
    BY <1>0, <1>1 DEF UplinkStep, Begin, Reject, Refuse, Recv, GiveUp, CloseUplinker, Return, CancelContext, PerUplink
  <2>2. WireKept(u)
    BY <2>1, WireSame DEF WireKept
  <2>3. (OnCon(u)' <=> OnCon(u)) /\ (Gone(u) => Gone(u)') /\ (Carried(u)' <=> Carried(u))
        /\ (ByMain(u)' <=> ByMain(u)) /\ (CancelTold(u)' <=> CancelTold(u))
    BY <2>1, <2>2 DEF OnCon, ByMain, Busy, Gone, Carried, CancelTold, WireKept
  <2>4. \/ main'[u] = main[u] /\ err'[u] = err[u]
        \/ main[u] = "idle" /\ main'[u] \in {"recv", "toobig", "refused"}
        \/ main[u] \in {"recv", "toobig"} /\ main'[u] \in {"offer", "flush", "rejected"}
        \/ main[u] \in {"offer", "await"} /\ done[u] /\ main'[u] = "flush"
        \/ main[u] \in {"flush", "flushed"} /\ done[u] /\ main'[u] = "cancel" /\ err'[u] = "ctx"
        \/ main[u] = "close" /\ main'[u] = "wait" /\ err'[u] = err[u]
        \/ main[u] = "wait" /\ main'[u] = "returned" /\ err'[u] = err[u] /\ chk[u] = "ended" /\ snd[u] = "ended"
    BY <1>0, <1>1 DEF UplinkStep, Begin, Reject, Refuse, Recv, GiveUp, CloseUplinker, Return, CancelContext, PerUplink
  <2>5. Moving(u)'
    BY <2>1, <2>3, <2>4 DEF Orderly, Moving
  <2>6. Once(u)'
    BY <2>1, <2>2, <2>3 DEF Orderly, Once, WireKept
  <2>7. Ending(u)'
    BY <2>1, <2>3, <2>4 DEF Orderly, Ending
  <2> QED
    BY <2>5, <2>6, <2>7 DEF Orderly
<1>2. CASE OfferCancel(u)
  <2>1. UNCHANGED <<err, done, chkVars, sndVars, wire, failed>> /\ main[u] = "cancel" /\ main'[u] = "cancelled"
    BY <1>0, <1>2 DEF OfferCancel, PerUplink
  <2>2. ~Busy /\ con'.stage = "write" /\ con'.from = u /\ con'.by = "main" /\ con'.kind = "cancel"
    BY <1>2 DEF OfferCancel, Idle, Busy
  <2>3. WireKept(u)
    BY <2>1, WireSame DEF WireKept
  <2>4. ~OnCon(u) /\ ~OnCon(u)' /\ (CancelTold(u)' <=> CancelTold(u))
    BY <2>1, <2>2, <2>3 DEF OnCon, Busy, CancelTold, WireKept
  <2>5. Gone(u) => Gone(u)'
    BY <2>1, <2>4 DEF Gone
  <2>6. Moving(u)'
    BY <2>1, <2>4 DEF Orderly, Moving
  <2>7. Once(u)'
    BY <2>1, <2>3, <2>4, <2>5 DEF Orderly, Once, WireKept
  <2>8. Ending(u)'
    BY <2>1, <2>4 DEF Orderly, Ending
  <2> QED
    BY <2>6, <2>7, <2>8 DEF Orderly
<1> QED
  BY <1>1, <1>2 DEF UplinkStep

\* The steps of the chunker.
LEMMA ChunkerOrderly ==
  ASSUME IInv, DataTypes, NEW u \in Uplinks, Sound(u), Orderly(u), ChunkerStep(u)
  PROVE  Orderly(u)'
<1> USE DEF mainVars, chkVars, sndVars, conVars, linkVars
<1>0. PerUplink
  BY Domains
<1>1. UNCHANGED <<done, sndVars, conVars>>
  BY DEF ChunkerStep, ChunkerTakes, ChunkerGivesUp, ChunkerReplies, ChunkerEnds
<1>2. WireKept(u)
  BY <1>1, WireSame DEF WireKept
<1>3. (OnCon(u)' <=> OnCon(u)) /\ (Carried(u)' <=> Carried(u)) /\ (ByMain(u)' <=> ByMain(u))
      /\ (CancelTold(u)' <=> CancelTold(u))
  BY <1>1, <1>2 DEF OnCon, Busy, Carried, ByMain, CancelTold, WireKept
<1>4. CASE ChunkerTakes(u)
  <2>1. /\ chk[u] = "recv" /\ err' = err
        /\ \/ main[u] = "offer" /\ main'[u] = "await"
           \/ main[u] = "flush" /\ main'[u] = "flushed"
    BY <1>0, <1>4 DEF ChunkerTakes, PerUplink
  <2>2. CASE done[u]
    <3>1. UNCHANGED chkVars
      BY <1>4, <2>2 DEF ChunkerTakes
    <3>2. Gone(u)' <=> Gone(u)
      BY <1>1, <1>3, <3>1 DEF Gone
    <3> QED
      BY <1>1, <1>2, <1>3, <2>1, <2>2, <3>1, <3>2 DEF Orderly, Moving, Once, Ending, WireKept
  <2>3. CASE ~done[u]
    <3>1. /\ chk'[u] \in {"offer", "reply"} /\ flushing'[u] = (main[u] = "flush") /\ chkErr'[u] = "nil"
      BY <1>0, <1>4, <2>3, ReadyStage DEF ChunkerTakes, PerUplink
    <3>2. ~Gone(u) /\ snd[u] \in {"recv", "ended"}
      BY <2>1, <2>3 DEF Gone, Sound, Paired, IInv, Types
    <3>3. ~OnCon(u)
      BY <3>2 DEF Sound, Paired, Carried
    <3>4. Moving(u)'
      BY <1>1, <1>3, <2>1, <3>1, <3>3 DEF Moving
    <3>5. Once(u)' /\ Ending(u)'
      BY <1>1, <1>2, <1>3, <2>1, <3>2, <3>3 DEF Orderly, Once, Ending, WireKept
    <3> QED
      BY <3>4, <3>5 DEF Orderly
  <2> QED
    BY <2>2, <2>3
<1>5. CASE ChunkerGivesUp(u)
  <2>1. /\ chk[u] \in {"offer", "await"} /\ done[u] /\ ~flushing[u] /\ flushing' = flushing
        /\ chk'[u] = "reply" /\ chkErr'[u] = "ctx" /\ UNCHANGED mainVars
    BY <1>0, <1>5 DEF ChunkerGivesUp, ChunkPushed, PerUplink
  <2>2. Gone(u) => Gone(u)'
    BY <1>1, <1>3, <2>1 DEF Gone
  <2> QED
    BY <1>1, <1>2, <1>3, <2>1, <2>2 DEF Orderly, Moving, Once, Ending, WireKept
<1>6. CASE ChunkerReplies(u)
  <2>1. /\ chk[u] = "reply" /\ chk'[u] = "recv" /\ UNCHANGED <<flushing, chkErr>>
        /\ \/ main[u] = "await" /\ main'[u] \in {"recv", "flush"}
           \/ main[u] = "flushed" /\ main'[u] = "close" /\ chkErr[u] = "nil" /\ err'[u] = "nil"
           \/ main[u] = "flushed" /\ main'[u] = "cancel" /\ chkErr[u] # "nil" /\ err'[u] = chkErr[u]
           \/ done[u] /\ main' = main /\ err' = err
    BY <1>0, <1>6 DEF ChunkerReplies, PerUplink
  <2>2. Gone(u) => Gone(u)'
    BY <1>1, <1>3, <2>1 DEF Gone
  <2>3. Moving(u)'
    BY <1>1, <1>3, <2>1, <2>2 DEF Orderly, Moving
  <2>4. Once(u)'
    BY <1>1, <1>2, <1>3, <2>2 DEF Orderly, Once, WireKept
  <2>5. Ending(u)'
    BY <1>1, <1>3, <2>1 DEF Orderly, Ending
  <2> QED
    BY <2>3, <2>4, <2>5 DEF Orderly
<1>7. CASE ChunkerEnds(u)
  <2>1. chk[u] = "recv" /\ main[u] = "wait" /\ chk'[u] = "ended" /\ UNCHANGED <<mainVars, flushing, chkErr>>
    BY <1>0, <1>7 DEF ChunkerEnds, PerUplink
  <2>2. Gone(u) => Gone(u)'
    BY <1>1, <1>3, <2>1 DEF Gone
  <2> QED
    BY <1>1, <1>2, <1>3, <2>1, <2>2 DEF Orderly, Moving, Once, Ending, WireKept
<1> QED
  BY <1>4, <1>5, <1>6, <1>7 DEF ChunkerStep

\* The steps of uplinkFile's goroutine.
LEMMA SenderOrderly ==
  ASSUME IInv, DataTypes, NEW u \in Uplinks, Sound(u), Orderly(u), SenderStep(u)
  PROVE  Orderly(u)'
<1> USE DEF mainVars, chkVars, sndVars, conVars, linkVars
<1>0. PerUplink
  BY Domains
<1>1. UNCHANGED <<mainVars, done, conVars>>
  BY DEF SenderStep, SenderTakes, SenderGivesUp, SenderReplies, SenderEnds
<1>2. WireKept(u)
  BY <1>1, WireSame DEF WireKept
<1>3. (OnCon(u)' <=> OnCon(u)) /\ (ByMain(u)' <=> ByMain(u)) /\ (CancelTold(u)' <=> CancelTold(u))
  BY <1>1, <1>2 DEF OnCon, Busy, ByMain, CancelTold, WireKept
<1>4. CASE SenderTakes(u)
  <2>1. /\ chk[u] = "offer" /\ snd[u] = "recv" /\ chk'[u] = "await" /\ UNCHANGED <<flushing, chkErr>>
        /\ UNCHANGED <<started, offset, finished>>
    BY <1>0, <1>4 DEF SenderTakes, PerUplink
  <2>2. \/ done[u] /\ ~flushing[u] /\ UNCHANGED sndVars
        \/ /\ sndBg'[u] = flushing[u] /\ pkt'[u] = (IF started[u] THEN "data" ELSE "start")
           /\ \/ snd'[u] = "reply"
              \/ snd'[u] = "offer" /\ ~finished[u]
    BY <1>0, <1>4 DEF SenderTakes, PerUplink
  <2>3. ~OnCon(u) /\ ~Gone(u)
    BY <2>1 DEF Sound, Paired, Carried, Gone
  <2>4. Moving(u)'
    BY <1>1, <1>3, <2>1, <2>2, <2>3 DEF Orderly, Moving
  <2>5. snd'[u] = "offer" => ~Sent(u, "end")
    BY <2>1, <2>2 DEF Sound, Begun
  <2>6. Once(u)'
    BY <1>1, <1>2, <1>3, <2>1, <2>2, <2>3, <2>5 DEF Orderly, Once, WireKept
  <2>7. Ending(u)'
    BY <1>1, <1>3, <2>1, <2>3 DEF Orderly, Ending
  <2> QED
    BY <2>4, <2>6, <2>7 DEF Orderly
<1>5. CASE SenderGivesUp(u)
  <2>1. /\ snd[u] \in {"offer", "await"} /\ done[u] /\ ~sndBg[u] /\ snd'[u] = "reply" /\ sndErr'[u] = "ctx"
        /\ UNCHANGED <<chkVars, sndBg, chunk, pkt, started, offset, finished>>
    BY <1>0, <1>5 DEF SenderGivesUp, PacketPushed, PerUplink
  <2>2. Gone(u)'
    BY <1>1, <1>3, <2>1 DEF Sound, Paired, Gone
  <2> QED
    BY <1>1, <1>2, <1>3, <2>1, <2>2 DEF Orderly, Moving, Once, Ending, WireKept
<1>6. CASE SenderReplies(u)
  <2>1. /\ snd[u] = "reply" /\ snd'[u] = "recv"
        /\ UNCHANGED <<sndBg, sndErr, chunk, pkt, started, offset, finished>>
    BY <1>0, <1>6 DEF SenderReplies, PerUplink
  <2>2. \/ /\ chk[u] = "await" /\ flushing' = flushing /\ chk'[u] = "reply"
           /\ sndErr[u] # "nil" /\ chkErr'[u] = sndErr[u]
        \/ /\ chk[u] = "await" /\ flushing' = flushing /\ chk'[u] \in {"offer", "reply"}
           /\ sndErr[u] = "nil"
        \/ done[u] /\ ~sndBg[u] /\ UNCHANGED chkVars
    BY <1>0, <1>6, ReadyStage DEF SenderReplies, ChunkPushed, PerUplink
  <2>3. OnCon(u) => Gone(u) /\ ~sndBg[u]
    BY <2>1 DEF Orderly, Moving, Carried
  <2>4. Gone(u) => Gone(u)' /\ sndErr[u] # "nil"
    BY <1>1, <1>3, <2>1, <2>2 DEF Gone
  <2>5. Moving(u)'
    BY <1>1, <1>3, <2>1, <2>2, <2>3, <2>4 DEF Orderly, Moving, Sound, Paired
  <2>6. Once(u)'
    BY <1>1, <1>2, <1>3, <2>1, <2>4 DEF Orderly, Once, WireKept
  <2>7. Ending(u)'
    BY <1>1, <1>3, <2>1, <2>2, <2>3, <2>4 DEF Orderly, Ending
  <2> QED
    BY <2>5, <2>6, <2>7 DEF Orderly
<1>7. CASE SenderEnds(u)
  <2>1. /\ snd[u] = "recv" /\ snd'[u] = "ended" /\ chk[u] = "ended"
        /\ UNCHANGED <<chkVars, sndBg, sndErr, chunk, pkt, started, offset, finished>>
    BY <1>0, <1>7 DEF SenderEnds, PerUplink
  <2>2. Gone(u) => Gone(u)'
    BY <1>1, <1>3, <2>1 DEF Gone
  <2>3. Moving(u)'
    BY <1>1, <1>3, <2>1, <2>2 DEF Orderly, Moving, Carried
  <2>4. Once(u)' /\ Ending(u)'
    BY <1>1, <1>2, <1>3, <2>1, <2>2 DEF Orderly, Once, Ending, WireKept
  <2> QED
    BY <2>3, <2>4 DEF Orderly
<1> QED
  BY <1>4, <1>5, <1>6, <1>7 DEF SenderStep

\* The connection takes a packet, or drops it.
LEMMA TakesOrderly ==
  ASSUME IInv, DataTypes, NEW u \in Uplinks, Sound(u), Orderly(u), ConTakes(u)
  PROVE  Orderly(u)'
<1> USE DEF mainVars, chkVars, sndVars, conVars, linkVars
<1>0. PerUplink
  BY Domains
<1>1. /\ UNCHANGED <<mainVars, done, chkVars, sndBg, sndErr, chunk, pkt, started, offset, finished, wire, failed>>
      /\ snd[u] = "offer" /\ snd'[u] = "await" /\ ~Busy
  BY <1>0 DEF ConTakes, PerUplink, Busy
<1>2. \/ done[u] /\ ~sndBg[u] /\ con' = con
      \/ /\ ~(done[u] /\ ~sndBg[u])
         /\ con'.stage = "write" /\ con'.from = u /\ con'.by = "snd" /\ con'.kind = pkt[u] /\ con'.off = offset[u]
         /\ con'.lo = chunk[u].lo /\ con'.len = chunk[u].hi - chunk[u].lo
  BY DEF ConTakes, Idle
<1>3. WireKept(u)
  BY <1>1, WireSame DEF WireKept
<1>4. ~OnCon(u) /\ ~ByMain(u)' /\ ~Gone(u) /\ (CancelTold(u)' <=> CancelTold(u))
  BY <1>1, <1>2, <1>3 DEF OnCon, Busy, ByMain, Gone, CancelTold, WireKept
<1>5. OnCon(u)' => con'.stage = "write" /\ Carried(u)' /\ con'.kind = pkt[u] /\ ~(done[u] /\ ~sndBg[u])
  BY <1>1, <1>2 DEF OnCon, Busy, Carried
<1>6. Moving(u)'
  BY <1>1, <1>5 DEF Orderly, Moving
<1>7. Once(u)'
  BY <1>1, <1>3, <1>4, <1>5 DEF Orderly, Once, WireKept
<1>8. OnCon(u)' /\ main[u] \in {"cancelled", "close", "wait", "returned"} => sndBg[u]
  BY <1>1, <1>5 DEF Orderly, Moving, Sound, Paired
<1>9. Ending(u)'
  BY <1>1, <1>4, <1>8 DEF Orderly, Ending
<1> QED
  BY <1>6, <1>7, <1>9 DEF Orderly

\* The connection writes a packet, or fails to.
LEMMA WritesOrderly ==
  ASSUME IInv, DataTypes, NEW u \in Uplinks, Sound(u), Orderly(u), con.from = u, ConWrites
  PROVE  Orderly(u)'
<1> USE DEF mainVars, chkVars, sndVars, conVars, linkVars
<1>0. PerUplink
  BY Domains
<1>1. /\ UNCHANGED <<mainVars, done, chkVars, sndVars>> /\ con.stage = "write"
      /\ \E e \in {"nil", "ctx", "write"} : con' = [con EXCEPT !.stage = "reply", !.err = e]
  BY DEF ConWrites
<1>2. /\ con'.stage = "reply" /\ con'.from = con.from /\ con'.by = con.by /\ con'.kind = con.kind
      /\ con'.off = con.off /\ con'.lo = con.lo /\ con'.len = con.len
  BY <1>1 DEF IInv, Types
<1>3. \/ wire' = Append(wire, Written) /\ failed' = failed /\ con'.err # "write"
      \/ wire' = wire /\ con'.err = "write" /\ failed'[u] = failed[u] \cup {con.kind}
  BY <1>0 DEF ConWrites, Written, Background, IInv, Types, PerUplink
<1>4. Written \in Packet /\ Written.from = u /\ Written.kind = con.kind /\ wire \in Seq(Packet)
  BY DEF DataTypes, Packet, Written
<1>5. Busy /\ Busy' /\ (OnCon(u)' <=> OnCon(u)) /\ (ByMain(u)' <=> ByMain(u)) /\ (Carried(u)' <=> Carried(u))
  BY <1>1, <1>2 DEF OnCon, Busy, ByMain, Carried
<1>6. Gone(u)' <=> Gone(u)
  BY <1>1, <1>5 DEF Gone
<1>7. /\ \A k : Sent(u, k)' => Sent(u, k) \/ (con.kind = k /\ con'.err # "write")
      /\ CancelTold(u)' => CancelTold(u) \/ con.kind = "cancel"
  <2>1. \A k : Sent(u, k)' => Sent(u, k) \/ (con.kind = k /\ con'.err # "write")
    BY <1>3, <1>4, WireGrows, WireSame
  <2>2. "cancel" \in failed'[u] => "cancel" \in failed[u] \/ con.kind = "cancel"
    BY <1>3
  <2> QED
    BY <2>1, <2>2 DEF CancelTold
<1>8. \/ OnCon(u) /\ ~ByMain(u) /\ con.kind # "cancel"
      \/ ByMain(u) /\ ~OnCon(u) /\ con.kind = "cancel" /\ main[u] = "cancelled"
  BY <1>5 DEF OnCon, ByMain, DataTypes, Sound, Begun, Told
<1>9. Moving(u)'
  BY <1>1, <1>5, <1>6 DEF Orderly, Moving
<1>10. OnCon(u) => snd[u] # "offer"
  BY DEF Sound, Paired, Carried, Gone
<1>11. Once(u)'
  BY <1>1, <1>2, <1>5, <1>6, <1>7, <1>8, <1>10 DEF Orderly, Once
<1>12. Ending(u)'
  <2>1. main[u] \notin {"idle", "toobig"}
    BY <1>5 DEF IInv, Seen
  <2> QED
    BY <1>1, <1>2, <1>5, <1>7, <1>8, <2>1 DEF Orderly, Ending
<1> QED
  BY <1>9, <1>11, <1>12 DEF Orderly

\* The connection replies, or nobody takes its reply.
LEMMA RepliesOrderly ==
  ASSUME IInv, DataTypes, NEW u \in Uplinks, Sound(u), Orderly(u), con.from = u, ConReplies
  PROVE  Orderly(u)'
<1> USE DEF mainVars, chkVars, sndVars, conVars, linkVars
<1>0. PerUplink
  BY Domains
<1>1. con.stage = "reply" /\ con' = Idle /\ UNCHANGED <<err, pos, source, done, chkVars, wire, failed>>
  BY DEF ConReplies
<1>2. Busy /\ ~OnCon(u)' /\ ~ByMain(u)'
  BY <1>1 DEF Busy, OnCon, ByMain, Idle
<1>3. WireKept(u) /\ (CancelTold(u)' <=> CancelTold(u))
  BY <1>1, WireSame DEF WireKept, CancelTold
<1>4. CASE con.by = "main" /\ main[u] = "cancelled" /\ main' = [main EXCEPT ![u] = "close"] /\ UNCHANGED sndVars
  <2>1. main'[u] = "close" /\ ~OnCon(u)
    BY <1>0, <1>4 DEF PerUplink, OnCon
  <2>2. Gone(u)' <=> Gone(u)
    BY <1>1, <1>2, <1>4, <2>1 DEF Gone
  <2>3. Moving(u)'
    BY <1>1, <1>2, <1>4, <2>1 DEF Orderly, Moving
  <2>4. Once(u)'
    BY <1>1, <1>2, <1>3, <1>4, <2>1, <2>2 DEF Orderly, Once, WireKept
  <2>5. Ending(u)'
    BY <1>1, <1>2, <1>3, <1>4, <2>1 DEF Orderly, Ending
  <2> QED
    BY <2>3, <2>4, <2>5 DEF Orderly
<1>5. CASE con.by = "snd" /\ snd[u] = "await" /\ PacketPushed(u, con.err) /\ UNCHANGED <<main, sndBg, chunk>>
  <2>1. OnCon(u) /\ Carried(u) /\ con.kind = pkt[u] /\ ~Gone(u)
    BY <1>2, <1>5 DEF OnCon, Sound, Paired, Gone, Carried
  <2>2. snd'[u] \in {"offer", "reply"}
    BY <1>0, <1>5 DEF PacketPushed, PerUplink
  <2>3. Moving(u)'
    BY <1>1, <1>2, <1>5, <2>2 DEF Orderly, Moving
  <2>4. Ending(u)'
    BY <1>1, <1>2, <1>3, <1>5 DEF Orderly, Ending
  <2>5. Once(u)'
    <3>1. CASE con.err # "nil"
      <4>1. snd'[u] = "reply" /\ sndErr'[u] = con.err /\ UNCHANGED <<pkt, started, offset, finished>>
        BY <1>0, <1>5, <3>1 DEF PacketPushed, PerUplink
      <4>2. con.err # "write" => Gone(u)'
        <5>1. con.err # "write" => con.err = "ctx"
          BY <3>1 DEF DataTypes
        <5> QED
          BY <1>1, <1>2, <1>5, <2>1, <3>1, <4>1, <5>1 DEF Sound, Paired, Gone
      <4> QED
        BY <1>1, <1>2, <1>3, <2>1, <4>1, <4>2 DEF Orderly, Once, WireKept
    <3>2. CASE con.err = "nil" /\ pkt[u] = "start"
      <4>1. started'[u] /\ pkt'[u] = "data" /\ snd'[u] = "offer" /\ UNCHANGED <<offset, finished>>
        BY <1>0, <1>5, <3>2 DEF PacketPushed, PerUplink
      <4>2. ~finished[u] /\ ~Sent(u, "end")
        BY <1>5, <3>2 DEF Orderly, Once, Sound, Begun
      <4> QED
        BY <1>2, <1>3, <4>1, <4>2 DEF Once, WireKept
    <3>3. CASE con.err = "nil" /\ pkt[u] = "data"
      <4>1. /\ started' = started /\ pkt'[u] = (IF finished'[u] THEN "end" ELSE "data")
            /\ snd'[u] = (IF finished'[u] THEN "offer" ELSE "reply")
        BY <1>0, <1>5, <3>3 DEF PacketPushed, PerUplink
      <4>2. started[u] /\ ~finished[u] /\ ~Sent(u, "end")
        BY <1>5, <3>3 DEF Orderly, Once, Sound, Begun
      <4> QED
        BY <1>2, <1>3, <4>1, <4>2 DEF Once, WireKept
    <3>4. CASE con.err = "nil" /\ pkt[u] = "end"
      <4>1. snd'[u] = "reply" /\ UNCHANGED <<pkt, started, offset, finished>>
        BY <1>0, <1>5, <3>4 DEF PacketPushed, PerUplink
      <4>2. started[u]
        BY <1>5, <3>4 DEF Sound, Begun
      <4> QED
        BY <1>2, <4>1, <4>2 DEF Once
    <3>5. pkt[u] \in {"start", "data", "end"}
      BY DEF DataTypes
    <3> QED
      BY <3>1, <3>2, <3>3, <3>4, <3>5
  <2> QED
    BY <2>3, <2>4, <2>5 DEF Orderly
<1>6. CASE done[u] /\ ~Background /\ UNCHANGED <<main, sndVars>>
  <2>1. con.by = "snd" /\ ~sndBg[u] /\ OnCon(u)
    BY <1>2, <1>6 DEF Background, DataTypes, OnCon
  <2>2. Gone(u)'
    BY <1>1, <1>2, <1>6, <2>1 DEF Gone, Sound, Paired, Carried
  <2> QED
    BY <1>1, <1>2, <1>3, <1>6, <2>2 DEF Orderly, Moving, Once, Ending, WireKept
<1> QED
  BY <1>4, <1>5, <1>6 DEF ConReplies

\* In every reachable state.
AllOrderly == \A u \in Uplinks : Orderly(u)

THEOREM OrderInductive == ASSUME None \notin Uplinks PROVE Spec => [](Inv /\ AllOrderly)
<1>1. Init => AllOrderly
  <2> SUFFICES ASSUME Init, NEW u \in Uplinks PROVE Orderly(u)
    BY DEF AllOrderly
  <2>1. Len(wire) = 0 /\ con.stage = "recv"
    BY DEF Init, Idle
  <2>2. \A k : ~Sent(u, k)
    BY <2>1 DEF Sent
  <2>3. ~OnCon(u) /\ ~ByMain(u) /\ ~CancelTold(u)
    BY <2>1, <2>2 DEF OnCon, ByMain, Busy, CancelTold, Init
  <2> QED
    BY <2>2, <2>3 DEF Orderly, Moving, Once, Ending, Init
<1>2. Inv /\ AllOrderly /\ [Next]_vars => AllOrderly'
  <2> SUFFICES ASSUME IInv, DataTypes, AllSound, AllOrderly, [Next]_vars, NEW v \in Uplinks PROVE Orderly(v)'
    BY DEF AllOrderly, Inv
  <2>a. \A u \in Uplinks : Sound(u) /\ Orderly(u)
    BY DEF AllSound, AllOrderly
  <2>1. ASSUME NEW u \in Uplinks, Untouched(v) \/ (u = v /\ Orderly(v)') PROVE Orderly(v)'
    BY <2>a, <2>1, UntouchedOrderly
  <2>2. ASSUME NEW u \in Uplinks, UplinkStep(u) \/ CancelContext(u) PROVE Orderly(v)'
    BY <2>a, <2>2, <2>1, OthersUntouched, UplinkOrderly
  <2>3. ASSUME NEW u \in Uplinks, ChunkerStep(u) PROVE Orderly(v)'
    BY <2>a, <2>3, <2>1, OthersUntouched, ChunkerOrderly
  <2>4. ASSUME NEW u \in Uplinks, SenderStep(u) PROVE Orderly(v)'
    BY <2>a, <2>4, <2>1, OthersUntouched, SenderOrderly
  <2>5. ASSUME NEW u \in Uplinks, ConTakes(u) PROVE Orderly(v)'
    BY <2>a, <2>5, <2>1, OthersUntouched, TakesOrderly
  <2>6. CASE ConWrites \/ ConReplies
    <3>1. con.from \in Uplinks
      BY <2>6 DEF ConWrites, ConReplies, IInv, Seen, Busy
    <3>2. Untouched(v) \/ con.from = v
      BY <2>6, <3>1, OthersUntouched
    <3> QED
      BY <2>a, <2>6, <3>2, UntouchedOrderly, WritesOrderly, RepliesOrderly
  <2>7. CASE UNCHANGED vars
    <3>1. UNCHANGED <<mainVars, done, chkVars, sndVars, conVars>>
      BY <2>7 DEF vars
    <3>2. Untouched(v)
      BY <3>1, WireSame DEF Untouched, SndKept, ChkKept, MainKept, WireKept, mainVars, chkVars, sndVars, conVars
    <3> QED
      BY <2>a, <3>2, UntouchedOrderly
  <2>8. CASE LinkStep
    BY <2>a, <2>8, LinkUntouched, UntouchedOrderly
  <2> QED
    BY <2>2, <2>3, <2>4, <2>5, <2>6, <2>7, <2>8 DEF Next, ConStep, LinkStep
<1> QED
  BY <1>1, <1>2, SoundInductive, PTL DEF Spec

-----------------------------------------------------------------------------
(* Nobody is stuck.                                                         *)

\* What the connection's goroutine has in hand has somewhere to go.
LEMMA ConnectionMoves == ASSUME Inv, AllOrderly, con.stage # "recv" PROVE ConMoves
<1>0. CASE con.stage = "request"
  BY <1>0 DEF ConMoves
<1> SUFFICES ASSUME con.stage # "request" PROVE ConMoves
  BY <1>0
<1>1. con.from \in Uplinks /\ con.stage \in {"write", "reply"} /\ con.by \in {"main", "snd"}
  BY DEF Inv, IInv, Seen, Busy, DataTypes
<1> DEFINE u == con.from
<1>2. Sound(u) /\ Orderly(u)
  BY <1>1 DEF Inv, AllSound, AllOrderly
<1>3. CASE con.stage = "write"
  BY <1>3 DEF ConMoves
<1>4. CASE con.stage = "reply" /\ con.by = "main"
  <2>1. main[u] = "cancelled"
    BY <1>2, <1>4 DEF Sound, Told, ByMain, Busy
  <2> QED
    BY <1>4, <2>1 DEF ConMoves
<1>5. CASE con.stage = "reply" /\ con.by = "snd"
  <2>1. snd[u] = "await" \/ (done[u] /\ ~sndBg[u])
    BY <1>2, <1>5 DEF Orderly, Moving, OnCon, Busy, Carried, Gone
  <2> QED
    BY <1>5, <2>1 DEF ConMoves, Background
<1> QED
  BY <1>1, <1>3, <1>4, <1>5

\* While the connection waits for a packet that nobody offers, a goroutine of every uplink
\* that holds the lock can move.
LEMMA SomebodyMoves ==
  ASSUME Inv, AllOrderly, NEW u \in Uplinks, Active(u), ~ConMoves
  PROVE  UplinkMoves(u) \/ ChunkerMoves(u) \/ SenderMoves(u)
<1>1. con.stage = "recv" /\ snd[u] # "offer"
  BY ConnectionMoves DEF ConMoves
<1>2. ~OnCon(u) /\ ~ByMain(u)
  BY <1>1 DEF OnCon, ByMain, Busy
<1>3. Paired(u) /\ Told(u) /\ Moving(u)
  BY DEF Inv, AllSound, Sound, AllOrderly, Orderly
<1>4. /\ chk[u] \in {"recv", "offer", "await", "reply", "ended"}
      /\ snd[u] \in {"recv", "offer", "await", "reply", "ended"}
      /\ main[u] \in {"toobig", "recv", "offer", "await", "flush", "flushed", "cancel", "cancelled", "close",
                      "wait"}
  BY DEF Inv, IInv, Types, Active
<1>5. CASE main[u] \in {"toobig", "recv", "close", "cancel", "cancelled"}
  BY <1>1, <1>2, <1>3, <1>5 DEF Told, UplinkMoves
<1>6. CASE main[u] \in {"offer", "flush"}
  BY <1>3, <1>4, <1>6 DEF Moving, UplinkMoves, ChunkerMoves
<1>7. CASE main[u] \in {"await", "flushed"} /\ done[u]
  BY <1>7 DEF UplinkMoves
<1>8. CASE main[u] \in {"await", "flushed"} /\ ~done[u]
  <2>1. chk[u] \in {"offer", "await", "reply"}
    BY <1>3, <1>4, <1>8 DEF Moving
  <2>2. chk[u] = "reply" => ChunkerMoves(u)
    BY <1>8 DEF ChunkerMoves
  <2>3. chk[u] = "offer" => snd[u] = "recv"
    BY <1>1, <1>3, <1>4, <1>8 DEF Paired
  <2>4. chk[u] = "await" => snd[u] = "reply"
    BY <1>1, <1>2, <1>3, <1>4, <1>8 DEF Paired, Moving
  <2> QED
    BY <2>1, <2>2, <2>3, <2>4 DEF SenderMoves
<1>9. CASE main[u] = "wait"
  <2>1. CASE chk[u] = "recv"
    BY <1>9, <2>1 DEF ChunkerMoves
  <2>2. CASE chk[u] = "ended"
    BY <1>1, <1>2, <1>3, <1>4, <1>9, <2>2 DEF Paired, UplinkMoves, SenderMoves
  <2>3. CASE chk[u] \in {"offer", "await", "reply"}
    <3>1. done[u]
      BY <1>3, <1>9, <2>3 DEF Moving
    <3>2. CASE chk[u] = "reply" \/ ~flushing[u]
      BY <2>3, <3>1, <3>2 DEF ChunkerMoves
    <3>3. CASE chk[u] = "offer" /\ flushing[u]
      <4>1. snd[u] = "recv"
        BY <1>1, <1>3, <1>4, <3>3 DEF Paired
      <4> QED
        BY <3>3, <4>1 DEF SenderMoves
    <3>4. CASE chk[u] = "await" /\ flushing[u]
      BY <1>1, <1>2, <1>3, <1>4, <3>4 DEF Paired, Moving, SenderMoves
    <3> QED
      BY <2>3, <3>2, <3>3, <3>4
  <2> QED
    BY <1>4, <2>1, <2>2, <2>3
<1> QED
  BY <1>4, <1>5, <1>6, <1>7, <1>8, <1>9

\* While an uplink holds the lock somebody can move, the connection's goroutine is never left
\* with a reply that nobody takes, and an uplink that returned left no goroutine behind.
THEOREM NobodyIsEverStuck == ASSUME None \notin Uplinks PROVE Spec => []NobodyIsStuck
<1>1. Inv /\ AllOrderly => NobodyIsStuck
  <2> SUFFICES ASSUME Inv, AllOrderly PROVE NobodyIsStuck
    OBVIOUS
  <2>1. \A u \in Uplinks : main[u] = "returned" => chk[u] = "ended" /\ snd[u] = "ended"
    BY DEF AllOrderly, Orderly, Moving
  <2> QED
    BY <2>1, ConnectionMoves, SomebodyMoves DEF NobodyIsStuck
<1> QED
  BY <1>1, OrderInductive, PTL

-----------------------------------------------------------------------------
(* The promise is kept.                                                     *)

\* The promise speaks of the same wire.
LEMMA SameWire ==
  ASSUME NEW u
  PROVE  /\ \A k : Promise!Sent(u, k) <=> Sent(u, k)
         /\ Promise!Length(u) = Length(u)
         /\ Promise!Told(u) <=> CancelTold(u)
BY DEF Promise!Sent, Sent, Promise!Length, Length, Promise!DataAt, DataAt, EndOf, Promise!Told, CancelTold

\* An uplink that is open to the promise is one that holds the lock.
LEMMA StateIs ==
  ASSUME NEW u \in Uplinks, Types
  PROVE  /\ StateOf(u) = "open" <=> Active(u)
         /\ StateOf(u) = "new" <=> main[u] = "idle"
         /\ main[u] \in {"refused", "rejected"} => StateOf(u) = "refused"
         /\ main[u] = "returned" => StateOf(u) = IF err[u] = "nil" THEN "accepted" ELSE "failed"
<1>1. main[u] \in {"idle", "recv", "offer", "await", "flush", "flushed", "cancel",
                   "cancelled", "close", "wait", "returned", "refused", "toobig", "rejected"}
  BY DEF Types
<1>2. CASE Active(u)
  BY <1>1, <1>2 DEF StateOf, Active
<1>3. CASE main[u] = "idle"
  BY <1>3 DEF StateOf, Active
<1>4. CASE main[u] \in {"refused", "rejected"}
  BY <1>4 DEF StateOf, Active
<1>5. CASE main[u] = "returned"
  BY <1>5 DEF StateOf, Active
<1> QED
  BY <1>1, <1>2, <1>3, <1>4, <1>5 DEF Active

\* The states of the uplinks, as the promise has them.
States == [u \in Uplinks |-> StateOf(u)]

\* A step that writes and loses nothing, and takes no uplink in or out, does nothing to the
\* promise.
LEMMA NothingSeen ==
  ASSUME Types, Types', UNCHANGED <<wire, failed, cut>>,
         \A v \in Uplinks : \/ main'[v] = main[v] /\ err'[v] = err[v]
                            \/ Active(v) /\ Active(v)'
  PROVE  UNCHANGED Promise!vars
<1>1. \A v \in Uplinks : StateOf(v)' = StateOf(v)
  <2> TAKE v \in Uplinks
  <2>1. CASE main'[v] = main[v] /\ err'[v] = err[v]
    BY <2>1 DEF StateOf, Active
  <2>2. CASE Active(v) /\ Active(v)'
    BY <2>2 DEF StateOf
  <2> QED
    BY <2>1, <2>2
<1>2. States' = States
  BY <1>1 DEF States
<1> QED
  BY <1>2 DEF Promise!vars, States

\* The steps with which an uplink begins, is refused and returns.
LEMMA BeginsAndReturns ==
  ASSUME None \notin Uplinks, Inv, Inv', AllOrderly, NEW u \in Uplinks,
         Begin(u) \/ Reject(u) \/ Refuse(u) \/ Return(u)
  PROVE  Promise!Next
<1> USE DEF mainVars, chkVars, sndVars, conVars, linkVars
<1>0. PerUplink /\ Types /\ Types' /\ Locked
  BY Domains DEF Inv, IInv
<1>1. UNCHANGED <<err, wire, failed, cut>>
  BY DEF Begin, Reject, Refuse, Return
<1>2. \A v \in Uplinks : v # u => main'[v] = main[v]
  BY <1>0 DEF Begin, Reject, Refuse, Return, PerUplink
<1>3. \A v \in Uplinks : v # u => StateOf(v)' = StateOf(v)
  BY <1>1, <1>2 DEF StateOf, Active
<1>4. ASSUME NEW x, StateOf(u)' = x PROVE States' = [States EXCEPT ![u] = x]
  BY <1>3, <1>4 DEF States
<1>5. CASE Begin(u)
  <2>1. main[u] = "idle" /\ main'[u] \in {"recv", "toobig"} /\ lock = None
    BY <1>0, <1>5 DEF Begin, PerUplink
  <2>2. States[u] = "new" /\ \A v \in Uplinks : States[v] # "open"
    BY <1>0, <2>1, StateIs DEF States, Locked
  <2>3. StateOf(u)' = "open"
    BY <2>1 DEF StateOf, Active
  <2>4. Promise!Open(u)
    BY <1>1, <1>4, <2>2, <2>3 DEF Promise!Open, States
  <2> QED
    BY <2>4 DEF Promise!Next
<1>6. CASE Refuse(u)
  <2>1. main[u] = "idle" /\ main'[u] = "refused" /\ lock \in Uplinks
    BY <1>0, <1>6 DEF Refuse, PerUplink, Types
  <2>2. States[u] = "new" /\ \E v \in Uplinks : States[v] = "open"
    BY <1>0, <2>1, StateIs DEF States, Locked
  <2>3. StateOf(u)' = "refused"
    BY <2>1 DEF StateOf, Active
  <2>4. Promise!Refuse(u)
    BY <1>1, <1>4, <2>2, <2>3 DEF Promise!Refuse, States
  <2> QED
    BY <2>4 DEF Promise!Next
<1>7. CASE Return(u)
  <2>1. main[u] = "wait" /\ main'[u] = "returned"
    BY <1>0, <1>7 DEF Return, PerUplink
  <2>2. States[u] = "open"
    BY <1>0, <2>1, StateIs DEF States, Active
  <2>3. err[u] = "nil" <=> ~CancelTold(u)
    BY <2>1 DEF Inv, AllSound, Sound, Told, AllOrderly, Orderly, Ending
  <2>4. StateOf(u)' = IF CancelTold(u) THEN "failed" ELSE "accepted"
    BY <1>1, <2>1, <2>3 DEF StateOf, Active
  <2>5. Promise!Told(u) <=> CancelTold(u)
    BY SameWire
  <2>6. Promise!Close(u)
    BY <1>1, <1>4, <2>2, <2>4, <2>5 DEF Promise!Close, States
  <2> QED
    BY <2>6 DEF Promise!Next
<1>8. CASE Reject(u)
  <2>1. main[u] = "toobig" /\ main'[u] = "rejected"
    BY <1>0, <1>8 DEF Reject, PerUplink
  <2>2. States[u] = "open"
    BY <1>0, <2>1, StateIs DEF States, Active
  <2>3. failed[u] = {}
    BY <2>1 DEF AllOrderly, Orderly, Ending
  <2>4. \A i \in 1 .. Len(wire) : wire[i].from # u
    BY <2>1 DEF Inv, IInv, Seen
  <2>5. StateOf(u)' = "refused"
    BY <2>1 DEF StateOf, Active
  <2>6. Promise!Reject(u)
    BY <1>1, <1>4, <2>2, <2>3, <2>4, <2>5 DEF Promise!Reject, States
  <2> QED
    BY <2>6 DEF Promise!Next
<1> QED
  BY <1>5, <1>6, <1>7, <1>8

\* The connection writes a packet of the uplink that holds the lock, in its turn, or loses it.
LEMMA WritesInTurn ==
  ASSUME None \notin Uplinks, Inv, Inv', AllOrderly, ConWrites
  PROVE  Promise!Next
<1> USE DEF mainVars, chkVars, sndVars, conVars, linkVars
<1> DEFINE u == con.from
<1>1. /\ con.stage = "write" /\ UNCHANGED <<mainVars, done, chkVars, sndVars, cut>>
      /\ \/ wire' = Append(wire, Written) /\ failed' = failed
         \/ wire' = wire /\ failed' = [failed EXCEPT ![u] = @ \cup {con.kind}]
  BY DEF ConWrites, Written
<1>2. u \in Uplinks /\ wire \in Seq(Packet) /\ con.kind \in Kinds /\ con.by \in {"main", "snd"}
  BY <1>1 DEF Inv, IInv, Seen, Busy, DataTypes
<1>3. Sound(u) /\ Orderly(u) /\ Types
  BY <1>2 DEF Inv, IInv, AllSound, AllOrderly
<1>4. \/ OnCon(u) /\ con.kind # "cancel"
      \/ ByMain(u) /\ con.kind = "cancel" /\ main[u] = "cancelled"
  BY <1>1, <1>2, <1>3 DEF OnCon, ByMain, Busy, Sound, Begun, Told
<1>5. Active(u)
  <2>1. main[u] \notin {"idle", "refused", "rejected"}
    BY <1>1 DEF Inv, IInv, Seen, Busy
  <2>2. main[u] # "returned"
    BY <1>3, <1>4 DEF Orderly, Moving, Ending
  <2> QED
    BY <2>1, <2>2 DEF Active
<1>6. States[u] = "open" /\ States' = States
  <2>1. States[u] = "open"
    BY <1>2, <1>3, <1>5, StateIs DEF States
  <2>2. \A v \in Uplinks : StateOf(v)' = StateOf(v)
    BY <1>1 DEF StateOf, Active
  <2> QED
    BY <2>1, <2>2 DEF States
<1>7. con.kind = "cancel" => ~CancelTold(u)
  BY <1>1, <1>3, <1>4 DEF Orderly, Ending
<1>8. CASE wire' = Append(wire, Written) /\ failed' = failed
  <2>1. Written.from = u /\ Written.kind = con.kind /\ Written.off = con.off
    BY DEF Written
  <2>2. Len(wire') = Len(wire) + 1 /\ wire'[Len(wire')] = Written /\ Len(wire) \in Nat
    BY <1>2, <1>8
  <2>3. con.kind = "start" => ~Sent(u, "start")
    BY <1>1, <1>3, <1>4 DEF Orderly, Once
  <2>4. con.kind \in {"data", "end"} => Sent(u, "start") /\ ~Sent(u, "end")
    BY <1>1, <1>3, <1>4 DEF Orderly, Once, Sound, Begun
  <2>5. con.kind = "data" => con.off = Length(u)
    BY <1>1, <1>3, <1>4 DEF Sound, Placed
  <2>6. con.kind = "end" => Length(u) >= Size
    BY <1>3, <1>4 DEF Sound, Begun
  <2>7. Promise!MayFollow(u, Written)
    BY <1>2, <1>7, <2>1, <2>3, <2>4, <2>5, <2>6, SameWire DEF Kinds, Promise!MayFollow
  <2>8. Promise!Write(u)
    BY <1>1, <1>6, <1>8, <2>1, <2>2, <2>7 DEF Promise!Write, States
  <2> QED
    BY <1>2, <2>8 DEF Promise!Next
<1>9. CASE wire' = wire /\ failed' = [failed EXCEPT ![u] = @ \cup {con.kind}]
  <2>1. con.kind \in Promise!Kinds
    BY <1>2 DEF Kinds, Promise!Kinds
  <2>2. con.kind = "cancel" => ~Promise!Told(u)
    BY <1>7, SameWire
  <2>3. Promise!Lose(u)
    BY <1>1, <1>6, <1>9, <2>1, <2>2 DEF Promise!Lose, States
  <2> QED
    BY <1>2, <2>3 DEF Promise!Next
<1> QED
  BY <1>1, <1>8, <1>9

\* All other steps are between the goroutines.
LEMMA OthersAreUnseen ==
  ASSUME Inv, Inv', NEW u \in Uplinks,
         \/ Recv(u) \/ GiveUp(u) \/ OfferCancel(u) \/ CloseUplinker(u) \/ CancelContext(u)
         \/ ChunkerStep(u) \/ SenderStep(u) \/ ConTakes(u)
         \/ ConReplies /\ con.from = u
  PROVE  UNCHANGED Promise!vars
<1> USE DEF mainVars, chkVars, sndVars, conVars, linkVars
<1>0. PerUplink /\ Types /\ Types'
  BY Domains DEF Inv, IInv
<1>1. UNCHANGED <<wire, failed, cut>>
  BY DEF Recv, GiveUp, OfferCancel, CloseUplinker, CancelContext, ChunkerStep, ChunkerTakes, ChunkerGivesUp,
         ChunkerReplies, ChunkerEnds, SenderStep, SenderTakes, SenderGivesUp, SenderReplies, SenderEnds,
         ConTakes, ConReplies
<1>2. \/ UNCHANGED <<main, err>>
      \/ /\ main[u] \in {"recv", "offer", "await", "flush", "flushed", "cancel", "cancelled", "close"}
         /\ main'[u] \in {"recv", "offer", "await", "flush", "flushed", "cancel", "cancelled", "close", "wait"}
         /\ \A v \in Uplinks : v # u => main'[v] = main[v] /\ err'[v] = err[v]
  <2>1. CASE Recv(u)
    BY <1>0, <2>1 DEF Recv, PerUplink
  <2>2. CASE GiveUp(u) \/ OfferCancel(u) \/ CloseUplinker(u)
    BY <1>0, <2>2 DEF GiveUp, OfferCancel, CloseUplinker, PerUplink
  <2>3. CASE ChunkerTakes(u) \/ ChunkerReplies(u)
    BY <1>0, <2>3 DEF ChunkerTakes, ChunkerReplies, PerUplink
  <2>4. CASE CancelContext(u) \/ ChunkerGivesUp(u) \/ ChunkerEnds(u) \/ SenderStep(u) \/ ConTakes(u)
    BY <2>4 DEF CancelContext, ChunkerGivesUp, ChunkerEnds, SenderStep, SenderTakes, SenderGivesUp,
                SenderReplies, SenderEnds, ConTakes
  <2>5. CASE ConReplies /\ con.from = u
    BY <1>0, <2>5 DEF ConReplies, PerUplink
  <2> QED
    BY <2>1, <2>2, <2>3, <2>4, <2>5 DEF ChunkerStep
<1>3. \A v \in Uplinks : \/ main'[v] = main[v] /\ err'[v] = err[v]
                         \/ Active(v) /\ Active(v)'
  BY <1>2 DEF Active
<1> QED
  BY <1>0, <1>1, <1>3, NothingSeen

\* A request's cancel packet may cut the files that are being written; the rest of the link's
\* steps are unseen.
LEMMA LinkIsSeen ==
  ASSUME Inv, Inv', LinkStep
  PROVE  Promise!Next \/ UNCHANGED Promise!vars
<1>1. /\ UNCHANGED <<main, err, wire, failed>>
      /\ Types /\ Types'
  BY LinkIs DEF Inv, IInv, mainVars
<1>2. States' = States
  BY <1>1 DEF States, StateOf, Active
<1>3. CASE cut' = cut
  BY <1>1, <1>3, NothingSeen
<1>4. CASE RequestWritten /\ cut' = cut \cup OpenFiles
  <2>1. OpenFiles = {u \in Uplinks : Promise!Sent(u, "start") /\ ~Promise!Sent(u, "end") /\ ~Promise!Sent(u, "cancel")}
    BY SameWire DEF OpenFiles
  <2>2. Promise!Interrupt
    BY <1>1, <1>2, <1>4, <2>1 DEF Promise!Interrupt, States
  <2> QED
    BY <2>2 DEF Promise!Next
<1> QED
  BY <1>3, <1>4 DEF LinkStep, RequestTaken, RequestWritten, EndConnection, SendOnClosed, linkVars

\* The lock, the goroutines and their channels implement FileUplinks: one uplink at a time is
\* open, its packets follow each other in their order, without a gap, and are all written
\* while it is, and its client gets an error exactly when a cancel packet was sent or lost.
THEOREM UplinksKeepThePromise == ASSUME None \notin Uplinks PROVE Spec => KeepsThePromise
<1>1. Init => Promise!Init
  <2> SUFFICES ASSUME Init PROVE Promise!Init
    OBVIOUS
  <2>1. \A u \in Uplinks : StateOf(u) = "new"
    BY DEF Init, StateOf, Active
  <2> QED
    BY <2>1 DEF Init, Promise!Init
<1>2. Inv /\ Inv' /\ AllOrderly /\ [Next]_vars => [Promise!Next]_(Promise!vars)
  <2> SUFFICES ASSUME Inv, Inv', AllOrderly, [Next]_vars
               PROVE  Promise!Next \/ UNCHANGED Promise!vars
    OBVIOUS
  <2>1. ASSUME NEW u \in Uplinks, UplinkStep(u) \/ CancelContext(u) PROVE Promise!Next \/ UNCHANGED Promise!vars
    BY <2>1, BeginsAndReturns, OthersAreUnseen DEF UplinkStep
  <2>2. ASSUME NEW u \in Uplinks, ChunkerStep(u) \/ SenderStep(u) \/ ConTakes(u)
        PROVE  Promise!Next \/ UNCHANGED Promise!vars
    BY <2>2, OthersAreUnseen
  <2>3. CASE ConWrites
    BY <2>3, WritesInTurn
  <2>4. CASE ConReplies
    <3>1. con.from \in Uplinks
      BY <2>4 DEF ConReplies, Inv, IInv, Seen, Busy
    <3> QED
      BY <2>4, <3>1, OthersAreUnseen
  <2>5. CASE UNCHANGED vars
    <3>1. Types /\ Types' /\ UNCHANGED <<main, err, wire, failed, cut>>
      BY <2>5 DEF Inv, IInv, vars, mainVars, conVars, linkVars
    <3> QED
      BY <3>1, NothingSeen
  <2> QED
    BY <2>1, <2>2, <2>3, <2>4, <2>5, LinkIsSeen DEF Next, ConStep, LinkStep
<1> QED
  BY <1>1, <1>2, OrderInductive, PTL DEF Spec, KeepsThePromise, Promise!Spec
=============================================================================
