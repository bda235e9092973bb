------------------------------ MODULE FileUplinks ------------------------------
(***************************************************************************)
(* What the file uplinks of one F Prime connection promise to the flight   *)
(* software and to the clients, without Fsw.Uplink's lock, its goroutines  *)
(* and their channels: one uplink is open at a time, and all its packets   *)
(* are written while it is.  A start packet, data packets without a gap    *)
(* and an end packet that closes a whole file, each but the data at most   *)
(* once; and a client is told of a failure exactly when its uplink         *)
(* told the flight software to drop the file, or could not tell it.  A     *)
(* request may tell it so at any time, and no client hears of it; when the *)
(* connection ends, so may everything.                                     *)
(***************************************************************************)
EXTENDS Naturals, Sequences

CONSTANTS
  Uplinks, \* calls of Fsw.Uplink
  Size     \* of the announced file

VARIABLES
  wire,  \* the packets the flight software gets from the uplinks
  cut,   \* uplinks whose file a request told it to drop
  state, \* uplink -> new, refused, open, accepted, failed
  lost   \* uplink -> the kinds of its packets that could not be written

vars == <<wire, cut, state, lost>>

Kinds == {"start", "data", "end", "cancel"}

DataAt(u) == {i \in 1 .. Len(wire) : wire[i].from = u /\ wire[i].kind = "data"}
Sent(u, kind) == \E i \in 1 .. Len(wire) : wire[i].from = u /\ wire[i].kind = kind
Told(u) == Sent(u, "cancel") \/ "cancel" \in lost[u]

\* The offset up to which the data packets of u fill the file.
Length(u) ==
  IF DataAt(u) = {} THEN 0
  ELSE LET last == CHOOSE i \in DataAt(u) : \A j \in DataAt(u) : j <= i IN
       wire[last].off + wire[last].len

Init ==
  /\ wire = <<>> /\ cut = {}
  /\ state = [u \in Uplinks |-> "new"]
  /\ lost = [u \in Uplinks |-> {}]

Open(u) ==
  /\ state[u] = "new" /\ \A v \in Uplinks : state[v] # "open"
  /\ state' = [state EXCEPT ![u] = "open"]
  /\ UNCHANGED <<wire, cut, lost>>

Refuse(u) ==
  /\ state[u] = "new" /\ \E v \in Uplinks : state[v] = "open"
  /\ state' = [state EXCEPT ![u] = "refused"]
  /\ UNCHANGED <<wire, cut, lost>>

\* The file is too big: nothing is sent.
Reject(u) ==
  /\ state[u] = "open"
  /\ lost[u] = {} /\ \A i \in 1 .. Len(wire) : wire[i].from # u
  /\ state' = [state EXCEPT ![u] = "refused"]
  /\ UNCHANGED <<wire, cut, lost>>

\* The packet p may follow those that u has sent.
MayFollow(u, p) ==
  \/ p.kind = "start" /\ ~Sent(u, "start")
  \/ p.kind = "data" /\ Sent(u, "start") /\ ~Sent(u, "end") /\ p.off = Length(u)
  \/ p.kind = "end" /\ Sent(u, "start") /\ ~Sent(u, "end") /\ Length(u) >= Size
  \/ p.kind = "cancel" /\ ~Told(u)

Write(u) ==
  /\ state[u] = "open"
  /\ Len(wire') = Len(wire) + 1
  /\ LET p == wire'[Len(wire')] IN
       wire' = Append(wire, p) /\ p.from = u /\ MayFollow(u, p)
  /\ UNCHANGED <<cut, state, lost>>

\* The connection does not take a packet.
Lose(u) ==
  /\ state[u] = "open"
  /\ \E kind \in Kinds :
       /\ kind = "cancel" => ~Told(u)
       /\ lost' = [lost EXCEPT ![u] = @ \cup {kind}]
  /\ UNCHANGED <<wire, cut, state>>

Close(u) ==
  /\ state[u] = "open"
  /\ state' = [state EXCEPT ![u] = IF Told(u) THEN "failed" ELSE "accepted"]
  /\ UNCHANGED <<wire, cut, lost>>

\* The flight software is told to drop the files it is in the middle of, by somebody else.
Interrupt ==
  /\ cut' = cut \cup {u \in Uplinks : Sent(u, "start") /\ ~Sent(u, "end") /\ ~Sent(u, "cancel")}
  /\ UNCHANGED <<wire, state, lost>>

Next ==
  \/ Interrupt
  \/ \E u \in Uplinks : Open(u) \/ Refuse(u) \/ Reject(u) \/ Write(u) \/ Lose(u) \/ Close(u)

Spec == Init /\ [][Next]_vars
===============================================================================
