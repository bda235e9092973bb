---------------------------- MODULE PendingUplink ----------------------------
(***************************************************************************)
(* An entry of the uplink view that stands for a file to be uplinked       *)
(* (PendingFileUplink,                                                     *)
(* src/extensions/core/src/components/UplinkViewer.ts).  The user picks    *)
(* its target from a list, gives it a destination and starts it; drawing   *)
(* the entry checks the target against a list of its own.  Every list is   *)
(* one the host gave some time ago.  The command that would cancel an      *)
(* uplink is not registered: a running one ends when the client's promise  *)
(* does (RpcRequests).                                                     *)
(***************************************************************************)
EXTENDS Naturals, FiniteSets

CONSTANTS Fsws,         \* the flight software that takes files
          Nobody,       \* no target
          MaxStarts,    \* bound: how often the start command runs
          MaxDraws      \* bound: how often the entry is drawn while it is pending

Starts == 1 .. MaxStarts
Draws == 1 .. MaxDraws

VARIABLES connected,   \* the flight software that is connected
          target,      \* targetId
          destination, \* whether the destination is set
          active,      \* _cancel is set: the entry is to be drawn as an uplink
          drawn,       \* how it is drawn: "pending", "active" or "gone"
          deleted,     \* pendingDelete
          offered,     \* the list the user picks from
          draw,        \* draw[d]: "none", "asking", "listed" or "over"
          list,        \* list[d]: the list of draw d
          start,       \* start[s]: "none", "getting", "stating", "sending", "over", "failed"
          aim,         \* aim[s]: the target start s took
          picked,      \* history: the user's last pick
          sure         \* history: the pick was connected all the time since, and in the
                       \* lists that draws had got before it

vars == <<connected, target, destination, active, drawn, deleted, offered, draw, list, start,
          aim, picked, sure>>

TypeOK ==
    /\ connected \subseteq Fsws /\ offered \subseteq Fsws
    /\ {target, picked} \subseteq Fsws \cup {Nobody}
    /\ {destination, active, deleted, sure} \subseteq BOOLEAN
    /\ drawn \in {"pending", "active", "gone"}
    /\ draw \in [Draws -> {"none", "asking", "listed", "over"}]
    /\ list \in [Draws -> SUBSET Fsws]
    /\ start \in [Starts -> {"none", "getting", "stating", "sending", "over", "failed"}]
    /\ aim \in [Starts -> Fsws \cup {Nobody}]

Init ==
    /\ connected \in SUBSET Fsws
    /\ target = Nobody /\ picked = Nobody
    /\ destination = FALSE /\ active = FALSE /\ deleted = FALSE
    /\ drawn = "pending" /\ offered = {} /\ sure = FALSE
    /\ draw = [d \in Draws |-> "none"] /\ list = [d \in Draws |-> {}]
    /\ start = [s \in Starts |-> "none"] /\ aim = [s \in Starts |-> Nobody]

entry == <<target, destination, active, drawn, deleted, offered, draw, list, start, aim,
           picked>>

-----------------------------------------------------------------------------
Joins(f) ==
    /\ f \notin connected /\ connected' = connected \cup {f}
    /\ UNCHANGED sure /\ UNCHANGED entry

Leaves(f) ==
    /\ f \in connected /\ connected' = connected \ {f}
    /\ sure' = (sure /\ f # picked)
    /\ UNCHANGED entry

-----------------------------------------------------------------------------
\* setTarget(): the list the user picks from is asked for once.
Offer ==
    /\ drawn = "pending" /\ offered' = connected
    /\ UNCHANGED <<connected, target, destination, active, drawn, deleted, draw, list, start,
                   aim, picked, sure>>

\* The user takes one of them, whatever became of it and of the entry since.
Pick(f) ==
    /\ f \in offered /\ offered' = {}
    /\ target' = f /\ picked' = f
    /\ sure' = (f \in connected /\ \A d \in Draws : draw[d] = "listed" => f \in list[d])
    /\ UNCHANGED <<connected, destination, active, drawn, deleted, draw, list, start, aim>>

Edit ==
    /\ drawn = "pending" /\ ~destination /\ destination' = TRUE
    /\ UNCHANGED <<connected, target, active, drawn, deleted, offered, draw, list, start, aim,
                   picked, sure>>

\* hermes.uplink.delete, which a pending entry offers.
Delete ==
    /\ drawn = "pending" /\ ~deleted /\ deleted' = TRUE
    /\ UNCHANGED <<connected, target, destination, active, drawn, offered, draw, list, start,
                   aim, picked, sure>>

-----------------------------------------------------------------------------
\* The view is drawn again: the entry is filtered out, or drawn as an uplink.
Redraw ==
    /\ drawn' = IF deleted THEN "gone" ELSE IF active THEN "active" ELSE drawn
    /\ drawn' # drawn
    /\ UNCHANGED <<connected, target, destination, active, deleted, offered, draw, list,
                   start, aim, picked, sure>>

\* getTreeItem() of a pending entry asks for the list.
Draw(d) ==
    /\ ~deleted /\ ~active
    /\ draw[d] = "none" /\ \A c \in Draws : c < d => draw[c] # "none"
    /\ draw' = [draw EXCEPT ![d] = "asking"]
    /\ UNCHANGED <<connected, target, destination, active, drawn, deleted, offered, list, start,
                   aim, picked, sure>>

Listed(d) ==
    /\ draw[d] = "asking"
    /\ draw' = [draw EXCEPT ![d] = "listed"]
    /\ list' = [list EXCEPT ![d] = connected]
    /\ UNCHANGED <<connected, target, destination, active, drawn, deleted, offered, start, aim,
                   picked, sure>>

\* The same that takes the first one of the list whenever there is one.
DrawnFirst(d) ==
    /\ draw[d] = "listed"
    /\ draw' = [draw EXCEPT ![d] = "over"]
    /\ target' \in IF list[d] # {} THEN list[d] ELSE {Nobody}
    /\ UNCHANGED <<connected, destination, active, drawn, deleted, offered, list, start, aim, picked, sure>>

\* getTarget(): a target that is not in the list is deselected, and the first one
\* of the list selected when none is.
Drawn(d) ==
    /\ draw[d] = "listed"
    /\ draw' = [draw EXCEPT ![d] = "over"]
    /\ target' \in IF target \in list[d] THEN {target}
                   ELSE IF list[d] # {} THEN list[d] ELSE {Nobody}
    /\ UNCHANGED <<connected, destination, active, drawn, deleted, offered, list, start, aim, picked, sure>>

-----------------------------------------------------------------------------
\* hermes.uplink.start, which the entry offers until it is drawn as an uplink, a
\* second time too: start() to its first await.
Start(s) ==
    /\ start[s] = "none" /\ \A t \in Starts : t < s => start[t] # "none"
    /\ drawn = "pending" /\ target # Nobody /\ destination
    /\ active' = TRUE
    /\ start' = [start EXCEPT ![s] = "getting"] /\ aim' = [aim EXCEPT ![s] = target]
    /\ UNCHANGED <<connected, target, destination, drawn, deleted, offered, draw, list,
                   picked, sure>>

\* getFsw() of what the target was when the start was given.
Got(s) ==
    /\ start[s] = "getting" /\ aim[s] \in connected
    /\ start' = [start EXCEPT ![s] = "stating"]
    /\ UNCHANGED <<connected, target, destination, active, drawn, deleted, offered, draw, list,
                   aim, picked, sure>>

\* The file is there: the uplink is under way.
Sends(s) ==
    /\ start[s] = "stating"
    /\ start' = [start EXCEPT ![s] = "sending"]
    /\ UNCHANGED <<connected, target, destination, active, drawn, deleted, offered, draw, list,
                   aim, picked, sure>>

\* The flight software is gone, the host does not answer or the file is not there:
\* the user is told, and the entry stays drawn as an uplink.
Fails(s) ==
    /\ start[s] \in {"getting", "stating"}
    /\ start' = [start EXCEPT ![s] = "failed"]
    /\ UNCHANGED <<connected, target, destination, active, drawn, deleted, offered, draw, list,
                   aim, picked, sure>>

\* The same that does not take the entry out of the list.
OverStays(s) ==
    /\ start[s] = "sending"
    /\ start' = [start EXCEPT ![s] = "over"]
    /\ UNCHANGED <<connected, target, destination, active, drawn, deleted, offered, draw, list,
                   aim, picked, sure>>

\* finally: the uplink has ended, one way or the other.
Over(s) ==
    /\ start[s] = "sending"
    /\ start' = [start EXCEPT ![s] = "over"]
    /\ deleted' = TRUE
    /\ UNCHANGED <<connected, target, destination, active, drawn, offered, draw, list, aim,
                   picked, sure>>

Next ==
    \/ \E f \in Fsws : Joins(f) \/ Leaves(f) \/ Pick(f)
    \/ Offer \/ Edit \/ Delete \/ Redraw
    \/ \E d \in Draws : Draw(d) \/ Listed(d) \/ Drawn(d)
    \/ \E s \in Starts : Start(s) \/ Got(s) \/ Sends(s) \/ Fails(s) \/ Over(s)

Spec == Init /\ [][Next]_vars

-----------------------------------------------------------------------------
\* What the user picked stays the target, whatever is drawn in which order and from
\* however old a list, until that flight software leaves; a draw whose list is older
\* than the pick, and lacks it, is the exception.
PickIsKept == sure => target = picked

\* An entry that is drawn as an uplink has one under way, or a start of it failed:
\* then it stays, for it can neither be started again nor deleted.
ActiveForAReason ==
    drawn = "active" /\ ~deleted =>
        \E s \in Starts : start[s] \in {"getting", "stating", "sending", "failed"}
=============================================================================
