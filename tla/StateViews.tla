----------------------------- MODULE StateViews -----------------------------
(***************************************************************************)
(* The views of the VS Code extension (ConnectionViewer.ts,                *)
(* UplinkViewer.ts, DownlinkViewer.ts in src/extensions/core/src/          *)
(* components).  Each shows one or several kinds of the host's state.  The *)
(* host pushes every change to the streams it has registered: it takes a   *)
(* snapshot and pushes it, in two steps, and several changes do so at a    *)
(* time.  refresh() asks for the whole state.  Neither the pushes nor the  *)
(* answers come in any order.  A push carries the state, or has the view   *)
(* refreshed.                                                              *)
(*                                                                         *)
(* A view exists from the activation of the extension; a connection        *)
(* requests the streams and then has every view refreshed (api/index.ts).  *)
(***************************************************************************)
EXTENDS Integers, FiniteSets

CONSTANTS Kinds,          \* the kinds of state the view shows
          Signalled,      \* those whose push only has the view refreshed
          Debounced,      \* those whose stream sends the last of several pushes only
          MaxChanges,     \* bound: the changes of all kinds, each with its push
          MaxRefreshes    \* bound: the refreshes of the view

Refreshes == 1 .. MaxRefreshes
Changes == 1 .. MaxChanges
Versions == 0 .. MaxChanges
Unanswered == -1

VARIABLES changes,     \* how many changes there were
          version,     \* version[k]: the host's state, the number of its last change
          stream,      \* stream[k]: "asked" or "on", when the host has registered it
          push,        \* push[n]: that of change n, with its kind and its snapshot
          asked,       \* how many refreshes were started
          answer,      \* answer[r][k]: the snapshot of refresh r
          over,        \* the refreshes that showed their snapshots or failed
          view,        \* view[k]: what it shows
          lost,        \* history: the newest version that was on its way to the view in vain
          newest,      \* history: the newest version the view has shown
          calm         \* history: a refresh that began with nothing on its way, and no
                       \* change since; or 0

vars == <<changes, version, stream, push, asked, answer, over, view, lost, newest, calm>>

Pending == (1 .. asked) \ over
Are(at) == {n \in Changes : push[n].at = at}
Coming == {n \in Changes : push[n].at # "over"}

Pushes == [at : {"due", "taken", "sent", "over"}, kind : Kinds, of : Versions]

TypeOK ==
    /\ changes \in Versions
    /\ version \in [Kinds -> Versions] /\ view \in [Kinds -> Versions]
    /\ lost \in [Kinds -> Versions] /\ newest \in [Kinds -> Versions]
    /\ stream \in [Kinds -> {"asked", "on"}]
    /\ push \in [Changes -> Pushes]
    /\ asked \in 0 .. MaxRefreshes /\ over \subseteq 1 .. asked
    /\ answer \in [Refreshes -> [Kinds -> Versions \cup {Unanswered}]]
    /\ calm \in 0 .. asked

\* A connection has just been made: its streams are requested, and the view is
\* being refreshed.  What it shows, if anything, is of an earlier connection.
Init ==
    /\ changes \in {0, 1} /\ version \in [Kinds -> {0, changes}]
    /\ stream = [k \in Kinds |-> "asked"]
    /\ push \in [Changes -> [at : {"over"}, kind : {CHOOSE k \in Kinds : TRUE}, of : {0}]]
    /\ asked = 1 /\ over = {} /\ calm = 1
    /\ answer = [r \in Refreshes |-> [k \in Kinds |-> Unanswered]]
    /\ view = [k \in Kinds |-> 0] /\ lost = view /\ newest = view

-----------------------------------------------------------------------------
(* The host. *)

Newer(a, b) == [k \in Kinds |-> IF a[k] > b[k] THEN a[k] ELSE b[k]]

\* lost, when v[k] does not reach the view either.
Loses(k, v) == Newer(lost, [lost EXCEPT ![k] = v])

\* The state changes; a push of it is due.  (An operation that fails pushes what was there.)
Change(k) ==
    /\ changes < MaxChanges /\ changes' = changes + 1
    /\ version' = [version EXCEPT ![k] = changes']
    /\ push' = [push EXCEPT ![changes'] = [at |-> "due", kind |-> k, of |-> 0]]
    /\ calm' = 0
    /\ UNCHANGED <<stream, asked, answer, over, view, lost, newest>>

\* UpdateProfiles, UpdateConnections: the snapshot is taken under the registry's lock.
TakeSnapshot(n) ==
    /\ push[n].at = "due"
    /\ push' = [push EXCEPT ![n].at = "taken", ![n].of = version[push[n].kind]]
    /\ UNCHANGED <<changes, version, stream, asked, answer, over, view, lost, newest, calm>>

\* A profile cannot be encoded: there is no push.
SnapshotFails(n) ==
    /\ push[n].at = "due"
    /\ push' = [push EXCEPT ![n].at = "over"]
    /\ lost' = Loses(push[n].kind, version[push[n].kind])
    /\ UNCHANGED <<changes, version, stream, asked, answer, over, view, newest, calm>>

\* PushUpdate, without that lock, and several at a time: a stream that is not registered
\* misses it.
Send(n) ==
    /\ push[n].at = "taken"
    /\ IF stream[push[n].kind] = "on"
       THEN push' = [push EXCEPT ![n].at = "sent"] /\ UNCHANGED lost
       ELSE push' = [push EXCEPT ![n].at = "over"] /\ lost' = Loses(push[n].kind, push[n].of)
    /\ UNCHANGED <<changes, version, stream, asked, answer, over, view, newest, calm>>

\* SubscribeProfiles: a push that comes soon after one takes its place, be it of an
\* older snapshot.
Debounce(n) ==
    /\ push[n].at = "sent" /\ push[n].kind \in Debounced
    /\ \E m \in Are("sent") \ {n} :
          /\ push[m].kind = push[n].kind
          /\ push' = [push EXCEPT ![n].at = "over"]
          /\ lost' = IF push[m].of < push[n].of THEN Loses(push[n].kind, push[n].of) ELSE lost
    /\ UNCHANGED <<changes, version, stream, asked, answer, over, view, newest, calm>>

\* The host registers a stream.
Registered(k) ==
    /\ stream[k] = "asked" /\ stream' = [stream EXCEPT ![k] = "on"]
    /\ UNCHANGED <<changes, version, push, asked, answer, over, view, lost, newest, calm>>

\* A stream ends and is requested again; the view is not refreshed for it.
Ends(k) ==
    /\ stream[k] = "on" /\ stream' = [stream EXCEPT ![k] = "asked"]
    /\ UNCHANGED <<changes, version, push, asked, answer, over, view, lost, newest, calm>>

\* What was pushed to a stream that ended may be cut off with it.
CutOff(n) ==
    /\ push[n].at = "sent" /\ stream[push[n].kind] = "asked"
    /\ push' = [push EXCEPT ![n].at = "over"]
    /\ lost' = Loses(push[n].kind, push[n].of)
    /\ UNCHANGED <<changes, version, stream, asked, answer, over, view, newest, calm>>

\* The host answers one of the requests of a refresh.
Answers(r, k) ==
    /\ r \in Pending /\ answer[r][k] = Unanswered
    /\ answer' = [answer EXCEPT ![r][k] = version[k]]
    /\ UNCHANGED <<changes, version, stream, push, asked, over, view, lost, newest, calm>>

-----------------------------------------------------------------------------
(* The view. *)

\* refresh() asks for everything.
Asks ==
    /\ asked < MaxRefreshes /\ asked' = asked + 1
    /\ calm' = IF Coming = {} /\ Pending = {} THEN asked' ELSE calm

\* The view shows v.
Shows(v) == view' = v /\ newest' = Newer(newest, v)

\* The same that takes what a signal says for something it need not act upon.
PushedQuietly(n) ==
    /\ push[n].at = "sent" /\ push' = [push EXCEPT ![n].at = "over"]
    /\ IF push[n].kind \in Signalled
       THEN UNCHANGED <<asked, calm, view, newest>>
       ELSE Shows([view EXCEPT ![push[n].kind] = push[n].of]) /\ UNCHANGED <<asked, calm>>
    /\ UNCHANGED <<changes, version, stream, answer, over, lost>>

\* A push reaches the view.
Pushed(n) ==
    /\ push[n].at = "sent" /\ push' = [push EXCEPT ![n].at = "over"]
    /\ IF push[n].kind \in Signalled
       THEN Asks /\ UNCHANGED <<view, newest>>
       ELSE Shows([view EXCEPT ![push[n].kind] = push[n].of]) /\ UNCHANGED <<asked, calm>>
    /\ UNCHANGED <<changes, version, stream, answer, over, lost>>

\* refresh(), when the user asks for it.
Refresh ==
    /\ Asks
    /\ UNCHANGED <<changes, version, stream, push, answer, over, view, lost, newest>>

\* All the answers have come: the view shows them.
Refreshed(r) ==
    /\ r \in Pending /\ \A k \in Kinds : answer[r][k] # Unanswered
    /\ over' = over \cup {r}
    /\ Shows(answer[r])
    /\ UNCHANGED <<changes, version, stream, push, asked, answer, lost, calm>>

\* One of the requests fails, and with it the whole refresh, whatever the others answer.
RefreshFails(r) ==
    /\ r \in Pending /\ over' = over \cup {r}
    /\ lost' = Newer(lost, [k \in Kinds |-> IF answer[r][k] = Unanswered THEN version[k]
                                            ELSE answer[r][k]])
    /\ calm' = IF calm = r THEN 0 ELSE calm
    /\ UNCHANGED <<changes, version, stream, push, asked, answer, view, newest>>

Next ==
    \/ \E k \in Kinds : Change(k) \/ Registered(k) \/ Ends(k)
    \/ \E n \in Changes : \/ TakeSnapshot(n) \/ SnapshotFails(n) \/ Send(n) \/ Debounce(n)
                          \/ CutOff(n) \/ Pushed(n)
    \/ Refresh
    \/ \E r \in Refreshes : \/ Refreshed(r) \/ RefreshFails(r)
                            \/ \E k \in Kinds : Answers(r, k)

Spec == Init /\ [][Next]_vars

-----------------------------------------------------------------------------
\* Once nothing is on its way any more, the view shows the host's state.  It stays
\* behind in two ways alone: all that was to bring the latest state was lost (no stream
\* was registered or it ended, an older push took its place, a request of the refresh
\* failed), or an older state was shown over a newer one.
NothingElseIsMissed ==
    \A k \in Kinds :
        Coming = {} /\ Pending = {} =>
            \/ view[k] = version[k]
            \/ lost[k] = version[k]
            \/ view[k] < newest[k]

\* And whatever was lost before, a refresh repairs it that begins when nothing is on
\* its way, and succeeds: the view shows the host's state until the next change.
RefreshRepairs == calm \in over => view = version

ViewIsCurrent == NothingElseIsMissed /\ RefreshRepairs
=============================================================================
