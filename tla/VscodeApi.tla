----------------------------- MODULE VscodeApi -----------------------------
(***************************************************************************)
(* The API object of the VS Code extension                                 *)
(* (src/extensions/core/src/api/index.ts): a wrapper that outlives the     *)
(* connections made through it.  The user sets the host any number of      *)
(* times; every update takes the old connection down, activates the new    *)
(* one (Offline.ts, Local.ts, Remote.ts) and subscribes to it again what   *)
(* was subscribed to the wrapper.  An update waits in two places: "deaf",  *)
(* where its token is not listened to (the credentials, the start of the   *)
(* backend's task, the files of a workspace), then "connecting", where a   *)
(* cancellation rejects it at once.                                        *)
(*                                                                         *)
(* JavaScript runs one event at a time and the reactions to a promise      *)
(* before the next event: nothing else happens while an update is          *)
(* "rejected".                                                             *)
(***************************************************************************)
EXTENDS Integers, FiniteSets

CONSTANTS MaxUpdates,    \* bound: how often the host is set
          Handlers       \* the event handlers of the extension

ASSUME UpdatesAssumption == MaxUpdates \in Nat \ {0}

Updates == 1 .. MaxUpdates
Modes == {"offline", "local", "remote"}

None == 0     \* no update, no API
Idle == -1    \* an Offline object that is made on the spot

VARIABLES phase,        \* phase[u]: how far update u is
          mode,         \* mode[u]: what it connects to
          cancelled,    \* the updates whose token was cancelled
          source,       \* cancelActivate: the update it belongs to
          current,      \* currentApi: the update that made it, Idle or None
          api,          \* api[u]: "none", "alive" or "disposed"
          running,      \* the updates whose backend process runs
          watched,      \* those whose exit watcher is registered
          forwards,     \* the APIs whose changes the wrapper passes on
          tracked,      \* apiSubscriptions: pairs of a handler and an API
          subscribers,  \* eventSubscribers
          subscription, \* eventSubscriptions: the API of a handler's latest one
          live,         \* the subscriptions that were not disposed of
          shown,        \* what the status bar shows
          gone,         \* the extension was deactivated
          overlapped    \* history: an update was started in the middle of one

vars == <<phase, mode, cancelled, source, current, api, running, watched, forwards, tracked,
          subscribers, subscription, live, shown, gone, overlapped>>

connection == <<phase, mode, cancelled, source, current, api, running, watched, forwards,
                tracked, shown, gone, overlapped>>

InProgress == {u \in Updates : phase[u] \in {"deaf", "connecting", "rejected"}}
Quiet == \A u \in Updates : phase[u] # "rejected"
Online(u) == u \in Updates /\ mode[u] # "offline"

TypeOK ==
    /\ phase \in [Updates -> {"none", "deaf", "connecting", "rejected", "done", "failed"}]
    /\ mode \in [Updates -> Modes]
    /\ cancelled \subseteq Updates /\ running \subseteq Updates /\ watched \subseteq Updates
    /\ source \in Updates \cup {None}
    /\ current \in Updates \cup {None, Idle}
    /\ api \in [Updates -> {"none", "alive", "disposed"}]
    /\ forwards \subseteq Updates
    /\ tracked \subseteq Handlers \X Updates /\ live \subseteq Handlers \X Updates
    /\ subscribers \subseteq Handlers
    /\ subscription \in [Handlers -> Updates \cup {None}]
    /\ shown \in {"busy", "on", "exited", "invalid"}
    /\ gone \in BOOLEAN /\ overlapped \in BOOLEAN

Init ==
    /\ phase = [u \in Updates |-> "none"]
    /\ mode = [u \in Updates |-> "offline"]
    /\ cancelled = {} /\ running = {} /\ watched = {}
    /\ source = None /\ current = None
    /\ api = [u \in Updates |-> "none"]
    /\ forwards = {} /\ tracked = {} /\ live = {}
    /\ subscribers = {}
    /\ subscription = [h \in Handlers |-> None]
    /\ shown = "exited"
    /\ gone = FALSE /\ overlapped = FALSE

-----------------------------------------------------------------------------
(* cancelActivate?.cancel(): the phases after it.                          *)
Cancelled(s) ==
    [u \in Updates |-> IF u = s /\ phase[u] = "connecting" THEN "rejected" ELSE phase[u]]
Heard(s) == cancelled \cup ({s} \ {None})

\* The same that leaves the API it lets go of as it is.
CleanupUndisposed ==
    /\ cancelled' = Heard(source)
    /\ live' = live \ tracked /\ tracked' = {} /\ forwards' = {}
    /\ watched' = watched \ {current}
    /\ UNCHANGED <<api, running, subscribers, subscription, gone>>

\* cleanup(), but for the phases and for what the caller makes of currentApi.
\* dispose() of a local API ends its watcher before it terminates the task.
Cleanup ==
    /\ cancelled' = Heard(source)
    /\ live' = live \ tracked /\ tracked' = {} /\ forwards' = {}
    /\ api' = [u \in Updates |-> IF u = current THEN "disposed" ELSE api[u]]
    /\ watched' = watched \ {current}
    /\ UNCHANGED <<running, subscribers, subscription, gone>>

\* invalidate() and exited(): offline, whatever was current or on its way.
GoOffline(s) ==
    /\ Cleanup
    /\ current' = Idle /\ shown' = s
    /\ UNCHANGED <<mode, source, overlapped>>

-----------------------------------------------------------------------------
\* hermes.host.set: update() to its first await.
Set(u, m) ==
    /\ Quiet /\ ~gone
    /\ phase[u] = "none" /\ \A v \in Updates : v < u => phase[v] # "none"
    /\ Cleanup
    /\ phase' = [Cancelled(source) EXCEPT ![u] = "deaf"]
    /\ mode' = [mode EXCEPT ![u] = m]
    /\ source' = u
    /\ current' = IF m = "offline" THEN Idle ELSE None
    /\ shown' = "busy"
    /\ overlapped' = (overlapped \/ InProgress # {})

\* The credentials are given, or the task of the backend has been started: its
\* exit is watched and the token is listened to from now on.
Connect(u) ==
    /\ Quiet /\ phase[u] = "deaf" /\ Online(u)
    /\ phase' = [phase EXCEPT ![u] = "connecting"]
    /\ running' = IF mode[u] = "local" THEN running \cup {u} ELSE running
    /\ watched' = IF mode[u] = "local" THEN watched \cup {u} ELSE watched
    /\ UNCHANGED <<mode, cancelled, source, current, api, forwards, tracked, subscribers,
                   subscription, live, shown, gone, overlapped>>

\* The connection stands, or the files are read.
Activated(u) ==
    /\ Quiet
    /\ phase[u] = IF Online(u) THEN "connecting" ELSE "deaf"

\* this.state, which the end of a remote update reads again, is that of a newer update.
Outdated(u) ==
    /\ mode[u] = "remote"
    /\ \E v \in Updates : /\ phase[v] # "none" /\ mode[v] # "remote"
                          /\ \A w \in Updates : w > v => phase[w] = "none"

\* The same that subscribes no handler.
SucceedUnwired(u) ==
    /\ Activated(u) /\ source # None /\ ~Outdated(u)
    /\ phase' = [phase EXCEPT ![u] = "done"]
    /\ current' = u /\ api' = [api EXCEPT ![u] = "alive"]
    /\ source' = None /\ shown' = "on"
    /\ forwards' = forwards \cup {u}
    /\ UNCHANGED <<mode, cancelled, running, watched, tracked, live, subscribers, subscription,
                   gone, overlapped>>

\* The rest of update(): the API is made current over whatever is, the token
\* source, whosever it is, disposed of and unset, and everything wired to it.
Succeed(u) ==
    /\ Activated(u) /\ source # None /\ ~Outdated(u)
    /\ phase' = [phase EXCEPT ![u] = "done"]
    /\ current' = u /\ api' = [api EXCEPT ![u] = "alive"]
    /\ source' = None /\ shown' = "on"
    /\ forwards' = forwards \cup {u}
    /\ LET wired == {<<h, u>> : h \in IF Online(u) THEN subscribers ELSE {}} IN
       tracked' = tracked \cup wired /\ live' = live \cup wired
    /\ subscription' = [h \in Handlers |-> IF h \in subscribers THEN u ELSE subscription[h]]
    /\ UNCHANGED <<mode, cancelled, running, watched, subscribers, gone, overlapped>>

\* Another update has unset the token source: the dispose() of it throws, and
\* hermes.host.set, which called update(), goes offline with the new API current.
Stumble(u) ==
    /\ Activated(u) /\ source = None
    /\ phase' = [phase EXCEPT ![u] = "failed"]
    /\ live' = live \ tracked /\ tracked' = {} /\ forwards' = {}
    /\ api' = [api EXCEPT ![u] = "disposed"] /\ watched' = watched \ {u}
    /\ current' = Idle /\ shown' = "invalid"
    /\ UNCHANGED <<mode, cancelled, source, running, subscribers, subscription, gone, overlapped>>

\* The state has no remote host any more: reading its colour throws, with the new API
\* current; hermes.host.set goes offline, and cancels the newer activation.
Misread(u) ==
    /\ Activated(u) /\ source # None /\ Outdated(u)
    /\ cancelled' = Heard(source) /\ phase' = [Cancelled(source) EXCEPT ![u] = "failed"]
    /\ live' = live \ tracked /\ tracked' = {} /\ forwards' = {}
    /\ api' = [api EXCEPT ![u] = "disposed"] /\ watched' = watched \ {u}
    /\ current' = Idle /\ shown' = "invalid"
    /\ UNCHANGED <<mode, source, running, subscribers, subscription, gone, overlapped>>

\* The same that is reported but does not take the attempt off the status bar.
RefuseQuietly(u) ==
    /\ \/ phase[u] = "rejected"
       \/ Quiet /\ phase[u] = "connecting" /\ u \in cancelled
       \/ Quiet /\ phase[u] = "deaf" /\ Online(u)
    /\ GoOffline(shown)
    /\ phase' = [Cancelled(source) EXCEPT ![u] = "failed"]

\* The activation throws: its token was cancelled, the credentials were not
\* given or the task did not start.  hermes.host.set goes offline, and cancels
\* whatever activation is the newest one.
Refuse(u) ==
    /\ \/ phase[u] = "rejected"
       \/ Quiet /\ phase[u] = "connecting" /\ u \in cancelled
       \/ Quiet /\ phase[u] = "deaf" /\ Online(u)
    /\ GoOffline("invalid")
    /\ phase' = [Cancelled(source) EXCEPT ![u] = "failed"]

\* The backend process of a local connection ends.  Its watcher, which a failed
\* activation leaves registered, issues hermes.backend.exit.
Exit(u, s) ==
    /\ Quiet /\ u \in running
    /\ running' = running \ {u}
    /\ IF u \in watched /\ ~gone
       THEN /\ cancelled' = Heard(source) /\ phase' = Cancelled(source)
            /\ live' = live \ tracked /\ tracked' = {} /\ forwards' = {}
            /\ api' = [v \in Updates |-> IF v = current THEN "disposed" ELSE api[v]]
            /\ watched' = watched \ {u, current}
            /\ current' = Idle /\ shown' = s
            /\ UNCHANGED <<mode, source, subscribers, subscription, gone, overlapped>>
       ELSE UNCHANGED <<phase, mode, cancelled, source, current, api, watched, forwards, tracked,
                        subscribers, subscription, live, shown, gone, overlapped>>

\* hermes.backend.cancel.
UserCancel ==
    /\ Quiet /\ ~gone /\ source # None /\ source \notin cancelled
    /\ cancelled' = Heard(source) /\ phase' = Cancelled(source)
    /\ UNCHANGED <<mode, source, current, api, running, watched, forwards, tracked, subscribers,
                   subscription, live, shown, gone, overlapped>>

-----------------------------------------------------------------------------
\* onEvent(): tracked by the wrapper, and subscribed to the current API.
OnEvent(h) ==
    /\ Quiet /\ ~gone /\ h \notin subscribers
    /\ subscribers' = subscribers \cup {h}
    /\ IF current \in Updates
       THEN /\ subscription' = [subscription EXCEPT ![h] = current]
            /\ live' = IF Online(current) THEN live \cup {<<h, current>>} ELSE live
       ELSE UNCHANGED <<subscription, live>>
    /\ UNCHANGED connection

\* dispose() of what onEvent() returned: the latest subscription of the handler.
Unsubscribe(h) ==
    /\ Quiet /\ h \in subscribers
    /\ subscribers' = subscribers \ {h}
    /\ live' = live \ {<<h, subscription[h]>>}
    /\ subscription' = [subscription EXCEPT ![h] = None]
    /\ UNCHANGED connection

\* dispose() of the wrapper, when the extension is deactivated.
Dispose ==
    /\ Quiet /\ ~gone
    /\ gone' = TRUE
    /\ live' = live \ tracked /\ tracked' = {} /\ forwards' = {}
    /\ api' = [u \in Updates |-> IF u = current THEN "disposed" ELSE api[u]]
    /\ watched' = watched \ {current}
    /\ current' = None
    /\ subscribers' = {} /\ subscription' = [h \in Handlers |-> None]
    /\ UNCHANGED <<phase, mode, cancelled, source, running, shown, overlapped>>

Next ==
    \/ \E u \in Updates, m \in Modes : Set(u, m)
    \/ \E u \in Updates : Connect(u) \/ Succeed(u) \/ Stumble(u) \/ Misread(u) \/ Refuse(u)
    \/ \E u \in Updates, s \in {"exited", "invalid"} : Exit(u, s)
    \/ UserCancel
    \/ \E h \in Handlers : OnEvent(h) \/ Unsubscribe(h)
    \/ Dispose

Spec == Init /\ [][Next]_vars

-----------------------------------------------------------------------------
\* Every handler that is subscribed to the wrapper is subscribed to the connection
\* that is current, whenever in the switch of connections it came, and however
\* updates, exits of backends and cancellations overlapped.
SubscribersServed ==
    Online(current) => \A h \in subscribers : <<h, current>> \in live

\* The wrapper passes on the changes of the current connection only, and what it
\* will take down with it are subscriptions to that connection.
ForwardsFromCurrent ==
    /\ forwards \subseteq {current}
    /\ \A p \in tracked : p[2] = current

\* The current connection is wired and no other one is: who is subscribed hears it, and
\* what is passed on, or kept to be taken down, is of it.
WiredToCurrent == TypeOK /\ SubscribersServed /\ ForwardsFromCurrent

\* A connection that is not current any more has been closed, as long as no update
\* was started in the middle of another one.
AliveIsCurrent ==
    ~overlapped => \A u \in Updates : api[u] = "alive" => u = current

\* The status bar shows a connection when there is one, an attempt when there is
\* one, and otherwise the wrapper is offline.
StatusIsTrue ==
    ~gone =>
        /\ shown = "on" => current \in Updates /\ api[current] = "alive"
        /\ shown = "busy" => source # None /\ InProgress # {}
        /\ current \in Updates => shown = "on"

\* Why they hold, as an inductive invariant: while an activation holds the token
\* source nothing is wired yet, and updates that do not overlap hold it one by one.
SourceMeansUnwired ==
    source # None => forwards = {} /\ tracked = {} /\ current \notin Updates

SourceIsInProgress ==
    /\ ~overlapped => \A u \in InProgress : source = u
    /\ shown = "busy" /\ ~gone => source \in InProgress

IInv ==
    /\ TypeOK /\ SourceMeansUnwired /\ SourceIsInProgress
    /\ ForwardsFromCurrent /\ SubscribersServed /\ AliveIsCurrent /\ StatusIsTrue
=============================================================================
