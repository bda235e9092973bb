-------------------------- MODULE ProfileLifecycle --------------------------
(***************************************************************************)
(* One persistent connection profile of the Hermes backend: the            *)
(* statefulProfile of pkg/host/profile_stateful.go.                        *)
(*                                                                         *)
(* API calls Start, Stop and Update run in the goroutines of their         *)
(* callers.  Every accepted Start creates a run: a context, a channel      *)
(* `runtime' that carries the provider's error and is closed at the end, a *)
(* channel `runtimeStarted', and a goroutine that executes the provider.   *)
(* The provider's call of Session.Started() is served by one more          *)
(* goroutine.  All of them share the profile's fields, most without the    *)
(* mutex: a goroutine that names sp.runtime gets the channel of the run    *)
(* that is newest when the field is read (`cur').                          *)
(***************************************************************************)
EXTENDS Integers, FiniteSets

CONSTANTS
  Starters,   \* goroutines that call Start (gRPC StartProfile, the tests)
  Stoppers,   \* goroutines that call Stop (gRPC StopProfile, shutdown)
  Updaters,   \* goroutines that call Update (gRPC UpdateProfile)
  Settings,   \* the settings a profile can be given
  Subscribed, \* somebody subscribed to profile updates (a front-end is connected)
  MaxRuns     \* bound: accepted Start calls in a behaviour

ASSUME BoundAssumption == MaxRuns \in Nat
ASSUME CallersAssumption ==
  /\ Starters \cap Stoppers = {}
  /\ Starters \cap Updaters = {}
  /\ Stoppers \cap Updaters = {}
ASSUME SettingsAssumption == Settings # {} /\ Subscribed \in BOOLEAN

Runs    == 1 .. MaxRuns
Callers == Starters \cup Stoppers \cup Updaters

ProfileState == {"IDLE", "CONNECTING", "ACTIVE", "DISCONNECT"}

\* Every goroutine that calls listener.UpdateProfiles().
RunProc(r)     == <<"run", r>>
StartedProc(r) == <<"started", r>>
Procs == Callers \cup {RunProc(r) : r \in Runs} \cup {StartedProc(r) : r \in Runs}

VARIABLES
  state,          \* sp.state, an atomic
  settings,       \* sp.settings
  locked,         \* sp.mux is held across steps (only Update does that)
  cur,            \* the run the fields runtimeCtx, runtime and runtimeStarted belong to
  startedFlag,    \* sp.runtimeStartedClosed
  cancelled,      \* run -> its context is cancelled
  closed,         \* run -> its runtime channel is closed
  startedClosed,  \* run -> its runtimeStarted channel is closed
  prov,           \* run -> where its provider goroutine is
  provCtx,        \* run -> the run whose context the provider was given
  provSettings,   \* run -> the settings the provider was given
  sendTo,         \* run -> the channel its provider goroutine sends the error on
  startedCall,    \* run -> the goroutine spawned by the provider's Started()
  pc,             \* caller -> where it is in its call
  sel,            \* caller -> the run whose channels its select waits on
  note,           \* goroutine -> its UpdateProfiles(): none, due, or the snapshot taken
  seen,           \* the profile state subscribers were last sent
  panicked,       \* a close of a closed channel, or a send on one, ended the process
  target,         \* history: starter -> its run, stopper -> the newest run when it was accepted
  raced           \* history: two Starts were in the window between verifyIdle and CONNECTING

shared  == <<state, settings, locked, cur, startedFlag>>
chans   == <<cancelled, closed, startedClosed, panicked>>
runs    == <<prov, provCtx, provSettings, sendTo, startedCall>>
calls   == <<pc, sel, target, raced>>
feed    == <<note, seen>>
vars    == <<shared, chans, runs, calls, feed>>

Init ==
  /\ state = "IDLE"
  /\ settings \in Settings
  /\ locked = FALSE
  /\ cur = 0
  /\ startedFlag = FALSE
  /\ cancelled = [r \in Runs |-> FALSE]
  /\ closed = [r \in Runs |-> FALSE]
  /\ startedClosed = [r \in Runs |-> FALSE]
  /\ prov = [r \in Runs |-> "none"]
  /\ provCtx = [r \in Runs |-> 0]
  /\ provSettings = [r \in Runs |-> settings]
  /\ sendTo = [r \in Runs |-> 0]
  /\ startedCall = [r \in Runs |-> "none"]
  /\ pc = [c \in Callers |-> "idle"]
  /\ sel = [c \in Callers |-> 0]
  /\ target = [c \in Starters \cup Stoppers |-> 0]
  /\ raced = FALSE
  /\ note = [p \in Procs |-> "none"]
  /\ seen = "IDLE"
  /\ panicked = FALSE

-----------------------------------------------------------------------------
(* listener.UpdateProfiles(): the registry takes a snapshot of the profile  *)
(* and, once it has released its lock, pushes it to the subscribers.  With  *)
(* no subscriber the push reaches nobody and the snapshot is dropped.       *)

Notify(p) == /\ note' = IF Subscribed THEN [note EXCEPT ![p] = "due"] ELSE note
             /\ UNCHANGED seen
Quiet(p)  == note[p] = "none" /\ ~panicked

TakeSnapshot(p) ==
  /\ note[p] = "due" /\ ~locked /\ ~panicked
  /\ note' = [note EXCEPT ![p] = state]
  /\ UNCHANGED <<shared, chans, runs, calls, seen>>

PushSnapshot(p) ==
  /\ note[p] \in ProfileState /\ ~panicked
  /\ seen' = note[p]
  /\ note' = [note EXCEPT ![p] = "none"]
  /\ UNCHANGED <<shared, chans, runs, calls>>

-----------------------------------------------------------------------------
(* The calls.  A caller rests at "idle", or at "timedout" after a Stop that *)
(* returned ctx.Err(); the other points are places inside a call.           *)

Resting(c) == pc[c] \in {"idle", "timedout"} /\ Quiet(c)
At(c, point) == pc[c] = point /\ Quiet(c)
Goto(c, point) == pc' = [pc EXCEPT ![c] = point] /\ UNCHANGED <<sel, target, raced>>

\* A Start has found the profile idle, and its run has not stored CONNECTING yet.
InWindow == (\E c \in Starters : pc[c] = "verified") \/ (\E r \in Runs : prov[r] = "spawned")

\* Mutant: Start without verifyIdle.
StartUnverified(c) ==
  /\ Resting(c)
  /\ cur < MaxRuns
  /\ pc' = [pc EXCEPT ![c] = "verified"]
  /\ raced' = (raced \/ InWindow)
  /\ UNCHANGED <<shared, chans, runs, feed, sel, target>>

\* verifyIdle is not under the mutex, and gRPC calls come side by side.
StartVerified(c) ==
  /\ Resting(c)
  /\ cur < MaxRuns
  /\ state = "IDLE"
  /\ pc' = [pc EXCEPT ![c] = "verified"]
  /\ raced' = (raced \/ InWindow)
  /\ UNCHANGED <<shared, chans, runs, feed, sel, target>>

\* The fields are renewed under the mutex, then the provider goroutine is spawned.
StartRun(c) ==
  /\ At(c, "verified")
  /\ ~locked
  /\ cur < MaxRuns
  /\ cur' = cur + 1
  /\ startedFlag' = FALSE
  /\ prov' = [prov EXCEPT ![cur + 1] = "spawned"]
  /\ pc' = [pc EXCEPT ![c] = "spawned"]
  /\ target' = [target EXCEPT ![c] = cur + 1]
  /\ UNCHANGED <<state, settings, locked, chans, provCtx, provSettings, sendTo, startedCall, feed,
                 sel, raced>>

StopAccepted(c) ==
  /\ Resting(c)
  /\ state = "ACTIVE"
  /\ target' = [target EXCEPT ![c] = cur]
  /\ pc' = [pc EXCEPT ![c] = "accepted"]
  /\ UNCHANGED <<shared, chans, runs, sel, raced, feed>>

\* runtimeCancel(), by a Stop or by a Start whose caller's context ends.
Cancel(c) ==
  /\ \/ At(c, "starting") /\ Goto(c, "abandoning")
     \/ At(c, "accepted") /\ Goto(c, "cancelled")
  /\ cancelled' = [cancelled EXCEPT ![cur] = TRUE]
  /\ UNCHANGED <<shared, closed, startedClosed, panicked, runs, feed>>

StopMarks(c) ==
  /\ At(c, "cancelled")
  /\ state' = "DISCONNECT"
  /\ Notify(c)
  /\ Goto(c, "marked")
  /\ UNCHANGED <<settings, locked, cur, startedFlag, chans, runs>>

\* The caller reaches its select, which reads the channel fields once.
SelectPoint == [spawned |-> "starting", abandoning |-> "draining", marked |-> "stopping"]
Waiting(c) == pc[c] \in {"starting", "draining", "stopping"} /\ Quiet(c)

Select(c) ==
  /\ pc[c] \in DOMAIN SelectPoint /\ Quiet(c)
  /\ pc' = [pc EXCEPT ![c] = SelectPoint[pc[c]]]
  /\ sel' = [sel EXCEPT ![c] = cur]
  /\ UNCHANGED <<shared, chans, runs, target, raced, feed>>

\* Mutant: the call does not wait for the run.
ReturnEarly(c) ==
  /\ Waiting(c)
  /\ Goto(c, "idle")
  /\ UNCHANGED <<shared, chans, runs, feed>>

\* Mutant: Stop's select listens to runtimeStarted as well, like Start's.
ReturnStarted(c) ==
  /\ Waiting(c)
  /\ closed[sel[c]] \/ startedClosed[sel[c]]
  /\ Goto(c, "idle")
  /\ UNCHANGED <<shared, chans, runs, feed>>

\* The runtime channel is closed or, for Start, runtimeStarted is.
Return(c) ==
  /\ Waiting(c)
  /\ closed[sel[c]] \/ (pc[c] = "starting" /\ startedClosed[sel[c]])
  /\ Goto(c, "idle")
  /\ UNCHANGED <<shared, chans, runs, feed>>

\* The call receives the error that the goroutine of run r is blocked sending.
ReturnError(c, r) ==
  /\ Waiting(c)
  /\ prov[r] = "sending" /\ sendTo[r] = sel[c]
  /\ prov' = [prov EXCEPT ![r] = "finished"]
  /\ Goto(c, "idle")
  /\ UNCHANGED <<shared, chans, provCtx, provSettings, sendTo, startedCall, feed>>

\* Mutant: a Stop that times out stores IDLE.
StopTimesOutIdle(c) ==
  /\ At(c, "stopping")
  /\ state' = "IDLE"
  /\ Notify(c)
  /\ Goto(c, "timedout")
  /\ UNCHANGED <<settings, locked, cur, startedFlag, chans, runs>>

\* The caller's context ends while Stop waits.
StopTimesOut(c) ==
  /\ At(c, "stopping")
  /\ state' = "ACTIVE"
  /\ Notify(c)
  /\ Goto(c, "timedout")
  /\ UNCHANGED <<settings, locked, cur, startedFlag, chans, runs>>

\* Update holds the mutex from verifyIdle to the end of Unmarshal.
UpdateVerified(c) ==
  /\ Resting(c) /\ ~locked
  /\ state = "IDLE"
  /\ locked' = TRUE
  /\ Goto(c, "updating")
  /\ UNCHANGED <<state, settings, cur, startedFlag, chans, runs, feed>>

UpdateRefused(c) ==
  /\ Resting(c) /\ ~locked
  /\ state # "IDLE"
  /\ Notify(c)
  /\ UNCHANGED <<shared, chans, runs, calls>>

\* Mutant: UpdateProfiles is called before the mutex is released.
UpdateNotUnlocked(c) ==
  /\ At(c, "updating")
  /\ settings' \in Settings
  /\ Notify(c)
  /\ Goto(c, "idle")
  /\ UNCHANGED <<state, locked, cur, startedFlag, chans, runs>>

\* Settings may stay what they were: the JSON may be malformed.
UpdateApplied(c) ==
  /\ At(c, "updating")
  /\ settings' \in Settings
  /\ locked' = FALSE
  /\ Notify(c)
  /\ Goto(c, "idle")
  /\ UNCHANGED <<state, cur, startedFlag, chans, runs>>

-----------------------------------------------------------------------------
(* The goroutine of run r, the provider it executes, and the goroutine of   *)
(* the provider's Session.Started().                                        *)

RunAt(r, point) == prov[r] = point /\ Quiet(RunProc(r))
RunGoto(r, point) == prov' = [prov EXCEPT ![r] = point]

RunConnecting(r) ==
  /\ RunAt(r, "spawned")
  /\ state' = "CONNECTING"
  /\ Notify(RunProc(r))
  /\ RunGoto(r, "connecting")
  /\ UNCHANGED <<settings, locked, cur, startedFlag, chans, calls,
                 provCtx, provSettings, sendTo, startedCall>>

\* provider.api.Start(sp.runtimeCtx, sp.settings, sp), reading both unlocked.
RunProvider(r) ==
  /\ RunAt(r, "connecting")
  /\ RunGoto(r, "running")
  /\ provCtx' = [provCtx EXCEPT ![r] = cur]
  /\ provSettings' = [provSettings EXCEPT ![r] = settings]
  /\ UNCHANGED <<shared, chans, calls, sendTo, startedCall, feed>>

ProviderStarted(r) ==
  /\ RunAt(r, "running")
  /\ startedCall[r] = "none"
  /\ startedCall' = [startedCall EXCEPT ![r] = "spawned"]
  /\ UNCHANGED <<shared, chans, calls, prov, provCtx, provSettings, sendTo, feed>>

ProviderReturns(r) ==
  /\ RunAt(r, "running")
  /\ RunGoto(r, "finished")
  /\ UNCHANGED <<shared, chans, calls, provCtx, provSettings, sendTo, startedCall, feed>>

\* sp.runtime <- err: unbuffered, so the goroutine waits for a receiver.
ProviderFails(r) ==
  /\ RunAt(r, "running")
  /\ RunGoto(r, "sending")
  /\ sendTo' = [sendTo EXCEPT ![r] = cur]
  /\ panicked' = closed[cur]
  /\ UNCHANGED <<shared, cancelled, closed, startedClosed, calls,
                 provCtx, provSettings, startedCall, feed>>

\* close(sp.runtime); a second close, or a close under a blocked sender, panics.
RunCloses(r) ==
  /\ RunAt(r, "finished")
  /\ RunGoto(r, "closed")
  /\ closed' = [closed EXCEPT ![cur] = TRUE]
  /\ panicked' = (closed[cur] \/ \E q \in Runs : prov[q] = "sending" /\ sendTo[q] = cur)
  /\ UNCHANGED <<shared, cancelled, startedClosed, calls,
                 provCtx, provSettings, sendTo, startedCall, feed>>

RunIdle(r) ==
  /\ RunAt(r, "closed")
  /\ RunGoto(r, "done")
  /\ state' = "IDLE"
  /\ Notify(RunProc(r))
  /\ UNCHANGED <<settings, locked, cur, startedFlag, chans, calls,
                 provCtx, provSettings, sendTo, startedCall>>

\* Mutant: runtimeStarted is not closed.
MarkStartedSilently(r) ==
  /\ startedCall[r] = "spawned" /\ ~locked /\ ~panicked
  /\ startedCall' = [startedCall EXCEPT ![r] = "served"]
  /\ state' = "ACTIVE"
  /\ Notify(StartedProc(r))
  /\ UNCHANGED <<settings, locked, cur, startedFlag, chans, calls,
                 prov, provCtx, provSettings, sendTo>>

\* A second Started() for the newest run only logs and notifies.
MarkStarted(r) ==
  /\ startedCall[r] = "spawned" /\ ~locked /\ ~panicked
  /\ startedCall' = [startedCall EXCEPT ![r] = "served"]
  /\ startedFlag' = TRUE
  /\ IF startedFlag
     THEN UNCHANGED <<state, startedClosed>>
     ELSE state' = "ACTIVE" /\ startedClosed' = [startedClosed EXCEPT ![cur] = TRUE]
  /\ Notify(StartedProc(r))
  /\ UNCHANGED <<settings, locked, cur, cancelled, closed, panicked, calls,
                 prov, provCtx, provSettings, sendTo>>

-----------------------------------------------------------------------------

StartStep(c)  == StartVerified(c) \/ StartRun(c)
StopStep(c)   == StopAccepted(c) \/ StopMarks(c) \/ StopTimesOut(c)
UpdateStep(c) == UpdateVerified(c) \/ UpdateRefused(c) \/ UpdateApplied(c)
CallStep(c)   == Cancel(c) \/ Select(c) \/ Return(c) \/ \E r \in Runs : ReturnError(c, r)

RunStep(r) ==
  \/ RunConnecting(r) \/ RunProvider(r) \/ ProviderStarted(r) \/ ProviderReturns(r)
  \/ ProviderFails(r) \/ RunCloses(r) \/ RunIdle(r) \/ MarkStarted(r)

Next ==
  \/ \E c \in Starters : StartStep(c)
  \/ \E c \in Stoppers : StopStep(c)
  \/ \E c \in Updaters : UpdateStep(c)
  \/ \E c \in Callers : CallStep(c)
  \/ \E r \in Runs : RunStep(r)
  \/ \E p \in Procs : TakeSnapshot(p) \/ PushSnapshot(p)

Spec == Init /\ [][Next]_vars

-----------------------------------------------------------------------------
(***************************************************************************)
(* Properties.                                                             *)
(***************************************************************************)

ProvPoints  == {"none", "spawned", "connecting", "running", "sending", "finished",
                "closed", "done"}
CallPoints  == {"idle", "verified", "spawned", "starting", "abandoning", "draining",
                "accepted", "cancelled", "marked", "stopping", "timedout", "updating"}

\* Type invariant of the profile's fields, channels and goroutines.
TypeOK ==
  /\ state \in ProfileState /\ seen \in ProfileState
  /\ settings \in Settings
  /\ locked \in BOOLEAN /\ startedFlag \in BOOLEAN /\ panicked \in BOOLEAN
  /\ cur \in 0 .. MaxRuns
  /\ cancelled \in [Runs -> BOOLEAN]
  /\ closed \in [Runs -> BOOLEAN]
  /\ startedClosed \in [Runs -> BOOLEAN]
  /\ prov \in [Runs -> ProvPoints]
  /\ provCtx \in [Runs -> 0 .. MaxRuns]
  /\ provSettings \in [Runs -> Settings]
  /\ sendTo \in [Runs -> 0 .. MaxRuns]
  /\ startedCall \in [Runs -> {"none", "spawned", "served"}]
  /\ pc \in [Callers -> CallPoints]
  /\ sel \in [Callers -> 0 .. MaxRuns]
  /\ target \in [Starters \cup Stoppers -> 0 .. MaxRuns] /\ raced \in BOOLEAN
  /\ note \in [Procs -> ProfileState \cup {"none", "due"}]

\* The goroutine of run r exists; the provider itself is executing.
Live(r)      == prov[r] \notin {"none", "done"}
Executing(r) == prov[r] \in {"spawned", "connecting", "running"}

\* verifyIdle("START") is what keeps a profile to one session (lines 77-78, 199,
\* 315): two provider goroutines of one profile never overlap, whatever stops,
\* time-outs, late Started() calls and updates interleave.
AtMostOneRun == \A q, r \in Runs : Live(q) /\ Live(r) => q = r

\* What verifyIdle relies on: an IDLE profile has no provider at work, except a
\* goroutine that was spawned and has not yet stored CONNECTING (line 335).
IdleMeansFinished == state = "IDLE" => \A r \in Runs : Live(r) => prov[r] = "spawned"

\* The runtime channel is closed once and nobody sends on it afterwards (lines
\* 347, 352), and the error of a run goes to a caller waiting on that run.
NoPanic == ~panicked
ErrorOnOwnChannel == \A r \in Runs : prov[r] = "sending" => sendTo[r] = r

\* The runs of a profile share nothing that outlives one, neither a provider, nor the
\* state, nor the channel on which an error is sent and which is closed: Starts may come
\* side by side, and as long as no two of them met in the window nothing of this breaks.
RunsAreSeparate ==
  ~raced => AtMostOneRun /\ IdleMeansFinished /\ NoPanic /\ ErrorOnOwnChannel

\* Why it holds, as an inductive invariant: runs are created and finish in order, the
\* state tells whether a run is in progress, a profile that looks idle while a run is
\* has the starter of that run in its call, and a call waits on the channels of the run
\* it is about, or of a later one.
RunsInOrder ==
  /\ ~panicked
  /\ \A r \in Runs :
       /\ r > cur <=> prov[r] = "none"
       /\ r < cur => prov[r] = "done"
       /\ closed[r] => prov[r] \in {"closed", "done"}
       /\ prov[r] = "sending" => sendTo[r] = r
       /\ startedClosed[r] => r <= cur

StateTells ==
  \A r \in Runs :
    /\ state = "IDLE" /\ Live(r) => prov[r] = "spawned"
    /\ startedClosed[r] /\ prov[r] = "spawned" => state # "IDLE"

InCall(c) == pc[c] \in {"spawned", "starting", "abandoning", "draining"}

StarterWaits ==
  /\ \A c \in Starters :
       /\ pc[c] \in {"idle", "verified", "spawned", "starting", "abandoning", "draining"}
       /\ pc[c] = "verified" => \A r \in Runs : ~Live(r)
       /\ \A d \in Starters : pc[c] = "verified" /\ pc[d] = "verified" => c = d
  /\ \A r \in Runs :
       state = "IDLE" /\ Live(r) => \E c \in Starters : InCall(c) /\ target[c] = r

OwnChannel ==
  \A c \in Starters \cup Stoppers :
    /\ target[c] <= cur
    /\ pc[c] \in {"starting", "draining", "stopping"} => target[c] <= sel[c] /\ sel[c] <= cur

IInv == TypeOK /\ (raced \/ (RunsInOrder /\ StateTells /\ StarterWaits /\ OwnChannel))

\* A Stop that returns the provider's result (lines 393-398) returns after the
\* provider of every run that existed when it was accepted has left api.Start.
StopMeansStopped ==
  [][\A c \in Stoppers : pc[c] = "stopping" /\ pc'[c] = "idle" /\ ~raced =>
       \A r \in Runs : r <= target[c] => ~Executing(r)']_vars

\* A Start given up by its caller (lines 357-365) leaves neither its own provider
\* executing nor an earlier one, even if the next Start has come by then.
AbandonedMeansStopped ==
  [][\A c \in Starters : pc[c] = "draining" /\ pc'[c] = "idle" /\ ~raced =>
       \A r \in Runs : r <= target[c] => ~Executing(r)']_vars

\* Nobody is told that a provider has left which has not.
StopsAreReal == StopMeansStopped /\ AbandonedMeansStopped

\* What the calls show of themselves in ProfileSessions.
StartState(c) ==
  CASE pc[c] = "verified" -> "asked"
    [] pc[c] \in {"spawned", "starting"} -> "begun"
    [] pc[c] \in {"abandoning", "draining"} -> "abandoned"
    [] OTHER -> "free"
StopState(c) ==
  CASE pc[c] \in {"accepted", "cancelled", "marked", "stopping"} -> "asked"
    [] pc[c] = "timedout" -> "timed out"
    [] OTHER -> "free"

AtWork == \E r \in Runs : Executing(r)
StartStates == [c \in Starters |-> StartState(c)]
StopStates == [c \in Stoppers |-> StopState(c)]

Sessions == INSTANCE ProfileSessions WITH
  sessions <- cur, open <- AtWork, start <- StartStates, stop <- StopStates, newest <- target

\* statefulProfile implements ProfileSessions: whatever its goroutines do to the fields of the
\* next run, providers come one by one, one for each Start that was accepted, and a Stop or an
\* abandoned Start returns when what it was to end has ended; unless two Starts were let in together.
KeepsThePromise == Sessions!Spec

-----------------------------------------------------------------------------
(* Fairness: the Go scheduler runs every runnable goroutine, a select with a *)
(* ready channel proceeds, and a provider returns once its context is        *)
(* cancelled.  Nobody has to call, to give up, or to call Started().         *)

ProviderStops(r) ==
  /\ prov[r] = "running"
  /\ cancelled[provCtx[r]]
  /\ ProviderReturns(r) \/ ProviderFails(r)

RunGoes(r) ==
  \/ RunConnecting(r) \/ RunProvider(r) \/ ProviderStops(r) \/ RunCloses(r) \/ RunIdle(r)

CallGoes(c) ==
  \/ (pc[c] = "accepted" /\ Cancel(c)) \/ StopMarks(c) \/ Select(c)
  \/ Return(c) \/ (\E r \in Runs : ReturnError(c, r)) \/ UpdateApplied(c)

Fairness ==
  /\ \A r \in Runs : WF_vars(RunGoes(r)) /\ WF_vars(MarkStarted(r))
  /\ \A c \in Callers : WF_vars(CallGoes(c)) /\ WF_vars(StartRun(c))

FairSpec == Spec /\ Fairness

\* A snapshot competes with Updates for sp.mux; a sync.RWMutex lets the readers that
\* wait go first when it is unlocked, so the snapshot is strongly fair.
NotifySpec ==
  /\ FairSpec
  /\ \A p \in Procs : SF_vars(TakeSnapshot(p)) /\ WF_vars(PushSnapshot(p))

\* A Start returns once its caller gave up (the run it cancelled is drained, line 360) or its
\* run has ended, failed or reported Started().
StartEnds(c) ==
  \/ pc[c] = "abandoning"
  \/ \E r \in Runs :
       /\ pc[c] = "starting" /\ sel[c] = r
       /\ startedCall[r] = "spawned" \/ prov[r] \in {"sending", "finished"}
StartReturns == \A c \in Starters : StartEnds(c) ~> pc[c] = "idle"

\* Every call of UpdateProfiles pushes: the mutex its snapshot needs is free by then
\* (Update defers the call so that it runs after the Unlock, lines 214-217).
UpdatesAreSent == \A p \in Procs : note[p] = "due" ~> note[p] = "none"

\* A Stop that waits on a run whose context is cancelled returns, whether the
\* provider ends with nil, with an error, or had already ended.
CancelledStopReturns ==
  \A c \in Stoppers :
    (pc[c] = "stopping" /\ cancelled[sel[c]]) ~> Resting(c)

\* Both: no caller of Start or Stop waits for a result that nobody will send.
CallersReturn == StartReturns /\ CancelledStopReturns

-----------------------------------------------------------------------------
(* What the comments and the tests say and the code does not keep.          *)

Settled ==
  /\ \A c \in Callers : Resting(c)
  /\ \A p \in Procs : Quiet(p)
  /\ \A r \in Runs : ~Live(r) /\ startedCall[r] # "spawned"

\* profile_test.go:57-71: once Start and Stop have returned and every goroutine is
\* done, the profile is IDLE.
StoppedMeansIdle == Settled /\ (\E c \in Stoppers : target[c] # 0) => state = "IDLE"
=============================================================================
