----------------------- MODULE ProfileLifecycle_proofs -----------------------
(***************************************************************************)
(* Type correctness of ProfileLifecycle; that its runs never overlap and   *)
(* its stops are real; and that it implements ProfileSessions.  For any    *)
(* number of goroutines that call Start, Stop and Update, and until two    *)
(* Starts were let in together (raced).                                    *)
(***************************************************************************)
EXTENDS ProfileLifecycle, TLAPS

-----------------------------------------------------------------------------
(* How a step may change the runs: leave them, add the next one, or move    *)
(* one that exists on to another point.                                     *)
RunEffect ==
  \/ UNCHANGED <<cur, prov>>
  \/ /\ cur < MaxRuns
     /\ cur' = cur + 1
     /\ prov' = [prov EXCEPT ![cur + 1] = "spawned"]
  \/ /\ UNCHANGED cur
     /\ \E r \in Runs, x \in ProvPoints \ {"none"} :
          prov[r] # "none" /\ prov' = [prov EXCEPT ![r] = x]

\* Every step changes the runs in one of these ways (Start lines 323-354).
LEMMA StepRunEffect == [Next]_vars => RunEffect
<1> SUFFICES ASSUME [Next]_vars PROVE RunEffect
  OBVIOUS
<1> USE DEF RunEffect, shared, runs, calls
<1>1. ASSUME NEW c \in Starters, StartStep(c) PROVE RunEffect
  BY <1>1 DEF StartStep, StartVerified, StartRun
<1>2. ASSUME NEW c \in Stoppers, StopStep(c) PROVE RunEffect
  BY <1>2 DEF StopStep, StopAccepted, StopMarks, StopTimesOut
<1>3. ASSUME NEW c \in Updaters, UpdateStep(c) PROVE RunEffect
  BY <1>3 DEF UpdateStep, UpdateVerified, UpdateRefused, UpdateApplied
<1>4. ASSUME NEW c \in Callers, CallStep(c) PROVE RunEffect
  <2>1. ASSUME NEW r \in Runs, ReturnError(c, r) PROVE RunEffect
    BY <2>1 DEF ReturnError, ProvPoints
  <2>2. QED
    BY <1>4, <2>1 DEF CallStep, Cancel, Select, Return
<1>5. ASSUME NEW r \in Runs, RunStep(r) PROVE RunEffect
  <2> USE DEF RunAt, RunGoto, ProvPoints
  <2>1. CASE RunConnecting(r) \/ RunProvider(r) \/ ProviderReturns(r) \/ ProviderFails(r)
    BY <2>1 DEF RunConnecting, RunProvider, ProviderReturns, ProviderFails
  <2>2. CASE RunCloses(r) \/ RunIdle(r)
    BY <2>2 DEF RunCloses, RunIdle
  <2>3. CASE ProviderStarted(r) \/ MarkStarted(r)
    BY <2>3 DEF ProviderStarted, MarkStarted
  <2>4. QED
    BY <1>5, <2>1, <2>2, <2>3 DEF RunStep
<1>6. ASSUME NEW p \in Procs, TakeSnapshot(p) \/ PushSnapshot(p) PROVE RunEffect
  BY <1>6 DEF TakeSnapshot, PushSnapshot
<1>7. CASE UNCHANGED vars
  BY <1>7 DEF vars
<1>8. QED
  BY <1>1, <1>2, <1>3, <1>4, <1>5, <1>6, <1>7 DEF Next

\* Only the runs up to the newest exist, so a provider goroutine never reads the
\* channel fields before the first Start has set them.
RunsExist == \A r \in Runs : prov[r] # "none" => r <= cur

\* Every field, channel and goroutine keeps its type, for any callers and bound.
THEOREM TypeCorrect == Spec => []TypeOK
<1> USE BoundAssumption DEF TypeOK, Runs, ProfileState, ProvPoints, CallPoints
<1>1. Init => TypeOK /\ RunsExist
  <2> SUFFICES ASSUME Init PROVE TypeOK /\ RunsExist
    OBVIOUS
  <2> USE DEF Init
  <2>1. /\ state \in ProfileState /\ seen \in ProfileState
        /\ settings \in Settings
        /\ locked \in BOOLEAN /\ startedFlag \in BOOLEAN /\ panicked \in BOOLEAN
    OBVIOUS
  <2>2. cur \in 0 .. MaxRuns
    OBVIOUS
  <2>3. cancelled \in [Runs -> BOOLEAN] /\ closed \in [Runs -> BOOLEAN]
    OBVIOUS
  <2>4. startedClosed \in [Runs -> BOOLEAN] /\ prov \in [Runs -> ProvPoints]
    OBVIOUS
  <2>5. provCtx \in [Runs -> 0 .. MaxRuns] /\ provSettings \in [Runs -> Settings]
    OBVIOUS
  <2>6. /\ sendTo \in [Runs -> 0 .. MaxRuns]
        /\ startedCall \in [Runs -> {"none", "spawned", "served"}]
    OBVIOUS
  <2>7. pc \in [Callers -> CallPoints] /\ sel \in [Callers -> 0 .. MaxRuns]
    OBVIOUS
  <2>8. target \in [Starters \cup Stoppers -> 0 .. MaxRuns] /\ raced \in BOOLEAN
    <3>1. 0 \in 0 .. MaxRuns
      OBVIOUS
    <3>2. target = [c \in Starters \cup Stoppers |-> 0] /\ raced = FALSE
      BY DEF Init
    <3> HIDE DEF Init
    <3> QED
      BY <3>1, <3>2
  <2>9. note \in [Procs -> ProfileState \cup {"none", "due"}]
    OBVIOUS
  <2>10. QED
    BY <2>1, <2>2, <2>3, <2>4, <2>5, <2>6, <2>7, <2>8, <2>9 DEF RunsExist
<1>2. TypeOK /\ RunsExist /\ [Next]_vars => TypeOK'
  <2> SUFFICES ASSUME TypeOK, RunsExist, [Next]_vars PROVE TypeOK'
    OBVIOUS
  <2> USE DEF shared, chans, runs, calls, feed, Notify, Goto, RunGoto, At, RunAt,
              Quiet, Resting, Waiting
  <2>1. ASSUME NEW c \in Starters, StartStep(c) PROVE TypeOK'
    <3>1. CASE StartVerified(c)
      <4>1. pc' \in [Callers -> CallPoints]
        BY <3>1 DEF StartVerified
      <4>2. raced' \in BOOLEAN
        BY <3>1 DEF StartVerified, InWindow
      <4>3. QED
        BY <3>1, <4>1, <4>2 DEF StartVerified
    <3>2. CASE StartRun(c)
      <4>1. cur' \in 0 .. MaxRuns
        BY <3>2 DEF StartRun
      <4>2. prov' \in [Runs -> ProvPoints] /\ pc' \in [Callers -> CallPoints]
        BY <3>2 DEF StartRun
      <4>3. QED
        BY <3>2, <4>1, <4>2 DEF StartRun
    <3>3. QED
      BY <2>1, <3>1, <3>2 DEF StartStep
  <2>2. ASSUME NEW c \in Stoppers, StopStep(c) PROVE TypeOK'
    <3>1. CASE StopAccepted(c)
      BY <3>1 DEF StopAccepted
    <3>2. CASE StopMarks(c)
      BY <3>2 DEF StopMarks
    <3>3. CASE StopTimesOut(c)
      BY <3>3 DEF StopTimesOut
    <3>4. QED
      BY <2>2, <3>1, <3>2, <3>3 DEF StopStep
  <2>3. ASSUME NEW c \in Updaters, UpdateStep(c) PROVE TypeOK'
    <3>1. CASE UpdateVerified(c)
      BY <3>1 DEF UpdateVerified
    <3>2. CASE UpdateRefused(c)
      BY <3>2 DEF UpdateRefused
    <3>3. CASE UpdateApplied(c)
      BY <3>3 DEF UpdateApplied
    <3>4. QED
      BY <2>3, <3>1, <3>2, <3>3 DEF UpdateStep
  <2>4. ASSUME NEW c \in Callers, CallStep(c) PROVE TypeOK'
    <3>1. CASE Cancel(c)
      BY <3>1 DEF Cancel
    <3>2. CASE Select(c)
      BY <3>2 DEF Select, SelectPoint
    <3>3. CASE Return(c)
      BY <3>3 DEF Return
    <3>4. CASE \E r \in Runs : ReturnError(c, r)
      BY <3>4 DEF ReturnError
    <3>5. QED
      BY <2>4, <3>1, <3>2, <3>3, <3>4 DEF CallStep
  <2>5. ASSUME NEW r \in Runs, RunStep(r) PROVE TypeOK'
    <3>1. CASE RunConnecting(r)
      BY <3>1 DEF RunConnecting
    <3>2. CASE RunProvider(r)
      BY <3>2 DEF RunProvider
    <3>3. CASE ProviderStarted(r)
      BY <3>3 DEF ProviderStarted
    <3>4. CASE ProviderReturns(r)
      BY <3>4 DEF ProviderReturns
    <3>5. CASE ProviderFails(r)
      <4>1. cur \in Runs
        BY <3>5 DEF ProviderFails, RunsExist
      <4>2. QED
        BY <3>5, <4>1 DEF ProviderFails
    <3>6. CASE RunCloses(r)
      BY <3>6 DEF RunCloses
    <3>7. CASE RunIdle(r)
      BY <3>7 DEF RunIdle
    <3>8. CASE MarkStarted(r)
      BY <3>8 DEF MarkStarted
    <3>9. QED
      BY <2>5, <3>1, <3>2, <3>3, <3>4, <3>5, <3>6, <3>7, <3>8 DEF RunStep
  <2>6. ASSUME NEW p \in Procs, TakeSnapshot(p) \/ PushSnapshot(p) PROVE TypeOK'
    BY <2>6 DEF TakeSnapshot, PushSnapshot
  <2>7. CASE UNCHANGED vars
    BY <2>7 DEF vars
  <2>8. QED
    BY <2>1, <2>2, <2>3, <2>4, <2>5, <2>6, <2>7 DEF Next
<1>3. TypeOK /\ RunsExist /\ [Next]_vars => RunsExist'
  BY StepRunEffect DEF RunEffect, RunsExist
<1>4. QED
  BY <1>1, <1>2, <1>3, PTL DEF Spec

-----------------------------------------------------------------------------
(* The steps that can disturb the order of the runs are the starter's and    *)
(* the provider goroutine's; the other goroutines leave `prov' alone.        *)

\* Only the newest run can be live.
LEMMA LiveIsNewest ==
  ASSUME RunsInOrder, TypeOK, NEW r \in Runs, Live(r)
  PROVE  r = cur
BY BoundAssumption DEF RunsInOrder, TypeOK, Live, Runs

\* What has raced stays so, and a Start that passes verifyIdle races unless nobody else is
\* in the window.
LEMMA RacedStays == TypeOK /\ [Next]_vars /\ raced => raced'
<1> SUFFICES ASSUME TypeOK, [Next]_vars, raced PROVE raced'
  OBVIOUS
<1> USE DEF Goto, calls
<1>1. ASSUME NEW c \in Starters, StartStep(c) PROVE raced'
  BY <1>1 DEF StartStep, StartVerified, StartRun
<1>2. ASSUME NEW c \in Stoppers, StopStep(c) PROVE raced'
  BY <1>2 DEF StopStep, StopAccepted, StopMarks, StopTimesOut
<1>3. ASSUME NEW c \in Updaters, UpdateStep(c) PROVE raced'
  BY <1>3 DEF UpdateStep, UpdateVerified, UpdateRefused, UpdateApplied
<1>4. ASSUME NEW c \in Callers, CallStep(c) PROVE raced'
  BY <1>4 DEF CallStep, Cancel, Select, Return, ReturnError
<1>5. ASSUME NEW r \in Runs, RunStep(r) PROVE raced'
  BY <1>5 DEF RunStep, RunConnecting, RunProvider, ProviderStarted, ProviderReturns,
              ProviderFails, RunCloses, RunIdle, MarkStarted
<1>6. ASSUME NEW p \in Procs, TakeSnapshot(p) \/ PushSnapshot(p) PROVE raced'
  BY <1>6 DEF TakeSnapshot, PushSnapshot
<1>7. CASE UNCHANGED vars
  BY <1>7 DEF vars
<1> QED
  BY <1>1, <1>2, <1>3, <1>4, <1>5, <1>6, <1>7 DEF Next

Core == RunsInOrder /\ StateTells /\ StarterWaits /\ OwnChannel


\* Where a select leads.
LEMMA SelectMoves ==
  ASSUME NEW c \in Callers, Select(c)
  PROVE  /\ UNCHANGED <<cur, prov, target, raced>>
         /\ \/ pc[c] = "spawned" /\ pc' = [pc EXCEPT ![c] = "starting"]
            \/ pc[c] = "abandoning" /\ pc' = [pc EXCEPT ![c] = "draining"]
            \/ pc[c] = "marked" /\ pc' = [pc EXCEPT ![c] = "stopping"]
<1>1. UNCHANGED <<cur, prov, target, raced>> /\ pc[c] \in DOMAIN SelectPoint
      /\ pc' = [pc EXCEPT ![c] = SelectPoint[pc[c]]]
  BY DEF Select, shared, runs
<1>2. DOMAIN SelectPoint = {"spawned", "abandoning", "marked"}
  BY DEF SelectPoint
<1>3. /\ SelectPoint["spawned"] = "starting" /\ SelectPoint["abandoning"] = "draining"
      /\ SelectPoint["marked"] = "stopping"
  BY DEF SelectPoint
<1>4. pc[c] \in {"spawned", "abandoning", "marked"}
  BY <1>1, <1>2
<1>5. CASE pc[c] = "spawned"
  BY <1>1, <1>3, <1>5
<1>6. CASE pc[c] = "abandoning"
  BY <1>1, <1>3, <1>6
<1>7. CASE pc[c] = "marked"
  BY <1>1, <1>3, <1>7
<1> QED
  BY <1>1, <1>4, <1>5, <1>6, <1>7

\* A starter that moves on within its call is still the one its run waits for.
LEMMA CallMoves ==
  ASSUME TypeOK, StarterWaits, CallersAssumption, NEW c \in Callers, NEW x,
         pc' = [pc EXCEPT ![c] = x], UNCHANGED <<state, prov, target>>,
         c \in Starters => InCall(c) /\ x \in {"spawned", "starting", "abandoning", "draining"}
  PROVE  StarterWaits'
<1>1. pc'[c] = x /\ \A d \in Callers : d # c => pc'[d] = pc[d]
  BY DEF TypeOK
<1>2. Starters \subseteq Callers
  BY DEF Callers
<1>3. \A d \in Starters : InCall(d) => InCall(d)'
  BY <1>1, <1>2 DEF InCall
<1>4. \A d \in Starters : pc'[d] = "verified" => pc[d] = "verified"
  BY <1>1, <1>2
<1>5. \A d \in Starters :
        pc'[d] \in {"idle", "verified", "spawned", "starting", "abandoning", "draining"}
  BY <1>1, <1>2 DEF StarterWaits
<1>6. \A r \in Runs : Live(r)' <=> Live(r)
  BY DEF Live
<1> QED
  BY <1>3, <1>4, <1>5, <1>6 DEF StarterWaits

\* The invariant is inductive, for any number of callers, until two Starts have raced.
LEMMA CoreStays ==
  ASSUME TypeOK, Core, [Next]_vars, ~raced'
  PROVE  Core'
<1> USE BoundAssumption, CallersAssumption
    DEF Runs, Live, RunsInOrder, StateTells, StarterWaits, OwnChannel, InCall, Core
<1> USE DEF shared, chans, runs, calls, feed, Goto, RunGoto, At, RunAt, Quiet, Resting
<1>1. ASSUME NEW c \in Starters, StartVerified(c) PROVE Core'
  <2>0. \A r \in Runs : ~Live(r)
    BY <1>1 DEF StartVerified, InWindow
  <2>6. ~raced /\ ~InWindow
    BY <1>1 DEF StartVerified
  <2>1. RunsInOrder'
    BY <1>1 DEF StartVerified, TypeOK, Callers
  <2>2. StateTells'
    BY <1>1 DEF StartVerified, TypeOK, Callers
  <2>3. StarterWaits'
    <3>1. \A d \in Starters : pc[d] # "verified"
      BY <2>6 DEF InWindow
    <3>2. UNCHANGED <<state, prov, target>> /\ pc' = [pc EXCEPT ![c] = "verified"]
      BY <1>1 DEF StartVerified
    <3> QED
      BY <2>0, <3>1, <3>2 DEF TypeOK, Callers
  <2>4. OwnChannel'
    BY <1>1 DEF StartVerified, TypeOK, Callers
  <2>5. QED
    BY <2>1, <2>2, <2>3, <2>4
<1>2. ASSUME NEW c \in Starters, StartRun(c) PROVE Core'
  <2>1. RunsInOrder'
    BY <1>2 DEF StartRun, TypeOK, Callers
  <2>2. StateTells'
    BY <1>2 DEF StartRun, TypeOK, Callers
  <2>3. StarterWaits'
    <3>1. /\ UNCHANGED state /\ pc[c] = "verified" /\ pc' = [pc EXCEPT ![c] = "spawned"]
          /\ prov' = [prov EXCEPT ![cur + 1] = "spawned"] /\ target' = [target EXCEPT ![c] = cur + 1]
      BY <1>2 DEF StartRun
    <3>2. pc'[c] = "spawned" /\ target'[c] = cur + 1
      BY <3>1 DEF TypeOK, Callers
    <3>3. \A r \in Runs : Live(r)' => r = cur + 1
      BY <3>1 DEF TypeOK
    <3>4. \A d \in Starters : d # c => pc'[d] = pc[d] /\ pc[d] # "verified"
      BY <3>1 DEF TypeOK, Callers
    <3> QED
      BY <3>2, <3>3, <3>4
  <2>4. OwnChannel'
    BY <1>2 DEF StartRun, TypeOK, Callers
  <2>5. QED
    BY <2>1, <2>2, <2>3, <2>4
<1>3. ASSUME NEW c \in Stoppers, StopAccepted(c) PROVE Core'
  <2>1. RunsInOrder'
    BY <1>3 DEF StopAccepted, Notify, TypeOK, Callers
  <2>2. StateTells'
    BY <1>3 DEF StopAccepted, Notify, TypeOK, Callers
  <2>3. StarterWaits'
    BY <1>3 DEF StopAccepted, Notify, TypeOK, Callers
  <2>4. OwnChannel'
    BY <1>3 DEF StopAccepted, Notify, TypeOK, Callers
  <2>5. QED
    BY <2>1, <2>2, <2>3, <2>4
<1>4. ASSUME NEW c \in Stoppers, StopMarks(c) PROVE Core'
  <2>1. RunsInOrder'
    BY <1>4 DEF StopMarks, Notify, TypeOK, Callers
  <2>2. StateTells'
    BY <1>4 DEF StopMarks, Notify, TypeOK, Callers
  <2>3. StarterWaits'
    BY <1>4 DEF StopMarks, Notify, TypeOK, Callers
  <2>4. OwnChannel'
    BY <1>4 DEF StopMarks, Notify, TypeOK, Callers
  <2>5. QED
    BY <2>1, <2>2, <2>3, <2>4
<1>5. ASSUME NEW c \in Stoppers, StopTimesOut(c) PROVE Core'
  <2>1. RunsInOrder'
    BY <1>5 DEF StopTimesOut, Notify, TypeOK, Callers
  <2>2. StateTells'
    BY <1>5 DEF StopTimesOut, Notify, TypeOK, Callers
  <2>3. StarterWaits'
    BY <1>5 DEF StopTimesOut, Notify, TypeOK, Callers
  <2>4. OwnChannel'
    BY <1>5 DEF StopTimesOut, Notify, TypeOK, Callers
  <2>5. QED
    BY <2>1, <2>2, <2>3, <2>4
<1>6. ASSUME NEW c \in Updaters, UpdateVerified(c) PROVE Core'
  <2>1. RunsInOrder'
    BY <1>6 DEF UpdateVerified, Notify, TypeOK, Callers
  <2>2. StateTells'
    BY <1>6 DEF UpdateVerified, Notify, TypeOK, Callers
  <2>3. StarterWaits'
    BY <1>6 DEF UpdateVerified, Notify, TypeOK, Callers
  <2>4. OwnChannel'
    BY <1>6 DEF UpdateVerified, Notify, TypeOK, Callers
  <2>5. QED
    BY <2>1, <2>2, <2>3, <2>4
<1>7. ASSUME NEW c \in Updaters, UpdateRefused(c) PROVE Core'
  <2>1. RunsInOrder'
    BY <1>7 DEF UpdateRefused, Notify, TypeOK, Callers
  <2>2. StateTells'
    BY <1>7 DEF UpdateRefused, Notify, TypeOK, Callers
  <2>3. StarterWaits'
    BY <1>7 DEF UpdateRefused, Notify, TypeOK, Callers
  <2>4. OwnChannel'
    BY <1>7 DEF UpdateRefused, Notify, TypeOK, Callers
  <2>5. QED
    BY <2>1, <2>2, <2>3, <2>4
<1>8. ASSUME NEW c \in Updaters, UpdateApplied(c) PROVE Core'
  <2>1. RunsInOrder'
    BY <1>8 DEF UpdateApplied, Notify, TypeOK, Callers
  <2>2. StateTells'
    BY <1>8 DEF UpdateApplied, Notify, TypeOK, Callers
  <2>3. StarterWaits'
    BY <1>8 DEF UpdateApplied, Notify, TypeOK, Callers
  <2>4. OwnChannel'
    BY <1>8 DEF UpdateApplied, Notify, TypeOK, Callers
  <2>5. QED
    BY <2>1, <2>2, <2>3, <2>4
<1>9. ASSUME NEW c \in Callers, Cancel(c) PROVE Core'
  <2>1. RunsInOrder'
    BY <1>9 DEF Cancel, TypeOK, Callers
  <2>2. StateTells'
    BY <1>9 DEF Cancel, TypeOK, Callers
  <2>3. StarterWaits'
    <3>1. CASE pc[c] = "starting"
      <4>1. pc' = [pc EXCEPT ![c] = "abandoning"] /\ UNCHANGED <<state, prov, target>>
        BY <1>9, <3>1 DEF Cancel
      <4> QED
        BY <3>1, <4>1, CallMoves
    <3>2. CASE pc[c] = "accepted"
      <4>1. pc' = [pc EXCEPT ![c] = "cancelled"] /\ UNCHANGED <<state, prov, target>>
        BY <1>9, <3>2 DEF Cancel
      <4>2. c \notin Starters
        BY <3>2
      <4> QED
        BY <4>1, <4>2, CallMoves
    <3> QED
      BY <1>9, <3>1, <3>2 DEF Cancel
  <2>4. OwnChannel'
    BY <1>9 DEF Cancel, TypeOK, Callers
  <2>5. QED
    BY <2>1, <2>2, <2>3, <2>4
<1>10. ASSUME NEW c \in Callers, Select(c) PROVE Core'
  <2>0. /\ UNCHANGED <<state, cur, prov, target, panicked, closed, startedClosed, sendTo>>
        /\ sel' = [sel EXCEPT ![c] = cur]
    BY <1>10 DEF Select
  <2>6. PICK x \in {"starting", "draining", "stopping"} :
          /\ pc' = [pc EXCEPT ![c] = x]
          /\ x = "stopping" => pc[c] = "marked"
          /\ x # "stopping" => InCall(c)
    BY <1>10, SelectMoves
  <2>1. RunsInOrder'
    BY <1>10, <2>0, <2>6 DEF TypeOK, Callers
  <2>2. StateTells'
    BY <1>10, <2>0, <2>6 DEF TypeOK, Callers
  <2>3. StarterWaits'
    BY <2>0, <2>6, CallMoves
  <2>4. OwnChannel'
    BY <1>10, <2>0, <2>6 DEF TypeOK, Callers
  <2>5. QED
    BY <2>1, <2>2, <2>3, <2>4
<1>11. ASSUME NEW c \in Callers, Return(c) PROVE Core'
  <2>0. /\ pc' = [pc EXCEPT ![c] = "idle"] /\ pc[c] \in {"starting", "draining", "stopping"}
        /\ UNCHANGED <<state, cur, prov, target, sel, panicked, closed, startedClosed, sendTo>>
    BY <1>11 DEF Return, Waiting
  <2>1. RunsInOrder'
    BY <1>11, <2>0 DEF TypeOK, Callers
  <2>2. StateTells'
    BY <1>11, <2>0 DEF TypeOK, Callers
  <2>3. StarterWaits'
    <3>1. ASSUME NEW r \in Runs, state = "IDLE", Live(r), c \in Starters, target[c] = r
          PROVE  FALSE
      <4>1. r = cur /\ prov[r] = "spawned"
        BY <3>1, LiveIsNewest
      <4>2. sel[c] = r
        BY <2>0, <3>1, <4>1 DEF TypeOK, Callers
      <4>3. closed[r] \/ startedClosed[r]
        BY <1>11, <4>2 DEF Return
      <4> QED
        BY <3>1, <4>1, <4>3
    <3>2. \A r \in Runs : state = "IDLE" /\ Live(r) =>
            \E d \in Starters : d # c /\ InCall(d) /\ target[d] = r
      BY <3>1
    <3>3. \A d \in Callers : d # c => pc'[d] = pc[d]
      BY <2>0 DEF TypeOK
    <3>4. pc'[c] = "idle"
      BY <2>0 DEF TypeOK
    <3>5. Starters \subseteq Callers
      BY DEF Callers
    <3>6. \A r \in Runs : state = "IDLE" /\ Live(r) =>
            \E d \in Starters : InCall(d)' /\ target[d] = r
      BY <3>2, <3>3, <3>5
    <3> QED
      BY <2>0, <3>3, <3>4, <3>5, <3>6
  <2>4. OwnChannel'
    BY <1>11, <2>0 DEF TypeOK, Callers
  <2>5. QED
    BY <2>1, <2>2, <2>3, <2>4
<1>12. ASSUME NEW c \in Callers, NEW q \in Runs, ReturnError(c, q) PROVE Core'
  <2>0. /\ pc' = [pc EXCEPT ![c] = "idle"] /\ pc[c] \in {"starting", "draining", "stopping"}
        /\ UNCHANGED <<state, cur, target, sel, panicked, closed, startedClosed, sendTo>>
        /\ prov[q] = "sending" /\ prov' = [prov EXCEPT ![q] = "finished"]
    BY <1>12 DEF ReturnError, Waiting
  <2>6. q = cur /\ state # "IDLE"
    BY <2>0, LiveIsNewest
  <2>1. RunsInOrder'
    BY <1>12, <2>0, <2>6 DEF TypeOK, Callers
  <2>2. StateTells'
    BY <1>12, <2>0, <2>6 DEF TypeOK, Callers
  <2>3. StarterWaits'
    BY <1>12, <2>0, <2>6 DEF TypeOK, Callers
  <2>4. OwnChannel'
    BY <1>12, <2>0, <2>6 DEF TypeOK, Callers
  <2>5. QED
    BY <2>1, <2>2, <2>3, <2>4
<1>13. ASSUME NEW r \in Runs, RunConnecting(r) PROVE Core'
  <2>1. RunsInOrder'
    BY <1>13 DEF RunConnecting, TypeOK
  <2>2. StateTells'
    BY <1>13 DEF RunConnecting, TypeOK
  <2>3. StarterWaits'
    BY <1>13 DEF RunConnecting, TypeOK
  <2>4. OwnChannel'
    BY <1>13 DEF RunConnecting, TypeOK
  <2>5. QED
    BY <2>1, <2>2, <2>3, <2>4
<1>14. ASSUME NEW r \in Runs, RunProvider(r) PROVE Core'
  <2>1. RunsInOrder'
    BY <1>14 DEF RunProvider, TypeOK
  <2>2. StateTells'
    BY <1>14 DEF RunProvider, TypeOK
  <2>3. StarterWaits'
    BY <1>14 DEF RunProvider, TypeOK
  <2>4. OwnChannel'
    BY <1>14 DEF RunProvider, TypeOK
  <2>5. QED
    BY <2>1, <2>2, <2>3, <2>4
<1>15. ASSUME NEW r \in Runs, ProviderStarted(r) PROVE Core'
  <2>1. RunsInOrder'
    BY <1>15 DEF ProviderStarted, TypeOK
  <2>2. StateTells'
    BY <1>15 DEF ProviderStarted, TypeOK
  <2>3. StarterWaits'
    BY <1>15 DEF ProviderStarted, TypeOK
  <2>4. OwnChannel'
    BY <1>15 DEF ProviderStarted, TypeOK
  <2>5. QED
    BY <2>1, <2>2, <2>3, <2>4
<1>16. ASSUME NEW r \in Runs, ProviderReturns(r) PROVE Core'
  <2>1. RunsInOrder'
    BY <1>16 DEF ProviderReturns, TypeOK
  <2>2. StateTells'
    BY <1>16 DEF ProviderReturns, TypeOK
  <2>3. StarterWaits'
    BY <1>16 DEF ProviderReturns, TypeOK
  <2>4. OwnChannel'
    BY <1>16 DEF ProviderReturns, TypeOK
  <2>5. QED
    BY <2>1, <2>2, <2>3, <2>4
<1>17. ASSUME NEW r \in Runs, ProviderFails(r) PROVE Core'
  <2>0. r = cur /\ ~closed[cur]
    BY <1>17, LiveIsNewest DEF ProviderFails
  <2>6. ~panicked'
    BY <1>17, <2>0 DEF ProviderFails, TypeOK
  <2>1. RunsInOrder'
    BY <1>17, <2>0, <2>6 DEF ProviderFails, TypeOK
  <2>2. StateTells'
    BY <1>17, <2>0, <2>6 DEF ProviderFails, TypeOK
  <2>3. StarterWaits'
    BY <1>17, <2>0, <2>6 DEF ProviderFails, TypeOK
  <2>4. OwnChannel'
    BY <1>17, <2>0, <2>6 DEF ProviderFails, TypeOK
  <2>5. QED
    BY <2>1, <2>2, <2>3, <2>4
<1>18. ASSUME NEW r \in Runs, RunCloses(r) PROVE Core'
  <2>0. r = cur /\ ~closed[cur]
    BY <1>18, LiveIsNewest DEF RunCloses
  <2>6. ~panicked'
    BY <1>18, <2>0 DEF RunCloses, TypeOK
  <2>1. RunsInOrder'
    BY <1>18, <2>0, <2>6 DEF RunCloses, TypeOK
  <2>2. StateTells'
    BY <1>18, <2>0, <2>6 DEF RunCloses, TypeOK
  <2>3. StarterWaits'
    BY <1>18, <2>0, <2>6 DEF RunCloses, TypeOK
  <2>4. OwnChannel'
    BY <1>18, <2>0, <2>6 DEF RunCloses, TypeOK
  <2>5. QED
    BY <2>1, <2>2, <2>3, <2>4
<1>19. ASSUME NEW r \in Runs, RunIdle(r) PROVE Core'
  <2>0. r = cur
    BY <1>19, LiveIsNewest DEF RunIdle
  <2>1. RunsInOrder'
    BY <1>19, <2>0 DEF RunIdle, TypeOK
  <2>2. StateTells'
    BY <1>19, <2>0 DEF RunIdle, TypeOK
  <2>3. StarterWaits'
    BY <1>19, <2>0 DEF RunIdle, TypeOK
  <2>4. OwnChannel'
    BY <1>19, <2>0 DEF RunIdle, TypeOK
  <2>5. QED
    BY <2>1, <2>2, <2>3, <2>4
<1>20. ASSUME NEW r \in Runs, MarkStarted(r) PROVE Core'
  <2>1. RunsInOrder'
    BY <1>20 DEF MarkStarted, TypeOK
  <2>2. StateTells'
    BY <1>20 DEF MarkStarted, TypeOK
  <2>3. StarterWaits'
    BY <1>20 DEF MarkStarted, TypeOK
  <2>4. OwnChannel'
    BY <1>20 DEF MarkStarted, TypeOK
  <2>5. QED
    BY <2>1, <2>2, <2>3, <2>4
<1>21. ASSUME NEW p \in Procs, TakeSnapshot(p) \/ PushSnapshot(p) PROVE Core'
  BY <1>21 DEF TakeSnapshot, PushSnapshot
<1>22. CASE UNCHANGED vars
  BY <1>22 DEF vars
<1>23. QED
  BY <1>1, <1>2, <1>3, <1>4, <1>5, <1>6, <1>7, <1>8, <1>9, <1>10, <1>11, <1>12,
     <1>13, <1>14, <1>15, <1>16, <1>17, <1>18, <1>19, <1>20, <1>21, <1>22
  DEF Next, StartStep, StopStep, UpdateStep, CallStep, RunStep

\* IInv is an invariant: nothing is assumed of who calls Start, or how often.
THEOREM Inductive == Spec => []IInv
<1>1. Init => Core
  <2> USE CallersAssumption DEF Init, Runs, Live
  <2>1. Init => RunsInOrder /\ StateTells
    BY BoundAssumption DEF RunsInOrder, StateTells
  <2>2. Init => StarterWaits
    BY DEF StarterWaits, Callers
  <2>3. Init => OwnChannel
    BY DEF OwnChannel, Callers
  <2> QED
    BY <2>1, <2>2, <2>3 DEF Core
<1>2. TypeOK /\ (raced \/ Core) /\ [Next]_vars => (raced \/ Core)'
  BY CoreStays, RacedStays
<1>3. IInv <=> TypeOK /\ (raced \/ Core)
  BY DEF IInv, Core
<1> QED
  BY <1>1, <1>2, <1>3, TypeCorrect, PTL DEF Spec

-----------------------------------------------------------------------------
(* What follows from the invariant.                                         *)

\* Two provider goroutines of one profile never overlap, unless two Starts were let in together.
THEOREM NeverTwoRuns == Spec => [](~raced => AtMostOneRun)
<1>1. IInv => (~raced => AtMostOneRun)
  BY LiveIsNewest DEF IInv, AtMostOneRun
<1>2. QED
  BY <1>1, Inductive, PTL

\* An IDLE profile has no provider at work: verifyIdle may rely on it.
THEOREM IdleIsFinished == Spec => [](~raced => IdleMeansFinished)
<1>1. IInv => (~raced => IdleMeansFinished)
  BY DEF IInv, StateTells, IdleMeansFinished
<1>2. QED
  BY <1>1, Inductive, PTL

\* The runtime channels are closed once and no error is sent on a foreign one.
THEOREM NeverPanics == Spec => [](~raced => NoPanic /\ ErrorOnOwnChannel)
<1>1. IInv => (~raced => NoPanic /\ ErrorOnOwnChannel)
  BY DEF IInv, RunsInOrder, NoPanic, ErrorOnOwnChannel
<1>2. QED
  BY <1>1, Inductive, PTL

\* The three together: the runs of a profile are kept apart, whoever starts and stops it, as
\* long as no two Starts meet between verifyIdle and the store of CONNECTING.
THEOREM RunsStaySeparate == Spec => []RunsAreSeparate
<1>1. /\ ~raced => AtMostOneRun
      /\ ~raced => IdleMeansFinished
      /\ ~raced => NoPanic /\ ErrorOnOwnChannel
      => RunsAreSeparate
  BY DEF RunsAreSeparate
<1>2. QED
  BY <1>1, NeverTwoRuns, IdleIsFinished, NeverPanics, PTL

\* How a call that waits on a channel comes back: the channel is closed, or its run
\* hands over the error and has thereby left the provider.
LEMMA WaitEnds ==
  ASSUME TypeOK, [Next]_vars, NEW c \in Starters \cup Stoppers,
         pc[c] \in {"draining", "stopping"}, pc'[c] = "idle"
  PROVE  /\ UNCHANGED sel
         /\ \/ closed[sel[c]] /\ UNCHANGED prov
            \/ \E r \in Runs : /\ prov[r] = "sending" /\ sendTo[r] = sel[c]
                               /\ prov' = [prov EXCEPT ![r] = "finished"]
<1> DEFINE Ends == /\ UNCHANGED sel
                   /\ \/ closed[sel[c]] /\ UNCHANGED prov
                      \/ \E r \in Runs : /\ prov[r] = "sending" /\ sendTo[r] = sel[c]
                                         /\ prov' = [prov EXCEPT ![r] = "finished"]
<1> USE DEF Goto, At, Resting, Quiet
<1>1. ASSUME NEW d \in Callers, Return(d) PROVE Ends
  <2>1. d = c
    BY <1>1 DEF Return, TypeOK, Callers
  <2>2. QED
    BY <1>1, <2>1 DEF Return, runs
<1>2. ASSUME NEW d \in Callers, NEW r \in Runs, ReturnError(d, r) PROVE Ends
  <2>1. d = c
    BY <1>2 DEF ReturnError, TypeOK, Callers
  <2>2. QED
    BY <1>2, <2>1 DEF ReturnError
<1>3. ASSUME NEW d \in Callers, Cancel(d) \/ Select(d) PROVE FALSE
  BY <1>3 DEF Cancel, Select, SelectPoint, TypeOK, Callers
<1>4. ASSUME NEW d \in Starters, StartStep(d) PROVE FALSE
  BY <1>4 DEF StartStep, StartVerified, StartRun, TypeOK, Callers
<1>5. ASSUME NEW d \in Stoppers, StopStep(d) PROVE FALSE
  BY <1>5 DEF StopStep, StopAccepted, StopMarks, StopTimesOut, TypeOK, Callers
<1>6. ASSUME NEW d \in Updaters, UpdateStep(d) PROVE FALSE
  BY <1>6, CallersAssumption
  DEF UpdateStep, UpdateVerified, UpdateRefused, UpdateApplied, TypeOK, Callers, calls
<1>7. ASSUME NEW r \in Runs, RunStep(r) PROVE FALSE
  BY <1>7 DEF RunStep, RunConnecting, RunProvider, ProviderStarted, ProviderReturns,
              ProviderFails, RunCloses, RunIdle, MarkStarted, calls
<1>8. ASSUME NEW p \in Procs, TakeSnapshot(p) \/ PushSnapshot(p) PROVE FALSE
  BY <1>8 DEF TakeSnapshot, PushSnapshot, calls
<1>9. CASE UNCHANGED vars
  BY <1>9 DEF vars, calls
<1>10. QED
  BY <1>1, <1>2, <1>3, <1>4, <1>5, <1>6, <1>7, <1>8, <1>9 DEF Next, CallStep

\* A call that waited for the end of a run leaves no provider executing, neither of the run it
\* was about nor of an earlier one.
LEMMA WaitLeavesNone ==
  ASSUME TypeOK, Core, [Next]_vars, NEW c \in Starters \cup Stoppers,
         pc[c] \in {"draining", "stopping"}, pc'[c] = "idle",
         NEW r \in Runs, r <= target[c]
  PROVE  ~Executing(r)'
<1> USE BoundAssumption
<1>1. r <= sel[c] /\ sel[c] <= cur /\ sel[c] \in Runs
  <2>1. target[c] <= sel[c] /\ sel[c] <= cur
    BY DEF Core, OwnChannel
  <2>2. sel[c] \in 0 .. MaxRuns /\ target[c] \in 0 .. MaxRuns /\ r \in 1 .. MaxRuns
    BY DEF TypeOK, Runs, Callers
  <2> QED
    BY <2>1, <2>2 DEF Runs
<1>2. ASSUME r # sel[c] PROVE prov[r] = "done"
  <2>1. cur \in Int /\ sel[c] \in Int /\ r \in Int
    BY <1>1 DEF TypeOK, Runs
  <2>2. r < cur
    BY <1>1, <1>2, <2>1
  <2> QED
    BY <2>2 DEF Core, RunsInOrder
<1>3. CASE closed[sel[c]] /\ UNCHANGED prov
  <2>1. prov[sel[c]] \in {"closed", "done"}
    BY <1>1, <1>3 DEF Core, RunsInOrder
  <2> QED
    BY <1>2, <1>3, <2>1 DEF Executing
<1>4. ASSUME NEW q \in Runs, prov[q] = "sending", sendTo[q] = sel[c],
             prov' = [prov EXCEPT ![q] = "finished"]
      PROVE  ~Executing(r)'
  <2>1. q = sel[c]
    BY <1>4 DEF Core, RunsInOrder
  <2>2. CASE r = q
    BY <1>4, <2>2 DEF Executing, TypeOK
  <2>3. CASE r # q
    BY <1>2, <1>4, <2>1, <2>3 DEF Executing, TypeOK
  <2> QED
    BY <2>2, <2>3
<1> QED
  BY <1>3, <1>4, WaitEnds

\* A Start given up by its caller leaves neither its own provider executing nor an earlier one.
THEOREM AbandonedStops == Spec => AbandonedMeansStopped
<1>1. IInv /\ [Next]_vars =>
        [\A c \in Starters : pc[c] = "draining" /\ pc'[c] = "idle" /\ ~raced =>
           \A r \in Runs : r <= target[c] => ~Executing(r)']_vars
  BY WaitLeavesNone DEF IInv, Core
<1>2. QED
  BY <1>1, Inductive, PTL DEF Spec, AbandonedMeansStopped

\* A Stop that returns the provider's result returns after the provider of every run
\* that existed when it was accepted has left api.Start.
THEOREM StopStops == Spec => StopMeansStopped
<1>1. IInv /\ [Next]_vars =>
        [\A c \in Stoppers : pc[c] = "stopping" /\ pc'[c] = "idle" /\ ~raced =>
           \A r \in Runs : r <= target[c] => ~Executing(r)']_vars
  BY WaitLeavesNone DEF IInv, Core
<1>2. QED
  BY <1>1, Inductive, PTL DEF Spec, StopMeansStopped

\* Both: nobody is told that a provider has left which has not.
THEOREM StopsStayReal == Spec => StopsAreReal
BY StopStops, AbandonedStops, PTL DEF StopsAreReal

-----------------------------------------------------------------------------
(* The profile implements ProfileSessions.                                  *)

\* What a caller's move to another point of its call shows.
LEMMA StarterMoves ==
  ASSUME TypeOK, NEW d \in Starters, NEW x, pc' = [pc EXCEPT ![d] = x]
  PROVE  /\ StartStates' = [StartStates EXCEPT ![d] = StartState(d)']
         /\ StopStates' = StopStates
         /\ pc'[d] = x
<1>1. pc \in [Callers -> CallPoints]
  BY DEF TypeOK
<1>2. pc'[d] = x /\ \A c \in Callers \ {d} : pc'[c] = pc[c]
  BY <1>1 DEF Callers
<1>3. \A c \in Starters \ {d} : StartState(c)' = StartState(c)
  BY <1>2 DEF Callers, StartState
<1>4. \A c \in Stoppers : StopState(c)' = StopState(c)
  BY <1>2, CallersAssumption DEF Callers, StopState
<1>5. StartStates' = [StartStates EXCEPT ![d] = StartState(d)']
  BY <1>3 DEF StartStates
<1>6. StopStates' = StopStates
  BY <1>4 DEF StopStates
<1> QED
  BY <1>2, <1>5, <1>6

LEMMA StopperMoves ==
  ASSUME TypeOK, NEW d \in Stoppers, NEW x, pc' = [pc EXCEPT ![d] = x]
  PROVE  /\ StopStates' = [StopStates EXCEPT ![d] = StopState(d)']
         /\ StartStates' = StartStates
         /\ pc'[d] = x
<1>1. pc \in [Callers -> CallPoints]
  BY DEF TypeOK
<1>2. pc'[d] = x /\ \A c \in Callers \ {d} : pc'[c] = pc[c]
  BY <1>1 DEF Callers
<1>3. \A c \in Stoppers \ {d} : StopState(c)' = StopState(c)
  BY <1>2 DEF Callers, StopState
<1>4. \A c \in Starters : StartState(c)' = StartState(c)
  BY <1>2, CallersAssumption DEF Callers, StartState
<1>5. StopStates' = [StopStates EXCEPT ![d] = StopState(d)']
  BY <1>3 DEF StopStates
<1>6. StartStates' = StartStates
  BY <1>4 DEF StartStates
<1> QED
  BY <1>2, <1>5, <1>6

LEMMA UpdaterMoves ==
  ASSUME TypeOK, NEW d \in Updaters, NEW x, pc' = [pc EXCEPT ![d] = x]
  PROVE  StartStates' = StartStates /\ StopStates' = StopStates
<1>1. pc \in [Callers -> CallPoints]
  BY DEF TypeOK
<1>2. \A c \in Callers \ {d} : pc'[c] = pc[c]
  BY <1>1 DEF Callers
<1>3. \A c \in Stoppers : StopState(c)' = StopState(c)
  BY <1>2, CallersAssumption DEF Callers, StopState
<1>4. \A c \in Starters : StartState(c)' = StartState(c)
  BY <1>2, CallersAssumption DEF Callers, StartState
<1> QED
  BY <1>3, <1>4 DEF StartStates, StopStates

\* Nobody moves.
LEMMA NobodyMoves ==
  ASSUME pc' = pc
  PROVE  StartStates' = StartStates /\ StopStates' = StopStates
BY DEF StartStates, StopStates, StartState, StopState

\* A provider that does not come or go.
LEMMA WorkSame ==
  ASSUME \A r \in Runs : Executing(r)' <=> Executing(r)
  PROVE  AtWork' = AtWork
BY DEF AtWork

LEMMA ProvSame ==
  ASSUME UNCHANGED prov
  PROVE  AtWork' = AtWork
BY DEF AtWork, Executing

\* The state of one caller, from the point where it is.
LEMMA OneStarter ==
  ASSUME NEW c \in Starters PROVE StartStates[c] = StartState(c)
BY DEF StartStates

LEMMA OneStopper ==
  ASSUME NEW c \in Stoppers PROVE StopStates[c] = StopState(c)
BY DEF StopStates

\* A Start that is accepted while nobody is in the window finds no provider at work, and so does
\* the run that it spawns.
LEMMA StartImplements ==
  ASSUME TypeOK, Core, ~raced, ~raced', NEW c \in Starters, StartStep(c)
  PROVE  Sessions!Next
<1> USE DEF At, Resting, Goto, shared, runs, calls
<1>0. raced' = raced
  <2>1. CASE StartVerified(c)
    <3>1. raced' \in BOOLEAN /\ raced \in BOOLEAN
      BY <2>1 DEF StartVerified, InWindow, TypeOK
    <3> QED
      BY <3>1
  <2>2. CASE StartRun(c)
    BY <2>2 DEF StartRun
  <2> QED
    BY <2>1, <2>2 DEF StartStep
<1>1. CASE StartVerified(c)
  <2>1. /\ pc' = [pc EXCEPT ![c] = "verified"] /\ UNCHANGED <<cur, prov, target>>
        /\ state = "IDLE" /\ pc[c] = "idle"
    BY <1>1 DEF StartVerified, Core, StarterWaits
  <2>2. StartState(c) = "free" /\ StartState(c)' = "asked"
    <3>1. pc'[c] = "verified"
      BY <2>1, StarterMoves
    <3> QED
      BY <2>1, <3>1 DEF StartState
  <2>3. ~InWindow
    BY <1>1 DEF StartVerified
  <2>4. ~AtWork
    BY <2>1, <2>3 DEF Core, StateTells, AtWork, Executing, Live, InWindow
  <2>5. \A d \in Starters : StartStates[d] # "asked"
    BY <2>3, OneStarter DEF InWindow, StartState
  <2>6. Sessions!AskStart(c)
    BY <1>0, <2>1, <2>2, <2>4, <2>5, StarterMoves, OneStarter, ProvSame
    DEF Sessions!AskStart, Sessions!StartMoves
  <2> QED
    BY <2>6 DEF Sessions!Next
<1>2. CASE StartRun(c)
  <2>1. /\ pc[c] = "verified" /\ pc' = [pc EXCEPT ![c] = "spawned"]
        /\ target' = [target EXCEPT ![c] = cur + 1]
        /\ cur < MaxRuns /\ cur' = cur + 1 /\ prov' = [prov EXCEPT ![cur + 1] = "spawned"]
    BY <1>2 DEF StartRun
  <2>2. StartState(c) = "asked" /\ StartState(c)' = "begun"
    <3>1. pc'[c] = "spawned"
      BY <2>1, StarterMoves
    <3> QED
      BY <2>1, <3>1 DEF StartState
  <2>3. ~AtWork
    BY <2>1 DEF Core, StarterWaits, AtWork, Executing, Live
  <2>4. cur + 1 \in Runs /\ prov'[cur + 1] = "spawned"
    BY <2>1, BoundAssumption DEF TypeOK, Runs
  <2>5. AtWork' = TRUE
    BY <2>4 DEF AtWork, Executing
  <2>6. Sessions!Begin(c)
    BY <1>0, <2>1, <2>2, <2>3, <2>5, StarterMoves, OneStarter
    DEF Sessions!Begin, Sessions!StartMoves
  <2> QED
    BY <2>6 DEF Sessions!Next
<1> QED
  BY <1>1, <1>2 DEF StartStep

\* Two Starts that meet in the window: the other one is in its call.
LEMMA RaceImplements ==
  ASSUME TypeOK, Core, ~raced, raced', [Next]_vars
  PROVE  Sessions!Next
<1> USE DEF Goto, shared, calls
<1>1. PICK c \in Starters : StartVerified(c) /\ InWindow
  <2>1. ASSUME NEW c \in Callers, CallStep(c) PROVE FALSE
    BY <2>1 DEF CallStep, Cancel, Select, Return, ReturnError
  <2>2. ASSUME NEW r \in Runs, RunStep(r) PROVE FALSE
    BY <2>2 DEF RunStep, RunConnecting, RunProvider, ProviderStarted, ProviderReturns,
                ProviderFails, RunCloses, RunIdle, MarkStarted
  <2>3. ASSUME NEW c \in Stoppers, StopStep(c) PROVE FALSE
    BY <2>3 DEF StopStep, StopAccepted, StopMarks, StopTimesOut
  <2>4. ASSUME NEW c \in Updaters, UpdateStep(c) PROVE FALSE
    BY <2>4 DEF UpdateStep, UpdateVerified, UpdateRefused, UpdateApplied
  <2>5. ASSUME NEW p \in Procs, TakeSnapshot(p) \/ PushSnapshot(p) PROVE FALSE
    BY <2>5 DEF TakeSnapshot, PushSnapshot
  <2>6. CASE UNCHANGED vars
    BY <2>6 DEF vars
  <2>7. ASSUME NEW c \in Starters, StartStep(c) PROVE StartVerified(c) /\ InWindow
    BY <2>7 DEF StartStep, StartRun, StartVerified
  <2> QED
    BY <2>1, <2>2, <2>3, <2>4, <2>5, <2>6, <2>7 DEF Next
<1>2. state = "IDLE" /\ pc[c] = "idle"
  BY <1>1 DEF StartVerified, Resting, Core, StarterWaits
<1>3. \E d \in Starters : pc[d] = "verified" \/ InCall(d)
  <2>1. CASE \E d \in Starters : pc[d] = "verified"
    BY <2>1
  <2>2. ASSUME NEW r \in Runs, prov[r] = "spawned" PROVE \E d \in Starters : InCall(d)
    BY <1>2, <2>2 DEF Live, Core, StarterWaits
  <2> QED
    BY <1>1, <2>1, <2>2 DEF InWindow
<1>4. PICK d \in Starters : pc[d] = "verified" \/ InCall(d)
  BY <1>3
<1>5. d # c /\ StartStates[d] # "free" /\ StartStates[c] = "free"
  BY <1>2, <1>4, OneStarter DEF InCall, StartState
<1>6. Sessions!Race(c)
  BY <1>5 DEF Sessions!Race
<1> QED
  BY <1>6 DEF Sessions!Next

\* A Stop is asked when it is accepted, and may time out.
LEMMA StopImplements ==
  ASSUME TypeOK, Core, ~raced, NEW c \in Stoppers, StopStep(c)
  PROVE  [Sessions!Next]_Sessions!vars
<1> USE DEF At, Resting, Goto, shared, runs, calls
<1>1. CASE StopAccepted(c)
  <2>1. /\ pc' = [pc EXCEPT ![c] = "accepted"] /\ UNCHANGED <<cur, prov, raced>> /\ pc[c] \in {"idle", "timedout"}
        /\ target' = [target EXCEPT ![c] = cur]
    BY <1>1 DEF StopAccepted
  <2>2. StopState(c) # "asked" /\ StopState(c)' = "asked"
    BY <2>1, StopperMoves DEF StopState
  <2>3. Sessions!AskStop(c)
    BY <2>1, <2>2, StopperMoves, OneStopper, ProvSame DEF Sessions!AskStop
  <2> QED
    BY <2>3 DEF Sessions!Next
<1>2. CASE StopMarks(c)
  <2>1. pc[c] = "cancelled" /\ pc' = [pc EXCEPT ![c] = "marked"] /\ UNCHANGED <<cur, prov, target, raced>>
    BY <1>2 DEF StopMarks
  <2>2. StopState(c) = "asked" /\ StopState(c)' = "asked"
    BY <2>1, StopperMoves DEF StopState
  <2>3. StopStates' = StopStates
    BY <2>1, <2>2, StopperMoves DEF StopStates
  <2> QED
    BY <2>1, <2>3, StopperMoves, ProvSame DEF Sessions!vars
<1>3. CASE StopTimesOut(c)
  <2>1. pc[c] = "stopping" /\ pc' = [pc EXCEPT ![c] = "timedout"] /\ UNCHANGED <<cur, prov, target, raced>>
    BY <1>3 DEF StopTimesOut
  <2>2. StopState(c) = "asked" /\ StopState(c)' = "timed out"
    BY <2>1, StopperMoves DEF StopState
  <2>3. Sessions!AnswerStop(c)
    BY <2>1, <2>2, StopperMoves, OneStopper, ProvSame DEF Sessions!AnswerStop
  <2> QED
    BY <2>3 DEF Sessions!Next
<1> QED
  BY <1>1, <1>2, <1>3 DEF StopStep

\* A closed channel is that of a run that has left its provider.
LEMMA ClosedHasLeft ==
  ASSUME TypeOK, Core, NEW r \in Runs, closed[r]
  PROVE  r <= cur /\ (AtWork => cur > r)
<1>1. prov[r] \in {"closed", "done"} /\ r <= cur
  BY BoundAssumption DEF Core, RunsInOrder, TypeOK, Runs
<1>2. ASSUME NEW q \in Runs, Executing(q) PROVE q = cur
  BY <1>2, LiveIsNewest DEF Core, Live, Executing
<1>3. cur # r \/ ~AtWork
  BY <1>1, <1>2 DEF AtWork, Executing
<1>4. cur \in Nat /\ r \in Nat
  BY BoundAssumption DEF TypeOK, Runs
<1> QED
  BY <1>1, <1>3, <1>4

\* What a session that is at work says of the newest run.
LEMMA WorkIsNewest ==
  ASSUME TypeOK, Core, AtWork
  PROVE  cur \in Runs /\ Executing(cur)
<1>1. PICK q \in Runs : Executing(q)
  BY DEF AtWork
<1>2. q = cur
  BY <1>1, LiveIsNewest DEF Core, Live, Executing
<1> QED
  BY <1>1, <1>2

\* What returns a call leaves the providers alone, and the channel it waited on is that of a
\* run that has left.
LEMMA ReturnEnds ==
  ASSUME TypeOK, Core, NEW c \in Callers, Return(c) \/ \E r \in Runs : ReturnError(c, r)
  PROVE  /\ pc[c] \in {"starting", "draining", "stopping"} /\ pc' = [pc EXCEPT ![c] = "idle"]
         /\ UNCHANGED <<cur, target, raced>> /\ AtWork' = AtWork
         /\ pc[c] # "starting" /\ AtWork => cur > sel[c]
<1>0. sel[c] \in 0 .. MaxRuns
  BY DEF TypeOK
<1>1. CASE Return(c)
  <2>1. /\ pc[c] \in {"starting", "draining", "stopping"} /\ pc' = [pc EXCEPT ![c] = "idle"]
        /\ UNCHANGED <<cur, target, prov, raced>>
        /\ closed[sel[c]] \/ pc[c] = "starting"
    BY <1>1 DEF Return, Waiting, Goto, shared, runs
  <2>2. ASSUME pc[c] # "starting", AtWork PROVE cur > sel[c]
    <3>1. CASE sel[c] \in Runs
      BY <2>1, <2>2, <3>1, ClosedHasLeft
    <3>2. CASE sel[c] = 0
      BY <2>2, <3>2, WorkIsNewest DEF Runs
    <3> QED
      BY <1>0, <3>1, <3>2, BoundAssumption DEF Runs
  <2> QED
    BY <2>1, <2>2, ProvSame
<1>2. ASSUME NEW r \in Runs, ReturnError(c, r)
      PROVE  /\ pc[c] \in {"starting", "draining", "stopping"} /\ pc' = [pc EXCEPT ![c] = "idle"]
             /\ UNCHANGED <<cur, target, raced>> /\ AtWork' = AtWork
             /\ ~AtWork
  <2>1. /\ pc[c] \in {"starting", "draining", "stopping"} /\ pc' = [pc EXCEPT ![c] = "idle"]
        /\ UNCHANGED <<cur, target, raced>>
        /\ prov[r] = "sending" /\ prov' = [prov EXCEPT ![r] = "finished"]
    BY <1>2 DEF ReturnError, Waiting, Goto, shared
  <2>2. r = cur
    BY <2>1, LiveIsNewest DEF Core, Live
  <2>3. \A q \in Runs : Executing(q)' <=> Executing(q)
    BY <2>1 DEF Executing, TypeOK
  <2>4. ~AtWork
    BY <2>1, <2>2, WorkIsNewest DEF Executing
  <2> QED
    BY <2>1, <2>3, <2>4, WorkSame
<1> QED
  BY <1>1, <1>2

\* The starter's calls: it may give up, and is answered when it waits no more.
LEMMA StarterCallImplements ==
  ASSUME TypeOK, Core, ~raced, NEW c \in Starters, CallStep(c)
  PROVE  [Sessions!Next]_Sessions!vars
<1> USE DEF At, Resting, Goto, shared, runs, calls
<1>0. TypeOK /\ c \in Callers
  BY DEF Core, Callers
<1>1. CASE Cancel(c)
  <2>1. pc[c] = "starting"
    BY <1>1 DEF Cancel, Core, StarterWaits
  <2>2. pc' = [pc EXCEPT ![c] = "abandoning"] /\ UNCHANGED <<cur, prov, target, raced>>
    BY <1>1, <2>1 DEF Cancel
  <2>3. StartState(c) = "begun" /\ StartState(c)' = "abandoned"
    BY <1>0, <2>1, <2>2, StarterMoves DEF StartState
  <2>4. Sessions!Abandon(c)
    BY <1>0, <2>2, <2>3, StarterMoves, OneStarter, ProvSame DEF Sessions!Abandon, Sessions!StartMoves
  <2> QED
    BY <2>4 DEF Sessions!Next
<1>2. CASE Select(c)
  <2>1. /\ UNCHANGED <<cur, prov, target, raced>>
        /\ \/ pc[c] = "spawned" /\ pc' = [pc EXCEPT ![c] = "starting"]
           \/ pc[c] = "abandoning" /\ pc' = [pc EXCEPT ![c] = "draining"]
    BY <1>0, <1>2, SelectMoves DEF Core, StarterWaits
  <2>2. StartState(c)' = StartState(c) /\ StopStates' = StopStates
        /\ StartStates' = [StartStates EXCEPT ![c] = StartState(c)']
    <3>1. CASE pc[c] = "spawned" /\ pc' = [pc EXCEPT ![c] = "starting"]
      <4>1. pc'[c] = "starting"
        BY <1>0, <3>1, StarterMoves
      <4>2. StartState(c)' = StartState(c)
        BY <3>1, <4>1 DEF StartState
      <4> QED
        BY <1>0, <3>1, <4>2, StarterMoves
    <3>2. CASE pc[c] = "abandoning" /\ pc' = [pc EXCEPT ![c] = "draining"]
      <4>1. pc'[c] = "draining"
        BY <1>0, <3>2, StarterMoves
      <4>2. StartState(c)' = StartState(c)
        BY <3>2, <4>1 DEF StartState
      <4> QED
        BY <1>0, <3>2, <4>2, StarterMoves
    <3> QED
      BY <2>1, <3>1, <3>2
  <2>3. StartStates' = StartStates
    BY <2>2, OneStarter DEF StartStates
  <2> QED
    BY <2>1, <2>2, <2>3, ProvSame DEF Sessions!vars
<1>3. CASE Return(c) \/ \E r \in Runs : ReturnError(c, r)
  <2>1. /\ pc[c] \in {"starting", "draining", "stopping"} /\ pc' = [pc EXCEPT ![c] = "idle"]
        /\ UNCHANGED <<cur, target, raced>> /\ AtWork' = AtWork
        /\ pc[c] # "starting" /\ AtWork => cur > sel[c]
    BY <1>0, <1>3, ReturnEnds
  <2>2. StartState(c)' = "free"
    BY <1>0, <2>1, StarterMoves DEF StartState
  <2>3. CASE pc[c] = "starting"
    <3>1. StartState(c) = "begun"
      BY <2>3 DEF StartState
    <3>2. Sessions!AnswerStart(c)
      BY <1>0, <2>1, <2>2, <3>1, StarterMoves, OneStarter DEF Sessions!AnswerStart, Sessions!StartMoves
    <3> QED
      BY <3>2 DEF Sessions!Next
  <2>4. CASE pc[c] = "draining"
    <3>1. StartState(c) = "abandoned"
      BY <2>4 DEF StartState
    <3>2. AtWork => cur > target[c]
      <4>1. target[c] <= sel[c]
        BY <2>4 DEF Core, OwnChannel
      <4>2. cur \in Int /\ sel[c] \in Int /\ target[c] \in Int
        BY <1>0, BoundAssumption DEF TypeOK
      <4>3. AtWork => cur > sel[c]
        BY <2>1, <2>4
      <4> QED
        BY <4>1, <4>2, <4>3
    <3>3. Sessions!AnswerAbandoned(c)
      BY <1>0, <2>1, <2>2, <3>1, <3>2, StarterMoves, OneStarter
      DEF Sessions!AnswerAbandoned, Sessions!StartMoves, Sessions!Over
    <3> QED
      BY <3>3 DEF Sessions!Next
  <2>5. pc[c] # "stopping"
    BY DEF Core, StarterWaits
  <2> QED
    BY <2>1, <2>3, <2>4, <2>5
<1> QED
  BY <1>1, <1>2, <1>3 DEF CallStep

\* The stopper's calls: it is answered when the session it was to end has ended.
LEMMA StopperCallImplements ==
  ASSUME TypeOK, Core, ~raced, NEW c \in Stoppers, CallStep(c)
  PROVE  [Sessions!Next]_Sessions!vars
<1> USE DEF At, Resting, Goto, shared, runs, calls
<1>0. TypeOK /\ c \in Callers
  BY DEF Core, Callers
<1>1. ASSUME NEW x, pc' = [pc EXCEPT ![c] = x], StopState(c)' = StopState(c),
             UNCHANGED <<cur, target, raced>>, AtWork' = AtWork
      PROVE  UNCHANGED Sessions!vars
  <2>1. StopStates' = [StopStates EXCEPT ![c] = StopState(c)] /\ StartStates' = StartStates
    BY <1>0, <1>1, StopperMoves
  <2>2. StopStates' = StopStates
    BY <2>1, OneStopper DEF StopStates
  <2> QED
    BY <1>1, <2>1, <2>2 DEF Sessions!vars
<1>2. CASE Cancel(c)
  <2>1. UNCHANGED <<cur, prov, target, raced>>
    BY <1>2 DEF Cancel
  <2>2. CASE pc[c] = "starting" /\ pc' = [pc EXCEPT ![c] = "abandoning"]
    <3>1. StopState(c)' = StopState(c)
      <4>1. pc'[c] = "abandoning"
        BY <1>0, <2>2, StopperMoves
      <4> QED
        BY <2>2, <4>1 DEF StopState
    <3> QED
      BY <1>1, <2>1, <2>2, <3>1, ProvSame
  <2>3. CASE pc[c] = "accepted" /\ pc' = [pc EXCEPT ![c] = "cancelled"]
    <3>1. StopState(c)' = StopState(c)
      <4>1. pc'[c] = "cancelled"
        BY <1>0, <2>3, StopperMoves
      <4> QED
        BY <2>3, <4>1 DEF StopState
    <3> QED
      BY <1>1, <2>1, <2>3, <3>1, ProvSame
  <2> QED
    BY <1>2, <2>2, <2>3 DEF Cancel
<1>3. CASE Select(c)
  <2>1. UNCHANGED <<cur, prov, target, raced>>
    BY <1>3 DEF Select
  <2>2. CASE pc[c] = "marked" /\ pc' = [pc EXCEPT ![c] = "stopping"]
    <3>1. StopState(c)' = StopState(c)
      <4>1. pc'[c] = "stopping"
        BY <1>0, <2>2, StopperMoves
      <4> QED
        BY <2>2, <4>1 DEF StopState
    <3> QED
      BY <1>1, <2>1, <2>2, <3>1, ProvSame
  <2>3. CASE pc[c] = "spawned" /\ pc' = [pc EXCEPT ![c] = "starting"]
    <3>1. StopState(c)' = StopState(c)
      <4>1. pc'[c] = "starting"
        BY <1>0, <2>3, StopperMoves
      <4> QED
        BY <2>3, <4>1 DEF StopState
    <3> QED
      BY <1>1, <2>1, <2>3, <3>1, ProvSame
  <2>4. CASE pc[c] = "abandoning" /\ pc' = [pc EXCEPT ![c] = "draining"]
    <3>1. StopState(c)' = StopState(c)
      <4>1. pc'[c] = "draining"
        BY <1>0, <2>4, StopperMoves
      <4> QED
        BY <2>4, <4>1 DEF StopState
    <3> QED
      BY <1>1, <2>1, <2>4, <3>1, ProvSame
  <2> QED
    BY <1>0, <1>3, <2>2, <2>3, <2>4, SelectMoves
<1>4. CASE Return(c) \/ \E r \in Runs : ReturnError(c, r)
  <2>1. /\ pc[c] \in {"starting", "draining", "stopping"} /\ pc' = [pc EXCEPT ![c] = "idle"]
        /\ UNCHANGED <<cur, target, raced>> /\ AtWork' = AtWork
        /\ pc[c] # "starting" /\ AtWork => cur > sel[c]
    BY <1>0, <1>4, ReturnEnds
  <2>2. StopState(c)' = "free"
    BY <1>0, <2>1, StopperMoves DEF StopState
  <2>3. CASE pc[c] = "stopping"
    <3>1. StopState(c) = "asked"
      BY <2>3 DEF StopState
    <3>2. AtWork => cur > target[c]
      <4>1. target[c] <= sel[c]
        BY <2>3 DEF Core, OwnChannel
      <4>2. cur \in Int /\ sel[c] \in Int /\ target[c] \in Int
        BY <1>0, BoundAssumption DEF TypeOK
      <4>3. AtWork => cur > sel[c]
        BY <2>1, <2>3
      <4> QED
        BY <4>1, <4>2, <4>3
    <3>3. Sessions!AnswerStop(c)
      BY <1>0, <2>1, <2>2, <3>1, <3>2, StopperMoves, OneStopper
      DEF Sessions!AnswerStop, Sessions!Over
    <3> QED
      BY <3>3 DEF Sessions!Next
  <2>4. CASE pc[c] # "stopping"
    <3>1. StopState(c)' = StopState(c)
      BY <2>1, <2>2, <2>4 DEF StopState
    <3> QED
      BY <1>1, <2>1, <3>1
  <2> QED
    BY <2>3, <2>4
<1> QED
  BY <1>2, <1>3, <1>4 DEF CallStep

\* An updater's calls are nobody's business but its own.
LEMMA UpdaterCallImplements ==
  ASSUME TypeOK, Core, ~raced, NEW c \in Updaters, CallStep(c) \/ UpdateStep(c)
  PROVE  UNCHANGED Sessions!vars
<1> USE DEF At, Resting, Goto, shared, runs, calls
<1>0. TypeOK /\ c \in Callers
  BY DEF Core, Callers
<1>1. ASSUME NEW x, pc' = [pc EXCEPT ![c] = x], UNCHANGED <<cur, target, raced>>, AtWork' = AtWork
      PROVE  UNCHANGED Sessions!vars
  BY <1>0, <1>1, UpdaterMoves DEF Sessions!vars
<1>2. CASE Cancel(c)
  BY <1>1, <1>2, ProvSame DEF Cancel
<1>3. CASE Select(c)
  <2>1. UNCHANGED <<cur, prov, target, raced>> /\ pc' = [pc EXCEPT ![c] = SelectPoint[pc[c]]]
    BY <1>3 DEF Select
  <2> QED
    BY <1>1, <2>1, ProvSame
<1>4. CASE Return(c) \/ \E r \in Runs : ReturnError(c, r)
  <2>1. pc' = [pc EXCEPT ![c] = "idle"] /\ UNCHANGED <<cur, target, raced>> /\ AtWork' = AtWork
    BY <1>0, <1>4, ReturnEnds
  <2> QED
    BY <1>1, <2>1
<1>5. CASE UpdateVerified(c)
  BY <1>1, <1>5, ProvSame DEF UpdateVerified
<1>6. CASE UpdateApplied(c)
  BY <1>1, <1>6, ProvSame DEF UpdateApplied
<1>7. CASE UpdateRefused(c)
  <2>1. UNCHANGED <<pc, cur, prov, target, raced>>
    BY <1>7 DEF UpdateRefused
  <2> QED
    BY <2>1, NobodyMoves, ProvSame DEF Sessions!vars
<1> QED
  BY <1>2, <1>3, <1>4, <1>5, <1>6, <1>7 DEF CallStep, UpdateStep

\* The goroutines of a run: the provider leaves once, and only it was at work.
LEMMA RunImplements ==
  ASSUME TypeOK, Core, ~raced, NEW r \in Runs, RunStep(r)
  PROVE  [Sessions!Next]_Sessions!vars
<1> USE DEF RunAt, RunGoto, shared, runs, calls
<1>0. prov \in [Runs -> ProvPoints]
  BY DEF TypeOK
<1>1. UNCHANGED <<pc, cur, target, raced>>
  BY DEF RunStep, RunConnecting, RunProvider, ProviderStarted, ProviderReturns,
         ProviderFails, RunCloses, RunIdle, MarkStarted
<1>2. StartStates' = StartStates /\ StopStates' = StopStates
  BY <1>1, NobodyMoves
<1>3. CASE ProviderReturns(r) \/ ProviderFails(r)
  <2>1. PICK x \in {"finished", "sending"} : prov[r] = "running" /\ prov' = [prov EXCEPT ![r] = x]
    BY <1>3 DEF ProviderReturns, ProviderFails
  <2>2. AtWork
    BY <2>1 DEF AtWork, Executing
  <2>3. ASSUME NEW q \in Runs, Executing(q)' PROVE FALSE
    <3>1. prov'[r] = x
      BY <1>0, <2>1
    <3>2. q # r
      BY <2>3, <3>1 DEF Executing
    <3>3. prov'[q] = prov[q]
      BY <1>0, <2>1, <3>2
    <3>4. Executing(q)
      BY <2>3, <3>3 DEF Executing
    <3>5. Live(q) /\ Live(r)
      BY <2>1, <3>4 DEF Live, Executing
    <3> QED
      BY <3>2, <3>5, LiveIsNewest DEF Core
  <2>4. AtWork' = FALSE
    BY <2>3 DEF AtWork
  <2>5. Sessions!End
    BY <1>1, <1>2, <2>2, <2>4 DEF Sessions!End
  <2> QED
    BY <2>5 DEF Sessions!Next
<1>4. CASE ~(ProviderReturns(r) \/ ProviderFails(r))
  <2>1. \A q \in Runs : Executing(q)' <=> Executing(q)
    <3>1. CASE UNCHANGED prov
      BY <3>1 DEF Executing
    <3>2. CASE prov[r] = "spawned" /\ prov' = [prov EXCEPT ![r] = "connecting"]
      BY <1>0, <3>2 DEF Executing
    <3>3. CASE prov[r] = "connecting" /\ prov' = [prov EXCEPT ![r] = "running"]
      BY <1>0, <3>3 DEF Executing
    <3>4. CASE prov[r] = "finished" /\ prov' = [prov EXCEPT ![r] = "closed"]
      BY <1>0, <3>4 DEF Executing
    <3>5. CASE prov[r] = "closed" /\ prov' = [prov EXCEPT ![r] = "done"]
      BY <1>0, <3>5 DEF Executing
    <3> QED
      BY <1>4, <3>1, <3>2, <3>3, <3>4, <3>5
      DEF RunStep, RunConnecting, RunProvider, ProviderStarted, RunCloses, RunIdle, MarkStarted
  <2> QED
    BY <1>1, <1>2, <2>1, WorkSame DEF Sessions!vars
<1> QED
  BY <1>3, <1>4

\* Every step of the profile is a step of a session, or none.
LEMMA StepImplements ==
  ASSUME TypeOK, Core, ~raced, ~raced', [Next]_vars
  PROVE  [Sessions!Next]_Sessions!vars
<1>1. ASSUME NEW c \in Callers, CallStep(c) PROVE [Sessions!Next]_Sessions!vars
  BY <1>1, StarterCallImplements, StopperCallImplements, UpdaterCallImplements DEF Callers
<1>2. ASSUME NEW c \in Updaters, UpdateStep(c) PROVE [Sessions!Next]_Sessions!vars
  BY <1>2, UpdaterCallImplements
<1>3. ASSUME NEW p \in Procs, TakeSnapshot(p) \/ PushSnapshot(p) PROVE UNCHANGED Sessions!vars
  <2>1. UNCHANGED <<pc, cur, target, prov, raced>>
    BY <1>3 DEF TakeSnapshot, PushSnapshot, shared, runs, calls
  <2> QED
    BY <2>1, NobodyMoves, ProvSame DEF Sessions!vars
<1>4. CASE UNCHANGED vars
  <2>1. UNCHANGED <<pc, cur, target, prov, raced>>
    BY <1>4 DEF vars, shared, runs, calls
  <2> QED
    BY <2>1, NobodyMoves, ProvSame DEF Sessions!vars
<1> QED
  BY <1>1, <1>2, <1>3, <1>4, StartImplements, StopImplements, RunImplements DEF Next

\* statefulProfile implements ProfileSessions: sessions come one by one, each for a Start that
\* was accepted, and a Stop or an abandoned Start returns when what it was to end has ended.
THEOREM SessionsComeOneByOne == Spec => KeepsThePromise
<1>1. Init => Sessions!Init
  BY CallersAssumption
  DEF Init, Sessions!Init, AtWork, Executing, StartStates, StopStates, StartState, StopState, Callers
<1>2. IInv /\ [Next]_vars => [Sessions!Next]_Sessions!vars
  <2> SUFFICES ASSUME IInv, [Next]_vars PROVE [Sessions!Next]_Sessions!vars
    OBVIOUS
  <2>1. CASE raced
    <3>1. raced'
      BY <2>1, RacedStays DEF IInv
    <3> QED
      BY <2>1, <3>1 DEF Sessions!Next
  <2>2. CASE ~raced
    <3>1. TypeOK /\ Core
      BY <2>2 DEF IInv, Core
    <3> QED
      BY <2>2, <3>1, RaceImplements, StepImplements
  <2> QED
    BY <2>1, <2>2
<1> QED
  BY <1>1, <1>2, Inductive, PTL DEF Spec, KeepsThePromise, Sessions!Spec
=============================================================================
