-------------------------- MODULE MCExtension_proofs --------------------------
(***************************************************************************)
(* Proofs about the parts of the VS Code extension that keep state.        *)
(*                                                                         *)
(* The API object (VscodeApi): subscribers are served, what was let go of  *)
(* is closed and the status bar tells the truth, for every number of       *)
(* updates of the host and every set of handlers.  The dictionaries of the *)
(* workspace (ExternalDictionaries, D here): none is forgotten in an API,  *)
(* for every set of dictionaries and any number of loads.  The views       *)
(* (StateViews, V here): the latest change of the host's state is shown,   *)
(* lost or shown over, and a refresh repairs that, for any kinds of state  *)
(* and any number of changes and refreshes.  The entry of an uplink        *)
(* (PendingUplink, E here): its target is the one the user picked, and an  *)
(* entry drawn as an uplink has a reason to be, for every set of flight    *)
(* software and any number of starts and of drawings.                      *)
(***************************************************************************)
EXTENDS MCExtension, TLAPS

-----------------------------------------------------------------------------
(* The API object.                                                          *)

\* Neither of the two values that stand for no update is one.
LEMMA NotUpdates == None \notin Updates /\ Idle \notin Updates
  BY DEF None, Idle, Updates

\* The phases after a cancellation are phases, and the same updates are in progress.
LEMMA CancelledKeeps ==
  ASSUME TypeOK, NEW s
  PROVE  /\ Cancelled(s) \in [Updates -> {"none", "deaf", "connecting", "rejected", "done", "failed"}]
         /\ \A u \in Updates : Cancelled(s)[u] \in {"deaf", "connecting", "rejected"}
                                 <=> u \in InProgress
  BY DEF TypeOK, Cancelled, InProgress

\* cleanup() keeps the types of what it changes.
LEMMA CleanupTypes ==
  ASSUME TypeOK, Cleanup
  PROVE  /\ cancelled' \subseteq Updates /\ watched' \subseteq Updates
         /\ live' \subseteq Handlers \X Updates /\ tracked' \subseteq Handlers \X Updates
         /\ forwards' \subseteq Updates
         /\ api' \in [Updates -> {"none", "alive", "disposed"}]
  BY DEF TypeOK, Cleanup, Heard

\* The invariant holds at the start.
LEMMA InitIInv == Init => IInv
<1> SUFFICES ASSUME Init PROVE IInv
  OBVIOUS
<1>1. TypeOK
  BY DEF Init, TypeOK, Modes, None
<1>2. SourceMeansUnwired /\ SourceIsInProgress /\ StatusIsTrue
  BY NotUpdates DEF Init, SourceMeansUnwired, SourceIsInProgress, StatusIsTrue, InProgress
<1>3. ForwardsFromCurrent /\ SubscribersServed /\ AliveIsCurrent
  BY NotUpdates DEF Init, ForwardsFromCurrent, SubscribersServed, AliveIsCurrent, Online
<1> QED
  BY <1>1, <1>2, <1>3 DEF IInv

\* A new update of the host keeps the invariant: it cleans up and becomes the one in progress.
LEMMA SetKeeps ==
  ASSUME IInv, NEW u \in Updates, NEW m \in Modes, Set(u, m)
  PROVE  IInv'
<1> USE DEF IInv
<1>1. TypeOK'
  <2>1. /\ phase' \in [Updates -> {"none", "deaf", "connecting", "rejected", "done", "failed"}]
        /\ mode' \in [Updates -> Modes]
    BY CancelledKeeps DEF Set, TypeOK
  <2>2. /\ source' \in Updates \cup {None} /\ current' \in Updates \cup {None, Idle}
        /\ shown' \in {"busy", "on", "exited", "invalid"}
    BY DEF Set
  <2>3. running' \subseteq Updates /\ subscribers' \subseteq Handlers
        /\ subscription' \in [Handlers -> Updates \cup {None}] /\ gone' \in BOOLEAN
    BY DEF Set, Cleanup, TypeOK
  <2>4. overlapped' \in BOOLEAN
    BY DEF Set, TypeOK
  <2> QED
    BY <2>1, <2>2, <2>3, <2>4, CleanupTypes DEF Set, TypeOK
<1>2. \A v \in Updates : v \in InProgress' <=> v = u \/ v \in InProgress
  BY CancelledKeeps DEF Set, InProgress, TypeOK
<1>3. SourceMeansUnwired'
  BY NotUpdates DEF Set, Cleanup, SourceMeansUnwired
<1>4. SourceIsInProgress'
  BY <1>2 DEF Set, SourceIsInProgress, InProgress
<1>5. ForwardsFromCurrent' /\ SubscribersServed'
  BY NotUpdates DEF Set, Cleanup, ForwardsFromCurrent, SubscribersServed, Online
<1>6. AliveIsCurrent'
  BY DEF Set, Cleanup, AliveIsCurrent, TypeOK
<1>7. StatusIsTrue'
  BY <1>2, NotUpdates DEF Set, StatusIsTrue
<1> QED
  BY <1>1, <1>3, <1>4, <1>5, <1>6, <1>7

\* An activation that starts to connect keeps the invariant: it is still in progress.
LEMMA ConnectKeeps ==
  ASSUME IInv, NEW u \in Updates, Connect(u)
  PROVE  IInv'
<1> USE DEF IInv
<1>1. TypeOK'
  BY DEF Connect, TypeOK
<1>2. \A v \in Updates : v \in InProgress' <=> v \in InProgress
  BY DEF Connect, InProgress, TypeOK
<1>3. SourceIsInProgress' /\ StatusIsTrue'
  BY <1>2 DEF Connect, SourceIsInProgress, StatusIsTrue, InProgress
<1>4. SourceMeansUnwired' /\ ForwardsFromCurrent' /\ SubscribersServed' /\ AliveIsCurrent'
  BY DEF Connect, SourceMeansUnwired, ForwardsFromCurrent, SubscribersServed, AliveIsCurrent, Online
<1> QED
  BY <1>1, <1>3, <1>4

\* An activation that ends was under way.
LEMMA ActivatedInProgress ==
  ASSUME NEW u \in Updates, Activated(u)
  PROVE  u \in InProgress
  BY DEF Activated, InProgress

\* An activation that succeeds with its own source keeps the invariant: nothing was
\* wired while it was in progress, and all subscribers are wired to it.
LEMMA SucceedKeeps ==
  ASSUME IInv, NEW u \in Updates, Succeed(u)
  PROVE  IInv'
<1> USE DEF IInv
<1>1. u \in InProgress /\ source # None /\ current \notin Updates /\ forwards = {} /\ tracked = {}
  BY ActivatedInProgress DEF Succeed, SourceMeansUnwired
<1> DEFINE wired == {<<h, u>> : h \in IF Online(u) THEN subscribers ELSE {}}
<1>2. tracked' = wired /\ live' = live \cup wired
  BY <1>1 DEF Succeed
<1>3. wired \subseteq Handlers \X {u} /\ \A p \in wired : p[2] = u
  BY DEF TypeOK
<1>4. TypeOK'
  <2>1. /\ phase' \in [Updates -> {"none", "deaf", "connecting", "rejected", "done", "failed"}]
        /\ api' \in [Updates -> {"none", "alive", "disposed"}]
        /\ subscription' \in [Handlers -> Updates \cup {None}]
    BY DEF Succeed, TypeOK
  <2>2. live' \subseteq Handlers \X Updates /\ tracked' \subseteq Handlers \X Updates
    BY <1>2, <1>3 DEF TypeOK
  <2> QED
    BY <2>1, <2>2 DEF Succeed, TypeOK
<1>5. \A v \in Updates : v \in InProgress' <=> v \in InProgress /\ v # u
  BY DEF Succeed, InProgress, TypeOK
<1>6. SourceMeansUnwired' /\ SourceIsInProgress'
  BY <1>1, <1>5 DEF Succeed, SourceMeansUnwired, SourceIsInProgress, InProgress
<1>7. ForwardsFromCurrent'
  BY <1>1, <1>2, <1>3 DEF Succeed, ForwardsFromCurrent
<1>8. SubscribersServed'
  BY <1>2 DEF Succeed, SubscribersServed, Online
<1>9. AliveIsCurrent'
  BY <1>1 DEF Succeed, AliveIsCurrent, TypeOK
<1>10. StatusIsTrue'
  BY DEF Succeed, StatusIsTrue, TypeOK
<1> QED
  BY <1>4, <1>6, <1>7, <1>8, <1>9, <1>10

\* An activation that finds no source keeps the invariant: updates have overlapped.
LEMMA StumbleKeeps ==
  ASSUME IInv, NEW u \in Updates, Stumble(u)
  PROVE  IInv'
<1> USE DEF IInv
<1>1. u \in InProgress /\ source = None
  BY ActivatedInProgress DEF Stumble
<1>2. overlapped /\ overlapped'
  BY <1>1, NotUpdates DEF Stumble, SourceIsInProgress
<1>3. TypeOK'
  <2>1. /\ phase' \in [Updates -> {"none", "deaf", "connecting", "rejected", "done", "failed"}]
        /\ api' \in [Updates -> {"none", "alive", "disposed"}]
    BY DEF Stumble, TypeOK
  <2>2. live' \subseteq Handlers \X Updates /\ tracked' \subseteq Handlers \X Updates
    BY DEF Stumble, TypeOK
  <2> QED
    BY <2>1, <2>2 DEF Stumble, TypeOK
<1>4. SourceMeansUnwired' /\ ForwardsFromCurrent' /\ SubscribersServed'
  BY <1>1, NotUpdates DEF Stumble, SourceMeansUnwired, ForwardsFromCurrent, SubscribersServed, Online
<1>5. SourceIsInProgress' /\ AliveIsCurrent'
  BY <1>2 DEF Stumble, SourceIsInProgress, AliveIsCurrent
<1>6. StatusIsTrue'
  BY NotUpdates DEF Stumble, StatusIsTrue
<1> QED
  BY <1>3, <1>4, <1>5, <1>6

\* An activation that ends on the state of a newer one keeps the invariant: it cleans up and
\* goes offline.
LEMMA MisreadKeeps ==
  ASSUME IInv, NEW u \in Updates, Misread(u)
  PROVE  IInv'
<1> USE DEF IInv
<1>1. /\ source # None /\ cancelled' = Heard(source) /\ phase' = [Cancelled(source) EXCEPT ![u] = "failed"]
      /\ live' = live \ tracked /\ tracked' = {} /\ forwards' = {}
      /\ api' = [api EXCEPT ![u] = "disposed"] /\ watched' = watched \ {u}
      /\ current' = Idle /\ shown' = "invalid"
      /\ UNCHANGED <<mode, source, running, subscribers, subscription, gone, overlapped>>
  BY DEF Misread
<1>2. TypeOK'
  <2>1. phase' \in [Updates -> {"none", "deaf", "connecting", "rejected", "done", "failed"}]
    BY <1>1, CancelledKeeps
  <2>2. api' \in [Updates -> {"none", "alive", "disposed"}] /\ cancelled' \subseteq Updates
    BY <1>1 DEF TypeOK, Heard
  <2> QED
    BY <1>1, <2>1, <2>2 DEF TypeOK
<1>3. \A v \in Updates : v \in InProgress' => v \in InProgress
  BY <1>1, CancelledKeeps DEF InProgress, TypeOK
<1>4. SourceMeansUnwired' /\ ForwardsFromCurrent' /\ SubscribersServed'
  BY <1>1, NotUpdates DEF SourceMeansUnwired, ForwardsFromCurrent, SubscribersServed, Online
<1>5. SourceIsInProgress'
  BY <1>1, <1>3 DEF SourceIsInProgress, InProgress
<1>6. AliveIsCurrent'
  BY <1>1, NotUpdates DEF SourceMeansUnwired, AliveIsCurrent, TypeOK
<1>7. StatusIsTrue'
  BY <1>1, NotUpdates DEF StatusIsTrue
<1> QED
  BY <1>2, <1>4, <1>5, <1>6, <1>7

\* An activation that fails keeps the invariant: it cleans up and goes offline.
LEMMA RefuseKeeps ==
  ASSUME IInv, NEW u \in Updates, Refuse(u)
  PROVE  IInv'
<1> USE DEF IInv
<1>1. Cleanup /\ current' = Idle /\ shown' = "invalid" /\ UNCHANGED <<mode, source, overlapped>>
  BY DEF Refuse, GoOffline
<1>2. TypeOK'
  <2>1. phase' \in [Updates -> {"none", "deaf", "connecting", "rejected", "done", "failed"}]
    BY CancelledKeeps DEF Refuse
  <2>2. running' \subseteq Updates /\ subscribers' \subseteq Handlers
        /\ subscription' \in [Handlers -> Updates \cup {None}] /\ gone' \in BOOLEAN
    BY <1>1 DEF Cleanup, TypeOK
  <2> QED
    BY <1>1, <2>1, <2>2, CleanupTypes DEF TypeOK
<1>3. \A v \in Updates : v \in InProgress' => v \in InProgress
  BY CancelledKeeps DEF Refuse, InProgress, TypeOK
<1>4. SourceMeansUnwired' /\ ForwardsFromCurrent' /\ SubscribersServed'
  BY <1>1, NotUpdates DEF Cleanup, SourceMeansUnwired, ForwardsFromCurrent, SubscribersServed, Online
<1>5. SourceIsInProgress'
  BY <1>1, <1>3 DEF SourceIsInProgress, InProgress
<1>6. AliveIsCurrent'
  BY <1>1 DEF Cleanup, AliveIsCurrent, TypeOK
<1>7. StatusIsTrue'
  BY <1>1, NotUpdates DEF StatusIsTrue
<1> QED
  BY <1>2, <1>4, <1>5, <1>6, <1>7

\* The exit of a server keeps the invariant, whether it is watched or not.
LEMMA ExitKeeps ==
  ASSUME IInv, NEW u \in Updates, NEW s \in {"exited", "invalid"}, Exit(u, s)
  PROVE  IInv'
<1> USE DEF IInv
<1>1. CASE u \in watched /\ ~gone
  <2>1. /\ cancelled' = Heard(source) /\ phase' = Cancelled(source)
        /\ live' = live \ tracked /\ tracked' = {} /\ forwards' = {}
        /\ api' = [v \in Updates |-> IF v = current THEN "disposed" ELSE api[v]]
        /\ watched' = watched \ {u, current} /\ running' = running \ {u}
        /\ current' = Idle /\ shown' = s
        /\ UNCHANGED <<mode, source, subscribers, subscription, gone, overlapped>>
    BY <1>1 DEF Exit
  <2>2. TypeOK'
    BY <2>1, CancelledKeeps DEF TypeOK, Heard
  <2>3. \A v \in Updates : v \in InProgress' <=> v \in InProgress
    BY <2>1, CancelledKeeps DEF InProgress
  <2>4. SourceMeansUnwired' /\ ForwardsFromCurrent' /\ SubscribersServed'
    BY <2>1, NotUpdates DEF SourceMeansUnwired, ForwardsFromCurrent, SubscribersServed, Online
  <2>5. SourceIsInProgress'
    BY <2>1, <2>3 DEF SourceIsInProgress, InProgress
  <2>6. AliveIsCurrent'
    BY <2>1 DEF AliveIsCurrent, TypeOK
  <2>7. StatusIsTrue'
    BY <2>1, NotUpdates DEF StatusIsTrue
  <2> QED
    BY <2>2, <2>4, <2>5, <2>6, <2>7
<1>2. CASE ~(u \in watched /\ ~gone)
  <2>1. /\ running' = running \ {u}
        /\ UNCHANGED <<phase, mode, cancelled, source, current, api, watched, forwards, tracked,
                       subscribers, subscription, live, shown, gone, overlapped>>
    BY <1>2 DEF Exit
  <2>2. TypeOK'
    BY <2>1 DEF TypeOK
  <2> QED
    BY <2>1, <2>2 DEF SourceMeansUnwired, SourceIsInProgress, InProgress, ForwardsFromCurrent,
                      SubscribersServed, Online, AliveIsCurrent, StatusIsTrue
<1> QED
  BY <1>1, <1>2

\* A cancellation by the user keeps the invariant: the update goes on to its end.
LEMMA UserCancelKeeps ==
  ASSUME IInv, UserCancel
  PROVE  IInv'
<1> USE DEF IInv
<1>1. TypeOK'
  BY CancelledKeeps DEF UserCancel, TypeOK, Heard
<1>2. \A v \in Updates : v \in InProgress' <=> v \in InProgress
  BY CancelledKeeps DEF UserCancel, InProgress
<1>3. SourceIsInProgress' /\ StatusIsTrue'
  BY <1>2 DEF UserCancel, SourceIsInProgress, StatusIsTrue, InProgress
<1>4. SourceMeansUnwired' /\ ForwardsFromCurrent' /\ SubscribersServed' /\ AliveIsCurrent'
  BY DEF UserCancel, SourceMeansUnwired, ForwardsFromCurrent, SubscribersServed, AliveIsCurrent, Online
<1> QED
  BY <1>1, <1>3, <1>4

\* A handler that comes or goes leaves the connection alone.
LEMMA HandlerKeeps ==
  ASSUME IInv, NEW h \in Handlers, OnEvent(h) \/ Unsubscribe(h)
  PROVE  IInv'
<1> USE DEF IInv
<1>1. UNCHANGED connection
  BY DEF OnEvent, Unsubscribe
<1>2. SourceMeansUnwired' /\ SourceIsInProgress' /\ ForwardsFromCurrent' /\ AliveIsCurrent'
      /\ StatusIsTrue'
  BY <1>1 DEF connection, SourceMeansUnwired, SourceIsInProgress, InProgress, ForwardsFromCurrent,
              AliveIsCurrent, StatusIsTrue
<1>3. CASE OnEvent(h)
  <2>1. TypeOK'
    <3>1. subscription' \in [Handlers -> Updates \cup {None}] /\ live' \subseteq Handlers \X Updates
      BY <1>3 DEF OnEvent, TypeOK
    <3>2. subscribers' \subseteq Handlers
      BY <1>3 DEF OnEvent, TypeOK
    <3> QED
      BY <1>1, <3>1, <3>2 DEF TypeOK, connection
  <2>2. SubscribersServed'
    BY <1>1, <1>3 DEF OnEvent, connection, SubscribersServed, Online
  <2> QED
    BY <1>2, <2>1, <2>2
<1>4. CASE Unsubscribe(h)
  <2>1. TypeOK'
    <3>1. subscription' \in [Handlers -> Updates \cup {None}] /\ live' \subseteq Handlers \X Updates
      BY <1>4 DEF Unsubscribe, TypeOK
    <3>2. subscribers' \subseteq Handlers
      BY <1>4 DEF Unsubscribe, TypeOK
    <3> QED
      BY <1>1, <3>1, <3>2 DEF TypeOK, connection
  <2>2. SubscribersServed'
    BY <1>1, <1>4 DEF Unsubscribe, connection, SubscribersServed, Online
  <2> QED
    BY <1>2, <2>1, <2>2
<1> QED
  BY <1>3, <1>4

\* The end of the extension keeps the invariant.
LEMMA DisposeKeeps ==
  ASSUME IInv, Dispose
  PROVE  IInv'
<1> USE DEF IInv
<1>1. TypeOK'
  BY DEF Dispose, TypeOK
<1>2. SourceMeansUnwired' /\ ForwardsFromCurrent' /\ SubscribersServed'
  BY NotUpdates DEF Dispose, SourceMeansUnwired, ForwardsFromCurrent, SubscribersServed, Online
<1>3. SourceIsInProgress'
  BY DEF Dispose, SourceIsInProgress, InProgress
<1>4. AliveIsCurrent' /\ StatusIsTrue'
  BY DEF Dispose, AliveIsCurrent, StatusIsTrue, TypeOK
<1> QED
  BY <1>1, <1>2, <1>3, <1>4

\* The invariant behind the properties below is inductive: every step of the API
\* object, of its connections, of the user and of the handlers keeps it.
THEOREM Inductive == Spec => []IInv
<1>1. IInv /\ [Next]_vars => IInv'
  <2> SUFFICES ASSUME IInv, [Next]_vars PROVE IInv'
    OBVIOUS
  <2>1. CASE UNCHANGED vars
    BY <2>1 DEF vars, IInv, TypeOK, SourceMeansUnwired, SourceIsInProgress, InProgress,
                ForwardsFromCurrent, SubscribersServed, Online, AliveIsCurrent, StatusIsTrue
  <2> QED
    BY <2>1, SetKeeps, ConnectKeeps, SucceedKeeps, StumbleKeeps, MisreadKeeps, RefuseKeeps, ExitKeeps,
       UserCancelKeeps, HandlerKeeps, DisposeKeeps DEF Next
<1> QED
  BY <1>1, InitIInv, PTL DEF Spec

\* Whatever overlaps, each handler that is subscribed to the wrapper is subscribed to
\* the connection that is current, and nothing but that connection is wired.
THEOREM HandlersAreServed == Spec => []WiredToCurrent
<1>1. IInv => WiredToCurrent
  BY DEF IInv, WiredToCurrent
<1> QED
  BY <1>1, Inductive, PTL

\* Without overlapping updates a connection that was let go of is closed.
THEOREM OldConnectionsAreClosed == Spec => []AliveIsCurrent
  BY Inductive, PTL DEF IInv

\* The status bar shows a connection when there is one, an attempt when there is one.
THEOREM StatusBarIsTrue == Spec => []StatusIsTrue
  BY Inductive, PTL DEF IInv

-----------------------------------------------------------------------------
(* The dictionaries of the workspace.                                       *)

\* Loads that do not overlap come one by one, and only while the provider is
\* registered.
OneByOne ==
    ~crossed => /\ \A l, m \in D!UnderWay : l = m
                /\ D!UnderWay # {} => registered

\* A load that was not answered yet has added nothing.
NothingAdded ==
    \A l \in D!Loads : at[l] \in {"none", "removing", "asking"} => added[l] = {}

\* While a load is under way, what an API has was added by it, is left for it to
\* remove, is being removed by an unregistration or was missed by a removal.
WhileLoading ==
    ~crossed => \A l \in D!UnderWay :
        /\ at[l] = "removing" => todo[l] \subseteq noted
        /\ \A a \in D!Apis : contents[a] \subseteq
               stranded \cup leaving \cup added[l] \cup (IF at[l] = "removing" THEN todo[l] ELSE {})

\* Between two loads it is noted, being removed or missed by a removal.
BetweenLoads ==
    ~crossed /\ D!UnderWay = {} =>
        \A a \in D!Apis : contents[a] \subseteq stranded \cup leaving \cup noted

DictInv == D!TypeOK /\ OneByOne /\ NothingAdded /\ WhileLoading /\ BetweenLoads

\* The invariant holds at the start.
LEMMA DictInit == D!Init => DictInv
  BY DEF D!Init, DictInv, D!TypeOK, OneByOne, NothingAdded, WhileLoading, BetweenLoads, D!UnderWay, D!Apis

\* A load that begins keeps it, alone or with others under way, when nothing else
\* is changed but the registration, the API and what the offline one had.
LEMMA BeginKeeps ==
  ASSUME DictInv, NEW l \in D!Loads, D!Begin(l), registered' = TRUE,
         place' \in D!Apis, contents' \in [D!Apis -> SUBSET Dicts],
         \A a \in D!Apis : contents'[a] \subseteq contents[a],
         UNCHANGED <<noted, added, leaving, stranded>>
  PROVE  DictInv'
<1> USE DEF DictInv
<1>1. /\ at[l] = "none" /\ added[l] = {}
      /\ at' = [at EXCEPT ![l] = IF noted = {} THEN "asking" ELSE "removing"]
      /\ todo' = [todo EXCEPT ![l] = noted]
      /\ crossed' = (crossed \/ D!UnderWay # {})
  BY DEF D!Begin, NothingAdded
<1>2. D!TypeOK'
  BY <1>1 DEF D!TypeOK
<1>3. NothingAdded'
  BY <1>1 DEF NothingAdded, D!TypeOK
<1>4. D!UnderWay' = D!UnderWay \cup {l}
  BY <1>1 DEF D!UnderWay, D!TypeOK
<1>5. OneByOne' /\ BetweenLoads'
  BY <1>1, <1>4 DEF OneByOne, BetweenLoads
<1>6. WhileLoading'
  <2> SUFFICES ASSUME ~crossed' PROVE WhileLoading'
    BY DEF WhileLoading
  <2>1. ~crossed /\ D!UnderWay = {} /\ D!UnderWay' = {l}
    BY <1>1, <1>4
  <2>2. at'[l] = (IF noted = {} THEN "asking" ELSE "removing") /\ todo'[l] = noted
    BY <1>1 DEF D!TypeOK
  <2>3. \A a \in D!Apis : contents'[a] \subseteq stranded \cup leaving \cup noted
    BY <2>1 DEF BetweenLoads
  <2> QED
    BY <2>1, <2>2, <2>3 DEF WhileLoading
<1> QED
  BY <1>2, <1>3, <1>5, <1>6

\* A removal takes a dictionary out of the API, or counts it among the stranded.
LEMMA RemoveTypes ==
  ASSUME D!TypeOK, NEW d \in Dicts, NEW fails \in BOOLEAN, D!Remove(d, fails)
  PROVE  /\ contents' \in [D!Apis -> SUBSET Dicts]
         /\ stranded \subseteq stranded' /\ stranded' \subseteq Dicts
         /\ \A a \in D!Apis : contents'[a] \subseteq contents[a] /\ (d \in contents'[a] => d \in stranded')
<1>1. contents' \in [D!Apis -> SUBSET Dicts] /\ \A a \in D!Apis : contents'[a] \subseteq contents[a]
  BY DEF D!Remove, D!TypeOK
<1>2. stranded' = stranded \cup {e \in {d} : \E a \in D!Apis : e \in contents'[a]}
  BY DEF D!Remove
<1>3. stranded \subseteq stranded' /\ stranded' \subseteq Dicts
  BY <1>2 DEF D!TypeOK
<1>4. \A a \in D!Apis : d \in contents'[a] => d \in stranded'
  BY <1>2
<1> QED
  BY <1>1, <1>3, <1>4

\* A removal by a load keeps it.
LEMMA RemovedKeeps ==
  ASSUME DictInv, NEW l \in D!Loads, NEW d \in Dicts, NEW fails \in BOOLEAN, D!Removed(l, d, fails)
  PROVE  DictInv'
<1> USE DEF DictInv
<1>1. /\ at[l] = "removing" /\ d \in todo[l]
      /\ todo' = [todo EXCEPT ![l] = @ \ {d}]
      /\ at' = [at EXCEPT ![l] = IF todo[l] = {d} THEN "asking" ELSE @]
      /\ UNCHANGED <<registered, noted, place, added, leaving, crossed>>
  BY DEF D!Removed
<1>2. /\ contents' \in [D!Apis -> SUBSET Dicts]
      /\ stranded \subseteq stranded' /\ stranded' \subseteq Dicts
      /\ \A a \in D!Apis : contents'[a] \subseteq contents[a] /\ (d \in contents'[a] => d \in stranded')
  BY RemoveTypes DEF D!Removed
<1>3. D!TypeOK'
  BY <1>1, <1>2 DEF D!TypeOK
<1>4. D!UnderWay' = D!UnderWay /\ l \in D!UnderWay
  BY <1>1 DEF D!UnderWay, D!TypeOK
<1>5. OneByOne' /\ NothingAdded' /\ BetweenLoads'
  BY <1>1, <1>4 DEF OneByOne, NothingAdded, BetweenLoads, D!TypeOK
<1>6. WhileLoading'
  <2> SUFFICES ASSUME ~crossed PROVE WhileLoading'
    BY <1>1 DEF WhileLoading
  <2>1. \A m \in D!UnderWay' : m = l
    <3>1. \A m, n \in D!UnderWay : m = n
      BY DEF OneByOne
    <3>2. l \in D!UnderWay /\ D!UnderWay' = D!UnderWay
      BY <1>4
    <3> QED
      BY <3>1, <3>2
  <2>2. todo'[l] = todo[l] \ {d} /\ at'[l] = IF todo[l] = {d} THEN "asking" ELSE "removing"
    BY <1>1 DEF D!TypeOK
  <2>3. todo[l] \subseteq noted
        /\ \A a \in D!Apis : contents[a] \subseteq stranded \cup leaving \cup added[l] \cup todo[l]
    BY <1>1, <1>4 DEF WhileLoading
  <2>4. \A a \in D!Apis : contents'[a] \subseteq
          stranded' \cup leaving \cup added[l] \cup (IF at'[l] = "removing" THEN todo'[l] ELSE {})
    BY <1>2, <2>2, <2>3
  <2> QED
    BY <1>1, <2>1, <2>2, <2>3, <2>4 DEF WhileLoading
<1> QED
  BY <1>3, <1>5, <1>6

\* An answer of the provider keeps it: nothing is left to remove.
LEMMA ProvidedKeeps ==
  ASSUME DictInv, NEW l \in D!Loads, NEW s \in SUBSET Dicts, D!Provided(l, s)
  PROVE  DictInv'
<1> USE DEF DictInv
<1>1. D!TypeOK'
  BY DEF D!Provided, D!TypeOK
<1>2. D!UnderWay' = D!UnderWay
  BY DEF D!Provided, D!UnderWay, D!TypeOK
<1>3. OneByOne' /\ NothingAdded' /\ BetweenLoads'
  BY <1>2 DEF D!Provided, OneByOne, NothingAdded, BetweenLoads, D!TypeOK
<1>4. WhileLoading'
  BY <1>2 DEF D!Provided, WhileLoading, D!TypeOK, D!UnderWay
<1> QED
  BY <1>1, <1>3, <1>4

\* A provider that throws keeps it: the load has added nothing.
LEMMA ThrewKeeps ==
  ASSUME DictInv, NEW l \in D!Loads, D!Threw(l)
  PROVE  DictInv'
<1> USE DEF DictInv
<1>1. D!TypeOK'
  BY DEF D!Threw, D!TypeOK
<1>2. D!UnderWay' = D!UnderWay \ {l} /\ l \in D!UnderWay
  BY DEF D!Threw, D!UnderWay, D!TypeOK
<1>3. OneByOne' /\ NothingAdded'
  BY <1>2 DEF D!Threw, OneByOne, NothingAdded, D!TypeOK
<1>4. WhileLoading'
  BY <1>2 DEF D!Threw, WhileLoading, D!TypeOK, D!UnderWay
<1>5. BetweenLoads'
  BY <1>2 DEF D!Threw, BetweenLoads, WhileLoading, NothingAdded
<1> QED
  BY <1>1, <1>3, <1>4, <1>5

\* An addition keeps it: the load knows what it added, or does not and it is stranded.
LEMMA AddedKeeps ==
  ASSUME DictInv, NEW l \in D!Loads, NEW d \in Dicts, NEW fails \in BOOLEAN, D!Added(l, d, fails)
  PROVE  DictInv'
<1> USE DEF DictInv
<1>1. /\ at' = at /\ at[l] = "adding" /\ todo' = [todo EXCEPT ![l] = @ \ {d}]
      /\ added' = IF fails THEN added ELSE [added EXCEPT ![l] = @ \cup {d}]
      /\ UNCHANGED <<registered, noted, place, leaving, crossed>>
  BY DEF D!Added
<1>2. PICK took \in {TRUE, ~fails} :
        /\ contents' = IF took THEN [contents EXCEPT ![place] = @ \cup {d}] ELSE contents
        /\ stranded' = IF took /\ fails THEN stranded \cup {d} ELSE stranded
  BY DEF D!Added
<1>3. /\ contents' \in [D!Apis -> SUBSET Dicts] /\ \A a \in D!Apis : contents'[a] \subseteq contents[a] \cup {d}
      /\ stranded \subseteq stranded' /\ stranded' \subseteq Dicts
      /\ fails /\ d \notin stranded' => contents' = contents
  <2>1. contents' \in [D!Apis -> SUBSET Dicts] /\ \A a \in D!Apis : contents'[a] \subseteq contents[a] \cup {d}
    <3>1. CASE took
      BY <1>2, <3>1 DEF D!TypeOK
    <3>2. CASE ~took
      BY <1>2, <3>2 DEF D!TypeOK
    <3> QED
      BY <3>1, <3>2
  <2>2. stranded \subseteq stranded' /\ stranded' \subseteq Dicts
    BY <1>2 DEF D!TypeOK
  <2>3. fails /\ d \notin stranded' => contents' = contents
    BY <1>2
  <2> QED
    BY <2>1, <2>2, <2>3
<1>4. D!TypeOK'
  <2>1. todo' \in [D!Loads -> SUBSET Dicts] /\ added' \in [D!Loads -> SUBSET Dicts]
    BY <1>1 DEF D!TypeOK
  <2> QED
    BY <1>1, <1>3, <2>1 DEF D!TypeOK
<1>5. D!UnderWay' = D!UnderWay /\ l \in D!UnderWay
  BY <1>1 DEF D!UnderWay, D!TypeOK
<1>6. \A m \in D!Loads : m # l => added'[m] = added[m]
  BY <1>1 DEF D!TypeOK
<1>7. OneByOne' /\ NothingAdded' /\ BetweenLoads'
  BY <1>1, <1>5, <1>6 DEF OneByOne, NothingAdded, BetweenLoads, D!TypeOK
<1>8. WhileLoading'
  <2> SUFFICES ASSUME ~crossed PROVE WhileLoading'
    BY <1>1 DEF WhileLoading
  <2>1. \A m \in D!UnderWay' : m = l
    <3>1. \A m, n \in D!UnderWay : m = n
      BY DEF OneByOne
    <3>2. l \in D!UnderWay /\ D!UnderWay' = D!UnderWay
      BY <1>5
    <3> QED
      BY <3>1, <3>2
  <2>2. added'[l] = IF fails THEN added[l] ELSE added[l] \cup {d}
    BY <1>1 DEF D!TypeOK
  <2>3. \A a \in D!Apis : contents[a] \subseteq stranded \cup leaving \cup added[l]
    BY <1>1, <1>5 DEF WhileLoading
  <2>4. \A a \in D!Apis : contents'[a] \subseteq stranded' \cup leaving \cup added'[l]
    <3>1. CASE ~fails
      BY <1>3, <2>2, <2>3, <3>1
    <3>2. CASE fails /\ d \in stranded'
      BY <1>3, <2>2, <2>3, <3>2
    <3>3. CASE fails /\ d \notin stranded'
      BY <1>3, <2>2, <2>3, <3>3
    <3> QED
      BY <3>1, <3>2, <3>3
  <2> QED
    BY <1>1, <1>5, <2>1, <2>4 DEF WhileLoading
<1> QED
  BY <1>4, <1>7, <1>8

\* The end of a load keeps it: what it added is noted, in place of what was
\* noted before, of which nothing is left.
LEMMA FinishKeeps ==
  ASSUME DictInv, NEW l \in D!Loads, D!Finish(l)
  PROVE  DictInv'
<1> USE DEF DictInv
<1>1. D!TypeOK'
  BY DEF D!Finish, D!TypeOK
<1>2. D!UnderWay' = D!UnderWay \ {l} /\ l \in D!UnderWay
  BY DEF D!Finish, D!UnderWay, D!TypeOK
<1>3. OneByOne' /\ NothingAdded'
  BY <1>2 DEF D!Finish, OneByOne, NothingAdded, D!TypeOK
<1>4. WhileLoading'
  BY <1>2 DEF D!Finish, WhileLoading, OneByOne
<1>5. BetweenLoads'
  BY <1>2 DEF D!Finish, BetweenLoads, WhileLoading
<1> QED
  BY <1>1, <1>3, <1>4, <1>5

\* A connection elsewhere keeps it: a provider that is registered is asked again.
LEMMA ReconnectKeeps ==
  ASSUME DictInv, NEW l \in D!Loads, NEW a \in D!Apis, D!Reconnect(l, a)
  PROVE  DictInv'
<1> USE DEF DictInv
<1>1. /\ contents' \in [D!Apis -> SUBSET Dicts] /\ \A b \in D!Apis : contents'[b] \subseteq contents[b]
      /\ place' \in D!Apis /\ UNCHANGED <<registered, noted, added, leaving, stranded>>
  BY DEF D!Reconnect, D!TypeOK
<1>2. CASE registered
  BY <1>1, <1>2, BeginKeeps DEF D!Reconnect
<1>3. CASE ~registered
  <2>1. UNCHANGED <<at, todo, crossed>>
    BY <1>3 DEF D!Reconnect
  <2>2. D!TypeOK'
    BY <1>1, <2>1 DEF D!TypeOK
  <2>3. OneByOne' /\ NothingAdded' /\ WhileLoading' /\ BetweenLoads'
    BY <1>1, <2>1 DEF OneByOne, NothingAdded, WhileLoading, BetweenLoads, D!UnderWay
  <2> QED
    BY <2>2, <2>3
<1> QED
  BY <1>2, <1>3

\* The end of a registration keeps it: what is noted is being removed.
LEMMA UnregisterKeeps ==
  ASSUME DictInv, D!Unregister
  PROVE  DictInv'
<1> USE DEF DictInv
<1>1. D!TypeOK'
  BY DEF D!Unregister, D!TypeOK
<1>2. D!UnderWay' = D!UnderWay
  BY DEF D!Unregister, D!UnderWay
<1>3. OneByOne' /\ NothingAdded' /\ WhileLoading' /\ BetweenLoads'
  BY <1>2 DEF D!Unregister, OneByOne, NothingAdded, WhileLoading, BetweenLoads
<1> QED
  BY <1>1, <1>3

\* A removal that an unregistration issued keeps it.
LEMMA LeftKeeps ==
  ASSUME DictInv, NEW d \in Dicts, NEW fails \in BOOLEAN, D!Left(d, fails)
  PROVE  DictInv'
<1> USE DEF DictInv
<1>1. /\ leaving' = leaving \ {d}
      /\ UNCHANGED <<registered, noted, place, at, todo, added, crossed>>
  BY DEF D!Left
<1>2. /\ contents' \in [D!Apis -> SUBSET Dicts]
      /\ stranded \subseteq stranded' /\ stranded' \subseteq Dicts
      /\ \A a \in D!Apis : contents'[a] \subseteq contents[a] /\ (d \in contents'[a] => d \in stranded')
  BY RemoveTypes DEF D!Left
<1>3. D!TypeOK'
  BY <1>1, <1>2 DEF D!TypeOK
<1>4. D!UnderWay' = D!UnderWay
  BY <1>1 DEF D!UnderWay
<1>5. OneByOne' /\ NothingAdded'
  BY <1>1, <1>4 DEF OneByOne, NothingAdded
<1>6. WhileLoading'
  BY <1>1, <1>2, <1>4 DEF WhileLoading
<1>7. BetweenLoads'
  BY <1>1, <1>2, <1>4 DEF BetweenLoads
<1> QED
  BY <1>3, <1>5, <1>6, <1>7

\* What the user removes is not missed.
LEMMA UserRemovesKeeps ==
  ASSUME DictInv, NEW d \in Dicts, D!UserRemoves(d)
  PROVE  DictInv'
<1> USE DEF DictInv
<1>1. /\ contents' \in [D!Apis -> SUBSET Dicts] /\ \A a \in D!Apis : contents'[a] \subseteq contents[a]
      /\ UNCHANGED <<registered, noted, place, at, todo, added, leaving, crossed, stranded>>
  BY DEF D!UserRemoves, D!TypeOK
<1>2. D!TypeOK'
  BY <1>1 DEF D!TypeOK
<1>3. OneByOne' /\ NothingAdded' /\ WhileLoading' /\ BetweenLoads'
  BY <1>1 DEF OneByOne, NothingAdded, WhileLoading, BetweenLoads, D!UnderWay
<1> QED
  BY <1>2, <1>3

\* The invariant is inductive: every step of a load, of the API and of the user,
\* and the end of a registration, keeps it.
LEMMA DictInductive == D!Spec => []DictInv
<1>1. DictInv /\ [D!Next]_D!vars => DictInv'
  <2> SUFFICES ASSUME DictInv, [D!Next]_D!vars PROVE DictInv'
    OBVIOUS
  <2>1. CASE UNCHANGED D!vars
    BY <2>1 DEF D!vars, DictInv, D!TypeOK, OneByOne, NothingAdded, WhileLoading, BetweenLoads, D!UnderWay
  <2>2. ASSUME NEW l \in D!Loads, D!Register(l) \/ D!Updated(l) PROVE DictInv'
    <3>1. /\ D!Begin(l) /\ registered' = TRUE /\ place' = place /\ contents' = contents
          /\ UNCHANGED <<noted, added, leaving, stranded>>
      BY <2>2 DEF D!Register, D!Updated, DictInv, D!TypeOK
    <3>2. place \in D!Apis /\ contents \in [D!Apis -> SUBSET Dicts]
      BY DEF DictInv, D!TypeOK
    <3> QED
      BY <3>1, <3>2, BeginKeeps
  <2> QED
    BY <2>1, <2>2, ReconnectKeeps, RemovedKeeps, ProvidedKeeps, ThrewKeeps, AddedKeeps,
       FinishKeeps, UnregisterKeeps, LeftKeeps, UserRemovesKeeps DEF D!Next
<1> QED
  BY <1>1, DictInit, PTL DEF D!Spec

\* Nothing the provider's loads left in an API is out of their reach, unless two of
\* them, or one and the unregistration, overlapped or a removal missed it.
THEOREM NoneIsForgotten == D!Spec => []NothingForgotten
<1>1. DictInv => NothingForgotten
  <2> SUFFICES ASSUME DictInv, ~crossed, NEW a \in D!Apis, NEW d \in contents[a]
               PROVE  d \in stranded \cup noted \cup leaving \cup UNION {added[l] : l \in D!UnderWay}
    BY DEF NothingForgotten, D!NothingForgotten, DictInv
  <2>1. CASE D!UnderWay = {}
    BY <2>1 DEF DictInv, BetweenLoads
  <2>2. ASSUME NEW l \in D!UnderWay PROVE d \in stranded \cup noted \cup leaving \cup added[l]
    BY DEF DictInv, WhileLoading
  <2> QED
    BY <2>1, <2>2
<1> QED
  BY <1>1, DictInductive, PTL

-----------------------------------------------------------------------------
(* The views.                                                               *)

\* Nothing is newer than the host's state, or than the newest that was shown what is shown; a
\* refresh that was not started has no answers, and a change that was not made no push.
NothingNewer ==
    /\ \A k \in Kinds : view[k] <= newest[k] /\ newest[k] <= version[k] /\ lost[k] <= version[k]
    /\ \A k \in Kinds : version[k] <= changes
    /\ \A n \in V!Changes : push[n].of <= version[push[n].kind]
    /\ \A r \in V!Refreshes, k \in Kinds : answer[r][k] <= version[k]
    /\ \A r \in V!Refreshes, k \in Kinds : r > asked => answer[r][k] = V!Unanswered
    /\ \A n \in V!Changes : n > changes => push[n].at = "over"

\* The latest change was lost on its way to the view, ...
Lost(k) == lost[k] = version[k]

\* ... or is on its way, in a push that takes its snapshot still or took it since, ...
Brings(n, k) ==
    push[n].kind = k /\ (push[n].at = "due" \/ (push[n].at \in {"taken", "sent"} /\ push[n].of = version[k]))
OnItsWay(k) == \E n \in V!Changes : Brings(n, k)

\* ... or is in a snapshot the view has asked for, or will be, ...
BeingAsked(k) == \E r \in V!Pending : answer[r][k] \in {V!Unanswered, version[k]}

\* ... or has been shown.
Shown(k) == newest[k] = version[k]

LatestIsSomewhere == \A k \in Kinds : Lost(k) \/ OnItsWay(k) \/ BeingAsked(k) \/ Shown(k)

\* A refresh that began when nothing was on its way, with no change since: nothing is but it
\* and later refreshes, which all bring the state, and once it is over the view has it.
CalmIsCurrent ==
    calm # 0 =>
        /\ V!Coming = {}
        /\ \A r \in V!Pending : r >= calm /\ \A k \in Kinds : answer[r][k] \in {V!Unanswered, version[k]}
        /\ calm \in over => view = version

ViewsInv == V!TypeOK /\ NothingNewer /\ LatestIsSomewhere /\ CalmIsCurrent

\* The numbers are numbers.
LEMMA ViewNumbers ==
  ASSUME V!TypeOK
  PROVE  /\ \A k \in Kinds : version[k] \in Int /\ view[k] \in Int /\ newest[k] \in Int /\ lost[k] \in Int
         /\ \A n \in V!Changes : push[n].of \in Int /\ push[n].kind \in Kinds
                                 /\ push[n] \in V!Pushes
         /\ \A r \in V!Refreshes, k \in Kinds : answer[r][k] \in Int
         /\ V!Versions \subseteq Int /\ asked \in Nat /\ changes \in Nat /\ calm \in Nat
         /\ V!Pending \subseteq V!Refreshes /\ 0 \notin V!Pending /\ over \subseteq 1 .. asked
<1>1. V!Versions \subseteq Int /\ V!Unanswered \in Int
  BY ViewsAssumption DEF V!Versions, V!Unanswered
<1>2. version \in [Kinds -> V!Versions] /\ view \in [Kinds -> V!Versions] /\ newest \in [Kinds -> V!Versions]
      /\ lost \in [Kinds -> V!Versions] /\ push \in [V!Changes -> V!Pushes] /\ asked \in 0 .. MaxRefreshes
      /\ answer \in [V!Refreshes -> [Kinds -> V!Versions \cup {V!Unanswered}]]
      /\ changes \in V!Versions /\ calm \in 0 .. asked /\ over \subseteq 1 .. asked
  BY DEF V!TypeOK
<1>3. \A n \in V!Changes : push[n] \in V!Pushes
  BY <1>2
<1>4. \A n \in V!Changes : push[n].of \in V!Versions /\ push[n].kind \in Kinds
  BY <1>3 DEF V!Pushes
<1>5. \A r \in V!Refreshes, k \in Kinds : answer[r][k] \in V!Versions \cup {V!Unanswered}
  BY <1>2
<1>6. V!Pending \subseteq V!Refreshes /\ 0 \notin V!Pending /\ asked \in Nat /\ changes \in Nat /\ calm \in Nat
  BY <1>2, ViewsAssumption DEF V!Pending, V!Refreshes, V!Versions
<1>7. \A k \in Kinds : version[k] \in V!Versions /\ view[k] \in V!Versions /\ newest[k] \in V!Versions
                       /\ lost[k] \in V!Versions
  BY <1>2
<1> QED
  BY <1>1, <1>2, <1>3, <1>4, <1>5, <1>6, <1>7

\* When a connection is made the view is being refreshed.
LEMMA ViewsInit == V!Init => ViewsInv
<1> SUFFICES ASSUME V!Init PROVE ViewsInv
  OBVIOUS
<1>1. /\ changes \in {0, 1} /\ version \in [Kinds -> {0, changes}]
      /\ view = [k \in Kinds |-> 0] /\ lost = view /\ newest = view
      /\ stream = [k \in Kinds |-> "asked"] /\ asked = 1 /\ over = {} /\ calm = 1
      /\ push \in [V!Changes -> [at : {"over"}, kind : {CHOOSE k \in Kinds : TRUE}, of : {0}]]
      /\ answer = [r \in V!Refreshes |-> [k \in Kinds |-> V!Unanswered]]
  BY DEF V!Init
<1>2. {0, 1} \subseteq V!Versions /\ 1 \in 0 .. MaxRefreshes /\ (CHOOSE k \in Kinds : TRUE) \in Kinds
  BY ViewsAssumption DEF V!Versions
<1>3. \A n \in V!Changes : push[n].at = "over" /\ push[n].of = 0 /\ push[n].kind \in Kinds /\ push[n] \in V!Pushes
  <2>1. \A n \in V!Changes : push[n] \in [at : {"over"}, kind : {CHOOSE k \in Kinds : TRUE}, of : {0}]
    BY <1>1
  <2> QED
    BY <1>2, <2>1 DEF V!Pushes
<1>4. push \in [V!Changes -> V!Pushes]
  BY <1>1, <1>3
<1>5. V!TypeOK
  BY <1>1, <1>2, <1>4 DEF V!TypeOK
<1>6. NothingNewer
  BY <1>1, <1>3 DEF NothingNewer, V!Unanswered
<1>7. V!Pending = {1} /\ 1 \in V!Refreshes
  BY <1>1, ViewsAssumption DEF V!Pending, V!Refreshes
<1>8. LatestIsSomewhere
  BY <1>1, <1>7 DEF LatestIsSomewhere, BeingAsked
<1>9. CalmIsCurrent
  BY <1>1, <1>3, <1>7 DEF CalmIsCurrent, V!Coming
<1> QED
  BY <1>5, <1>6, <1>8, <1>9 DEF ViewsInv

\* The newer of two is one of them, and neither is newer.
LEMMA NewerIsNewest ==
  ASSUME NEW a \in [Kinds -> Int], NEW b \in [Kinds -> Int], NEW k \in Kinds
  PROVE  /\ a[k] <= V!Newer(a, b)[k] /\ b[k] <= V!Newer(a, b)[k] /\ V!Newer(a, b)[k] \in {a[k], b[k]}
BY DEF V!Newer

\* The newer of two versions of each kind is a version of each kind.
LEMMA NewerIsTyped ==
  ASSUME NEW a \in [Kinds -> V!Versions], NEW b \in [Kinds -> V!Versions]
  PROVE  V!Newer(a, b) \in [Kinds -> V!Versions]
BY DEF V!Newer

\* What is lost besides is no newer than the state, and neither forgets the other losses.
LEMMA LosesOne ==
  ASSUME ViewsInv, NEW k \in Kinds, NEW v \in V!Versions, v <= version[k]
  PROVE  /\ V!Loses(k, v) \in [Kinds -> V!Versions]
         /\ \A j \in Kinds : V!Loses(k, v)[j] <= version[j] /\ (lost[j] = version[j] => V!Loses(k, v)[j] = version[j])
         /\ v = version[k] => V!Loses(k, v)[k] = version[k]
<1>1. lost \in [Kinds -> V!Versions] /\ [lost EXCEPT ![k] = v] \in [Kinds -> V!Versions] /\ V!Versions \subseteq Int
      /\ \A j \in Kinds : version[j] \in Int /\ lost[j] \in Int /\ lost[j] <= version[j]
  BY ViewNumbers DEF ViewsInv, V!TypeOK, NothingNewer
<1>2. V!Loses(k, v) \in [Kinds -> V!Versions]
  BY <1>1, NewerIsTyped DEF V!Loses
<1>3. lost \in [Kinds -> Int] /\ [lost EXCEPT ![k] = v] \in [Kinds -> Int]
  BY <1>1
<1>4. \A j \in Kinds : /\ V!Loses(k, v)[j] \in Int /\ V!Loses(k, v)[j] \in {lost[j], [lost EXCEPT ![k] = v][j]}
                       /\ lost[j] <= V!Loses(k, v)[j] /\ [lost EXCEPT ![k] = v][j] <= V!Loses(k, v)[j]
  BY <1>1, <1>2, <1>3, NewerIsNewest DEF V!Loses
<1>5. [lost EXCEPT ![k] = v][k] = v /\ \A j \in Kinds \ {k} : [lost EXCEPT ![k] = v][j] = lost[j]
  BY <1>1
<1>6. \A j \in Kinds : V!Loses(k, v)[j] <= version[j]
  BY <1>1, <1>4, <1>5
<1>7. ASSUME NEW j \in Kinds, lost[j] = version[j] PROVE V!Loses(k, v)[j] = version[j]
  BY <1>1, <1>4, <1>6, <1>7
<1>8. ASSUME v = version[k] PROVE V!Loses(k, v)[k] = version[k]
  BY <1>1, <1>4, <1>5, <1>6, <1>8
<1> QED
  BY <1>2, <1>6, <1>7, <1>8

\* A change has its push before it.
LEMMA ChangeKeeps ==
  ASSUME ViewsInv, NEW k \in Kinds, V!Change(k)
  PROVE  ViewsInv'
<1>0. PICK n : n = changes + 1
  OBVIOUS
<1>1. /\ changes < MaxChanges /\ changes' = n /\ version' = [version EXCEPT ![k] = n]
      /\ push' = [push EXCEPT ![n] = [at |-> "due", kind |-> k, of |-> 0]] /\ calm' = 0
      /\ UNCHANGED <<stream, asked, answer, over, view, lost, newest>>
  BY <1>0 DEF V!Change
<1>2. changes \in Nat /\ n \in Nat /\ n \in V!Changes /\ n \in V!Versions /\ 0 \in V!Versions /\ changes \in V!Versions
  BY <1>0, <1>1, ViewNumbers, ViewsAssumption DEF ViewsInv, V!TypeOK, V!Versions, V!Changes
<1>3. version \in [Kinds -> V!Versions] /\ push \in [V!Changes -> V!Pushes]
  BY DEF ViewsInv, V!TypeOK
<1>4. version' \in [Kinds -> V!Versions] /\ version'[k] = n /\ \A j \in Kinds \ {k} : version'[j] = version[j]
  BY <1>1, <1>2, <1>3
<1>5. [at |-> "due", kind |-> k, of |-> 0] \in V!Pushes
  BY <1>2 DEF V!Pushes
<1>6. /\ push' \in [V!Changes -> V!Pushes] /\ push'[n] = [at |-> "due", kind |-> k, of |-> 0]
      /\ \A m \in V!Changes \ {n} : push'[m] = push[m]
  BY <1>1, <1>2, <1>3, <1>5
<1>7. V!TypeOK'
  <2>1. calm' \in 0 .. asked'
    BY <1>1, ViewNumbers DEF ViewsInv
  <2> QED
    BY <1>1, <1>2, <1>4, <1>6, <2>1 DEF ViewsInv, V!TypeOK
<1>8. \A j \in Kinds : version[j] \in Int /\ version'[j] \in Int /\ version[j] <= version'[j] /\ version'[j] <= n
  <2>1. \A j \in Kinds : version[j] \in Int /\ version[j] <= changes
    BY ViewNumbers DEF ViewsInv, NothingNewer
  <2>2. \A j \in Kinds : version[j] <= n
    BY <1>0, <1>2, <2>1
  <2> QED
    BY <1>2, <1>4, <2>1, <2>2
<1>9. NothingNewer'
  <2>1. ASSUME NEW j \in Kinds PROVE view[j] <= newest[j] /\ newest[j] <= version'[j] /\ lost[j] <= version'[j]
    <3>1. view[j] <= newest[j] /\ newest[j] <= version[j] /\ lost[j] <= version[j] /\ newest[j] \in Int /\ lost[j] \in Int
      BY ViewNumbers DEF ViewsInv, NothingNewer
    <3> QED
      BY <1>8, <3>1
  <2>2. ASSUME NEW m \in V!Changes PROVE push'[m].of <= version'[push'[m].kind]
    <3>1. CASE m = n
      BY <1>2, <1>4, <1>6, <3>1
    <3>2. CASE m # n
      <4>1. push[m].of \in Int /\ push[m].kind \in Kinds /\ push[m].of <= version[push[m].kind]
        BY ViewNumbers DEF ViewsInv, NothingNewer
      <4> QED
        BY <1>6, <1>8, <3>2, <4>1
    <3> QED
      BY <3>1, <3>2
  <2>3. ASSUME NEW r \in V!Refreshes, NEW j \in Kinds PROVE answer[r][j] <= version'[j]
    <3>1. answer[r][j] \in Int /\ answer[r][j] <= version[j]
      BY ViewNumbers DEF ViewsInv, NothingNewer
    <3> QED
      BY <1>8, <3>1
  <2>4. ASSUME NEW m \in V!Changes, m > n PROVE push'[m].at = "over"
    <3>1. m # n /\ m > changes
      BY <1>0, <1>2, <2>4 DEF V!Changes
    <3> QED
      BY <1>6, <3>1 DEF ViewsInv, NothingNewer
  <2>5. \A r \in V!Refreshes, j \in Kinds : r > asked => answer[r][j] = V!Unanswered
    BY DEF ViewsInv, NothingNewer
  <2> QED
    BY <1>1, <1>8, <2>1, <2>2, <2>3, <2>4, <2>5 DEF NothingNewer
<1>10. ASSUME NEW j \in Kinds PROVE (Lost(j) \/ OnItsWay(j) \/ BeingAsked(j) \/ Shown(j))'
  <2>1. CASE j = k
    <3>0. push'[n].kind = k /\ push'[n].at = "due"
      BY <1>6
    <3>1. Brings(n, k)'
      BY <3>0, Zenon DEF Brings
    <3> QED
      BY <1>2, <2>1, <3>1 DEF OnItsWay
  <2>2. CASE j # k
    <3>1. version'[j] = version[j]
      BY <1>4, <2>2
    <3>2. ASSUME NEW m \in V!Changes, Brings(m, j) PROVE Brings(m, j)'
      <4>1. m # n
        <5>1. push[n].at = "over"
          BY <1>0, <1>2 DEF ViewsInv, NothingNewer
        <5> QED
          BY <3>2, <5>1 DEF Brings
      <4> QED
        BY <1>6, <3>1, <3>2, <4>1 DEF Brings
    <3>3. OnItsWay(j) => OnItsWay(j)'
      BY <3>2 DEF OnItsWay
    <3>4. (Lost(j) => Lost(j)') /\ (BeingAsked(j) => BeingAsked(j)') /\ (Shown(j) => Shown(j)')
      BY <1>1, <3>1 DEF Lost, BeingAsked, Shown, V!Pending
    <3> QED
      BY <3>3, <3>4 DEF ViewsInv, LatestIsSomewhere
  <2> QED
    BY <2>1, <2>2
<1>11. CalmIsCurrent'
  BY <1>1 DEF CalmIsCurrent
<1> QED
  BY <1>7, <1>9, <1>10, <1>11 DEF ViewsInv, LatestIsSomewhere

\* What becomes of a push keeps the invariant: it still brings the latest state, or it is over
\* and what it would have brought is among what was lost, or another push brings it.
LEMMA PushKeeps ==
  ASSUME ViewsInv, NEW n \in V!Changes, push[n].at # "over",
         NEW p \in V!Pushes, push' = [push EXCEPT ![n] = p],
         p.kind = push[n].kind, p.of <= version[p.kind],
         lost' \in [Kinds -> V!Versions],
         \A j \in Kinds : lost'[j] <= version[j] /\ (lost[j] = version[j] => lost'[j] = version[j]),
         Brings(n, push[n].kind) =>
            \/ p.at # "over" /\ (p.at = "due" \/ p.of = version[p.kind])
            \/ lost'[push[n].kind] = version[push[n].kind]
            \/ \E m \in V!Changes \ {n} : Brings(m, push[n].kind),
         UNCHANGED <<changes, version, stream, asked, answer, over, view, newest, calm>>
  PROVE  ViewsInv'
<1>1. push \in [V!Changes -> V!Pushes] /\ push[n].kind \in Kinds
  BY ViewNumbers DEF ViewsInv, V!TypeOK
<1>2. push' \in [V!Changes -> V!Pushes] /\ push'[n] = p /\ \A m \in V!Changes \ {n} : push'[m] = push[m]
  BY <1>1
<1>3. V!TypeOK'
  BY <1>2 DEF ViewsInv, V!TypeOK
<1>4. n \in Nat /\ changes \in Nat /\ n <= changes
  <2>1. n \in Nat /\ changes \in Nat /\ ~(n > changes)
    BY ViewNumbers, ViewsAssumption DEF ViewsInv, NothingNewer, V!Changes
  <2> QED
    BY <2>1
<1>5. NothingNewer'
  <2>1. \A m \in V!Changes : push'[m].of <= version[push'[m].kind]
    BY <1>2 DEF ViewsInv, NothingNewer
  <2>2. \A m \in V!Changes : m > changes => push'[m].at = "over"
    BY <1>2, <1>4 DEF ViewsInv, NothingNewer
  <2> QED
    BY <2>1, <2>2 DEF ViewsInv, NothingNewer
<1>6. ASSUME NEW j \in Kinds, OnItsWay(j) PROVE OnItsWay(j)' \/ Lost(j)'
  <2>1. PICK m \in V!Changes : Brings(m, j)
    BY <1>6 DEF OnItsWay
  <2>2. ASSUME NEW q \in V!Changes \ {n}, Brings(q, j) PROVE OnItsWay(j)'
    <3>1. Brings(q, j)'
      BY <1>2, <2>2 DEF Brings
    <3> QED
      BY <3>1 DEF OnItsWay
  <2>3. CASE m = n
    <3>1. j = push[n].kind /\ Brings(n, j)
      BY <2>1, <2>3 DEF Brings
    <3>2. CASE p.at # "over" /\ (p.at = "due" \/ p.of = version[p.kind])
      <4>1. p.at = "due" \/ p.at \in {"taken", "sent"}
        BY <3>2 DEF V!Pushes
      <4>2. p.kind = j /\ push'[n] = p /\ version' = version
        BY <1>2, <3>1
      <4>3. p.at = "due" \/ (p.at \in {"taken", "sent"} /\ p.of = version[j])
        BY <3>2, <4>1, <4>2, Zenon
      <4>4. Brings(n, j)'
        BY <4>2, <4>3 DEF Brings
      <4> QED
        BY <4>4 DEF OnItsWay
    <3>3. CASE lost'[push[n].kind] = version[push[n].kind]
      BY <3>1, <3>3 DEF Lost
    <3>4. CASE \E q \in V!Changes \ {n} : Brings(q, push[n].kind)
      BY <2>2, <3>1, <3>4
    <3> QED
      BY <3>1, <3>2, <3>3, <3>4
  <2> QED
    BY <2>1, <2>2, <2>3
<1>7. \A j \in Kinds : (Lost(j) => Lost(j)') /\ (BeingAsked(j) => BeingAsked(j)') /\ (Shown(j) => Shown(j)')
  BY DEF Lost, BeingAsked, Shown, V!Pending
<1>8. calm = 0
  BY DEF ViewsInv, CalmIsCurrent, V!Coming
<1>9. CalmIsCurrent'
  BY <1>8 DEF CalmIsCurrent
<1> QED
  BY <1>3, <1>5, <1>6, <1>7, <1>9 DEF ViewsInv, LatestIsSomewhere

\* A snapshot is of the latest state; without it the latest state is lost.
LEMMA SnapshotKeeps ==
  ASSUME ViewsInv, NEW n \in V!Changes, V!TakeSnapshot(n) \/ V!SnapshotFails(n)
  PROVE  ViewsInv'
<1>1. push[n].kind \in Kinds /\ push[n] \in V!Pushes /\ push[n].of \in Int /\ push[n].of <= version[push[n].kind]
      /\ version[push[n].kind] \in V!Versions /\ version[push[n].kind] \in Int /\ lost \in [Kinds -> V!Versions]
      /\ \A j \in Kinds : lost[j] <= version[j]
  BY ViewNumbers DEF ViewsInv, V!TypeOK, NothingNewer
<1>2. push[n].at = "due" /\ UNCHANGED <<changes, version, stream, asked, answer, over, view, newest, calm>>
  BY DEF V!TakeSnapshot, V!SnapshotFails
<1>3. CASE V!TakeSnapshot(n)
  <2> DEFINE p == [push[n] EXCEPT !.at = "taken", !.of = version[push[n].kind]]
  <2>1. push' = [push EXCEPT ![n] = p] /\ lost' = lost
    BY <1>3 DEF V!TakeSnapshot
  <2>2. p \in V!Pushes /\ p.kind = push[n].kind /\ p.of = version[p.kind] /\ p.at = "taken"
    BY <1>1 DEF V!Pushes
  <2>3. p.of <= version[p.kind]
    BY <1>1, <2>2
  <2> HIDE DEF p
  <2> QED
    BY <1>1, <1>2, <2>1, <2>2, <2>3, PushKeeps
<1>4. CASE V!SnapshotFails(n)
  <2> DEFINE p == [push[n] EXCEPT !.at = "over"]
  <2>1. push' = [push EXCEPT ![n] = p] /\ lost' = V!Loses(push[n].kind, version[push[n].kind])
    BY <1>4 DEF V!SnapshotFails
  <2>2. p \in V!Pushes /\ p.kind = push[n].kind /\ p.of = push[n].of
    BY <1>1 DEF V!Pushes
  <2>3. /\ lost' \in [Kinds -> V!Versions] /\ lost'[push[n].kind] = version[push[n].kind]
        /\ \A j \in Kinds : lost'[j] <= version[j] /\ (lost[j] = version[j] => lost'[j] = version[j])
    <3>1. version[push[n].kind] <= version[push[n].kind]
      BY <1>1
    <3> QED
      BY <1>1, <2>1, <3>1, LosesOne
  <2> HIDE DEF p
  <2> QED
    BY <1>1, <1>2, <2>1, <2>2, <2>3, PushKeeps
<1> QED
  BY <1>3, <1>4

\* A push is sent, or lost without a stream; what is sent may give way to another, or be cut off.
LEMMA SendKeeps ==
  ASSUME ViewsInv, NEW n \in V!Changes, V!Send(n) \/ V!Debounce(n) \/ V!CutOff(n)
  PROVE  ViewsInv'
<1>1. push[n].kind \in Kinds /\ push[n] \in V!Pushes /\ push[n].of \in V!Versions /\ push[n].of <= version[push[n].kind]
      /\ lost \in [Kinds -> V!Versions] /\ \A j \in Kinds : lost[j] <= version[j]
  BY ViewNumbers DEF ViewsInv, V!TypeOK, NothingNewer, V!Pushes
<1>2. push[n].at \in {"taken", "sent"} /\ UNCHANGED <<changes, version, stream, asked, answer, over, view, newest, calm>>
  BY DEF V!Send, V!Debounce, V!CutOff
<1>3. Brings(n, push[n].kind) => push[n].of = version[push[n].kind]
  BY <1>2 DEF Brings
<1>4. LET l == V!Loses(push[n].kind, push[n].of) IN
      /\ l \in [Kinds -> V!Versions]
      /\ \A j \in Kinds : l[j] <= version[j] /\ (lost[j] = version[j] => l[j] = version[j])
      /\ push[n].of = version[push[n].kind] => l[push[n].kind] = version[push[n].kind]
  BY <1>1, LosesOne
<1>5. CASE push' = [push EXCEPT ![n].at = "sent"] /\ lost' = lost
  <2> DEFINE p == [push[n] EXCEPT !.at = "sent"]
  <2>1. push' = [push EXCEPT ![n] = p]
    BY <1>5
  <2>2. p \in V!Pushes /\ p.kind = push[n].kind /\ p.of = push[n].of /\ p.at = "sent"
    BY <1>1 DEF V!Pushes
  <2> HIDE DEF p
  <2> QED
    BY <1>1, <1>2, <1>3, <1>5, <2>1, <2>2, PushKeeps
<1> DEFINE p == [push[n] EXCEPT !.at = "over"]
<1>6. p \in V!Pushes /\ p.kind = push[n].kind /\ p.of = push[n].of
  BY <1>1 DEF V!Pushes
<1>7. CASE push' = [push EXCEPT ![n].at = "over"] /\ lost' = V!Loses(push[n].kind, push[n].of)
  <2>1. push' = [push EXCEPT ![n] = p]
    BY <1>7
  <2> HIDE DEF p
  <2> QED
    BY <1>1, <1>2, <1>3, <1>4, <1>6, <1>7, <2>1, PushKeeps
<1>8. CASE V!Debounce(n) /\ lost' = lost
  <2>1. push' = [push EXCEPT ![n] = p]
    BY <1>8 DEF V!Debounce
  <2>2. PICK m \in V!Are("sent") \ {n} :
           push[m].kind = push[n].kind
           /\ lost' = IF push[m].of < push[n].of THEN V!Loses(push[n].kind, push[n].of) ELSE lost
    BY <1>8 DEF V!Debounce
  <2>3. m \in V!Changes \ {n} /\ push[m].at = "sent" /\ push[m].of \in Int /\ push[m].of <= version[push[n].kind]
        /\ push[n].of \in Int /\ version[push[n].kind] \in Int
    BY <1>1, <2>2, ViewNumbers DEF V!Are, ViewsInv, NothingNewer
  <2>4. CASE push[m].of < push[n].of
    <3>1. lost' = V!Loses(push[n].kind, push[n].of)
      BY <2>2, <2>4
    <3> HIDE DEF p
    <3> QED
      BY <1>1, <1>2, <1>3, <1>4, <1>6, <2>1, <3>1, PushKeeps
  <2>5. CASE ~(push[m].of < push[n].of)
    <3>1. push[n].of = version[push[n].kind] => push[m].of = version[push[n].kind]
      BY <2>3, <2>5
    <3>2. Brings(n, push[n].kind) => Brings(m, push[n].kind)
      BY <1>3, <2>2, <2>3, <3>1 DEF Brings
    <3> HIDE DEF p
    <3> QED
      BY <1>1, <1>2, <1>6, <1>8, <2>1, <2>3, <3>2, PushKeeps
  <2> QED
    BY <2>4, <2>5
<1>9. V!Debounce(n) => lost' = lost \/ (push' = [push EXCEPT ![n].at = "over"] /\ lost' = V!Loses(push[n].kind, push[n].of))
  BY DEF V!Debounce
<1> QED
  BY <1>5, <1>7, <1>8, <1>9 DEF V!Send, V!CutOff

\* Streams come and go.
LEMMA StreamKeeps ==
  ASSUME ViewsInv, NEW k \in Kinds, V!Registered(k) \/ V!Ends(k)
  PROVE  ViewsInv'
<1>1. stream' \in [Kinds -> {"asked", "on"}]
      /\ UNCHANGED <<changes, version, push, asked, answer, over, view, lost, newest, calm>>
  BY DEF V!Registered, V!Ends, ViewsInv, V!TypeOK
<1>2. V!TypeOK' /\ NothingNewer'
  BY <1>1 DEF ViewsInv, V!TypeOK, NothingNewer
<1>3. LatestIsSomewhere'
  BY <1>1 DEF ViewsInv, LatestIsSomewhere, Lost, OnItsWay, Brings, BeingAsked, Shown, V!Pending
<1>4. CalmIsCurrent'
  BY <1>1 DEF ViewsInv, CalmIsCurrent, V!Pending, V!Coming
<1> QED
  BY <1>2, <1>3, <1>4 DEF ViewsInv

\* One more refresh is started: its answers are still to come.
LEMMA AsksKeeps ==
  ASSUME ViewsInv, V!Asks, UNCHANGED <<changes, version, stream, answer, over, view, lost, newest>>,
         push' \in [V!Changes -> V!Pushes], NothingNewer',
         V!Coming' \subseteq V!Coming
  PROVE  ViewsInv'
<1>1. asked < MaxRefreshes /\ asked' = asked + 1
      /\ calm' = IF V!Coming = {} /\ V!Pending = {} THEN asked' ELSE calm
  BY DEF V!Asks
<1>2. asked \in Nat /\ MaxRefreshes \in Nat /\ over \subseteq 1 .. asked /\ calm \in 0 .. asked
  BY ViewNumbers, ViewsAssumption DEF ViewsInv, V!TypeOK
<1>3. asked + 1 \in 0 .. MaxRefreshes /\ asked + 1 \in V!Refreshes /\ over \subseteq 1 .. asked + 1
      /\ asked + 1 \notin over /\ asked + 1 > asked /\ calm \in 0 .. asked + 1 /\ asked + 1 \in 0 .. asked + 1
      /\ calm <= asked + 1 /\ asked + 1 # 0
  BY <1>1, <1>2 DEF V!Refreshes
<1>4. V!TypeOK'
  BY <1>1, <1>3 DEF ViewsInv, V!TypeOK
<1>5. V!Pending' = V!Pending \cup {asked + 1}
  BY <1>1, <1>2, <1>3 DEF V!Pending
<1>6. \A k \in Kinds : answer'[asked + 1][k] = V!Unanswered
  BY <1>3 DEF ViewsInv, NothingNewer
<1>7. \A k \in Kinds : BeingAsked(k)'
  BY <1>5, <1>6 DEF BeingAsked
<1>8. CalmIsCurrent'
  <2>1. CASE V!Coming = {} /\ V!Pending = {}
    BY <1>1, <1>3, <1>5, <1>6, <2>1 DEF CalmIsCurrent
  <2>2. CASE ~(V!Coming = {} /\ V!Pending = {})
    <3>1. calm' = calm
      BY <1>1, <2>2
    <3>2. asked + 1 >= calm
      BY <1>2
    <3> QED
      BY <1>5, <1>6, <3>1, <3>2 DEF ViewsInv, CalmIsCurrent
  <2> QED
    BY <2>1, <2>2
<1> QED
  BY <1>4, <1>7, <1>8 DEF ViewsInv, LatestIsSomewhere

\* The user has the view refreshed.
LEMMA RefreshKeeps ==
  ASSUME ViewsInv, V!Refresh
  PROVE  ViewsInv'
<1>1. V!Asks /\ UNCHANGED <<changes, version, stream, push, answer, over, view, lost, newest>>
      /\ asked \in Nat /\ asked' = asked + 1
  BY ViewNumbers DEF V!Refresh, V!Asks, ViewsInv
<1>2. \A r \in V!Refreshes, k \in Kinds : r > asked' => answer[r][k] = V!Unanswered
  BY <1>1 DEF ViewsInv, NothingNewer, V!Refreshes
<1>3. NothingNewer' /\ V!Coming' = V!Coming /\ push' \in [V!Changes -> V!Pushes]
  BY <1>1, <1>2 DEF ViewsInv, NothingNewer, V!Coming, V!TypeOK
<1> QED
  BY <1>1, <1>3, AsksKeeps

\* The view shows v, which is no newer than the state: nothing that it showed is forgotten.
LEMMA ShowsKeeps ==
  ASSUME ViewsInv, NEW v \in [Kinds -> V!Versions], V!Shows(v), \A k \in Kinds : v[k] <= version[k]
  PROVE  /\ view' \in [Kinds -> V!Versions] /\ newest' \in [Kinds -> V!Versions]
         /\ \A k \in Kinds : /\ view'[k] <= newest'[k] /\ newest'[k] <= version[k]
                             /\ newest[k] = version[k] \/ v[k] = version[k] => newest'[k] = version[k]
<1>1. view' = v /\ newest' = V!Newer(newest, v) /\ newest \in [Kinds -> V!Versions] /\ V!Versions \subseteq Int
      /\ \A k \in Kinds : newest[k] <= version[k] /\ version[k] \in Int
  BY ViewNumbers DEF V!Shows, ViewsInv, V!TypeOK, NothingNewer
<1>2. newest' \in [Kinds -> V!Versions]
  BY <1>1, NewerIsTyped
<1>3. newest \in [Kinds -> Int] /\ v \in [Kinds -> Int] /\ newest' \in [Kinds -> Int]
  BY <1>1, <1>2
<1>4. \A k \in Kinds : newest[k] <= newest'[k] /\ v[k] <= newest'[k] /\ newest'[k] \in {newest[k], v[k]}
  BY <1>1, <1>3, NewerIsNewest
<1>5. ASSUME NEW k \in Kinds
      PROVE  /\ view'[k] <= newest'[k] /\ newest'[k] <= version[k]
             /\ newest[k] = version[k] \/ v[k] = version[k] => newest'[k] = version[k]
  <2>1. newest'[k] \in Int /\ newest[k] \in Int /\ v[k] \in Int /\ version[k] \in Int
    BY <1>1, <1>3
  <2>2. newest'[k] <= version[k]
    BY <1>1, <1>4
  <2> QED
    BY <1>1, <1>4, <2>1, <2>2
<1> QED
  BY <1>1, <1>2, <1>5

\* A push reaches the view, and is shown or has the view refreshed.
LEMMA PushedKeeps ==
  ASSUME ViewsInv, NEW n \in V!Changes, V!Pushed(n)
  PROVE  ViewsInv'
<1> DEFINE k == push[n].kind
<1>1. push[n].at = "sent" /\ push' = [push EXCEPT ![n].at = "over"] /\ UNCHANGED <<changes, version, stream, answer, over, lost>>
  BY DEF V!Pushed
<1>2. k \in Kinds /\ push[n] \in V!Pushes /\ push[n].of \in V!Versions /\ push[n].of <= version[k]
      /\ push \in [V!Changes -> V!Pushes] /\ view \in [Kinds -> V!Versions] /\ V!Versions \subseteq Int
      /\ \A j \in Kinds : view[j] \in Int /\ newest[j] \in Int /\ version[j] \in Int
  BY ViewNumbers DEF ViewsInv, V!TypeOK, NothingNewer, V!Pushes
<1>3. [push[n] EXCEPT !.at = "over"] \in V!Pushes
  BY <1>2 DEF V!Pushes
<1>4. /\ push' \in [V!Changes -> V!Pushes] /\ push'[n].at = "over" /\ push'[n].of = push[n].of /\ push'[n].kind = k
      /\ \A m \in V!Changes \ {n} : push'[m] = push[m]
  <2>1. push' = [push EXCEPT ![n] = [push[n] EXCEPT !.at = "over"]]
    BY <1>1
  <2>2. push'[n] = [push[n] EXCEPT !.at = "over"]
    BY <1>2, <2>1
  <2> QED
    BY <1>2, <1>3, <2>1, <2>2 DEF V!Pushes
<1>5. \A m \in V!Changes : push'[m].of = push[m].of /\ push'[m].kind = push[m].kind
                           /\ (push[m].at = "over" => push'[m].at = "over")
  BY <1>4
<1>6. V!Coming' \subseteq V!Coming
  BY <1>5 DEF V!Coming
<1>7. CASE k \in Signalled
  <2>1. V!Asks /\ UNCHANGED <<view, newest>> /\ asked \in Nat /\ asked' = asked + 1
    BY <1>7, ViewNumbers DEF V!Pushed, V!Asks, ViewsInv
  <2>2. \A r \in V!Refreshes, j \in Kinds : r > asked' => answer[r][j] = V!Unanswered
    BY <2>1 DEF ViewsInv, NothingNewer, V!Refreshes
  <2>3. NothingNewer'
    BY <1>1, <1>5, <2>1, <2>2 DEF ViewsInv, NothingNewer
  <2> QED
    BY <1>1, <1>4, <1>6, <2>1, <2>3, AsksKeeps
<1>8. CASE k \notin Signalled
  <2> DEFINE v == [view EXCEPT ![k] = push[n].of]
  <2>1. V!Shows(v) /\ UNCHANGED <<asked, calm>>
    BY <1>8 DEF V!Pushed
  <2>2. v \in [Kinds -> V!Versions] /\ v[k] = push[n].of /\ \A j \in Kinds \ {k} : v[j] = view[j]
    BY <1>2
  <2>3. ASSUME NEW j \in Kinds PROVE v[j] <= version[j]
    <3>1. view[j] <= newest[j] /\ newest[j] <= version[j]
      BY DEF ViewsInv, NothingNewer
    <3>2. view[j] <= version[j]
      BY <1>2, <3>1
    <3> QED
      BY <1>2, <2>2, <3>2
  <2> HIDE DEF v
  <2>4. /\ view' \in [Kinds -> V!Versions] /\ newest' \in [Kinds -> V!Versions]
        /\ \A j \in Kinds : /\ view'[j] <= newest'[j] /\ newest'[j] <= version[j]
                            /\ newest[j] = version[j] \/ v[j] = version[j] => newest'[j] = version[j]
    BY <2>1, <2>2, <2>3, ShowsKeeps
  <2>5. V!TypeOK'
    BY <1>1, <1>4, <2>1, <2>4 DEF ViewsInv, V!TypeOK
  <2>6. NothingNewer'
    BY <1>1, <1>5, <2>1, <2>4 DEF ViewsInv, NothingNewer
  <2>7. ASSUME NEW j \in Kinds, OnItsWay(j) PROVE OnItsWay(j)' \/ Shown(j)'
    <3>1. PICK m \in V!Changes : Brings(m, j)
      BY <2>7 DEF OnItsWay
    <3>2. CASE m = n
      BY <1>1, <2>2, <2>4, <3>1, <3>2 DEF Brings, Shown
    <3>3. CASE m # n
      <4>1. Brings(m, j)'
        BY <1>1, <1>4, <3>1, <3>3 DEF Brings
      <4> QED
        BY <4>1 DEF OnItsWay
    <3> QED
      BY <3>2, <3>3
  <2>8. \A j \in Kinds : (Lost(j) => Lost(j)') /\ (BeingAsked(j) => BeingAsked(j)') /\ (Shown(j) => Shown(j)')
    BY <1>1, <2>1, <2>4 DEF Lost, BeingAsked, Shown, V!Pending
  <2>9. calm = 0
    BY <1>1 DEF ViewsInv, CalmIsCurrent, V!Coming
  <2>10. CalmIsCurrent'
    BY <2>1, <2>9 DEF CalmIsCurrent
  <2> QED
    BY <2>5, <2>6, <2>7, <2>8, <2>10 DEF ViewsInv, LatestIsSomewhere
<1> QED
  BY <1>7, <1>8

\* The host answers with its state of the moment.
LEMMA AnswersKeeps ==
  ASSUME ViewsInv, NEW r \in V!Refreshes, NEW k \in Kinds, V!Answers(r, k)
  PROVE  ViewsInv'
<1>1. /\ r \in V!Pending /\ answer[r][k] = V!Unanswered /\ answer' = [answer EXCEPT ![r][k] = version[k]]
      /\ UNCHANGED <<changes, version, stream, push, asked, over, view, lost, newest, calm>>
  BY DEF V!Answers
<1>2. answer \in [V!Refreshes -> [Kinds -> V!Versions \cup {V!Unanswered}]] /\ version \in [Kinds -> V!Versions]
  BY DEF ViewsInv, V!TypeOK
<1>3. /\ answer' \in [V!Refreshes -> [Kinds -> V!Versions \cup {V!Unanswered}]] /\ answer'[r][k] = version[k]
      /\ \A q \in V!Refreshes, j \in Kinds : ~(q = r /\ j = k) => answer'[q][j] = answer[q][j]
  BY <1>1, <1>2
<1>4. V!TypeOK'
  BY <1>1, <1>3 DEF ViewsInv, V!TypeOK
<1>5. r \in 1 .. asked /\ asked \in Nat /\ version[k] \in Int
  BY <1>1, ViewNumbers DEF V!Pending, ViewsInv
<1>6. NothingNewer'
  <2>1. \A q \in V!Refreshes, j \in Kinds : answer'[q][j] <= version'[j]
    BY <1>1, <1>3, <1>5 DEF ViewsInv, NothingNewer
  <2>2. \A q \in V!Refreshes, j \in Kinds : q > asked' => answer'[q][j] = V!Unanswered
    BY <1>1, <1>3, <1>5 DEF ViewsInv, NothingNewer
  <2> QED
    BY <1>1, <2>1, <2>2 DEF ViewsInv, NothingNewer
<1>7. V!Pending' = V!Pending /\ V!Pending \subseteq V!Refreshes
  BY <1>1, ViewNumbers DEF ViewsInv, V!Pending
<1>8. \A q \in V!Pending, j \in Kinds : answer[q][j] \in {V!Unanswered, version[j]}
                                        => answer'[q][j] \in {V!Unanswered, version'[j]}
  BY <1>1, <1>3, <1>7
<1>9. \A j \in Kinds : (BeingAsked(j) => BeingAsked(j)')
  BY <1>7, <1>8 DEF BeingAsked
<1>10. \A j \in Kinds : (Lost(j) => Lost(j)') /\ (OnItsWay(j) => OnItsWay(j)') /\ (Shown(j) => Shown(j)')
  BY <1>1 DEF Lost, OnItsWay, Brings, Shown
<1>11. CalmIsCurrent'
  BY <1>1, <1>7, <1>8 DEF ViewsInv, CalmIsCurrent, V!Coming
<1> QED
  BY <1>4, <1>6, <1>9, <1>10, <1>11 DEF ViewsInv, LatestIsSomewhere

\* The answers of a refresh are shown, all at once.
LEMMA RefreshedKeeps ==
  ASSUME ViewsInv, NEW r \in V!Refreshes, V!Refreshed(r)
  PROVE  ViewsInv'
<1>1. /\ r \in V!Pending /\ \A k \in Kinds : answer[r][k] # V!Unanswered
      /\ over' = over \cup {r} /\ V!Shows(answer[r])
      /\ UNCHANGED <<changes, version, stream, push, asked, answer, lost, calm>>
  BY DEF V!Refreshed
<1>2. answer[r] \in [Kinds -> V!Versions] /\ version \in [Kinds -> V!Versions] /\ r \in 1 .. asked
      /\ \A k \in Kinds : answer[r][k] <= version[k]
  <2>1. answer[r] \in [Kinds -> V!Versions \cup {V!Unanswered}] /\ version \in [Kinds -> V!Versions]
    BY DEF ViewsInv, V!TypeOK
  <2>2. \A k \in Kinds : answer[r][k] \in V!Versions
    BY <1>1, <2>1
  <2> QED
    BY <1>1, <2>1, <2>2 DEF ViewsInv, NothingNewer, V!Pending
<1>3. /\ view' \in [Kinds -> V!Versions] /\ newest' \in [Kinds -> V!Versions]
      /\ \A k \in Kinds : /\ view'[k] <= newest'[k] /\ newest'[k] <= version[k]
                          /\ newest[k] = version[k] \/ answer[r][k] = version[k] => newest'[k] = version[k]
  BY <1>1, <1>2, ShowsKeeps
<1>4. V!TypeOK' /\ NothingNewer'
  <2>1. V!TypeOK'
    BY <1>1, <1>2, <1>3 DEF ViewsInv, V!TypeOK
  <2>2. NothingNewer'
    BY <1>1, <1>3 DEF ViewsInv, NothingNewer
  <2> QED
    BY <2>1, <2>2
<1>5. V!Pending' = V!Pending \ {r}
  BY <1>1 DEF V!Pending
<1>6. ASSUME NEW j \in Kinds, BeingAsked(j) PROVE BeingAsked(j)' \/ Shown(j)'
  <2>1. PICK q \in V!Pending : answer[q][j] \in {V!Unanswered, version[j]}
    BY <1>6 DEF BeingAsked
  <2>2. CASE q = r
    BY <1>1, <1>3, <2>1, <2>2 DEF Shown
  <2>3. CASE q # r
    BY <1>1, <1>5, <2>1, <2>3 DEF BeingAsked
  <2> QED
    BY <2>2, <2>3
<1>7. \A j \in Kinds : (Lost(j) => Lost(j)') /\ (OnItsWay(j) => OnItsWay(j)') /\ (Shown(j) => Shown(j)')
  BY <1>1, <1>3 DEF Lost, OnItsWay, Brings, Shown
<1>8. CalmIsCurrent'
  <2> SUFFICES ASSUME calm # 0 PROVE CalmIsCurrent'
    BY <1>1 DEF CalmIsCurrent
  <2>1. \A k \in Kinds : answer[r][k] = version[k]
    BY <1>1 DEF ViewsInv, CalmIsCurrent
  <2>2. view' = version
    BY <1>1, <1>2, <2>1 DEF V!Shows
  <2> QED
    BY <1>1, <1>5, <2>2 DEF ViewsInv, CalmIsCurrent, V!Coming
<1> QED
  BY <1>4, <1>6, <1>7, <1>8 DEF ViewsInv, LatestIsSomewhere

\* A refresh fails: what it asked for is lost.
LEMMA FailsKeeps ==
  ASSUME ViewsInv, NEW r \in V!Refreshes, V!RefreshFails(r)
  PROVE  ViewsInv'
<1> DEFINE a == [k \in Kinds |-> IF answer[r][k] = V!Unanswered THEN version[k] ELSE answer[r][k]]
<1>1. /\ r \in V!Pending /\ over' = over \cup {r} /\ lost' = V!Newer(lost, a)
      /\ calm' = IF calm = r THEN 0 ELSE calm
      /\ UNCHANGED <<changes, version, stream, push, asked, answer, view, newest>>
  BY DEF V!RefreshFails
<1>2. /\ answer[r] \in [Kinds -> V!Versions \cup {V!Unanswered}] /\ version \in [Kinds -> V!Versions]
      /\ lost \in [Kinds -> V!Versions] /\ V!Versions \subseteq Int /\ r \in 1 .. asked
      /\ asked \in Nat /\ calm \in 0 .. asked
      /\ \A k \in Kinds : answer[r][k] <= version[k] /\ lost[k] <= version[k] /\ version[k] \in Int
  BY <1>1, ViewNumbers DEF ViewsInv, V!TypeOK, NothingNewer, V!Pending
<1>3. a \in [Kinds -> V!Versions] /\ \A k \in Kinds : a[k] <= version[k]
                                      /\ (answer[r][k] \in {V!Unanswered, version[k]} => a[k] = version[k])
  BY <1>2
<1> HIDE DEF a
<1>4. lost' \in [Kinds -> V!Versions]
  BY <1>1, <1>2, <1>3, NewerIsTyped
<1>5. lost \in [Kinds -> Int] /\ a \in [Kinds -> Int] /\ lost' \in [Kinds -> Int]
  BY <1>2, <1>3, <1>4
<1>6. \A k \in Kinds : lost[k] <= lost'[k] /\ a[k] <= lost'[k] /\ lost'[k] \in {lost[k], a[k]}
  BY <1>1, <1>5, NewerIsNewest
<1>7. \A k \in Kinds : lost'[k] <= version[k]
  BY <1>2, <1>3, <1>6
<1>8. \A k \in Kinds : lost[k] = version[k] \/ a[k] = version[k] => lost'[k] = version[k]
  BY <1>2, <1>5, <1>6, <1>7
<1>9. V!TypeOK'
  <2>1. calm' \in 0 .. asked'
    BY <1>1, <1>2
  <2> QED
    BY <1>1, <1>2, <1>4, <2>1 DEF ViewsInv, V!TypeOK
<1>10. NothingNewer'
  BY <1>1, <1>7 DEF ViewsInv, NothingNewer
<1>11. V!Pending' = V!Pending \ {r}
  BY <1>1 DEF V!Pending
<1>12. ASSUME NEW j \in Kinds, BeingAsked(j) PROVE BeingAsked(j)' \/ Lost(j)'
  <2>1. PICK q \in V!Pending : answer[q][j] \in {V!Unanswered, version[j]}
    BY <1>12 DEF BeingAsked
  <2>2. CASE q = r
    BY <1>1, <1>3, <1>8, <2>1, <2>2 DEF Lost
  <2>3. CASE q # r
    BY <1>1, <1>11, <2>1, <2>3 DEF BeingAsked
  <2> QED
    BY <2>2, <2>3
<1>13. \A j \in Kinds : (Lost(j) => Lost(j)') /\ (OnItsWay(j) => OnItsWay(j)') /\ (Shown(j) => Shown(j)')
  BY <1>1, <1>8 DEF Lost, OnItsWay, Brings, Shown
<1>14. CalmIsCurrent'
  <2>1. CASE calm = r
    BY <1>1, <2>1 DEF CalmIsCurrent
  <2>2. CASE calm # r
    <3>1. calm' = calm /\ (calm \in over' => calm \in over)
      BY <1>1, <2>2
    <3> QED
      BY <1>1, <1>11, <3>1 DEF ViewsInv, CalmIsCurrent, V!Coming
  <2> QED
    BY <2>1, <2>2
<1> QED
  BY <1>9, <1>10, <1>12, <1>13, <1>14 DEF ViewsInv, LatestIsSomewhere

\* The latest change of a kind is somewhere, always.
LEMMA ViewsInductive == V!Spec => []ViewsInv
<1>1. ViewsInv /\ [V!Next]_V!vars => ViewsInv'
  <2> SUFFICES ASSUME ViewsInv, [V!Next]_V!vars PROVE ViewsInv'
    OBVIOUS
  <2>1. CASE UNCHANGED V!vars
    <3>1. UNCHANGED <<changes, version, stream, push, asked, answer, over, view, lost, newest, calm>>
      BY <2>1 DEF V!vars
    <3>2. V!TypeOK' /\ NothingNewer' /\ LatestIsSomewhere'
      BY <3>1 DEF ViewsInv, V!TypeOK, NothingNewer, LatestIsSomewhere, Lost, OnItsWay, Brings, BeingAsked, Shown, V!Pending
    <3>3. CalmIsCurrent'
      BY <3>1 DEF ViewsInv, CalmIsCurrent, V!Pending, V!Coming
    <3> QED
      BY <3>2, <3>3 DEF ViewsInv
  <2> QED
    BY <2>1, ChangeKeeps, StreamKeeps, SnapshotKeeps, SendKeeps, PushedKeeps, RefreshKeeps, AnswersKeeps,
       RefreshedKeeps, FailsKeeps DEF V!Next
<1> QED
  BY <1>1, ViewsInit, PTL DEF V!Spec

\* Once nothing is on its way the view shows the host's state, but for news that was lost on
\* the way and for an older state shown over a newer one; and a refresh that begins when nothing
\* is on its way, and succeeds, repairs that.
THEOREM ViewsCatchUp == V!Spec => []ViewIsCurrent
<1>1. ViewsInv => V!NothingElseIsMissed
  <2> SUFFICES ASSUME ViewsInv, NEW k \in Kinds, V!Coming = {}, V!Pending = {}
               PROVE  view[k] = version[k] \/ lost[k] = version[k] \/ view[k] < newest[k]
    BY DEF V!NothingElseIsMissed
  <2>1. \A n \in V!Changes : push[n].at = "over"
    BY DEF V!Coming
  <2>2. Lost(k) \/ Shown(k)
    BY <2>1 DEF ViewsInv, LatestIsSomewhere, OnItsWay, Brings, BeingAsked
  <2>3. view[k] \in Int /\ newest[k] \in Int /\ version[k] \in Int /\ view[k] <= newest[k]
    BY ViewNumbers DEF ViewsInv, NothingNewer
  <2> QED
    BY <2>2, <2>3 DEF Lost, Shown
<1>2. ViewsInv => V!RefreshRepairs
  <2>1. ViewsInv => 0 \notin over
    BY ViewNumbers DEF ViewsInv
  <2> QED
    BY <2>1 DEF ViewsInv, CalmIsCurrent, V!RefreshRepairs
<1>3. ViewsInv => ViewIsCurrent
  BY <1>1, <1>2 DEF ViewsInv, ViewIsCurrent, V!ViewIsCurrent
<1> QED
  BY <1>3, ViewsInductive, PTL

-----------------------------------------------------------------------------
(* The entry of an uplink.                                                  *)

\* The lists that are being drawn have the pick as long as it is sure.
ListsHavePick ==
    sure => /\ target = picked /\ picked \in connected
            /\ \A d \in E!Draws : draw[d] = "listed" => picked \in list[d]

\* An entry is active because of a start that was not over without deleting it.
ActiveHasStart ==
    /\ drawn = "active" => active
    /\ active /\ ~deleted =>
         \E s \in E!Starts : start[s] \in {"getting", "stating", "sending", "failed"}

EntryInv == E!TypeOK /\ ListsHavePick /\ ActiveHasStart

\* The invariant holds at the start.
LEMMA EntryInit == E!Init => EntryInv
  BY DEF E!Init, EntryInv, E!TypeOK, ListsHavePick, ActiveHasStart

\* Flight software that joins or leaves keeps it: a pick that leaves is not sure any more.
LEMMA FswKeeps ==
  ASSUME EntryInv, NEW f \in Fsws, E!Joins(f) \/ E!Leaves(f)
  PROVE  EntryInv'
<1> USE DEF EntryInv
<1>1. E!TypeOK'
  BY DEF E!Joins, E!Leaves, E!entry, E!TypeOK
<1>2. ListsHavePick'
  BY DEF E!Joins, E!Leaves, E!entry, ListsHavePick
<1>3. ActiveHasStart'
  BY DEF E!Joins, E!Leaves, E!entry, ActiveHasStart
<1> QED
  BY <1>1, <1>2, <1>3

\* What the user does to the entry keeps it.
LEMMA UserKeeps ==
  ASSUME EntryInv, E!Offer \/ E!Edit \/ E!Delete \/ E!Redraw \/ \E f \in Fsws : E!Pick(f)
  PROVE  EntryInv'
<1> USE DEF EntryInv
<1>1. E!TypeOK'
  BY DEF E!Offer, E!Edit, E!Delete, E!Redraw, E!Pick, E!TypeOK
<1>2. ListsHavePick'
  <2>1. CASE E!Offer \/ E!Edit \/ E!Delete \/ E!Redraw
    <3>1. UNCHANGED <<connected, target, picked, sure, draw, list>>
      BY <2>1 DEF E!Offer, E!Edit, E!Delete, E!Redraw
    <3> QED
      BY <3>1 DEF ListsHavePick
  <2>2. ASSUME NEW f \in Fsws, E!Pick(f) PROVE ListsHavePick'
    BY <2>2 DEF E!Pick, ListsHavePick
  <2> QED
    BY <2>1, <2>2
<1>3. ActiveHasStart'
  BY DEF E!Offer, E!Edit, E!Delete, E!Redraw, E!Pick, ActiveHasStart
<1> QED
  BY <1>1, <1>2, <1>3

\* A drawing keeps it: a list that is got later has the pick as long as it is sure,
\* and with the target in its list a draw does not touch it.
LEMMA DrawKeeps ==
  ASSUME EntryInv, NEW d \in E!Draws, E!Draw(d) \/ E!Listed(d) \/ E!Drawn(d)
  PROVE  EntryInv'
<1> USE DEF EntryInv
<1>1. CASE E!Draw(d)
  BY <1>1 DEF E!Draw, E!TypeOK, ListsHavePick, ActiveHasStart
<1>2. CASE E!Listed(d)
  <2>1. E!TypeOK'
    BY <1>2 DEF E!Listed, E!TypeOK
  <2>2. ListsHavePick' /\ ActiveHasStart'
    BY <1>2 DEF E!Listed, E!TypeOK, ListsHavePick, ActiveHasStart
  <2> QED
    BY <2>1, <2>2
<1>3. CASE E!Drawn(d)
  <2>1. E!TypeOK'
    BY <1>3 DEF E!Drawn, E!TypeOK
  <2>2. ListsHavePick'
    BY <1>3 DEF E!Drawn, E!TypeOK, ListsHavePick
  <2>3. ActiveHasStart'
    BY <1>3 DEF E!Drawn, ActiveHasStart
  <2> QED
    BY <2>1, <2>2, <2>3
<1> QED
  BY <1>1, <1>2, <1>3

\* A start keeps it: it leaves the entry active until it deletes it.
LEMMA StartKeeps ==
  ASSUME EntryInv, NEW s \in E!Starts, E!Start(s) \/ E!Got(s) \/ E!Sends(s) \/ E!Fails(s) \/ E!Over(s)
  PROVE  EntryInv'
<1> USE DEF EntryInv
<1>1. E!TypeOK'
  BY DEF E!Start, E!Got, E!Sends, E!Fails, E!Over, E!TypeOK
<1>2. ListsHavePick'
  <2>1. UNCHANGED <<connected, target, picked, sure, draw, list>>
    BY DEF E!Start, E!Got, E!Sends, E!Fails, E!Over
  <2> QED
    BY <2>1 DEF ListsHavePick
<1>3. ActiveHasStart'
  <2>1. CASE E!Over(s)
    BY <2>1 DEF E!Over, ActiveHasStart
  <2>2. CASE E!Start(s) \/ E!Got(s) \/ E!Sends(s) \/ E!Fails(s)
    <3>1. start'[s] \in {"getting", "stating", "sending", "failed"}
      BY <2>2 DEF E!Start, E!Got, E!Sends, E!Fails, E!TypeOK
    <3>2. drawn' = "active" => active'
      BY <2>2 DEF E!Start, E!Got, E!Sends, E!Fails, ActiveHasStart
    <3> QED
      BY <3>1, <3>2 DEF ActiveHasStart
  <2> QED
    BY <2>1, <2>2
<1> QED
  BY <1>1, <1>2, <1>3

\* The invariant is inductive: every step of the user, of the view, of the starts and
\* of the flight software keeps it.
LEMMA EntryInductive == E!Spec => []EntryInv
<1>1. EntryInv /\ [E!Next]_E!vars => EntryInv'
  <2> SUFFICES ASSUME EntryInv, [E!Next]_E!vars PROVE EntryInv'
    OBVIOUS
  <2>1. CASE UNCHANGED E!vars
    BY <2>1 DEF E!vars, EntryInv, E!TypeOK, ListsHavePick, ActiveHasStart
  <2> QED
    BY <2>1, FswKeeps, UserKeeps, DrawKeeps, StartKeeps DEF E!Next
<1> QED
  BY <1>1, EntryInit, PTL DEF E!Spec

\* What the user picked stays the target until that flight software leaves, whatever
\* is drawn from however old a list; and an entry that is drawn as an uplink has one
\* under way, or a start that failed.
THEOREM EntriesAreSound == E!Spec => []EntryIsSound
<1>1. EntryInv => EntryIsSound
  BY DEF EntryInv, ListsHavePick, ActiveHasStart, EntryIsSound, E!PickIsKept, E!ActiveForAReason
<1> QED
  BY <1>1, EntryInductive, PTL

-----------------------------------------------------------------------------
(* The four together.                                                       *)

\* The run shows what it shows of each of the parts: side by side, each behaves as its own
\* module says.
THEOREM EachPartIsItself == ExtInit /\ [][ExtNext]_extVars => Spec /\ D!Spec /\ V!Spec /\ E!Spec
<1>1. ExtInit => Init /\ D!Init /\ V!Init /\ E!Init
  BY DEF ExtInit
<1>2. [ExtNext]_extVars => [Next]_vars
  BY DEF ExtNext, extVars
<1>3. [ExtNext]_extVars => [D!Next]_D!vars
  BY DEF ExtNext, extVars, dictVars, D!vars
<1>4. [ExtNext]_extVars => [V!Next]_V!vars
  BY DEF ExtNext, extVars, viewVars, V!vars
<1>5. [ExtNext]_extVars => [E!Next]_E!vars
  BY DEF ExtNext, extVars, entryVars, E!vars
<1> QED
  BY <1>1, <1>2, <1>3, <1>4, <1>5, PTL DEF Spec, D!Spec, V!Spec, E!Spec
===============================================================================
