------------------------------ MODULE MCExtension ------------------------------
(* The parts of the VS Code extension that keep state, side by side: the     *)
(* API object (VscodeApi), the workspace's dictionaries                      *)
(* (ExternalDictionaries) and the views (StateViews, PendingUplink).  A      *)
(* behaviour is one of one of them.  MCTypeScript adds what is sent and      *)
(* stored, and has the run; what holds of these is proved in                 *)
(* MCExtension_proofs.                                                       *)
EXTENDS VscodeApi, Sequences

CONSTANTS Dicts, MaxLoads,                                 \* of ExternalDictionaries
          Kinds, Signalled, Debounced, MaxChanges, MaxRefreshes, \* of StateViews
          Fsws, Nobody, MaxStarts, MaxDraws                \* of PendingUplink

ASSUME ViewsAssumption ==
    {MaxChanges, MaxRefreshes} \subseteq Nat \ {0} /\ Kinds # {} /\ Signalled \cup Debounced \subseteq Kinds

VARIABLES part, \* which of them
          registered, noted, place, contents, at, todo, added, leaving, crossed, stranded,
          changes, version, stream, push, asked, answer, over, view, lost, newest, calm,
          connected, target, destination, active, drawn, deleted, offered, draw, list, start,
          aim, picked, sure

dictVars == <<registered, noted, place, contents, at, todo, added, leaving, crossed, stranded>>
viewVars == <<changes, version, stream, push, asked, answer, over, view, lost, newest, calm>>
entryVars == <<connected, target, destination, active, drawn, deleted, offered, draw, list,
               start, aim, picked, sure>>
extVars == <<part, vars, dictVars, viewVars, entryVars>>

D == INSTANCE ExternalDictionaries WITH tracked <- noted, current <- place, overlapped <- crossed
V == INSTANCE StateViews
E == INSTANCE PendingUplink

\* Those that a behaviour is not of stay where they begin.
ExtInit ==
    /\ Init /\ D!Init /\ V!Init /\ E!Init
    /\ part # "views" => changes = 0
    /\ part # "entry" => connected = {}

ExtNext ==
    /\ part' = part
    /\ \/ part = "api" /\ Next /\ UNCHANGED <<dictVars, viewVars, entryVars>>
       \/ part = "dictionaries" /\ D!Next /\ UNCHANGED <<vars, viewVars, entryVars>>
       \/ part = "views" /\ V!Next /\ UNCHANGED <<vars, dictVars, entryVars>>
       \/ part = "entry" /\ E!Next /\ UNCHANGED <<vars, dictVars, viewVars>>

\* Nothing the loads of a provider left in an API is out of their reach
\* (ExternalDictionaries).
NothingForgotten == D!TypeOK /\ D!NothingForgotten

\* Once nothing is on its way any more a view shows the host's state, unless the news of
\* it was lost or overwritten; a refresh repairs that (StateViews).
ViewIsCurrent == V!TypeOK /\ V!ViewIsCurrent

\* What the user picked stays the target of an uplink, and an entry that is drawn as an
\* uplink has one under way or failed (PendingUplink).
EntryIsSound == E!TypeOK /\ E!PickIsKept /\ E!ActiveForAReason
=============================================================================
