------------------------- MODULE ExternalDictionaries -------------------------
(***************************************************************************)
(* The dictionaries that an extension finds in the workspace and the core  *)
(* extension keeps in the API for it (registerDictionaryProvider and       *)
(* loadExternalDictionaries, src/extensions/core/src/context.ts).  A load  *)
(* removes what the load before it added, asks the provider, adds what it  *)
(* answers and then notes what it added.  It is started when the provider  *)
(* is registered, when the provider reports a change and when the API is   *)
(* connected elsewhere; nothing keeps two loads apart, and each of their   *)
(* awaits lets other events in.                                            *)
(*                                                                         *)
(* There is one provider: the loads of two share nothing, as long as the   *)
(* ids of their dictionaries differ.                                       *)
(***************************************************************************)
EXTENDS Naturals, FiniteSets

CONSTANTS Dicts,        \* the dictionaries the provider may find
          MaxLoads      \* bound: how many loads are started

Loads == 1 .. MaxLoads

\* What the API stands for: its own cache when it is offline, made anew each
\* time, or the host, which keeps what it was given when it is left.
Apis == {"offline", "host"}

VARIABLES registered,   \* the provider is registered
          tracked,      \* autoDictionariesByProvider
          current,      \* the API
          contents,     \* contents[a]: the dictionaries of the provider it has
          at,           \* at[l]: "none", "removing", "asking", "adding" or "over"
          todo,         \* todo[l]: what is left to remove, or to add
          added,        \* newDictIds
          leaving,      \* removals that the unregistration has issued
          overlapped,   \* history: a load was under way when another one, or the
                        \* unregistration, began
          stranded      \* history: those whose removal did not reach what has them,
                        \* or that an API took but did not say so

vars == <<registered, tracked, current, contents, at, todo, added, leaving, overlapped, stranded>>

UnderWay == {l \in Loads : at[l] \in {"removing", "asking", "adding"}}

TypeOK ==
    /\ registered \in BOOLEAN /\ overlapped \in BOOLEAN
    /\ tracked \subseteq Dicts /\ leaving \subseteq Dicts /\ stranded \subseteq Dicts
    /\ current \in Apis /\ contents \in [Apis -> SUBSET Dicts]
    /\ at \in [Loads -> {"none", "removing", "asking", "adding", "over"}]
    /\ todo \in [Loads -> SUBSET Dicts] /\ added \in [Loads -> SUBSET Dicts]

Init ==
    /\ registered = FALSE /\ overlapped = FALSE
    /\ tracked = {} /\ leaving = {} /\ stranded = {}
    /\ current = "offline" /\ contents = [a \in Apis |-> {}]
    /\ at = [l \in Loads |-> "none"]
    /\ todo = [l \in Loads |-> {}] /\ added = [l \in Loads |-> {}]

-----------------------------------------------------------------------------
\* loadExternalDictionaries(), to its first await.
Begin(l) ==
    /\ at[l] = "none" /\ \A m \in Loads : m < l => at[m] # "none"
    /\ at' = [at EXCEPT ![l] = IF tracked = {} THEN "asking" ELSE "removing"]
    /\ todo' = [todo EXCEPT ![l] = tracked]
    /\ overlapped' = (overlapped \/ UnderWay # {})

\* removeDictionary(d), answered by the API that is current: what another API has
\* stays there.  A failure is logged, and that is all.
Remove(d, fails) ==
    /\ contents' = IF fails THEN contents ELSE [contents EXCEPT ![current] = @ \ {d}]
    /\ stranded' = stranded \cup {e \in {d} : \E a \in Apis : e \in contents'[a]}

Removed(l, d, fails) ==
    /\ at[l] = "removing" /\ d \in todo[l]
    /\ Remove(d, fails)
    /\ todo' = [todo EXCEPT ![l] = @ \ {d}]
    /\ at' = [at EXCEPT ![l] = IF todo[l] = {d} THEN "asking" ELSE @]
    /\ UNCHANGED <<registered, tracked, current, added, leaving, overlapped>>

\* The provider answers.  (No answer is an empty one.)
Provided(l, s) ==
    /\ at[l] = "asking"
    /\ at' = [at EXCEPT ![l] = "adding"]
    /\ todo' = [todo EXCEPT ![l] = s]
    /\ UNCHANGED <<registered, tracked, current, contents, added, leaving, overlapped, stranded>>

\* The provider throws: what was removed stays noted.
Threw(l) ==
    /\ at[l] = "asking"
    /\ at' = [at EXCEPT ![l] = "over"]
    /\ UNCHANGED <<registered, tracked, current, contents, todo, added, leaving, overlapped, stranded>>

\* addDictionary(d): one that fails is passed over, whether the API took it or not.
Added(l, d, fails) ==
    /\ at[l] = "adding" /\ d \in todo[l]
    /\ \E took \in {TRUE, ~fails} :
          /\ contents' = IF took THEN [contents EXCEPT ![current] = @ \cup {d}] ELSE contents
          /\ stranded' = IF took /\ fails THEN stranded \cup {d} ELSE stranded
    /\ added' = IF fails THEN added ELSE [added EXCEPT ![l] = @ \cup {d}]
    /\ todo' = [todo EXCEPT ![l] = @ \ {d}]
    /\ UNCHANGED <<registered, tracked, current, at, leaving, overlapped>>

\* The load notes what it added, in place of whatever is noted.
Finish(l) ==
    /\ at[l] = "adding" /\ todo[l] = {}
    /\ at' = [at EXCEPT ![l] = "over"]
    /\ tracked' = added[l]
    /\ UNCHANGED <<registered, current, contents, todo, added, leaving, overlapped, stranded>>

-----------------------------------------------------------------------------
Register(l) ==
    /\ ~registered /\ registered' = TRUE
    /\ Begin(l)
    /\ UNCHANGED <<tracked, current, contents, added, leaving, stranded>>

\* onExternalDictionariesUpdated.
Updated(l) ==
    /\ registered /\ Begin(l)
    /\ UNCHANGED <<registered, tracked, current, contents, added, leaving, stranded>>

\* The wrapper of the API connects elsewhere and has the context refreshed.
Reconnect(l, a) ==
    /\ current' = a
    /\ contents' = IF a = "offline" THEN [contents EXCEPT ![a] = {}] ELSE contents
    /\ IF registered THEN Begin(l) ELSE UNCHANGED <<at, todo, overlapped>>
    /\ UNCHANGED <<registered, tracked, added, leaving, stranded>>

\* The same that lets go of the dictionaries without removing them.
UnregisterQuietly ==
    /\ registered /\ registered' = FALSE
    /\ tracked' = {}
    /\ overlapped' = (overlapped \/ UnderWay # {})
    /\ UNCHANGED <<current, contents, at, todo, added, leaving, stranded>>

\* dispose() of the registration: the removals are issued and not waited for.
Unregister ==
    /\ registered /\ registered' = FALSE
    /\ leaving' = leaving \cup tracked /\ tracked' = {}
    /\ overlapped' = (overlapped \/ UnderWay # {})
    /\ UNCHANGED <<current, contents, at, todo, added, stranded>>

Left(d, fails) ==
    /\ d \in leaving /\ leaving' = leaving \ {d}
    /\ Remove(d, fails)
    /\ UNCHANGED <<registered, tracked, current, at, todo, added, overlapped>>

\* The user removes a dictionary.
UserRemoves(d) ==
    /\ d \in contents[current]
    /\ contents' = [contents EXCEPT ![current] = @ \ {d}]
    /\ UNCHANGED <<registered, tracked, current, at, todo, added, leaving, overlapped, stranded>>

Next ==
    \/ \E l \in Loads :
         \/ Register(l) \/ Updated(l) \/ Threw(l) \/ Finish(l)
         \/ \E a \in Apis : Reconnect(l, a)
         \/ \E s \in SUBSET Dicts : Provided(l, s)
         \/ \E d \in Dicts, fails \in BOOLEAN : Removed(l, d, fails) \/ Added(l, d, fails)
    \/ Unregister
    \/ \E d \in Dicts : (\E fails \in BOOLEAN : Left(d, fails)) \/ UserRemoves(d)

Spec == Init /\ [][Next]_vars

-----------------------------------------------------------------------------
\* Nothing the provider's loads left in an API, the current one or one to return
\* to, is out of their reach: it is noted, or a load that will note it has added
\* it, or a removal is on its way.  It goes for every order of reconnections,
\* failures and unregistrations, unless a load overlapped another one or the
\* unregistration, a removal did not reach the API that has the dictionary, or an
\* addition failed that the API carried out.
NothingForgotten ==
    ~overlapped =>
        \A a \in Apis : contents[a] \subseteq
            stranded \cup tracked \cup leaving \cup UNION {added[l] : l \in UnderWay}
=============================================================================
