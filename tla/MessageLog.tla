------------------------------ MODULE MessageLog ------------------------------
(***************************************************************************)
(* What the message bus of pkg/host/bus.go promises, without its channel,  *)
(* its goroutine and its map: one log that every emitter appends to.  A    *)
(* handler reads every message appended after it joined, in order, each    *)
(* once, until its context is done - which takes effect after the call     *)
(* that is being made; a waiter takes the first message after it joined    *)
(* that satisfies its predicate.                                           *)
(***************************************************************************)
EXTENDS Naturals, Sequences

CONSTANTS
  Messages,  \* everything that can be emitted
  Matches,   \* the messages the waiters wait for
  Handlers,  \* subscriptions made with On
  Waiters    \* subscriptions made with Wait

VARIABLES
  log,      \* the emitted messages
  members,  \* the subscriptions made
  left,     \* those whose context is done and that are not being called
  base,     \* subscription -> length of the log when it joined
  got       \* subscription -> what it was given

vars == <<log, members, left, base, got>>

Readers == Handlers \cup Waiters

Init ==
  /\ log = <<>> /\ members = {} /\ left = {}
  /\ base = [s \in Readers |-> 0]
  /\ got = [s \in Readers |-> <<>>]

Publish ==
  /\ \E m \in Messages : log' = Append(log, m)
  /\ UNCHANGED <<members, left, base, got>>

Join(s) ==
  /\ s \notin members
  /\ members' = members \cup {s}
  /\ base' = [base EXCEPT ![s] = Len(log)]
  /\ UNCHANGED <<log, left, got>>

Leave ==
  /\ \E S \in SUBSET Readers : left' = left \cup S
  /\ UNCHANGED <<log, members, base, got>>

Deliver(h) ==
  LET next == base[h] + Len(got[h]) + 1 IN
  /\ h \in members \ left
  /\ next <= Len(log)
  /\ got' = [got EXCEPT ![h] = Append(@, log[next])]
  /\ left' = left \/ left' = left \cup {h}
  /\ UNCHANGED <<log, members, base>>

IsFirstMatch(w, i) ==
  /\ i \in base[w] + 1 .. Len(log)
  /\ log[i] \in Matches
  /\ \A j \in base[w] + 1 .. i - 1 : log[j] \notin Matches

Take(w) ==
  /\ w \in members /\ got[w] = <<>>
  /\ \E i \in 1 .. Len(log) : IsFirstMatch(w, i) /\ got' = [got EXCEPT ![w] = <<log[i]>>]
  /\ left' = left \cup {w}
  /\ UNCHANGED <<log, members, base>>

Next ==
  \/ Publish
  \/ Leave
  \/ \E s \in Readers : Join(s)
  \/ \E h \in Handlers : Deliver(h)
  \/ \E w \in Waiters : Take(w)

Spec == Init /\ [][Next]_vars
===============================================================================
