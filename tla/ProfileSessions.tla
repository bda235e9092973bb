---------------------------- MODULE ProfileSessions ----------------------------
(***************************************************************************)
(* What a profile promises those who start and stop it, without the state, *)
(* the channels and the goroutines of statefulProfile: sessions of the     *)
(* provider come one after the other, one for each start that was          *)
(* accepted; a stop that returns without an error of its own has outlived  *)
(* every session that was there when it was asked; and a start that its    *)
(* caller gave up returns when its session is over.                        *)
(*                                                                         *)
(* Starts may be asked side by side.  While one is in its call another may *)
(* be let in that should have been refused (the profile looks idle until   *)
(* the first session has begun to connect): the two have raced, and from   *)
(* then on nothing is promised.                                            *)
(***************************************************************************)
EXTENDS Naturals

CONSTANTS
  Starters, \* callers of Start
  Stoppers  \* callers of Stop

VARIABLES
  sessions, \* how many have begun
  open,     \* the provider is at work for the last of them
  start,    \* starter -> free, asked, begun, abandoned
  stop,     \* stopper -> free, asked, timed out
  newest,   \* starter -> its session, stopper -> the newest session when it asked
  raced     \* two starts were let in together

vars == <<sessions, open, start, stop, newest, raced>>

Init ==
  /\ sessions = 0 /\ ~open /\ ~raced
  /\ start = [c \in Starters |-> "free"]
  /\ stop = [c \in Stoppers |-> "free"]
  /\ newest = [c \in Starters \cup Stoppers |-> 0]

\* Every session that the call is about is over.
Over(c) == open => sessions > newest[c]

StartMoves(c, from, to) ==
  start[c] = from /\ start' = [start EXCEPT ![c] = to] /\ UNCHANGED <<stop, raced>>

AskStart(c) ==
  /\ StartMoves(c, "free", "asked") /\ ~open
  /\ \A d \in Starters : start[d] # "asked"
  /\ UNCHANGED <<sessions, open, newest>>

Begin(c) ==
  /\ StartMoves(c, "asked", "begun")
  /\ ~open /\ open' = TRUE
  /\ sessions' = sessions + 1
  /\ newest' = [newest EXCEPT ![c] = sessions + 1]

\* The session is up, or has ended already.
AnswerStart(c) == StartMoves(c, "begun", "free") /\ UNCHANGED <<sessions, open, newest>>

Abandon(c) == StartMoves(c, "begun", "abandoned") /\ UNCHANGED <<sessions, open, newest>>

AnswerAbandoned(c) ==
  StartMoves(c, "abandoned", "free") /\ Over(c) /\ UNCHANGED <<sessions, open, newest>>

\* The provider leaves: cancelled, failed or finished.
End ==
  /\ open /\ open' = FALSE
  /\ UNCHANGED <<sessions, start, stop, newest, raced>>

AskStop(c) ==
  /\ stop[c] # "asked"
  /\ stop' = [stop EXCEPT ![c] = "asked"]
  /\ newest' = [newest EXCEPT ![c] = sessions]
  /\ UNCHANGED <<sessions, open, start, raced>>

\* Stopped, or timed out; "timed out" promises nothing.
AnswerStop(c) ==
  /\ stop[c] = "asked"
  /\ \/ stop' = [stop EXCEPT ![c] = "free"] /\ Over(c)
     \/ stop' = [stop EXCEPT ![c] = "timed out"]
  /\ UNCHANGED <<sessions, open, start, newest, raced>>

\* Another start is let in while the first is in its call.
Race(c) ==
  /\ start[c] = "free"
  /\ \E d \in Starters \ {c} : start[d] # "free"
  /\ raced' = TRUE

Next ==
  \/ /\ ~raced
     /\ \/ \E c \in Starters :
             \/ AskStart(c) \/ Begin(c) \/ AnswerStart(c) \/ Abandon(c) \/ AnswerAbandoned(c)
             \/ Race(c)
        \/ \E c \in Stoppers : AskStop(c) \/ AnswerStop(c)
        \/ End
  \/ raced /\ raced'

Spec == Init /\ [][Next]_vars
===============================================================================
