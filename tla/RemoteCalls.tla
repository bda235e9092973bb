------------------------------ MODULE RemoteCalls ------------------------------
(***************************************************************************)
(* What a link to remote flight software promises, without its channels,  *)
(* goroutines and packets: the client executes a call at most once, and    *)
(* only a call that was made; a call returns with the client's answer,     *)
(* after the client gave it, and without one only when the link is no      *)
(* longer served.  Nothing is promised of a cancelled call that is not     *)
(* promised of any other: it too returns with the client's answer.         *)
(***************************************************************************)
CONSTANT Calls

VARIABLES
  served, \* the link is up, as far as the host is concerned
  call,   \* call -> new, asked, answered, failed
  task    \* call -> what the client makes of it: none, running, replied

vars == <<served, call, task>>

Init ==
  /\ served = TRUE
  /\ call = [c \in Calls |-> "new"]
  /\ task = [c \in Calls |-> "none"]

Ask(c) ==
  /\ call[c] = "new"
  /\ call' = [call EXCEPT ![c] = "asked"]
  /\ UNCHANGED <<served, task>>

\* The client may start late, with a call that has failed by then.
Run(c) ==
  /\ call[c] = "asked" \/ (call[c] = "failed" /\ ~served)
  /\ task[c] = "none"
  /\ task' = [task EXCEPT ![c] = "running"]
  /\ UNCHANGED <<served, call>>

Reply(c) ==
  /\ served /\ call[c] = "asked" /\ task[c] = "running"
  /\ task' = [task EXCEPT ![c] = "replied"]
  /\ UNCHANGED <<served, call>>

Return(c) ==
  /\ call[c] = "asked"
  /\ \/ task[c] = "replied" /\ call' = [call EXCEPT ![c] = "answered"]
     \/ ~served /\ call' = [call EXCEPT ![c] = "failed"]
  /\ UNCHANGED <<served, task>>

Break ==
  /\ served /\ served' = FALSE
  /\ UNCHANGED <<call, task>>

Next == Break \/ \E c \in Calls : Ask(c) \/ Run(c) \/ Reply(c) \/ Return(c)

Spec == Init /\ [][Next]_vars
===============================================================================
