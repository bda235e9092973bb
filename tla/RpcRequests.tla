---------------------------- MODULE RpcRequests ----------------------------
(***************************************************************************)
(* The requests of the API client: the unary calls of Client               *)
(* (src/modules/rpc/src/rpc.ts) and the calls of RpcFsw (fsw.ts), with the *)
(* file uplink, which streams.  Each is a promise around a call of gRPC    *)
(* that the caller's token cancels.  A call is closed when the host's      *)
(* status, or the one of its cancellation, has come; the host keeps an     *)
(* uplink, and the flight software's link with it, until then.             *)
(***************************************************************************)
EXTENDS Integers, FiniteSets

CONSTANTS Requests,     \* the requests of a caller, which share its token
          Chunks        \* bound: the chunks of a file

\* The calls that dispose of their listener on the token when they are answered,
\* those that forget to, and the uplink.
Kinds == {"tracked", "forgetful", "uplink"}

VARIABLES kind,       \* kind[r], "none" before it is made
          call,       \* call[r]: "none", "open", "cancelled" or "closed"
          promise,    \* promise[r]: "none", "pending", "resolved" or "rejected"
          hooked,     \* the requests that listen to the token
          token,      \* whether the token was cancelled
          loop,       \* loop[r] of an uplink: "none", "writing", "reading", "ended", "failed"
          sent,       \* sent[r]: the messages written, the header among them
          accepted    \* accepted[r]: those whose write was called back

vars == <<kind, call, promise, hooked, token, loop, sent, accepted>>

TypeOK ==
    /\ kind \in [Requests -> Kinds \cup {"none"}]
    /\ call \in [Requests -> {"none", "open", "cancelled", "closed"}]
    /\ promise \in [Requests -> {"none", "pending", "resolved", "rejected"}]
    /\ hooked \subseteq Requests /\ token \in BOOLEAN
    /\ loop \in [Requests -> {"none", "writing", "reading", "ended", "failed"}]
    /\ sent \in [Requests -> 0 .. Chunks + 1] /\ accepted \in [Requests -> 0 .. Chunks + 1]

Init ==
    /\ kind = [r \in Requests |-> "none"] /\ call = kind /\ promise = kind /\ loop = kind
    /\ hooked = {} /\ token = FALSE
    /\ sent = [r \in Requests |-> 0] /\ accepted = sent

-----------------------------------------------------------------------------
\* The same that leaves an uplink to itself.
StartUnhooked(r, k) ==
    /\ kind[r] = "none"
    /\ kind' = [kind EXCEPT ![r] = k]
    /\ call' = [call EXCEPT ![r] = "open"]
    /\ promise' = [promise EXCEPT ![r] = "pending"]
    /\ hooked' = IF k = "uplink" THEN hooked ELSE hooked \cup {r}
    /\ loop' = [loop EXCEPT ![r] = IF k = "uplink" THEN "writing" ELSE "none"]
    /\ sent' = [sent EXCEPT ![r] = IF k = "uplink" THEN 1 ELSE 0]
    /\ UNCHANGED <<token, accepted>>

\* The call is made, the token listened to, and the header of an uplink written.
Start(r, k) ==
    /\ kind[r] = "none"
    /\ kind' = [kind EXCEPT ![r] = k]
    /\ call' = [call EXCEPT ![r] = "open"]
    /\ promise' = [promise EXCEPT ![r] = "pending"]
    /\ hooked' = hooked \cup {r}
    /\ loop' = [loop EXCEPT ![r] = IF k = "uplink" THEN "writing" ELSE "none"]
    /\ sent' = [sent EXCEPT ![r] = IF k = "uplink" THEN 1 ELSE 0]
    /\ UNCHANGED <<token, accepted>>

\* The same that forgets the listener of an uplink too.
CalledHooked(r, outcome) ==
    /\ call' = [call EXCEPT ![r] = "closed"]
    /\ promise' = [promise EXCEPT ![r] = IF @ = "pending" THEN outcome ELSE @]
    /\ hooked' = IF kind[r] = "tracked" THEN hooked \ {r} ELSE hooked
    /\ UNCHANGED <<kind, token, loop, sent, accepted>>

\* The callback of the call: a promise is settled once, the first time.
Called(r, outcome) ==
    /\ call' = [call EXCEPT ![r] = "closed"]
    /\ promise' = [promise EXCEPT ![r] = IF @ = "pending" THEN outcome ELSE @]
    /\ hooked' = IF kind[r] = "forgetful" THEN hooked ELSE hooked \ {r}
    /\ UNCHANGED <<kind, token, loop, sent, accepted>>

\* The host answers.  It need not have the end of an uplink's stream: F Prime gives up
\* after a packet that failed and tells the result of the flush instead, so that the
\* caller hears of a success while its loop goes on.
Answer(r) ==
    /\ call[r] \in {"open", "cancelled"}
    /\ Called(r, "resolved")

\* The host refuses, the connection is lost or the cancellation has its effect.
Fail(r) ==
    /\ call[r] \in {"open", "cancelled"}
    /\ Called(r, "rejected")

\* The caller cancels its token; a request made later hears of it as well.
Cancel ==
    /\ ~token /\ token' = TRUE
    /\ call' = [r \in Requests |-> IF r \in hooked /\ call[r] = "open" THEN "cancelled" ELSE call[r]]
    /\ UNCHANGED <<kind, promise, hooked, loop, sent, accepted>>

CancelLate(r) ==
    /\ token /\ call[r] = "open" /\ r \in hooked
    /\ call' = [call EXCEPT ![r] = "cancelled"]
    /\ UNCHANGED <<kind, promise, hooked, token, loop, sent, accepted>>

-----------------------------------------------------------------------------
\* The write of a message is called back; its progress is reported.
Written(r) ==
    /\ loop[r] = "writing"
    /\ accepted' = [accepted EXCEPT ![r] = @ + 1]
    /\ loop' = [loop EXCEPT ![r] = "reading"]
    /\ UNCHANGED <<kind, call, promise, hooked, token, sent>>

\* for await: the next chunk of the file is written.
Chunk(r) ==
    /\ loop[r] = "reading" /\ sent[r] <= Chunks
    /\ sent' = [sent EXCEPT ![r] = @ + 1]
    /\ loop' = [loop EXCEPT ![r] = "writing"]
    /\ UNCHANGED <<kind, call, promise, hooked, token, accepted>>

\* The file has no more chunks: call.end().
End(r) ==
    /\ loop[r] = "reading" /\ sent[r] = Chunks + 1
    /\ loop' = [loop EXCEPT ![r] = "ended"]
    /\ UNCHANGED <<kind, call, promise, hooked, token, sent, accepted>>

\* The file cannot be read, or a write is called back with an error: the promise
\* is rejected, the call left as it is.
ReadFails(r) ==
    /\ loop[r] \in {"reading", "writing"}
    /\ loop[r] = "writing" => call[r] # "open"
    /\ loop' = [loop EXCEPT ![r] = "failed"]
    /\ promise' = [promise EXCEPT ![r] = IF @ = "pending" THEN "rejected" ELSE @]
    /\ UNCHANGED <<kind, call, hooked, token, sent, accepted>>

Next ==
    \/ \E r \in Requests, k \in Kinds : Start(r, k)
    \/ Cancel
    \/ \E r \in Requests :
         \/ Answer(r) \/ Fail(r) \/ CancelLate(r)
         \/ Written(r) \/ Chunk(r) \/ End(r) \/ ReadFails(r)

\* The library calls a cancelled call back, and the token its listeners.
Fairness ==
    \A r \in Requests :
        /\ WF_vars(Fail(r) /\ call[r] = "cancelled")
        /\ WF_vars(CancelLate(r))

Spec == Init /\ [][Next]_vars /\ Fairness

-----------------------------------------------------------------------------
\* A request that was answered holds nothing any more: its call is closed and its
\* listener gone.  Two kinds of request keep something, and no other: the calls
\* that forget their listener, and an uplink whose file could not be read, which
\* leaves its call open until the host or the caller gives it up.  (A success is no
\* proof that the file was sent, nor that its loop has ended: see Answer.)
SettledIsOver ==
    \A r \in Requests :
        promise[r] \in {"resolved", "rejected"} =>
            /\ call[r] # "closed" => loop[r] = "failed"
            /\ r \in hooked => kind[r] = "forgetful" \/ loop[r] = "failed"

\* An answer means that the request is over: nothing of it can be cancelled any more.
AnswersAreFinal == TypeOK /\ SettledIsOver

\* A caller that cancels gets an answer to everything it asked for.
CancelAnswers ==
    \A r \in Requests : token /\ promise[r] = "pending" ~> promise[r] # "pending"
=============================================================================
