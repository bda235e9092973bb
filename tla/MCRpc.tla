-------------------------------- MODULE MCRpc --------------------------------
(* The gRPC links of the host for TLC: the two patterns of the API client,  *)
(* its subscriptions (RpcStreams) and its requests (RpcRequests), and the   *)
(* link to a client that offers flight software (RpcFsw).  A behaviour is   *)
(* one of one of them.                                                      *)
EXTENDS RpcStreams

CONSTANTS ApiRequests, Chunks,                           \* of RpcRequests
          Requests, Uplinks, Faulty, Cancellable,        \* of RpcFsw
          Capacity, Window, MaxReplies, MaxData, Closes

ASSUME RpcAssumption ==
    /\ {MaxStreams, MaxMessages, Chunks, MaxData, MaxReplies} \subseteq Nat
    /\ {Capacity, Window} \subseteq Nat \ {0}
    /\ Requests \cap Uplinks = {}
    /\ Faulty \subseteq Uplinks /\ Cancellable \subseteq Requests \cup Uplinks
    /\ Closes \subseteq {"eof", "broken"}

VARIABLES part, \* which of the three
          kind, apiCall, promise, hooked, token, loop, sent, accepted,
          packets, qclosed, entries, open, fswCall, next, fed, failing, done, result,
          sender, sending, receiver, reply, link, toClient, replies, task, feeds, panicked

R == INSTANCE RpcRequests WITH call <- apiCall, Requests <- ApiRequests
F == INSTANCE RpcFsw WITH queue <- packets, call <- fswCall

requestVars == <<kind, apiCall, promise, hooked, token, loop, sent, accepted>>
fswVars == <<packets, qclosed, entries, open, fswCall, next, fed, failing, done, result,
             sender, sending, receiver, reply, link, toClient, replies, task, feeds, panicked>>

MCInit == part \in {"fsw", "streams", "requests"} /\ Init /\ R!Init /\ F!Init

MCNext ==
    \/ part = "streams" /\ Next /\ UNCHANGED <<part, requestVars, fswVars>>
    \/ part = "requests" /\ R!Next /\ UNCHANGED <<part, vars, fswVars>>
    \/ part = "fsw" /\ F!Next /\ UNCHANGED <<part, vars, requestVars>>

\* In a behaviour of one of them the others never take a step, nor could they:
\* nothing has been asked of them.
MCSpec ==
    /\ MCInit /\ [][MCNext]_<<part, vars, requestVars, fswVars>>
    /\ Fairness /\ R!Fairness /\ F!Fairness

\* An answer means that the request is over, but for what is named there (RpcRequests).
AnswersAreFinal == R!AnswersAreFinal

\* A caller that cancels gets an answer to everything it asked for (RpcRequests).
CancelAnswers == R!CancelAnswers

\* Both ends of a link to flight software agree on the calls in progress (RpcFsw).
EndsAgree == F!EndsAgree

\* While the stream is up a closed channel is met only by the second reply to a call
\* (RpcFsw).
NoPanic == F!NoPanic

\* No call is lost between the ends of a link that is up, nor do all wait for each other
\* (RpcFsw).
CallsGoOn == F!CallsGoOn

\* What a call looks like from outside.
CallState(c) ==
    CASE fswCall[c] = "idle" -> "new"
      [] fswCall[c] = "returned" -> IF result[c] = "reply" THEN "answered" ELSE "failed"
      [] OTHER -> "asked"

Served == link # "broken" /\ receiver \in {"recv", "deliver"}

C == INSTANCE RemoteCalls
     WITH Calls <- F!Calls, served <- Served, call <- [c \in F!Calls |-> CallState(c)]

\* A link to flight software executes a call at most once and returns its answer: it keeps
\* the promise of RemoteCalls.
KeepsThePromise == C!Spec

\* Every call returns, when the stream ends as well (RpcFsw).
EveryCallReturns == F!EveryCallReturns
=============================================================================
