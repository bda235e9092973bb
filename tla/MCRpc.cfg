SPECIFICATION MCSpec
CONSTANTS
  Requests = {q1}
  Uplinks = {u1}
  Faulty = {u1}
  Cancellable = {u1}
  Capacity = 1
  Window = 1
  MaxReplies = 2
  MaxData = 1
  Closes = {"eof", "broken"}
  Listeners = {l1, l2}
  MaxStreams = 4
  MaxMessages = 2
  ApiRequests = {r1, r2}
  Chunks = 2
INVARIANTS EndsAgree NoPanic CallsGoOn AnswersAreFinal ListenersHaveStream OneStream
PROPERTIES KeepsThePromise EveryCallReturns CancelAnswers Resubscribed
CHECK_DEADLOCK FALSE
