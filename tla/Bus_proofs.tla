------------------------------ MODULE Bus_proofs ------------------------------
(***************************************************************************)
(* Proofs about the message bus (Bus), for any emitters, subscriptions,    *)
(* goroutines that flush or dispose of it, and any capacity of its queue:  *)
(* the loop skips nobody, Flush covers what was queued before it, and the  *)
(* bus implements the one log of MessageLog.                               *)
(***************************************************************************)
EXTENDS Bus, TLAPS, SequenceTheorems, FiniteSetTheorems

Item == [msg : Message \cup {NoMsg}, sub : Subs \cup {NoSub}]

\* The queue and the log.  n[i] is the number of messages up to the i-th item of the
\* queue, those that were taken from it included: it leads from what is handled to the
\* end of the log, and tells where a message stands and where a subscription begins.
InFlight == IF loop \in {"dispatch", "call", "send"} THEN 1 ELSE 0
Taken == handled + InFlight
Numbered(n) ==
  /\ n[0] = Taken /\ n[Len(queue)] = Len(sent)
  /\ \A i, j \in 0 .. Len(queue) : i <= j => n[i] <= n[j]
  /\ \A i \in 1 .. Len(queue) :
       IF IsMsg(queue[i]) THEN n[i] = n[i - 1] + 1 /\ sent[n[i]] = queue[i].msg
                          ELSE n[i] = n[i - 1] /\ joined[queue[i].sub] = n[i]
InOrder == \E n \in [0 .. Len(queue) -> 0 .. Len(sent)] : Numbered(n)

\* A subscription is new, on the queue, once, or past it.
Queued(s) == \E i \in 1 .. Len(queue) : queue[i].sub = s
Place(s) ==
  /\ client[s] = "new" => ~Queued(s) /\ s \notin listeners /\ received[s] = <<>>
  /\ Queued(s) => s \notin listeners /\ received[s] = <<>>
  /\ s \in listeners => joined[s] <= handled
JoinedOnce ==
  /\ \A i, j \in 1 .. Len(queue) : queue[i].sub = queue[j].sub /\ ~IsMsg(queue[i]) => i = j
  /\ \A s \in Subs : Place(s)

\* What the loop is doing.
Rounds ==
  /\ loop \in {"receive", "ended"} => todo = {}
  /\ loop \in {"dispatch", "call", "send"} => current = sent[handled + 1]
  /\ loop = "send" => partner \in listeners /\ partner \in Waiters /\ partner \notin todo
                      /\ current.from \in Matching
  /\ loop = "call" => partner \in listeners /\ partner \in Handlers /\ partner \notin todo
  /\ loop = "call" => joined[partner] + Len(received[partner]) = handled
  /\ loop \notin {"call", "send"} => partner = NoSub
  /\ loop = "ended" => qclosed /\ queue = <<>> /\ listeners = {}

\* No match has passed a waiter that still waits.
Reached(s) == IF InFlight = 1 /\ s \notin todo /\ s # partner THEN handled + 1 ELSE handled
Waits(w) ==
  /\ received[w] # <<>> => client[w] = "matched"
  /\ w \in listeners /\ (~done[w] \/ w = partner) =>
       \A j \in joined[w] + 1 .. Reached(w) : sent[j].from \notin Matching
NoMatchYet == \A w \in Waiters : Waits(w)

\* A handler that was subscribed is on its way to the loop or with it, until the end.
Kept(h) ==
  client[h] = "subscribed" /\ ~done[h] /\ ~panicked =>
    Queued(h) \/ h \in listeners \/ (loop = "ended" /\ joined[h] + Len(received[h]) = handled)
NobodyLost == \A h \in Handlers : Kept(h)

\* wg counts the emitters that are sending and the messages that are not handled.
Sending == {e \in Emitters : emit[e] = "sending"}
Counted ==
  /\ IsFiniteSet(Sending) /\ \A e \in Emitters : emit[e] # "idle" => emitted[e] > 0
  /\ ~panicked => wg = Cardinality(Sending) + Len(sent) - handled

IInv == TypeOK /\ InOrder /\ JoinedOnce /\ Rounds /\ NoMatchYet /\ NobodyLost /\ Counted /\ NothingSkipped

-----------------------------------------------------------------------------
(* The queue.                                                               *)

LEMMA QueueTypes == ASSUME TypeOK PROVE queue \in Seq(Item) /\ Len(queue) \in Nat
BY DEF TypeOK, Item

\* An item at the end.
LEMMA Appended ==
  ASSUME NEW T, NEW q \in Seq(T), NEW x \in T
  PROVE  /\ Append(q, x) \in Seq(T) /\ Len(Append(q, x)) = Len(q) + 1 /\ Len(q) \in Nat
         /\ \A i \in 1 .. Len(q) : Append(q, x)[i] = q[i]
         /\ Append(q, x)[Len(q) + 1] = x
OBVIOUS

\* The first item taken.
LEMMA Shifted ==
  ASSUME NEW T, NEW q \in Seq(T), q # <<>>
  PROVE  /\ Len(q) \in Nat \ {0} /\ Head(q) = q[1] /\ q[1] \in T
         /\ Tail(q) \in Seq(T) /\ Len(Tail(q)) = Len(q) - 1
         /\ \A i \in 1 .. Len(q) - 1 : Tail(q)[i] = q[i + 1]
<1>1. Len(q) \in Nat /\ Len(q) # 0
  OBVIOUS
<1> QED
  BY <1>1

\* What the numbers of the queue say of its ends.
LEMMA Ends ==
  ASSUME TypeOK, InOrder
  PROVE  /\ Taken \in 0 .. Len(sent) /\ handled \in Nat /\ Len(sent) \in Nat
         /\ queue = <<>> => Taken = Len(sent)
         /\ \A s \in Subs : Queued(s) => Taken <= joined[s]
         /\ queue # <<>> /\ IsMsg(Head(queue)) =>
              Taken + 1 \in 1 .. Len(sent) /\ sent[Taken + 1] = Head(queue).msg
         /\ queue # <<>> /\ ~IsMsg(Head(queue)) => joined[Head(queue).sub] = Taken
<1>1. PICK n \in [0 .. Len(queue) -> 0 .. Len(sent)] : Numbered(n)
  BY DEF InOrder
<1>2. Len(queue) \in Nat /\ Len(sent) \in Nat /\ handled \in Nat
  BY DEF TypeOK
<1>3. n[0] = Taken /\ n[0] \in 0 .. Len(sent) /\ n[Len(queue)] = Len(sent)
  BY <1>1, <1>2 DEF Numbered
<1>4. queue = <<>> => Taken = Len(sent)
  BY <1>3
<1>5. \A s \in Subs : Queued(s) => Taken <= joined[s]
  <2> SUFFICES ASSUME NEW s \in Subs, NEW i \in 1 .. Len(queue), queue[i].sub = s PROVE Taken <= joined[s]
    BY DEF Queued
  <2>1. ~IsMsg(queue[i])
    BY BusAssumption DEF IsMsg, Subs
  <2>2. joined[s] = n[i] /\ n[0] <= n[i]
    BY <1>1, <1>2, <2>1 DEF Numbered
  <2> QED
    BY <1>3, <2>2
<1>6. ASSUME queue # <<>>
      PROVE  /\ IsMsg(Head(queue)) => Taken + 1 \in 1 .. Len(sent) /\ sent[Taken + 1] = Head(queue).msg
             /\ ~IsMsg(Head(queue)) => joined[Head(queue).sub] = Taken
  <2>1. Len(queue) \in Nat \ {0} /\ Head(queue) = queue[1]
    BY <1>6, QueueTypes, Shifted
  <2>2. 1 \in 1 .. Len(queue) /\ n[1] \in 0 .. Len(sent) /\ n[1 - 1] = Taken
    BY <1>2, <1>3, <2>1
  <2>3. IF IsMsg(queue[1]) THEN n[1] = Taken + 1 /\ sent[n[1]] = queue[1].msg
                           ELSE n[1] = Taken /\ joined[queue[1].sub] = n[1]
    BY <1>1, <2>2 DEF Numbered
  <2> QED
    BY <1>2, <1>3, <2>1, <2>2, <2>3
<1> QED
  BY <1>2, <1>3, <1>4, <1>5, <1>6

\* A step that touches neither the queue nor the log.
LEMMA OrderSame ==
  ASSUME InOrder, UNCHANGED <<queue, sent>>, Taken' = Taken,
         \A i \in 1 .. Len(queue) : ~IsMsg(queue[i]) => joined'[queue[i].sub] = joined[queue[i].sub]
  PROVE  InOrder'
<1>1. PICK n \in [0 .. Len(queue) -> 0 .. Len(sent)] : Numbered(n)
  BY DEF InOrder
<1>2. Numbered(n)'
  BY <1>1 DEF Numbered
<1> QED
  BY <1>2 DEF InOrder

\* A message or a subscription is put on the queue.
LEMMA OrderGrows ==
  ASSUME TypeOK, InOrder, Taken' = Taken, NEW item \in Item, queue' = Append(queue, item),
         IF IsMsg(item) THEN sent' = Append(sent, item.msg) /\ item.msg \in Message /\ joined' = joined
         ELSE sent' = sent /\ ~Queued(item.sub) /\ joined' = [joined EXCEPT ![item.sub] = Len(sent)]
  PROVE  InOrder'
<1>1. PICK n \in [0 .. Len(queue) -> 0 .. Len(sent)] : Numbered(n)
  BY DEF InOrder
<1>2. PICK k \in Nat : k = Len(queue)
  BY DEF TypeOK
<1>3. PICK l \in Nat : l = Len(sent)
  BY DEF TypeOK
<1>4. PICK m \in Nat : m = Len(sent')
  BY <1>3 DEF TypeOK
<1>5. /\ m = (IF IsMsg(item) THEN l + 1 ELSE l)
      /\ \A i \in 1 .. l : sent'[i] = sent[i]
      /\ IsMsg(item) => sent'[l + 1] = item.msg
  <2>1. sent \in Seq(Message)
    BY DEF TypeOK
  <2>2. CASE IsMsg(item)
    BY <1>3, <1>4, <2>1, <2>2, Appended
  <2>3. CASE ~IsMsg(item)
    BY <1>3, <1>4, <2>3
  <2> QED
    BY <2>2, <2>3
<1>6. /\ Len(queue') = k + 1 /\ queue'[k + 1] = item
      /\ \A i \in 1 .. k : queue'[i] = queue[i]
  BY <1>2, QueueTypes, Appended
<1>7. \A i \in 1 .. k : queue[i] \in Item
  BY <1>2, QueueTypes
<1>8. \A i \in 1 .. k : ~IsMsg(queue[i]) => joined'[queue[i].sub] = joined[queue[i].sub]
  <2> SUFFICES ASSUME NEW i \in 1 .. k, ~IsMsg(queue[i])
               PROVE  joined'[queue[i].sub] = joined[queue[i].sub]
    OBVIOUS
  <2>1. queue[i].sub \in Subs
    BY <1>7 DEF Item, IsMsg
  <2>2. ~IsMsg(item) => queue[i].sub # item.sub
    BY <1>2 DEF Queued
  <2>3. DOMAIN joined = Subs
    BY DEF TypeOK
  <2> QED
    BY <2>1, <2>2, <2>3
<1>9. ~IsMsg(item) => joined'[item.sub] = l
  BY <1>3 DEF TypeOK, Item, IsMsg
<1> DEFINE f == [i \in 0 .. k + 1 |-> IF i <= k THEN n[i] ELSE m]
<1>10. /\ \A i \in 0 .. k : n[i] \in 0 .. l /\ f[i] = n[i]
       /\ f[k + 1] = m /\ f \in [0 .. k + 1 -> 0 .. m]
  <2>1. \A i \in 0 .. k : n[i] \in 0 .. l
    BY <1>1, <1>2, <1>3
  <2>2. \A i \in 0 .. k + 1 : i <= k => i \in 0 .. k
    BY <1>2
  <2>3. l <= m
    BY <1>3, <1>5
  <2>4. \A i \in 0 .. k + 1 : (IF i <= k THEN n[i] ELSE m) \in 0 .. m
    BY <1>3, <1>4, <2>1, <2>2, <2>3
  <2>5. k + 1 \in 0 .. k + 1 /\ ~(k + 1 <= k) /\ \A i \in 0 .. k : i \in 0 .. k + 1 /\ i <= k
    BY <1>2
  <2> QED
    BY <2>1, <2>4, <2>5
<1>11. /\ n[0] = Taken /\ n[k] = l
       /\ \A i, j \in 0 .. k : i <= j => n[i] <= n[j]
  BY <1>1, <1>2, <1>3 DEF Numbered
<1>n. \A i \in 1 .. k :
        IF IsMsg(queue[i]) THEN n[i] = n[i - 1] + 1 /\ sent[n[i]] = queue[i].msg
                           ELSE n[i] = n[i - 1] /\ joined[queue[i].sub] = n[i]
  BY <1>1, <1>2 DEF Numbered
<1> HIDE DEF f
<1>12. f[0] = Taken' /\ f[k + 1] = m
  BY <1>2, <1>10, <1>11
<1>13. \A i, j \in 0 .. k + 1 : i <= j => f[i] <= f[j]
  <2> SUFFICES ASSUME NEW i \in 0 .. k + 1, NEW j \in 0 .. k + 1, i <= j PROVE f[i] <= f[j]
    OBVIOUS
  <2>1. f[k + 1] = m /\ l <= m /\ (i \in 0 .. k \/ i = k + 1) /\ (j \in 0 .. k \/ j = k + 1)
    BY <1>2, <1>3, <1>5, <1>10
  <2>2. CASE j \in 0 .. k
    <3>1. i \in 0 .. k
      BY <1>2, <2>1, <2>2
    <3> QED
      BY <1>10, <1>11, <2>2, <3>1
  <2>3. CASE j = k + 1
    <3>1. i \in 0 .. k => f[i] \in 0 .. l
      BY <1>10
    <3> QED
      BY <1>3, <1>4, <2>1, <2>3, <3>1
  <2> QED
    BY <2>1, <2>2, <2>3
<1>14. ASSUME NEW i \in 1 .. k + 1
       PROVE  IF IsMsg(queue'[i]) THEN f[i] = f[i - 1] + 1 /\ sent'[f[i]] = queue'[i].msg
                                  ELSE f[i] = f[i - 1] /\ joined'[queue'[i].sub] = f[i]
  <2>1. CASE i = k + 1
    BY <1>2, <1>3, <1>5, <1>6, <1>9, <1>10, <1>11, <2>1
  <2>2. CASE i \in 1 .. k
    <3>1. queue'[i] = queue[i] /\ f[i] = n[i] /\ f[i - 1] = n[i - 1] /\ n[i] \in 0 .. l /\ n[i - 1] \in 0 .. l
      BY <1>2, <1>6, <1>10, <2>2
    <3>2. CASE IsMsg(queue[i])
      <4>1. n[i] = n[i - 1] + 1 /\ sent[n[i]] = queue[i].msg
        BY <1>n, <2>2, <3>2
      <4>2. n[i] \in 1 .. l
        BY <3>1, <4>1
      <4> QED
        BY <1>5, <3>1, <3>2, <4>1, <4>2
    <3>3. CASE ~IsMsg(queue[i])
      BY <1>8, <1>n, <2>2, <3>1, <3>3
    <3> QED
      BY <3>2, <3>3
  <2> QED
    BY <1>2, <2>1, <2>2
<1>15. Numbered(f)'
  <2>1. f' = f
    BY DEF f
  <2> QED
    BY <1>4, <1>6, <1>12, <1>13, <1>14, <2>1 DEF Numbered
<1> QED
  BY <1>4, <1>6, <1>10, <1>15 DEF InOrder

\* The first item is taken from the queue: a message is in flight then.
LEMMA OrderShrinks ==
  ASSUME TypeOK, InOrder, queue # <<>>, queue' = Tail(queue), UNCHANGED <<sent, joined>>,
         Taken' = IF IsMsg(Head(queue)) THEN Taken + 1 ELSE Taken
  PROVE  InOrder'
<1>1. PICK n \in [0 .. Len(queue) -> 0 .. Len(sent)] : Numbered(n)
  BY DEF InOrder
<1>2. PICK k \in Nat \ {0} : k = Len(queue)
  BY QueueTypes, Shifted
<1>3. PICK l \in Nat : l = Len(sent)
  BY DEF TypeOK
<1>4. Len(queue') = k - 1 /\ Head(queue) = queue[1] /\ \A i \in 1 .. k - 1 : queue'[i] = queue[i + 1]
  BY <1>2, QueueTypes, Shifted
<1> DEFINE f == [i \in 0 .. k - 1 |-> n[i + 1]]
<1>5. f \in [0 .. k - 1 -> 0 .. l] /\ \A i \in 0 .. k - 1 : f[i] = n[i + 1]
  BY <1>1, <1>2, <1>3
<1>6. /\ n[0] = Taken /\ n[k] = l
      /\ \A i, j \in 0 .. k : i <= j => n[i] <= n[j]
      /\ \A i \in 1 .. k :
           IF IsMsg(queue[i]) THEN n[i] = n[i - 1] + 1 /\ sent[n[i]] = queue[i].msg
                              ELSE n[i] = n[i - 1] /\ joined[queue[i].sub] = n[i]
  BY <1>1, <1>2, <1>3 DEF Numbered
<1> HIDE DEF f
<1>7. f[0] = Taken' /\ f[k - 1] = l
  <2>1. IF IsMsg(queue[1]) THEN n[1] = n[0] + 1 ELSE n[1] = n[0]
    BY <1>2, <1>6
  <2> QED
    BY <1>2, <1>4, <1>5, <1>6, <2>1
<1>8. \A i, j \in 0 .. k - 1 : i <= j => f[i] <= f[j]
  BY <1>2, <1>5, <1>6
<1>9. \A i \in 1 .. k - 1 :
        IF IsMsg(queue'[i]) THEN f[i] = f[i - 1] + 1 /\ sent[f[i]] = queue'[i].msg
                            ELSE f[i] = f[i - 1] /\ joined[queue'[i].sub] = f[i]
  BY <1>2, <1>4, <1>5, <1>6
<1>10. Numbered(f)'
  <2>1. f' = f
    BY DEF f
  <2> QED
    BY <1>3, <1>4, <1>7, <1>8, <1>9, <2>1 DEF Numbered
<1> QED
  BY <1>3, <1>4, <1>5, <1>10 DEF InOrder

\* A subscription on the queue is not a message; no name of one is NoSub.
LEMMA SubsAreNamed == NoSub \notin Subs /\ Handlers \subseteq Subs /\ Waiters \subseteq Subs /\ Handlers \cap Waiters = {}
BY BusAssumption DEF Subs

\* What is queued when an item is added or taken.
LEMMA QueuedGrows ==
  ASSUME TypeOK, NEW item \in Item, queue' = Append(queue, item)
  PROVE  \A s \in Subs : Queued(s)' <=> Queued(s) \/ s = item.sub
<1>1. PICK k \in Nat : k = Len(queue)
  BY DEF TypeOK
<1>2. Len(queue') = k + 1 /\ queue'[k + 1] = item /\ \A i \in 1 .. k : queue'[i] = queue[i]
  BY <1>1, QueueTypes, Appended
<1>3. \A i : i \in 1 .. k + 1 <=> i \in 1 .. k \/ i = k + 1
  BY <1>1
<1> QED
  BY <1>1, <1>2, <1>3 DEF Queued

LEMMA QueuedShrinks ==
  ASSUME TypeOK, queue # <<>>, queue' = Tail(queue)
  PROVE  /\ \A s \in Subs : Queued(s) <=> Queued(s)' \/ s = Head(queue).sub
         /\ JoinedOnce => \A s \in Subs : s = Head(queue).sub => ~Queued(s)'
         /\ JoinedOnce =>
              \A i, j \in 1 .. Len(queue') : queue'[i].sub = queue'[j].sub /\ ~IsMsg(queue'[i]) => i = j
<1>1. PICK k \in Nat \ {0} : k = Len(queue)
  BY QueueTypes, Shifted
<1>2. Len(queue') = k - 1 /\ Head(queue) = queue[1] /\ \A i \in 1 .. k - 1 : queue'[i] = queue[i + 1]
  BY <1>1, QueueTypes, Shifted
<1>3. 1 \in 1 .. k /\ \A i \in 1 .. k - 1 : i + 1 \in 1 .. k /\ i + 1 # 1
  BY <1>1
<1>4. \A s \in Subs : Queued(s) => Queued(s)' \/ s = queue[1].sub
  <2> SUFFICES ASSUME NEW s \in Subs, NEW i \in 1 .. k, queue[i].sub = s, i # 1 PROVE Queued(s)'
    BY <1>1 DEF Queued
  <2>1. i - 1 \in 1 .. k - 1 /\ queue'[i - 1] = queue[i]
    BY <1>1, <1>2
  <2> QED
    BY <1>2, <2>1 DEF Queued
<1>5. \A s \in Subs : Queued(s)' \/ s = queue[1].sub => Queued(s)
  BY <1>1, <1>2, <1>3 DEF Queued
<1>6. JoinedOnce => \A s \in Subs : s = queue[1].sub => ~Queued(s)'
  BY <1>1, <1>2, <1>3, SubsAreNamed DEF Queued, JoinedOnce, IsMsg
<1>7. JoinedOnce => \A i, j \in 1 .. k - 1 : queue'[i].sub = queue'[j].sub /\ ~IsMsg(queue'[i]) => i = j
  <2> SUFFICES ASSUME JoinedOnce, NEW i \in 1 .. k - 1, NEW j \in 1 .. k - 1,
                      queue'[i].sub = queue'[j].sub, ~IsMsg(queue'[i])
               PROVE  i = j
    OBVIOUS
  <2>1. i + 1 = j + 1
    BY <1>1, <1>2, <1>3 DEF JoinedOnce
  <2> QED
    BY <1>1, <2>1
<1> QED
  BY <1>2, <1>4, <1>5, <1>6, <1>7

\* Items that are added stay unique.
LEMMA OnceGrows ==
  ASSUME TypeOK, JoinedOnce, NEW item \in Item, queue' = Append(queue, item), IsMsg(item) \/ ~Queued(item.sub)
  PROVE  \A i, j \in 1 .. Len(queue') : queue'[i].sub = queue'[j].sub /\ ~IsMsg(queue'[i]) => i = j
<1>1. PICK k \in Nat : k = Len(queue)
  BY DEF TypeOK
<1>2. Len(queue') = k + 1 /\ queue'[k + 1] = item /\ \A i \in 1 .. k : queue'[i] = queue[i]
  BY <1>1, QueueTypes, Appended
<1>3. \A i : i \in 1 .. k + 1 <=> i \in 1 .. k \/ i = k + 1
  BY <1>1
<1>4. \A i, j \in 1 .. k : queue[i].sub = queue[j].sub /\ ~IsMsg(queue[i]) => i = j
  BY <1>1 DEF JoinedOnce
<1>5. \A i \in 1 .. k : queue[i].sub = item.sub => IsMsg(item)
  BY <1>1 DEF Queued
<1> QED
  BY <1>2, <1>3, <1>4, <1>5 DEF IsMsg

-----------------------------------------------------------------------------
(* The invariant is kept.                                                   *)

LEMMA InitIInv == Init => IInv
<1> SUFFICES ASSUME Init PROVE IInv
  OBVIOUS
<1> USE DEF Init
<1>1. /\ queue = <<>> /\ Len(queue) = 0 /\ sent = <<>> /\ Len(sent) = 0 /\ handled = 0 /\ loop = "receive"
      /\ Taken = 0 /\ InFlight = 0 /\ listeners = {} /\ todo = {} /\ \A s \in Subs : ~Queued(s)
  BY DEF Taken, InFlight, Queued
<1>2. TypeOK
  <2>1. MaxEmits \in Nat /\ Capacity \in Nat
    BY BusAssumption
  <2>2. /\ queue \in Seq([msg : Message \cup {NoMsg}, sub : Subs \cup {NoSub}]) /\ Len(queue) <= Capacity
        /\ sent \in Seq(Message) /\ received \in [Subs -> Seq(Message)]
    BY <1>1, <2>1
  <2>3. /\ handled \in 0 .. Len(sent) /\ joined \in [Subs -> 0 .. Len(sent)]
        /\ flushed \in [Flushers -> 0 .. Len(sent)] /\ emitted \in [Emitters -> 0 .. MaxEmits] /\ wg \in Nat
    BY <1>1, <2>1
  <2> QED
    BY <1>1, <2>2, <2>3 DEF TypeOK
<1>3. InOrder
  <2> DEFINE f == [i \in 0 .. 0 |-> 0]
  <2>1. f \in [0 .. Len(queue) -> 0 .. Len(sent)] /\ f[0] = 0
    BY <1>1
  <2> HIDE DEF f
  <2>2. Numbered(f)
    <3>1. \A i \in 0 .. 0 : i = 0
      OBVIOUS
    <3> QED
      BY <1>1, <2>1, <3>1 DEF Numbered
  <2> QED
    BY <2>1, <2>2 DEF InOrder
<1>4. JoinedOnce
  BY <1>1 DEF JoinedOnce, Place
<1>5. Rounds /\ NobodyLost /\ NoMatchYet
  BY <1>1, SubsAreNamed DEF Rounds, NobodyLost, Kept, NoMatchYet, Waits
<1>6. Counted
  <2>1. Sending = {}
    BY DEF Sending
  <2> QED
    BY <1>1, <2>1, FS_EmptySet DEF Counted
<1>7. NothingSkipped
  BY <1>1 DEF NothingSkipped
<1> QED
  BY <1>2, <1>3, <1>4, <1>5, <1>6, <1>7 DEF IInv

\* What the loop and the subscriptions agree on depends on their variables alone.
LEMMA Quiet ==
  ASSUME IInv, UNCHANGED <<queue, loopVars, done, client, sent, handled, joined, received>>,
         qclosed => qclosed', panicked => panicked'
  PROVE  InOrder' /\ JoinedOnce' /\ Rounds' /\ NoMatchYet' /\ NobodyLost' /\ NothingSkipped'
<1> USE DEF loopVars
<1>1. InFlight' = InFlight /\ Taken' = Taken /\ \A s : Queued(s)' <=> Queued(s)
  BY DEF InFlight, Taken, Queued
<1>2. InOrder'
  BY <1>1, OrderSame DEF IInv
<1>3. JoinedOnce'
  BY <1>1 DEF IInv, JoinedOnce, Place
<1>4. Rounds'
  BY DEF IInv, Rounds
<1>5. NoMatchYet'
  BY <1>1 DEF IInv, NoMatchYet, Waits, Reached
<1>6. NobodyLost'
  BY <1>1 DEF IInv, NobodyLost, Kept
<1>7. NothingSkipped'
  BY DEF IInv, NothingSkipped
<1> QED
  BY <1>2, <1>3, <1>4, <1>5, <1>6, <1>7

\* The calls that put nothing on the queue.
LEMMA CallsKeep ==
  ASSUME IInv, \/ \E e \in Emitters : EmitBegin(e) \/ EmitAdd(e)
               \/ \E f \in Flushers : FlushBegin(f) \/ FlushEnd(f)
               \/ \E d \in Disposers : DisposeCheck(d) \/ DisposeMark(d) \/ DisposeClose(d)
  PROVE  IInv'
<1> USE DEF chanVars, loopVars, subVars, callVars, history
<1>1. ASSUME NEW e \in Emitters, EmitAdd(e) PROVE IInv'
  <2>1. /\ emit' = [emit EXCEPT ![e] = "sending"] /\ emit[e] = "open" /\ wg' = wg + 1
        /\ UNCHANGED <<queue, qclosed, closed, panicked, loopVars, subVars, emitted, flush, disposing, history>>
    BY <1>1 DEF EmitAdd
  <2>2. emit' \in [Emitters -> {"idle", "open", "sending"}] /\ wg' \in Nat
    BY <2>1 DEF IInv, TypeOK
  <2>3. TypeOK'
    BY <2>1, <2>2 DEF IInv, TypeOK
  <2>4. Counted'
    <3>1. Sending' = Sending \cup {e} /\ e \notin Sending /\ IsFiniteSet(Sending)
      BY <2>1 DEF Sending, IInv, TypeOK, Counted
    <3>2. IsFiniteSet(Sending') /\ Cardinality(Sending') = Cardinality(Sending) + 1
          /\ Cardinality(Sending) \in Nat
      BY <3>1, FS_AddElement, FS_CardinalityType
    <3>3. \A x \in Emitters : emit'[x] # "idle" => emitted'[x] > 0
      BY <2>1 DEF IInv, TypeOK, Counted
    <3>4. wg \in Nat /\ Len(sent) \in Nat /\ handled \in Nat
      BY DEF IInv, TypeOK
    <3>5. ~panicked => wg = Cardinality(Sending) + Len(sent) - handled
      BY DEF IInv, Counted
    <3>6. ~panicked => wg + 1 = Cardinality(Sending') + Len(sent) - handled
      BY <3>2, <3>4, <3>5
    <3> QED
      BY <2>1, <3>2, <3>3, <3>6 DEF Counted
  <2> QED
    BY <2>1, <2>3, <2>4, Quiet DEF IInv
<1>3. ASSUME NEW e \in Emitters, EmitBegin(e) PROVE IInv'
  <2>1. /\ emit' = [emit EXCEPT ![e] = "open"] /\ emitted' = [emitted EXCEPT ![e] = @ + 1]
        /\ emit[e] = "idle" /\ emitted[e] < MaxEmits
        /\ UNCHANGED <<chanVars, loopVars, subVars, flush, disposing, history>>
    BY <1>3 DEF EmitBegin
  <2>2. emit' \in [Emitters -> {"idle", "open", "sending"}] /\ emitted' \in [Emitters -> 0 .. MaxEmits]
    BY <2>1, BusAssumption DEF IInv, TypeOK
  <2>3. TypeOK'
    BY <2>1, <2>2 DEF IInv, TypeOK
  <2>4. Sending' = Sending
    BY <2>1 DEF Sending, IInv, TypeOK
  <2>5. \A x \in Emitters : emit'[x] # "idle" => emitted'[x] > 0
    BY <2>1 DEF IInv, TypeOK, Counted
  <2>6. Counted'
    BY <2>1, <2>4, <2>5 DEF IInv, Counted
  <2> QED
    BY <2>1, <2>3, <2>6, Quiet DEF IInv
<1>2. ASSUME \/ \E f \in Flushers : FlushBegin(f) \/ FlushEnd(f)
             \/ \E d \in Disposers : DisposeCheck(d) \/ DisposeMark(d) \/ DisposeClose(d)
      PROVE  IInv'
  <2>1. /\ UNCHANGED <<queue, loopVars, subVars, wg, emit, emitted, sent, handled, joined, received>>
        /\ qclosed => qclosed'
        /\ panicked => panicked'
    BY <1>2 DEF FlushBegin, FlushEnd, DisposeCheck, DisposeMark, DisposeClose
  <2>2. /\ qclosed' \in BOOLEAN /\ closed' \in BOOLEAN /\ panicked' \in BOOLEAN
        /\ flush' \in [Flushers -> BOOLEAN] /\ flushed' \in [Flushers -> 0 .. Len(sent)]
        /\ disposing' \in [Disposers -> {"no", "checked", "marked"}]
    <3>1. qclosed \in BOOLEAN /\ closed \in BOOLEAN /\ panicked \in BOOLEAN /\ Len(sent) \in 0 .. Len(sent)
      BY DEF IInv, TypeOK
    <3>2. /\ flush \in [Flushers -> BOOLEAN] /\ flushed \in [Flushers -> 0 .. Len(sent)]
          /\ disposing \in [Disposers -> {"no", "checked", "marked"}]
      BY DEF IInv, TypeOK
    <3> QED
      BY <1>2, <3>1, <3>2 DEF FlushBegin, FlushEnd, DisposeCheck, DisposeMark, DisposeClose
  <2>3. TypeOK'
    BY <2>1, <2>2 DEF IInv, TypeOK
  <2>4. Counted'
    BY <2>1 DEF IInv, Counted, Sending
  <2> QED
    BY <2>1, <2>3, <2>4, Quiet DEF IInv
<1> QED
  BY <1>1, <1>2, <1>3

\* The goroutines of the subscribers, away from the queue.
LEMMA ClientsKeep ==
  ASSUME IInv, \/ \E s \in Subs : CancelContext(s)
               \/ \E w \in Waiters : WaitClosed(w) \/ WaitAbandoned(w)
  PROVE  IInv'
<1> USE DEF chanVars, loopVars, subVars, callVars, history
<1>1. /\ UNCHANGED <<chanVars, loopVars, cleaned, callVars, history>>
      /\ \A s \in Subs : /\ done[s] => done'[s]
                         /\ client'[s] = client[s] \/ (client[s] = "subscribed" /\ client'[s] \in {"closed", "gone"})
      /\ done' \in [Subs -> BOOLEAN]
      /\ client' \in [Subs -> {"new", "subscribed", "matched", "closed", "gone"}]
  <2>1. done \in [Subs -> BOOLEAN] /\ client \in [Subs -> {"new", "subscribed", "matched", "closed", "gone"}]
    BY DEF IInv, TypeOK
  <2>2. CASE \E s \in Subs : CancelContext(s)
    BY <2>1, <2>2 DEF CancelContext
  <2>3. CASE \E w \in Waiters : WaitClosed(w) \/ WaitAbandoned(w)
    BY <2>1, <2>3, SubsAreNamed DEF WaitClosed, WaitAbandoned
  <2> QED
    BY <2>2, <2>3
<1>2. InFlight' = InFlight /\ Taken' = Taken /\ \A s : Queued(s)' <=> Queued(s)
  BY <1>1 DEF InFlight, Taken, Queued
<1>3. TypeOK'
  BY <1>1 DEF IInv, TypeOK
<1>4. InOrder'
  BY <1>1, <1>2, OrderSame DEF IInv
<1>5. JoinedOnce'
  BY <1>1, <1>2 DEF IInv, JoinedOnce, Place
<1>6. Rounds' /\ Counted'
  BY <1>1 DEF IInv, Rounds, Counted, Sending
<1>7. NoMatchYet'
  BY <1>1, <1>2, SubsAreNamed DEF IInv, NoMatchYet, Waits, Reached
<1>8. NobodyLost'
  BY <1>1, <1>2, SubsAreNamed DEF IInv, NobodyLost, Kept
<1>9. NothingSkipped'
  BY <1>1, SubsAreNamed DEF IInv, NothingSkipped
<1> QED
  BY <1>3, <1>4, <1>5, <1>6, <1>7, <1>8, <1>9 DEF IInv

\* A message is put on the queue, or the send panics.
LEMMA EmitSendKeeps ==
  ASSUME IInv, NEW e \in Emitters, EmitSend(e)
  PROVE  IInv'
<1> USE DEF chanVars, loopVars, subVars, callVars, history
<1> DEFINE m == [from |-> e, seq |-> emitted[e]]
<1>1. /\ ~panicked /\ emit[e] = "sending" /\ emit' = [emit EXCEPT ![e] = "idle"]
      /\ UNCHANGED <<qclosed, closed, wg, loopVars, subVars, emitted, flush, disposing,
                     handled, joined, received, flushed>>
      /\ sent' = IF qclosed THEN sent ELSE Append(sent, m)
      /\ Put(MsgItem(m))
  BY DEF EmitSend
<1>2. e \in Sending /\ Sending' = Sending \ {e} /\ emit' \in [Emitters -> {"idle", "open", "sending"}]
  BY <1>1 DEF Sending, IInv, TypeOK
<1>3. /\ IsFiniteSet(Sending') /\ Cardinality(Sending') = Cardinality(Sending) - 1
      /\ Cardinality(Sending) \in Nat /\ \A x \in Emitters : emit'[x] # "idle" => emitted'[x] > 0
  BY <1>1, <1>2, FS_RemoveElement, FS_CardinalityType DEF IInv, Counted, TypeOK
<1>4. CASE qclosed
  <2>1. panicked' = TRUE /\ queue' = queue /\ sent' = sent
    BY <1>1, <1>4 DEF Put
  <2>2. TypeOK'
    BY <1>1, <1>2, <2>1 DEF IInv, TypeOK
  <2>3. Counted'
    BY <1>3, <2>1 DEF Counted
  <2> QED
    BY <1>1, <2>1, <2>2, <2>3, Quiet DEF IInv
<1>5. CASE ~qclosed
  <2> DEFINE item == MsgItem(m)
  <2>1. Len(queue) < Capacity /\ queue' = Append(queue, item) /\ panicked' = panicked /\ sent' = Append(sent, m)
    BY <1>1, <1>5 DEF Put
  <2>2. m \in Message /\ sent \in Seq(Message)
    <3>1. emitted[e] \in 0 .. MaxEmits /\ emitted[e] > 0
      BY <1>1 DEF IInv, TypeOK, Counted
    <3>2. emitted[e] \in 1 .. MaxEmits
      BY <3>1, BusAssumption
    <3> QED
      BY <3>2 DEF IInv, TypeOK, Message
  <2>3. item \in Item /\ IsMsg(item) /\ item.msg = m
    BY <2>2 DEF Item, MsgItem, IsMsg
  <2> HIDE DEF m, item
  <2>4. queue' \in Seq(Item) /\ Len(queue') = Len(queue) + 1 /\ Len(queue) \in Nat
    BY <2>1, <2>3, QueueTypes, Appended DEF IInv
  <2>5. /\ sent' \in Seq(Message) /\ Len(sent') = Len(sent) + 1 /\ Len(sent) \in Nat
        /\ \A i \in 1 .. Len(sent) : sent'[i] = sent[i]
    BY <2>1, <2>2, Appended
  <2>6. /\ handled' \in 0 .. Len(sent') /\ joined' \in [Subs -> 0 .. Len(sent')]
        /\ flushed' \in [Flushers -> 0 .. Len(sent')]
    BY <1>1, <2>5 DEF IInv, TypeOK
  <2>7. Len(queue') <= Capacity
    BY <2>1, <2>4, BusAssumption
  <2>8. TypeOK'
    BY <1>1, <1>2, <2>1, <2>4, <2>5, <2>6, <2>7 DEF IInv, TypeOK, Item
  <2>9. InFlight' = InFlight /\ Taken' = Taken
    BY <1>1 DEF InFlight, Taken
  <2>10. InOrder'
    BY <1>1, <2>1, <2>2, <2>3, <2>9, OrderGrows DEF IInv
  <2>11. \A s \in Subs : Queued(s)' <=> Queued(s)
    BY <2>1, <2>3, QueuedGrows, SubsAreNamed DEF IInv, IsMsg
  <2>12. JoinedOnce'
    BY <1>1, <2>1, <2>3, <2>11, OnceGrows DEF IInv, JoinedOnce, Place
  <2>13. Taken \in 0 .. Len(sent) /\ handled \in Nat
    BY Ends DEF IInv
  <2>14. Rounds'
    <3>1. loop \in {"dispatch", "call", "send"} => sent'[handled + 1] = sent[handled + 1]
      BY <2>5, <2>13 DEF Taken, InFlight
    <3> QED
      BY <1>1, <1>5, <3>1 DEF IInv, Rounds
  <2>15. NoMatchYet'
    <3> SUFFICES ASSUME NEW w \in Waiters, w \in listeners, ~done[w] \/ w = partner,
                        NEW j \in joined[w] + 1 .. Reached(w)
                 PROVE  sent'[j].from \notin Matching
      BY <1>1, <2>9 DEF NoMatchYet, Waits, Reached, IInv
    <3>1. joined[w] \in Nat /\ Reached(w) <= Taken
      BY <2>13, SubsAreNamed DEF IInv, TypeOK, Reached, Taken, InFlight
    <3>2. j \in 1 .. Len(sent)
      <4>1. Reached(w) \in Nat /\ Taken \in Nat
        BY <2>13 DEF Reached, Taken, InFlight
      <4> QED
        BY <2>5, <2>13, <3>1, <4>1
    <3> QED
      BY <2>5, <3>2 DEF IInv, NoMatchYet, Waits
  <2>16. NobodyLost'
    BY <1>1, <2>1, <2>11, SubsAreNamed DEF IInv, NobodyLost, Kept
  <2>17. Counted'
    <3>1. wg \in Nat /\ handled \in Nat /\ wg = Cardinality(Sending) + Len(sent) - handled
      BY <1>1 DEF IInv, TypeOK, Counted
    <3>2. wg = Cardinality(Sending') + Len(sent') - handled
      BY <1>3, <2>5, <3>1
    <3> QED
      BY <1>1, <1>3, <3>2 DEF Counted
  <2>18. NothingSkipped'
    BY <1>1 DEF IInv, NothingSkipped
  <2> QED
    BY <2>8, <2>10, <2>12, <2>14, <2>15, <2>16, <2>17, <2>18 DEF IInv
<1> QED
  BY <1>4, <1>5

\* On and Wait put a subscription on the queue, or panic.
LEMMA SubscribeKeeps ==
  ASSUME IInv, NEW s \in Subs, Subscribe(s)
  PROVE  IInv'
<1> USE DEF chanVars, loopVars, subVars, callVars, history
<1>1. /\ ~panicked /\ client[s] = "new" /\ client' = [client EXCEPT ![s] = "subscribed"]
      /\ joined' = [joined EXCEPT ![s] = Len(sent)]
      /\ UNCHANGED <<qclosed, closed, wg, loopVars, done, cleaned, callVars, sent, handled, received, flushed>>
      /\ Put(SubItem(s))
  BY DEF Subscribe
<1>2. ~Queued(s) /\ s \notin listeners /\ received[s] = <<>>
  BY <1>1 DEF IInv, JoinedOnce, Place
<1>3. /\ client'[s] = "subscribed" /\ joined'[s] = Len(sent)
      /\ \A t \in Subs : t # s => client'[t] = client[t] /\ joined'[t] = joined[t]
      /\ client' \in [Subs -> {"new", "subscribed", "matched", "closed", "gone"}]
      /\ joined' \in [Subs -> 0 .. Len(sent)]
  <2>1. Len(sent) \in 0 .. Len(sent)
    BY DEF IInv, TypeOK
  <2> QED
    BY <1>1, <2>1 DEF IInv, TypeOK
<1>4. InFlight' = InFlight /\ Taken' = Taken /\ panicked \in BOOLEAN
  BY <1>1 DEF InFlight, Taken, IInv, TypeOK
<1>r. loop = "call" => joined'[partner] = joined[partner]
  BY <1>2, <1>3, SubsAreNamed DEF IInv, Rounds
<1>5. (Rounds' /\ Counted' /\ NoMatchYet' /\ NothingSkipped') \/ queue' # queue \/ ~panicked'
  <2> SUFFICES ASSUME queue' = queue, panicked' PROVE Rounds' /\ Counted' /\ NoMatchYet' /\ NothingSkipped'
    OBVIOUS
  <2>1. Rounds'
    BY <1>1, <1>r DEF IInv, Rounds
  <2>2. Counted'
    BY <1>1 DEF IInv, Counted, Sending
  <2>3. NoMatchYet'
    BY <1>1, <1>2, <1>3, <1>4, SubsAreNamed DEF IInv, NoMatchYet, Waits, Reached
  <2>4. NothingSkipped'
    BY <1>1, <1>2, <1>3, SubsAreNamed DEF IInv, NothingSkipped
  <2> QED
    BY <2>1, <2>2, <2>3, <2>4
<1>6. CASE qclosed
  <2>1. panicked' = TRUE /\ queue' = queue
    BY <1>1, <1>6 DEF Put
  <2>2. TypeOK'
    BY <1>1, <1>3, <2>1 DEF IInv, TypeOK
  <2>3. \A t \in Subs : Queued(t)' <=> Queued(t)
    BY <2>1 DEF Queued
  <2>4. InOrder'
    <3>1. ASSUME NEW i \in 1 .. Len(queue), ~IsMsg(queue[i])
          PROVE  joined'[queue[i].sub] = joined[queue[i].sub]
      <4>0. queue[i] \in Item
        BY QueueTypes DEF IInv
      <4>1. queue[i].sub \in Subs
        BY <3>1, <4>0 DEF Item, IsMsg
      <4> QED
        BY <1>2, <1>3, <4>1 DEF Queued
    <3> QED
      BY <1>1, <1>4, <2>1, <3>1, OrderSame DEF IInv
  <2>5. JoinedOnce'
    BY <1>1, <1>2, <1>3, <2>1, <2>3 DEF IInv, JoinedOnce, Place
  <2>6. NobodyLost'
    BY <2>1 DEF NobodyLost, Kept
  <2> QED
    BY <1>5, <2>1, <2>2, <2>4, <2>5, <2>6 DEF IInv
<1>7. CASE ~qclosed
  <2> DEFINE item == SubItem(s)
  <2>1. Len(queue) < Capacity /\ queue' = Append(queue, item) /\ panicked' = panicked
    BY <1>1, <1>7 DEF Put
  <2>2. item \in Item /\ ~IsMsg(item) /\ item.sub = s
    BY SubsAreNamed DEF Item, SubItem, IsMsg
  <2> HIDE DEF item
  <2>3. queue' \in Seq(Item) /\ Len(queue') = Len(queue) + 1 /\ Len(queue) \in Nat
    BY <2>1, <2>2, QueueTypes, Appended DEF IInv
  <2>4. Len(queue') <= Capacity
    BY <2>1, <2>3, BusAssumption
  <2>5. TypeOK'
    BY <1>1, <1>3, <2>1, <2>3, <2>4 DEF IInv, TypeOK, Item
  <2>6. InOrder'
    BY <1>1, <1>2, <1>4, <2>1, <2>2, OrderGrows DEF IInv
  <2>7. \A t \in Subs : Queued(t)' <=> Queued(t) \/ t = s
    BY <2>1, <2>2, QueuedGrows DEF IInv
  <2>8. JoinedOnce'
    <3>1. \A t \in Subs : Place(t)'
      BY <1>1, <1>2, <1>3, <2>7 DEF IInv, JoinedOnce, Place
    <3> QED
      BY <1>2, <2>1, <2>2, <3>1, OnceGrows DEF IInv, JoinedOnce
  <2>9. Rounds'
    BY <1>1, <1>7, <1>r DEF IInv, Rounds
  <2>10. Counted'
    BY <1>1, <2>1 DEF IInv, Counted, Sending
  <2>11. NoMatchYet'
    BY <1>1, <1>2, <1>3, <1>4, SubsAreNamed DEF IInv, NoMatchYet, Waits, Reached
  <2>12. NobodyLost'
    BY <1>1, <1>3, <2>1, <2>7, SubsAreNamed DEF IInv, NobodyLost, Kept
  <2>13. NothingSkipped'
    BY <1>1, <1>2, <1>3, SubsAreNamed DEF IInv, NothingSkipped
  <2> QED
    BY <2>5, <2>6, <2>8, <2>9, <2>10, <2>11, <2>12, <2>13 DEF IInv
<1> QED
  BY <1>6, <1>7

\* The loop takes a subscription: it begins where the log is handled.
LEMMA RegisterKeeps ==
  ASSUME IInv, LoopRegister
  PROVE  IInv'
<1> USE DEF chanVars, loopVars, subVars, callVars, history
<1>1. /\ ~panicked /\ loop = "receive" /\ queue # <<>> /\ ~IsMsg(Head(queue)) /\ queue' = Tail(queue)
      /\ listeners' = listeners \cup {Head(queue).sub}
      /\ UNCHANGED <<qclosed, closed, wg, panicked, loop, current, todo, partner, subVars, callVars, history>>
  BY DEF LoopRegister
<1>2. /\ Head(queue) \in Item /\ Len(queue) \in Nat \ {0}
      /\ queue' \in Seq(Item) /\ Len(queue') = Len(queue) - 1
      /\ 1 \in 1 .. Len(queue) /\ Head(queue) = queue[1]
  BY <1>1, QueueTypes, Shifted DEF IInv
<1>3. PICK s \in Subs : s = Head(queue).sub
  BY <1>1, <1>2 DEF Item, IsMsg
<1>4. Queued(s) /\ InFlight = 0 /\ InFlight' = 0 /\ Taken = handled /\ Taken' = Taken /\ todo = {} /\ partner = NoSub
  BY <1>1, <1>2, <1>3 DEF Queued, InFlight, Taken, IInv, TypeOK, Rounds
<1>5. joined[s] = handled /\ received[s] = <<>> /\ client[s] # "new"
  BY <1>1, <1>3, <1>4, Ends DEF IInv, JoinedOnce, Place
<1>6. TypeOK'
  <2>1. Len(queue') <= Capacity
    BY <1>2, BusAssumption DEF IInv, TypeOK
  <2> QED
    BY <1>1, <1>2, <1>3, <2>1 DEF IInv, TypeOK, Item
<1>7. InOrder'
  BY <1>1, <1>4, OrderShrinks DEF IInv
<1>8. ~Queued(s)' /\ \A t \in Subs : t # s => (Queued(t)' <=> Queued(t))
  BY <1>1, <1>3, QueuedShrinks DEF IInv
<1>9. JoinedOnce'
  <2>1. \A t \in Subs : Place(t)'
    BY <1>1, <1>3, <1>5, <1>8 DEF IInv, JoinedOnce, Place, TypeOK
  <2> QED
    BY <1>1, <2>1, QueuedShrinks DEF IInv, JoinedOnce
<1>10. Rounds' /\ Counted'
  BY <1>1 DEF IInv, Rounds, Counted, Sending
<1>11. NoMatchYet'
  <2> SUFFICES ASSUME NEW w \in Waiters PROVE Waits(w)'
    BY DEF NoMatchYet
  <2>1. Waits(w) /\ Reached(w)' = Reached(w) /\ Reached(s) = handled /\ handled \in Nat
    BY <1>1, <1>4 DEF IInv, NoMatchYet, Reached, TypeOK
  <2>2. CASE w = s
    BY <1>1, <1>5, <2>1, <2>2 DEF Waits
  <2>3. CASE w # s
    BY <1>1, <1>3, <2>1, <2>3 DEF Waits
  <2> QED
    BY <2>2, <2>3
<1>12. NobodyLost'
  BY <1>1, <1>3, <1>8, SubsAreNamed DEF IInv, NobodyLost, Kept
<1>13. NothingSkipped'
  <2> SUFFICES ASSUME NEW h \in Handlers, h \in listeners', ~done[h]
               PROVE  joined[h] + Len(received[h]) = handled
    BY <1>1 DEF NothingSkipped, IInv, TypeOK
  <2>1. CASE h = s
    BY <1>5, <2>1 DEF IInv, TypeOK
  <2>2. CASE h # s
    BY <1>1, <1>3, <2>2 DEF IInv, NothingSkipped, TypeOK
  <2> QED
    BY <2>1, <2>2
<1> QED
  BY <1>6, <1>7, <1>9, <1>10, <1>11, <1>12, <1>13 DEF IInv

\* The loop takes a message, the next one of the log.
LEMMA ReceiveKeeps ==
  ASSUME IInv, LoopReceive
  PROVE  IInv'
<1> USE DEF chanVars, loopVars, subVars, callVars, history
<1>1. /\ ~panicked /\ loop = "receive" /\ queue # <<>> /\ IsMsg(Head(queue)) /\ queue' = Tail(queue)
      /\ loop' = "dispatch" /\ current' = Head(queue).msg /\ todo' = listeners
      /\ UNCHANGED <<qclosed, closed, wg, panicked, listeners, partner, subVars, callVars, history>>
  BY DEF LoopReceive
<1>2. /\ Head(queue) \in Item /\ Len(queue) \in Nat \ {0}
      /\ queue' \in Seq(Item) /\ Len(queue') = Len(queue) - 1
  BY <1>1, QueueTypes, Shifted DEF IInv
<1>3. /\ InFlight = 0 /\ InFlight' = 1 /\ Taken = handled /\ Taken' = Taken + 1
      /\ todo = {} /\ partner = NoSub /\ handled \in Nat
  BY <1>1 DEF InFlight, Taken, IInv, TypeOK, Rounds
<1>4. current' = sent[handled + 1]
  BY <1>1, <1>3, Ends DEF IInv
<1>5. TypeOK'
  <2>1. Len(queue') <= Capacity
    BY <1>2, BusAssumption DEF IInv, TypeOK
  <2> QED
    BY <1>1, <1>2, <2>1 DEF IInv, TypeOK, Item
<1>6. InOrder'
  BY <1>1, <1>3, OrderShrinks DEF IInv
<1>7. \A t \in Subs : Queued(t)' <=> Queued(t)
  BY <1>1, QueuedShrinks, SubsAreNamed DEF IInv, IsMsg
<1>8. JoinedOnce'
  <2>1. \A t \in Subs : Place(t)'
    BY <1>1, <1>7 DEF IInv, JoinedOnce, Place
  <2> QED
    BY <1>1, <2>1, QueuedShrinks DEF IInv, JoinedOnce
<1>9. Rounds' /\ Counted'
  BY <1>1, <1>4 DEF IInv, Rounds, Counted, Sending
<1>10. NoMatchYet'
  <2> SUFFICES ASSUME NEW w \in Waiters PROVE Waits(w)'
    BY DEF NoMatchYet
  <2>1. Waits(w) /\ Reached(w) = handled /\ (w \in listeners => Reached(w)' = handled)
    BY <1>1, <1>3 DEF IInv, NoMatchYet, Reached
  <2> QED
    BY <1>1, <2>1 DEF Waits
<1>11. NobodyLost'
  BY <1>1, <1>7, SubsAreNamed DEF IInv, NobodyLost, Kept
<1>12. NothingSkipped'
  BY <1>1 DEF IInv, NothingSkipped
<1> QED
  BY <1>5, <1>6, <1>8, <1>9, <1>10, <1>11, <1>12 DEF IInv

\* One listener's turn: an expired one is passed over, a handler is about to be called, a
\* waiter is offered what it waits for.
LEMMA TurnKeeps ==
  ASSUME IInv, NEW s \in Subs, LoopExpired(s) \/ LoopCall(s) \/ LoopOffer(s)
  PROVE  IInv'
<1> USE DEF chanVars, loopVars, subVars, callVars, history
<1>1. /\ ~panicked /\ loop = "dispatch" /\ s \in todo /\ todo' = todo \ {s} /\ s \in listeners
      /\ UNCHANGED <<chanVars, listeners, current, done, client, callVars, history>>
  BY DEF LoopExpired, LoopCall, LoopOffer, IInv, TypeOK
<1>2. partner = NoSub /\ InFlight = 1 /\ current = sent[handled + 1] /\ s # NoSub /\ handled \in Nat
      /\ handled + 1 \in 1 .. Len(sent)
  <2>1. Taken = handled + 1 /\ Taken \in 0 .. Len(sent) /\ handled \in Nat
    BY <1>1, Ends DEF Taken, InFlight, IInv
  <2> QED
    BY <1>1, <2>1, SubsAreNamed DEF InFlight, IInv, Rounds
<1>3. /\ loop' \in {"dispatch", "call", "send"} /\ InFlight' = InFlight /\ Taken' = Taken
      /\ partner' \in Subs \cup {NoSub}
      /\ cleaned' \in [Waiters -> BOOLEAN]
      /\ loop' = "dispatch" => partner' = NoSub
      /\ loop' # "dispatch" => partner' = s /\ ~done[s]
      /\ loop' = "send" => s \in Waiters /\ current.from \in Matching
      /\ loop' = "call" => s \in Handlers
      /\ ~done[s] => loop' # "dispatch" \/ (s \in Waiters /\ current.from \notin Matching)
  <2>1. partner \in Subs \cup {NoSub} /\ cleaned \in [Waiters -> BOOLEAN]
    BY DEF IInv, TypeOK
  <2>3. CASE LoopExpired(s)
    BY <1>1, <1>2, <2>1, <2>3 DEF LoopExpired, InFlight, Taken
  <2>4. CASE LoopCall(s)
    BY <1>1, <1>2, <2>1, <2>4 DEF LoopCall, InFlight, Taken
  <2>5. CASE LoopOffer(s)
    BY <1>1, <1>2, <2>1, <2>5 DEF LoopOffer, InFlight, Taken
  <2> QED
    BY <2>3, <2>4, <2>5
<1>4. TypeOK'
  BY <1>1, <1>3 DEF IInv, TypeOK
<1>5. InOrder'
  BY <1>1, <1>3, OrderSame DEF IInv
<1>7. \A t \in Subs : Queued(t)' <=> Queued(t)
  BY <1>1 DEF Queued
<1>8. JoinedOnce'
  BY <1>1, <1>7 DEF IInv, JoinedOnce, Place
<1>9. Rounds'
  <2>1. loop' = "call" => joined[s] + Len(received[s]) = handled
    <3> SUFFICES ASSUME loop' = "call" PROVE joined[s] + Len(received[s]) = handled
      OBVIOUS
    <3>1. s \in Handlers /\ ~done[s] /\ s \in listeners /\ s \in todo
      BY <1>1, <1>3
    <3>2. joined[s] + Len(received[s]) = handled + 0
      BY <3>1 DEF IInv, NothingSkipped
    <3> QED
      BY <1>2, <3>2
  <2>2. loop' = "call" => joined'[partner'] + Len(received'[partner']) = handled'
    BY <1>1, <1>3, <2>1
  <2> QED
    BY <1>1, <1>2, <1>3, <2>2 DEF IInv, Rounds, TypeOK
<1>10. Counted'
  BY <1>1 DEF IInv, Counted, Sending
<1>11. NoMatchYet'
  <2> SUFFICES ASSUME NEW w \in Waiters PROVE Waits(w)'
    BY DEF NoMatchYet
  <2>1. Waits(w) /\ w \in Subs
    BY SubsAreNamed DEF IInv, NoMatchYet
  <2>2. CASE w # s
    <3>1. Reached(w)' = Reached(w) /\ w # partner /\ w # partner'
      BY <1>1, <1>2, <1>3, <2>1, <2>2, SubsAreNamed DEF Reached
    <3> QED
      BY <1>1, <2>1, <3>1 DEF Waits
  <2>3. CASE w = s
    <3>1. Reached(s) = handled /\ Reached(s)' \in {handled, handled + 1} /\ joined[s] \in Nat
      BY <1>1, <1>2 DEF Reached, IInv, TypeOK
    <3>2. CASE done[s]
      <4>1. partner' # s
        BY <1>2, <1>3, <3>2
      <4> QED
        BY <1>1, <2>1, <2>3, <3>2, <4>1 DEF Waits
    <3>3. CASE ~done[s]
      <4>1. partner' = s \/ current.from \notin Matching
        BY <1>3, <3>3
      <4>2. partner' = s => Reached(s)' = handled
        BY <1>1 DEF Reached
      <4>3. \A j \in joined[s] + 1 .. handled + 1 : j \in joined[s] + 1 .. handled \/ j = handled + 1
        BY <1>2, <3>1
      <4>4. \A j \in joined[s] + 1 .. handled : sent[j].from \notin Matching
        BY <1>1, <2>1, <2>3, <3>1, <3>3 DEF Waits
      <4>5. \A j \in joined[s] + 1 .. Reached(s)' : sent[j].from \notin Matching
        BY <1>2, <3>1, <4>1, <4>2, <4>3, <4>4
      <4> QED
        BY <1>1, <2>1, <2>3, <4>5 DEF Waits
    <3> QED
      BY <3>2, <3>3
  <2> QED
    BY <2>2, <2>3
<1>12. NobodyLost'
  BY <1>1, <1>3, <1>7, SubsAreNamed DEF IInv, NobodyLost, Kept
<1>13. NothingSkipped'
  <2> SUFFICES ASSUME NEW h \in Handlers, h \in listeners, ~done[h]
               PROVE  joined[h] + Len(received[h]) =
                        handled + (IF h \notin todo' \cup {partner'} THEN 1 ELSE 0)
    BY <1>1, <1>3 DEF NothingSkipped
  <2>1. joined[h] + Len(received[h]) = handled + (IF h \notin todo THEN 1 ELSE 0)
    BY <1>1, <1>2, SubsAreNamed DEF IInv, NothingSkipped
  <2>2. CASE h # s
    BY <1>1, <1>2, <1>3, <2>1, <2>2, SubsAreNamed
  <2>3. CASE h = s
    BY <1>1, <1>3, <2>1, <2>3, SubsAreNamed
  <2> QED
    BY <2>2, <2>3
<1> QED
  BY <1>4, <1>5, <1>8, <1>9, <1>10, <1>11, <1>12, <1>13 DEF IInv

\* The handler is called, whatever became of its context in the meantime.
LEMMA HandleKeeps ==
  ASSUME IInv, LoopHandle
  PROVE  IInv'
<1> USE DEF chanVars, loopVars, subVars, callVars, history
<1>1. /\ ~panicked /\ loop = "call" /\ loop' = "dispatch" /\ partner' = NoSub
      /\ received' = [received EXCEPT ![partner] = Append(@, current)]
      /\ UNCHANGED <<chanVars, listeners, current, todo, subVars, callVars, sent, handled, joined, flushed>>
  BY DEF LoopHandle
<1>2. /\ partner \in listeners /\ partner \in Handlers /\ partner \notin todo /\ partner \in Subs
      /\ current = sent[handled + 1] /\ InFlight = 1 /\ InFlight' = 1 /\ Taken' = Taken
  BY <1>1, SubsAreNamed DEF IInv, Rounds, InFlight, Taken
<1>3. handled \in Nat /\ current \in Message
  <2>1. Taken = handled + 1 /\ Taken \in 0 .. Len(sent) /\ handled \in Nat
    BY <1>2, Ends DEF Taken, IInv
  <2>2. handled + 1 \in 1 .. Len(sent)
    BY <2>1
  <2> QED
    BY <1>2, <2>1, <2>2 DEF IInv, TypeOK
<1>4. /\ received' \in [Subs -> Seq(Message)]
      /\ \A t \in Subs : t # partner => received'[t] = received[t]
      /\ Len(received'[partner]) = Len(received[partner]) + 1 /\ Len(received[partner]) \in Nat
  <2>1. received \in [Subs -> Seq(Message)]
    BY DEF IInv, TypeOK
  <2>2. received'[partner] = Append(received[partner], current) /\ received[partner] \in Seq(Message)
    BY <1>1, <1>2, <2>1
  <2>3. Append(received[partner], current) \in Seq(Message)
        /\ Len(Append(received[partner], current)) = Len(received[partner]) + 1
        /\ Len(received[partner]) \in Nat
    BY <1>3, <2>2, Appended
  <2> QED
    BY <1>1, <1>2, <2>1, <2>2, <2>3
<1>5. TypeOK'
  BY <1>1, <1>4 DEF IInv, TypeOK
<1>6. InOrder'
  BY <1>1, <1>2, OrderSame DEF IInv
<1>7. \A t \in Subs : Queued(t)' <=> Queued(t)
  BY <1>1 DEF Queued
<1>8. JoinedOnce'
  <2>1. client[partner] # "new" /\ ~Queued(partner)
    BY <1>2 DEF IInv, JoinedOnce, Place
  <2> QED
    BY <1>1, <1>2, <1>4, <1>7, <2>1 DEF IInv, JoinedOnce, Place
<1>9. Rounds'
  BY <1>1, <1>2 DEF IInv, Rounds
<1>10. Counted'
  BY <1>1 DEF IInv, Counted, Sending
<1>11. NoMatchYet'
  <2> SUFFICES ASSUME NEW w \in Waiters PROVE Waits(w)'
    BY DEF NoMatchYet
  <2>1. Waits(w) /\ w \in Subs /\ w # partner /\ w # partner'
    BY <1>1, <1>2, SubsAreNamed DEF IInv, NoMatchYet
  <2>2. Reached(w)' = Reached(w)
    BY <1>1, <1>2, <2>1 DEF Reached
  <2> QED
    BY <1>1, <1>4, <2>1, <2>2 DEF Waits
<1>12. NobodyLost'
  BY <1>1, <1>4, <1>7, SubsAreNamed DEF IInv, NobodyLost, Kept
<1>13. NothingSkipped'
  <2> SUFFICES ASSUME NEW h \in Handlers, h \in listeners, ~done[h]
               PROVE  joined[h] + Len(received'[h]) = handled + (IF h \notin todo THEN 1 ELSE 0)
    BY <1>1, SubsAreNamed DEF NothingSkipped
  <2>1. joined[h] + Len(received[h]) = handled + (IF h \notin todo \cup {partner} THEN 1 ELSE 0)
    BY <1>1 DEF IInv, NothingSkipped
  <2>2. joined[h] \in Nat
    BY SubsAreNamed DEF IInv, TypeOK
  <2>3. CASE h # partner
    BY <1>4, <2>1, <2>3, SubsAreNamed
  <2>4. CASE h = partner
    <3>1. joined[h] + Len(received[h]) = handled /\ Len(received[h]) \in Nat
      BY <1>3, <1>4, <2>1, <2>4
    <3>2. joined[h] + (Len(received[h]) + 1) = handled + 1
      BY <1>3, <2>2, <3>1
    <3> QED
      BY <1>2, <1>4, <2>4, <3>2
  <2> QED
    BY <2>3, <2>4
<1> QED
  BY <1>5, <1>6, <1>8, <1>9, <1>10, <1>11, <1>12, <1>13 DEF IInv

\* The waiter takes the message, or its context is done.
LEMMA HandOverKeeps ==
  ASSUME IInv, LoopHandOver
  PROVE  IInv'
<1> USE DEF chanVars, loopVars, subVars, callVars, history
<1>1. /\ ~panicked /\ loop = "send" /\ loop' = "dispatch" /\ partner' = NoSub
      /\ done' = [done EXCEPT ![partner] = TRUE]
      /\ \/ /\ client[partner] = "subscribed" /\ client' = [client EXCEPT ![partner] = "matched"]
            /\ received' = [received EXCEPT ![partner] = <<current>>]
         \/ UNCHANGED <<client, received>>
      /\ UNCHANGED <<chanVars, listeners, current, todo, cleaned, callVars, sent, handled, joined, flushed>>
  BY DEF LoopHandOver
<1>2. /\ partner \in listeners /\ partner \in Waiters /\ partner \notin todo /\ partner \in Subs
      /\ current = sent[handled + 1] /\ InFlight = 1 /\ InFlight' = 1 /\ Taken' = Taken
  BY <1>1, SubsAreNamed DEF IInv, Rounds, InFlight, Taken
<1>3. current \in Message
  <2>1. Taken = handled + 1 /\ Taken \in 0 .. Len(sent) /\ handled \in Nat
    BY <1>2, Ends DEF Taken, IInv
  <2>2. handled + 1 \in 1 .. Len(sent)
    BY <2>1
  <2> QED
    BY <1>2, <2>2 DEF IInv, TypeOK
<1>4. /\ \A t \in Subs : t # partner => client'[t] = client[t] /\ received'[t] = received[t] /\ done'[t] = done[t]
      /\ done'[partner] = TRUE /\ done' \in [Subs -> BOOLEAN]
      /\ client' \in [Subs -> {"new", "subscribed", "matched", "closed", "gone"}]
      /\ received' \in [Subs -> Seq(Message)]
      /\ \/ client'[partner] = "matched"
         \/ client'[partner] = client[partner] /\ received'[partner] = received[partner]
  <2>1. /\ done \in [Subs -> BOOLEAN] /\ received \in [Subs -> Seq(Message)]
        /\ client \in [Subs -> {"new", "subscribed", "matched", "closed", "gone"}]
    BY DEF IInv, TypeOK
  <2>2. <<current>> \in Seq(Message)
    BY <1>3
  <2>3. CASE /\ client' = [client EXCEPT ![partner] = "matched"]
             /\ received' = [received EXCEPT ![partner] = <<current>>]
    BY <1>1, <1>2, <2>1, <2>2, <2>3
  <2>4. CASE UNCHANGED <<client, received>>
    BY <1>1, <1>2, <2>1, <2>4
  <2> QED
    BY <1>1, <2>3, <2>4
<1>5. TypeOK'
  BY <1>1, <1>4 DEF IInv, TypeOK
<1>6. InOrder'
  BY <1>1, <1>2, OrderSame DEF IInv
<1>7. \A t \in Subs : Queued(t)' <=> Queued(t)
  BY <1>1 DEF Queued
<1>8. JoinedOnce'
  <2>1. client[partner] # "new" /\ ~Queued(partner)
    BY <1>2 DEF IInv, JoinedOnce, Place
  <2> QED
    BY <1>1, <1>2, <1>4, <1>7, <2>1 DEF IInv, JoinedOnce, Place
<1>9. Rounds'
  BY <1>1, <1>2 DEF IInv, Rounds
<1>10. Counted'
  BY <1>1 DEF IInv, Counted, Sending
<1>11. NoMatchYet'
  <2> SUFFICES ASSUME NEW w \in Waiters PROVE Waits(w)'
    BY DEF NoMatchYet
  <2>1. Waits(w) /\ w \in Subs /\ w # partner'
    BY <1>1, SubsAreNamed DEF IInv, NoMatchYet
  <2>2. CASE w # partner
    <3>1. Reached(w)' = Reached(w)
      BY <1>1, <1>2, <2>1, <2>2 DEF Reached
    <3> QED
      BY <1>1, <1>4, <2>1, <2>2, <3>1 DEF Waits
  <2>3. CASE w = partner
    BY <1>4, <2>1, <2>3 DEF Waits
  <2> QED
    BY <2>2, <2>3
<1>12. NobodyLost' /\ NothingSkipped'
  <2>1. \A h \in Handlers : client'[h] = client[h] /\ received'[h] = received[h] /\ done'[h] = done[h] /\ (Queued(h)' <=> Queued(h))
    BY <1>2, <1>4, <1>7, SubsAreNamed
  <2>2. NobodyLost'
    BY <1>1, <2>1 DEF IInv, NobodyLost, Kept
  <2>3. \A h \in Handlers : h # partner /\ h # partner'
    BY <1>1, <1>2, SubsAreNamed
  <2>4. NothingSkipped'
    BY <1>1, <2>1, <2>3 DEF IInv, NothingSkipped
  <2> QED
    BY <2>2, <2>4
<1> QED
  BY <1>5, <1>6, <1>8, <1>9, <1>10, <1>11, <1>12 DEF IInv

\* The message is handled.
LEMMA DoneKeeps ==
  ASSUME IInv, LoopDone
  PROVE  IInv'
<1> USE DEF chanVars, loopVars, subVars, callVars, history
<1>1. /\ ~panicked /\ loop = "dispatch" /\ todo = {} /\ loop' = "receive" /\ current' = NoMsg
      /\ wg' = wg - 1 /\ handled' = handled + 1
      /\ UNCHANGED <<queue, qclosed, closed, panicked, listeners, todo, partner,
                     subVars, callVars, sent, joined, received, flushed>>
  BY DEF LoopDone
<1>2. /\ InFlight = 1 /\ InFlight' = 0 /\ Taken = handled + 1 /\ Taken' = Taken + 0 /\ partner = NoSub
      /\ handled \in Nat /\ Len(sent) \in Nat /\ handled + 1 <= Len(sent)
  <2>1. Taken = handled + 1 /\ Taken \in 0 .. Len(sent) /\ handled \in Nat /\ Len(sent) \in Nat
    BY <1>1, Ends DEF Taken, InFlight, IInv
  <2> QED
    BY <1>1, <2>1 DEF InFlight, Taken, IInv, Rounds
<1>3. wg \in Nat /\ Cardinality(Sending) \in Nat /\ wg = Cardinality(Sending) + Len(sent) - handled /\ wg' \in Nat
  <2>1. Cardinality(Sending) \in Nat /\ wg \in Nat /\ wg = Cardinality(Sending) + Len(sent) - handled
    BY <1>1, FS_CardinalityType DEF IInv, Counted, TypeOK
  <2> QED
    BY <1>1, <1>2, <2>1
<1>4. handled' \in 0 .. Len(sent)
  BY <1>1, <1>2
<1>5. TypeOK'
  BY <1>1, <1>3, <1>4 DEF IInv, TypeOK
<1>6. InOrder'
  <2>1. Taken' = Taken
    BY <1>2
  <2> QED
    BY <1>1, <2>1, OrderSame DEF IInv
<1>7. \A t \in Subs : Queued(t)' <=> Queued(t)
  BY <1>1 DEF Queued
<1>8. JoinedOnce'
  <2>1. \A t \in Subs : joined[t] <= handled => joined[t] <= handled + 1
    BY <1>2 DEF IInv, TypeOK
  <2> QED
    BY <1>1, <1>7, <2>1 DEF IInv, JoinedOnce, Place
<1>9. Rounds'
  BY <1>1, <1>2 DEF IInv, Rounds
<1>10. Counted'
  <2>1. wg - 1 = Cardinality(Sending) + Len(sent) - (handled + 1)
    BY <1>2, <1>3
  <2> QED
    BY <1>1, <2>1 DEF IInv, Counted, Sending
<1>11. NoMatchYet'
  <2> SUFFICES ASSUME NEW w \in Waiters PROVE Waits(w)'
    BY DEF NoMatchYet
  <2>1. Waits(w) /\ Reached(w) = handled + 1 /\ Reached(w)' = handled + 1
    BY <1>1, <1>2, SubsAreNamed DEF IInv, NoMatchYet, Reached
  <2> QED
    BY <1>1, <2>1 DEF Waits
<1>12. NobodyLost'
  BY <1>1, <1>7, SubsAreNamed DEF IInv, NobodyLost, Kept
<1>13. NothingSkipped'
  <2> SUFFICES ASSUME NEW h \in Handlers, h \in listeners, ~done[h]
               PROVE  joined[h] + Len(received[h]) = handled + 1
    BY <1>1, <1>2 DEF NothingSkipped
  <2>1. h # partner
    BY <1>1, SubsAreNamed DEF IInv, Rounds
  <2> QED
    BY <1>1, <2>1 DEF IInv, NothingSkipped
<1> QED
  BY <1>5, <1>6, <1>8, <1>9, <1>10, <1>11, <1>12, <1>13 DEF IInv

\* The loop ends: the queue is closed and drained.
LEMMA EndKeeps ==
  ASSUME IInv, LoopEnd
  PROVE  IInv'
<1> USE DEF chanVars, loopVars, subVars, callVars, history
<1>1. /\ ~panicked /\ loop = "receive" /\ queue = <<>> /\ qclosed /\ loop' = "ended" /\ listeners' = {}
      /\ done' = [s \in Subs |-> done[s] \/ s \in listeners \cap Waiters]
      /\ cleaned' = [w \in Waiters |-> cleaned[w] \/ w \in listeners]
      /\ UNCHANGED <<chanVars, current, todo, partner, client, callVars, history>>
  BY DEF LoopEnd
<1>2. InFlight = 0 /\ InFlight' = 0 /\ Taken' = Taken /\ todo = {} /\ partner = NoSub /\ \A s \in Subs : Queued(s)' <=> Queued(s)
  BY <1>1 DEF InFlight, Taken, IInv, Rounds, Queued
<1>3. done' \in [Subs -> BOOLEAN] /\ cleaned' \in [Waiters -> BOOLEAN]
  <2>1. done \in [Subs -> BOOLEAN] /\ cleaned \in [Waiters -> BOOLEAN]
    BY DEF IInv, TypeOK
  <2>2. \A s \in Subs : (done[s] \/ s \in listeners \cap Waiters) \in BOOLEAN
    OBVIOUS
  <2>3. \A w \in Waiters : (cleaned[w] \/ w \in listeners) \in BOOLEAN
    OBVIOUS
  <2> QED
    BY <1>1, <2>2, <2>3
<1>4. TypeOK'
  BY <1>1, <1>2, <1>3 DEF IInv, TypeOK
<1>5. InOrder'
  BY <1>1, <1>2, OrderSame DEF IInv
<1>6. JoinedOnce'
  BY <1>1, <1>2 DEF IInv, JoinedOnce, Place
<1>7. Rounds' /\ Counted' /\ NothingSkipped'
  BY <1>1, <1>2 DEF IInv, Rounds, Counted, Sending, NothingSkipped
<1>8. NoMatchYet'
  BY <1>1 DEF IInv, NoMatchYet, Waits
<1>9. NobodyLost'
  <2> SUFFICES ASSUME NEW h \in Handlers, client[h] = "subscribed", ~done'[h], h \in Subs
               PROVE  joined[h] + Len(received[h]) = handled
    BY <1>1, SubsAreNamed DEF NobodyLost, Kept
  <2>0. Len(queue) = 0
    BY <1>1
  <2>1. ~done[h]
    BY <1>1, Zenon
  <2>4. ~Queued(h)
    BY <2>0 DEF Queued
  <2>2. h \in listeners
    BY <1>1, <2>1, <2>4 DEF IInv, NobodyLost, Kept
  <2>3. handled \in Nat
    BY DEF IInv, TypeOK
  <2> QED
    BY <1>1, <2>1, <2>2, <2>3 DEF IInv, NothingSkipped
<1> QED
  BY <1>4, <1>5, <1>6, <1>7, <1>8, <1>9 DEF IInv

\* The invariant is inductive: every step of the callers, of their goroutines and of the
\* loop keeps it.
LEMMA StepKeeps == IInv /\ [Next]_vars => IInv'
<1> SUFFICES ASSUME IInv, [Next]_vars PROVE IInv'
  OBVIOUS
<1>1. CASE UNCHANGED vars
  <2>1. UNCHANGED <<chanVars, loopVars, subVars, callVars, history>>
    BY <1>1 DEF vars
  <2>2. TypeOK' /\ Counted'
    BY <2>1 DEF IInv, TypeOK, Counted, Sending, chanVars, loopVars, subVars, callVars, history
  <2> QED
    BY <2>1, <2>2, Quiet DEF IInv, chanVars, subVars, callVars, history
<1>2. CASE LoopStep
  BY <1>2, RegisterKeeps, ReceiveKeeps, TurnKeeps, HandleKeeps, HandOverKeeps, DoneKeeps, EndKeeps DEF LoopStep
<1>3. CASE \E e \in Emitters : EmitBegin(e) \/ EmitAdd(e) \/ EmitSend(e)
  BY <1>3, CallsKeep, EmitSendKeeps
<1>4. CASE \E s \in Subs : Subscribe(s) \/ CancelContext(s)
  BY <1>4, SubscribeKeeps, ClientsKeep
<1>5. CASE \E w \in Waiters : WaitClosed(w) \/ WaitAbandoned(w)
  BY <1>5, ClientsKeep
<1>6. CASE \/ \E f \in Flushers : FlushBegin(f) \/ FlushEnd(f)
           \/ \E d \in Disposers : DisposeCheck(d) \/ DisposeMark(d) \/ DisposeClose(d)
  BY <1>6, CallsKeep
<1> QED
  BY <1>1, <1>2, <1>3, <1>4, <1>5, <1>6 DEF Next

THEOREM Inductive == Spec => []IInv
<1> QED
  BY InitIInv, StepKeeps, PTL DEF Spec

-----------------------------------------------------------------------------
(* What the bus promises.                                                   *)

\* A handler that is registered and interested has been called with every message that was
\* dispatched since it was subscribed, whoever else expires, waits or is slow.
THEOREM NobodyIsSkipped == Spec => []Delivers
<1>1. IInv => Delivers
  BY DEF IInv, Delivers
<1> QED
  BY <1>1, Inductive, PTL

\* When Flush returns, every handler subscribed before the call, and still interested, was
\* called with every message queued before the call: wg counts each message until the loop
\* is done with it, and the queue hands subscriptions and messages over in one order.
LEMMA FlushCovers ==
  ASSUME IInv, NEW f \in Flushers, FlushEnd(f), NEW h \in Handlers,
         client[h] = "subscribed", ~done[h], joined[h] <= flushed[f]
  PROVE  joined[h] + Len(received[h]) >= flushed[f]
<1>1. ~panicked /\ wg = 0
  BY DEF FlushEnd
<1>2. /\ Taken \in 0 .. Len(sent) /\ handled \in Nat /\ Len(sent) \in Nat /\ Cardinality(Sending) \in Nat
      /\ flushed[f] \in 0 .. Len(sent) /\ joined[h] \in 0 .. Len(sent) /\ Len(received[h]) \in Nat
  BY Ends, FS_CardinalityType, SubsAreNamed DEF IInv, Counted, TypeOK
<1>3. handled = Len(sent) /\ InFlight = 0
  <2>1. 0 = Cardinality(Sending) + Len(sent) - handled
    BY <1>1 DEF IInv, Counted
  <2>2. handled <= Taken /\ (InFlight = 1 => Taken = handled + 1) /\ InFlight \in {0, 1}
    BY <1>2 DEF Taken, InFlight
  <2> QED
    BY <1>2, <2>1, <2>2
<1>4. CASE Queued(h)
  <2>1. Taken <= joined[h] /\ Taken = Len(sent)
    BY <1>2, <1>3, <1>4, Ends, SubsAreNamed DEF IInv, Taken
  <2> QED
    BY <1>2, <2>1
<1>5. CASE h \in listeners
  <2>1. loop = "receive" \/ loop = "ended"
    BY <1>3 DEF InFlight, IInv, TypeOK
  <2>2. joined[h] + Len(received[h]) = handled
    BY <1>2, <1>5, <2>1 DEF IInv, NothingSkipped
  <2> QED
    BY <1>2, <1>3, <2>2
<1>6. CASE joined[h] + Len(received[h]) = handled
  BY <1>2, <1>3, <1>6
<1> QED
  BY <1>1, <1>4, <1>5, <1>6 DEF IInv, NobodyLost, Kept

THEOREM FlushCoversTheQueue == Spec => FlushDelivers
<1> DEFINE Covers ==
      \A f \in Flushers : flush[f] /\ ~flush'[f] =>
        \A h \in Handlers : client[h] = "subscribed" /\ ~done[h] /\ joined[h] <= flushed[f]
                              => joined[h] + Len(received[h]) >= flushed[f]
<1>1. IInv /\ [Next]_vars => [Covers]_vars
  <2> SUFFICES ASSUME IInv, Next, NEW f \in Flushers, flush[f], ~flush'[f] PROVE FlushEnd(f)
    BY FlushCovers
  <2> USE DEF chanVars, loopVars, subVars, callVars, history
  <2>1. flush \in [Flushers -> BOOLEAN] /\ flush' # flush
    BY DEF IInv, TypeOK
  <2>2. ~LoopStep
    BY <2>1 DEF LoopStep, LoopRegister, LoopReceive, LoopHandOver, LoopDone, LoopEnd,
                LoopExpired, LoopCall, LoopHandle, LoopOffer
  <2>3. /\ ~\E e \in Emitters : EmitBegin(e) \/ EmitAdd(e) \/ EmitSend(e)
        /\ ~\E s \in Subs : Subscribe(s) \/ CancelContext(s)
        /\ ~\E w \in Waiters : WaitClosed(w) \/ WaitAbandoned(w)
        /\ ~\E d \in Disposers : DisposeCheck(d) \/ DisposeMark(d) \/ DisposeClose(d)
    BY <2>1 DEF EmitBegin, EmitAdd, EmitSend, Subscribe, CancelContext, WaitClosed, WaitAbandoned,
                DisposeCheck, DisposeMark, DisposeClose
  <2>4. PICK g \in Flushers : FlushBegin(g) \/ FlushEnd(g)
    BY <2>2, <2>3 DEF Next
  <2>5. g = f
    BY <2>1, <2>4 DEF FlushBegin, FlushEnd
  <2>6. ~FlushBegin(f)
    BY <2>1 DEF FlushBegin
  <2> QED
    BY <2>4, <2>5, <2>6
<1> QED
  BY <1>1, Inductive, PTL DEF Spec, FlushDelivers

-----------------------------------------------------------------------------
(* The bus implements the one log.                                          *)

\* Who has left the log: those whose context is done, but for the one being called.
Gone(s) == done[s] /\ ~(loop = "call" /\ s = partner)

\* The initial state is the empty log's.
LEMMA LogInit == Init => Log!Init
<1> SUFFICES ASSUME Init PROVE Log!Init
  OBVIOUS
<1>1. {s \in Subs : client[s] # "new"} = {}
      /\ {s \in Subs : done[s] /\ ~(loop = "call" /\ s = partner)} = {}
  BY DEF Init
<1> QED
  BY <1>1 DEF Init, Log!Init, Log!Readers, Subs

\* What a step of the log leaves alone.
LEMMA LogSame ==
  ASSUME UNCHANGED <<sent, joined, received>>,
         \A s \in Subs : client'[s] = "new" <=> client[s] = "new",
         \A s \in Subs : Gone(s)' <=> Gone(s)
  PROVE  UNCHANGED Log!vars
<1>1. {s \in Subs : client[s] # "new"}' = {s \in Subs : client[s] # "new"}
      /\ {s \in Subs : done[s] /\ ~(loop = "call" /\ s = partner)}'
         = {s \in Subs : done[s] /\ ~(loop = "call" /\ s = partner)}
  BY DEF Gone
<1> QED
  BY <1>1 DEF Log!vars

\* The context of some subscriptions is done, and nothing else is seen.
LEMMA LogLeaves ==
  ASSUME UNCHANGED <<sent, joined, received>>,
         \A s \in Subs : client'[s] = "new" <=> client[s] = "new",
         \A s \in Subs : Gone(s) => Gone(s)'
  PROVE  Log!Leave
<1> DEFINE L == {s \in Subs : done[s] /\ ~(loop = "call" /\ s = partner)}
<1>1. {s \in Subs : client[s] # "new"}' = {s \in Subs : client[s] # "new"}
  OBVIOUS
<1>2. L' = L \cup L'
  BY DEF Gone
<1>3. L' \in SUBSET Log!Readers
  BY DEF Log!Readers, Subs
<1> QED
  BY <1>1, <1>2, <1>3 DEF Log!Leave

\* A call of a handler delivers the next message of the log; its context may be done by then.
LEMMA LogDelivers ==
  ASSUME IInv, LoopHandle
  PROVE  partner \in Handlers /\ Log!Deliver(partner)
<1> USE DEF chanVars, loopVars, subVars, callVars, history
<1>1. /\ loop = "call" /\ received' = [received EXCEPT ![partner] = Append(@, current)]
      /\ UNCHANGED <<sent, joined, client, done>> /\ partner \in listeners /\ partner \in Subs
      /\ partner \in Handlers /\ partner \notin todo /\ loop' = "dispatch"
  BY SubsAreNamed DEF LoopHandle, IInv, Rounds
<1>2. current = sent[handled + 1] /\ handled + 1 <= Len(sent) /\ handled \in Nat /\ Len(sent) \in Nat
  <2>1. Taken = handled + 1 /\ Taken \in 0 .. Len(sent) /\ handled \in Nat /\ Len(sent) \in Nat
    BY <1>1, Ends DEF Taken, InFlight, IInv
  <2> QED
    BY <1>1, <2>1 DEF IInv, Rounds
<1>3. joined[partner] + Len(received[partner]) + 1 = handled + 1
  BY <1>1, <1>2 DEF IInv, Rounds
<1>4. client[partner] # "new"
  BY <1>1 DEF IInv, JoinedOnce, Place
<1> DEFINE L == {s \in Subs : done[s] /\ ~(loop = "call" /\ s = partner)}
<1>5. partner \notin L /\ (L' = L \/ L' = L \cup {partner})
  <2>1. L' = {s \in Subs : done[s]}
    BY <1>1
  <2> QED
    BY <1>1, <2>1
<1> QED
  BY <1>1, <1>2, <1>3, <1>4, <1>5 DEF Log!Deliver

\* A message handed over is the waiter's first match.
LEMMA LogTakes ==
  ASSUME IInv, LoopHandOver, client[partner] = "subscribed", client' = [client EXCEPT ![partner] = "matched"],
         received' = [received EXCEPT ![partner] = <<current>>]
  PROVE  partner \in Waiters /\ Log!Take(partner)
<1> USE DEF chanVars, loopVars, subVars, callVars, history
<1>1. /\ loop = "send" /\ done' = [done EXCEPT ![partner] = TRUE] /\ UNCHANGED <<sent, joined>>
      /\ partner \in listeners /\ partner \in Waiters /\ partner \in Subs
      /\ current.from \in Matching /\ current = sent[handled + 1]
  BY SubsAreNamed DEF LoopHandOver, IInv, Rounds
<1>2. handled + 1 \in 1 .. Len(sent) /\ handled \in Nat /\ joined[partner] \in Nat /\ joined[partner] <= handled
      /\ Len(sent) \in Nat
  <2>1. Taken = handled + 1 /\ Taken \in 0 .. Len(sent) /\ handled \in Nat /\ Len(sent) \in Nat
    BY <1>1, Ends DEF Taken, InFlight, IInv
  <2>2. joined[partner] \in Nat /\ joined[partner] <= handled
    BY <1>1 DEF IInv, TypeOK, JoinedOnce, Place
  <2> QED
    BY <2>1, <2>2
<1>3. received[partner] = <<>> /\ \A j \in joined[partner] + 1 .. handled : sent[j].from \notin Matching
  BY <1>1 DEF IInv, NoMatchYet, Waits, Reached
<1>4. Log!IsFirstMatch(partner, handled + 1)
  <2>1. sent[handled + 1] \in Message
    BY <1>2 DEF IInv, TypeOK
  <2>2. handled + 1 \in joined[partner] + 1 .. Len(sent)
    BY <1>2
  <2>3. sent[handled + 1] \in {m \in Message : m.from \in Matching}
    BY <1>1, <2>1
  <2>4. \A j \in joined[partner] + 1 .. (handled + 1) - 1 : sent[j] \notin {m \in Message : m.from \in Matching}
    <3> SUFFICES ASSUME NEW j \in joined[partner] + 1 .. (handled + 1) - 1,
                        sent[j] \in {m \in Message : m.from \in Matching}
                 PROVE  FALSE
      OBVIOUS
    <3>1. j \in joined[partner] + 1 .. handled
      BY <1>2
    <3>2. sent[j].from \in Matching
      OBVIOUS
    <3> QED
      BY <1>3, <3>1, <3>2
  <2> QED
    BY <2>2, <2>3, <2>4 DEF Log!IsFirstMatch
<1>5. {s \in Subs : done[s] /\ ~(loop = "call" /\ s = partner)}'
        = {s \in Subs : done[s] /\ ~(loop = "call" /\ s = partner)} \cup {partner}
  <2>1. loop' = "dispatch"
    BY DEF LoopHandOver
  <2> QED
    BY <1>1, <2>1 DEF IInv, TypeOK
<1>6. {s \in Subs : client[s] # "new"}' = {s \in Subs : client[s] # "new"} /\ client[partner] # "new"
  BY <1>1 DEF IInv, TypeOK
<1> QED
  BY <1>1, <1>2, <1>3, <1>4, <1>5, <1>6 DEF Log!Take

\* Every step of the bus is a step of the log, or leaves it alone.
LEMMA LogSteps == IInv /\ [Next]_vars => [Log!Next]_Log!vars
<1> SUFFICES ASSUME IInv, [Next]_vars PROVE Log!Next \/ UNCHANGED Log!vars
  OBVIOUS
<1> USE DEF chanVars, loopVars, subVars, callVars, history
<1>0. Log!Readers = Subs
  BY DEF Log!Readers, Subs
<1>1. ASSUME NEW e \in Emitters, EmitBegin(e) \/ EmitAdd(e) PROVE UNCHANGED Log!vars
  BY <1>1, LogSame DEF EmitBegin, EmitAdd, Gone
<1>2. ASSUME NEW e \in Emitters, EmitSend(e) PROVE Log!Next \/ UNCHANGED Log!vars
  <2>1. CASE qclosed
    BY <1>2, <2>1, LogSame DEF EmitSend, Gone
  <2>2. CASE ~qclosed
    <3> DEFINE m == [from |-> e, seq |-> emitted[e]]
    <3>1. m \in Message
      <4>1. emitted[e] \in 1 .. MaxEmits
        <5>1. emit[e] # "idle"
          BY <1>2 DEF EmitSend
        <5>2. emitted[e] \in 0 .. MaxEmits /\ emitted[e] > 0
          BY <5>1 DEF IInv, TypeOK, Counted
        <5> QED
          BY <5>2, BusAssumption
      <4> QED
        BY <4>1 DEF Message
    <3>2. sent' = Append(sent, m) /\ UNCHANGED <<joined, received, client, done, loop, partner>>
      BY <1>2, <2>2 DEF EmitSend
    <3>3. Log!Publish
      BY <3>1, <3>2 DEF Log!Publish
    <3> QED
      BY <3>3 DEF Log!Next
  <2> QED
    BY <2>1, <2>2
<1>3. ASSUME NEW s \in Subs, Subscribe(s) PROVE Log!Next
  <2>1. client[s] = "new" /\ joined' = [joined EXCEPT ![s] = Len(sent)] /\ UNCHANGED <<sent, received, done, loop, partner>>
        /\ client' = [client EXCEPT ![s] = "subscribed"]
    BY <1>3 DEF Subscribe
  <2>2. {r \in Subs : client[r] # "new"}' = {r \in Subs : client[r] # "new"} \cup {s}
    BY <2>1 DEF IInv, TypeOK
  <2>3. Log!Join(s)
    BY <2>1, <2>2 DEF Log!Join
  <2> QED
    BY <1>0, <2>3 DEF Log!Next
<1>4. ASSUME NEW s \in Subs, CancelContext(s) PROVE Log!Next
  <2>1. \A r \in Subs : Gone(r) => Gone(r)'
    BY <1>4 DEF CancelContext, IInv, TypeOK, Gone
  <2> QED
    BY <1>4, <2>1, LogLeaves DEF CancelContext, Log!Next
<1>5. ASSUME NEW w \in Waiters, WaitClosed(w) \/ WaitAbandoned(w) PROVE UNCHANGED Log!vars
  <2>1. client[w] # "new" /\ UNCHANGED <<sent, joined, received, done, loop, partner>>
    BY <1>5 DEF WaitClosed, WaitAbandoned
  <2>2. \A s \in Subs : client'[s] = "new" <=> client[s] = "new"
    BY <1>5, <2>1 DEF WaitClosed, WaitAbandoned, IInv, TypeOK
  <2> QED
    BY <2>1, <2>2, LogSame DEF Gone
<1>6. ASSUME NEW f \in Flushers, FlushBegin(f) \/ FlushEnd(f) PROVE UNCHANGED Log!vars
  BY <1>6, LogSame DEF FlushBegin, FlushEnd, Gone
<1>7. ASSUME NEW d \in Disposers, DisposeCheck(d) \/ DisposeMark(d) \/ DisposeClose(d)
      PROVE  UNCHANGED Log!vars
  BY <1>7, LogSame DEF DisposeCheck, DisposeMark, DisposeClose, Gone
<1>8. ASSUME LoopStep PROVE Log!Next \/ UNCHANGED Log!vars
  <2>1. ASSUME LoopRegister \/ LoopReceive \/ LoopDone PROVE UNCHANGED Log!vars
    BY <2>1, LogSame DEF LoopRegister, LoopReceive, LoopDone, Gone
  <2>2. ASSUME LoopHandOver PROVE Log!Next
    <3>1. CASE /\ client[partner] = "subscribed"
               /\ client' = [client EXCEPT ![partner] = "matched"]
               /\ received' = [received EXCEPT ![partner] = <<current>>]
      <4>1. partner \in Waiters /\ Log!Take(partner)
        BY <2>2, <3>1, LogTakes
      <4>2. PICK w \in Waiters : w = partner
        BY <4>1
      <4>3. Log!Take(w)
        BY <4>1, <4>2 DEF Log!Take, Log!IsFirstMatch
      <4> QED
        BY <4>3 DEF Log!Next
    <3>2. CASE done[partner] /\ UNCHANGED <<client, received>>
      <4>1. \A r \in Subs : Gone(r) => Gone(r)'
        BY <2>2 DEF LoopHandOver, IInv, TypeOK, Gone
      <4> QED
        BY <2>2, <3>2, <4>1, LogLeaves DEF LoopHandOver, Log!Next
    <3> QED
      BY <2>2, <3>1, <3>2 DEF LoopHandOver
  <2>3. ASSUME LoopEnd PROVE Log!Next
    <3>1. \A r \in Subs : Gone(r) => Gone(r)'
      BY <2>3 DEF LoopEnd, IInv, TypeOK, Gone
    <3> QED
      BY <2>3, <3>1, LogLeaves DEF LoopEnd, Log!Next
  <2>4. ASSUME NEW s \in Subs, LoopExpired(s) \/ LoopOffer(s) \/ LoopCall(s)
        PROVE  UNCHANGED Log!vars
    <3>1. loop = "dispatch" /\ UNCHANGED <<sent, joined, received, client, done>>
      BY <2>4 DEF LoopExpired, LoopOffer, LoopCall
    <3>2. loop' = "call" => ~done[partner']
      BY <2>4, <3>1 DEF LoopExpired, LoopOffer, LoopCall
    <3> QED
      BY <3>1, <3>2, LogSame DEF Gone
  <2>5. ASSUME LoopHandle PROVE Log!Next
    <3>1. partner \in Handlers /\ Log!Deliver(partner)
      BY <2>5, LogDelivers
    <3>2. PICK h \in Handlers : h = partner
      BY <3>1
    <3>3. Log!Deliver(h)
      BY <3>1, <3>2 DEF Log!Deliver
    <3> QED
      BY <3>3 DEF Log!Next
  <2> QED
    BY <1>8, <2>1, <2>2, <2>3, <2>4, <2>5 DEF LoopStep
<1>9. ASSUME UNCHANGED vars PROVE UNCHANGED Log!vars
  BY <1>9, LogSame DEF vars, Gone
<1> QED
  BY <1>1, <1>2, <1>3, <1>4, <1>5, <1>6, <1>7, <1>8, <1>9 DEF Next

\* The bus of bus.go - its bounded channel, its goroutine, the listeners it never forgets
\* and the hand-over that may block it - implements one log that every reader follows.
THEOREM TheBusIsOneLog == Spec => ImplementsLog
BY LogInit, LogSteps, Inductive, PTL DEF Spec, ImplementsLog, Log!Spec
=============================================================================
