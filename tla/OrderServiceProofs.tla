-------------------------- MODULE OrderServiceProofs --------------------------
(***************************************************************************)
(* What TLAPS proves of OrderService, for every number of request          *)
(* handlers and orders and every bound.                                    *)
(***************************************************************************)
EXTENDS OrderService, SequenceTheorems, TLAPS

\* A handler that is not idle serves a request.
ServingOK == \A h \in Handlers : pc[h] # "idle" => request[h] \in Request

TypeInv == TypeOK /\ ServingOK

\* The handler's event is reserved and not yet reported on.
InFlight(h) == pc[h] \in {"produce", "await"} /\ request[h].op # "delete"

\* The handler's order is not registered yet.
Creating(h) == pc[h] \in {"produce", "await", "acked"} /\ request[h].op = "create"

\* A queued record somebody waits for is that handler's, which still waits, and is
\* in the queue once.  Events are always waited for.
QueueIsAwaited ==
  \A t \in Topics : \A i \in DOMAIN queue[t] :
    LET h == queue[t][i].handler IN
      /\ t = "lifecycle" => h # NoHandler
      /\ h # NoHandler =>
           /\ pc[h] = "await"
           /\ Target(request[h]) = t
           /\ queue[t][i].record = Payload(request[h])
           /\ \A j \in DOMAIN queue[t] : queue[t][j].handler = h => i = j

\* Two handlers never have the same event in flight.
FlightsAreUnique ==
  \A g, h \in Handlers :
    InFlight(g) /\ InFlight(h) /\ request[g].order = request[h].order
      /\ request[g].sequence = request[h].sequence => g = h

\* What is in flight is not on the topic.
FlightsAreNew ==
  \A h \in Handlers : InFlight(h) =>
    \A i \in DOMAIN log["lifecycle"] :
      log["lifecycle"][i].order = request[h].order =>
        log["lifecycle"][i].sequence # request[h].sequence

\* A known order's counter is at or past every sequence ever given out for it.
CounterIsAhead ==
  \A o \in Orders : Known(o) =>
    /\ o \in registered
    /\ \A i \in DOMAIN log["lifecycle"] :
         log["lifecycle"][i].order = o =>
           log["lifecycle"][i].sequence <= orders[o].last_sequence
    /\ \A h \in Handlers : InFlight(h) /\ request[h].order = o =>
         request[h].sequence <= orders[o].last_sequence

\* Nobody but its creator works on an order before it is registered, and nothing
\* past its first event exists.
CreatorIsAlone ==
  \A h \in Handlers : Creating(h) =>
    /\ request[h].order \notin registered
    /\ request[h].sequence = 1
    /\ \A g \in Handlers : pc[g] # "idle" /\ request[g].order = request[h].order => g = h
    /\ \A i \in DOMAIN log["lifecycle"] :
         log["lifecycle"][i].order = request[h].order => log["lifecycle"][i].sequence = 1

SeqInv ==
  /\ TypeInv
  /\ QueueIsAwaited
  /\ FlightsAreUnique
  /\ FlightsAreNew
  /\ CounterIsAhead
  /\ CreatorIsAlone
  /\ SequencesAreUnique

-----------------------------------------------------------------------------
(* Type correctness.                                                       *)

LEMMA TopicsExist == "lifecycle" \in Topics /\ "snapshot" \in Topics
  BY DEF Topics

\* What a request publishes belongs on the topic it goes to.
LEMMA PayloadType ==
  ASSUME NEW req \in Request
  PROVE  Target(req) \in Topics /\ Payload(req) \in Contents(Target(req))
  BY DEF Request, Target, Payload, Contents, Topics, EventRecord, TableRecord

Queued(t) == [handler : Handlers \cup {NoHandler}, record : Contents(t)]

QueueOK == DOMAIN queue = Topics /\ \A t \in Topics : queue[t] \in Seq(Queued(t))
LogOK   == DOMAIN log = Topics /\ \A t \in Topics : log[t] \in Seq(Contents(t))

LEMMA TopicsTyped == TypeOK => QueueOK /\ LogOK
  BY DEF TypeOK, QueueOK, LogOK, Queued

LEMMA EnqueueType ==
  ASSUME QueueOK, NEW t \in Topics, NEW h \in Handlers \cup {NoHandler},
         NEW r \in Contents(t), Enqueue(t, h, r)
  PROVE  QueueOK'
<1>1. [handler |-> h, record |-> r] \in Queued(t)
  BY DEF Queued
<1>2. Append(queue[t], [handler |-> h, record |-> r]) \in Seq(Queued(t))
  BY <1>1 DEF QueueOK
<1>3. QED BY <1>2 DEF Enqueue, QueueOK

LEMMA DequeueType ==
  ASSUME QueueOK, NEW t \in Topics, queue[t] # << >>
  PROVE  /\ Head(queue[t]) \in Queued(t)
         /\ queue' = [queue EXCEPT ![t] = Tail(@)] => QueueOK'
<1>1. queue[t] \in Seq(Queued(t))
  BY DEF QueueOK
<1>2. Head(queue[t]) \in Queued(t) /\ Tail(queue[t]) \in Seq(Queued(t))
  BY <1>1
<1>3. QED BY <1>2 DEF QueueOK

LEMMA AppendType ==
  ASSUME LogOK, NEW t \in Topics, NEW r \in Contents(t),
         log' = [log EXCEPT ![t] = Append(@, r)]
  PROVE  LogOK'
<1>1. Append(log[t], r) \in Seq(Contents(t))
  BY DEF LogOK
<1>2. QED BY <1>1 DEF LogOK

LEMMA ReportType ==
  ASSUME TypeInv, NEW h \in Handlers \cup {NoHandler},
         NEW label \in {"idle", "acked"}, Report(h, label), UNCHANGED request
  PROVE  /\ pc' \in [Handlers -> {"idle", "produce", "await", "acked", "mirror"}]
         /\ ServingOK'
  BY DEF TypeInv, TypeOK, ServingOK, Report

LEMMA DisruptType == TypeOK /\ Disrupt => disruptions' \in Nat
  BY DEF TypeOK, Disrupt

LEMMA TypeInit == Init => TypeInv
  BY DEF Init, TypeInv, TypeOK, ServingOK, NoRequest, Topics, Contents

LEMMA StatesAreStates == \A type \in EventType : RESULTING_STATE[type] \in OrderState
  BY DEF EventType, RESULTING_STATE, OrderState

LEMMA TypeStep == TypeInv /\ [Next]_vars => TypeInv'
<1> SUFFICES ASSUME TypeInv, [Next]_vars PROVE TypeInv'
  OBVIOUS
<1> USE TopicsTyped
<1>q. QueueOK /\ LogOK
  BY DEF TypeInv
<1>back. QueueOK' /\ LogOK' =>
            /\ DOMAIN log' = Topics /\ DOMAIN queue' = Topics
            /\ \A t \in Topics :
                 /\ log'[t] \in Seq(Contents(t))
                 /\ queue'[t] \in Seq([handler : Handlers \cup {NoHandler}, record : Contents(t)])
  BY DEF QueueOK, LogOK, Queued
<1>log. UNCHANGED log => LogOK'
  BY <1>q DEF LogOK
<1>queue. UNCHANGED queue => QueueOK'
  BY <1>q DEF QueueOK
<1>1. ASSUME NEW h \in Handlers, NEW o \in Orders, CreateOrder(h, o) PROVE TypeInv'
  <2>1. request' \in [Handlers -> Request \cup {NoRequest}] /\ request'[h] \in Request
    BY <1>1 DEF CreateOrder, TypeInv, TypeOK, Request, EventType
  <2>2. ServingOK'
    BY <1>1, <2>1 DEF CreateOrder, TypeInv, TypeOK, ServingOK, Goto
  <2>3. QED BY <1>1, <1>q, <1>back, <1>log, <1>queue, <2>1, <2>2 DEF CreateOrder, TypeInv, TypeOK, Goto
<1>2. ASSUME NEW h \in Handlers, NEW o \in Orders, DeleteOrder(h, o) PROVE TypeInv'
  <2>1. request' \in [Handlers -> Request \cup {NoRequest}] /\ request'[h] \in Request
    BY <1>2 DEF DeleteOrder, TypeInv, TypeOK, Request, EventType
  <2>2. ServingOK'
    BY <1>2, <2>1 DEF DeleteOrder, TypeInv, TypeOK, ServingOK, Goto
  <2>3. QED BY <1>2, <1>back, <1>log, <1>queue, <2>1, <2>2 DEF DeleteOrder, TypeInv, TypeOK, Goto
<1>3. ASSUME NEW h \in Handlers, NEW o \in Orders, NEW type \in EventType,
             NEW forced \in BOOLEAN, PublishEvent(h, o, type, forced)
      PROVE  TypeInv'
  <2>0. orders[o] \in OrderRecord
    BY <1>3 DEF PublishEvent, Callable, Known, TypeInv, TypeOK
  <2>1. orders' \in [Orders -> OrderRecord \cup {NoFold}]
    BY <1>3, <2>0 DEF PublishEvent, reserve, TypeInv, TypeOK, OrderRecord
  <2>2. request' \in [Handlers -> Request \cup {NoRequest}] /\ request'[h] \in Request
    BY <1>3, <2>0 DEF PublishEvent, TypeInv, TypeOK, Request, OrderRecord
  <2>3. ServingOK'
    BY <1>3, <2>2 DEF PublishEvent, TypeInv, TypeOK, ServingOK, Goto
  <2>4. QED BY <1>3, <1>back, <1>log, <1>queue, <2>1, <2>2, <2>3
            DEF PublishEvent, TypeInv, TypeOK, Goto
<1>4. ASSUME NEW h \in Handlers, Produce(h) PROVE TypeInv'
  <2>1. request[h] \in Request
    BY <1>4 DEF Produce, TypeInv, ServingOK
  <2>2. QueueOK'
    BY <1>4, <1>q, <2>1, PayloadType, EnqueueType DEF Produce
  <2>3. ServingOK'
    BY <1>4, <2>1 DEF Produce, TypeInv, TypeOK, ServingOK, Goto
  <2>4. QED BY <1>4, <1>back, <1>log, <2>2, <2>3 DEF Produce, TypeInv, TypeOK, Goto
<1>5. ASSUME NEW h \in Handlers, ProduceRefused(h) PROVE TypeInv'
  <2>1. ServingOK'
    BY <1>5 DEF ProduceRefused, TypeInv, TypeOK, ServingOK, Goto
  <2>2. QED BY <1>5, <1>back, <1>log, <1>queue, <2>1, DisruptType
            DEF ProduceRefused, TypeInv, TypeOK, Goto
<1>6. ASSUME NEW h \in Handlers, Register(h) PROVE TypeInv'
  <2>1. request[h] \in Request
    BY <1>6 DEF Register, may_register, TypeInv, ServingOK
  <2>2. [state |-> RESULTING_STATE["ORDER_CREATED"], last_sequence |-> 1] \in OrderRecord
    BY StatesAreStates DEF OrderRecord, EventType
  <2>3. ServingOK'
    BY <1>6, <2>1 DEF Register, TypeInv, TypeOK, ServingOK, Goto
  <2>4. QED BY <1>6, <1>back, <1>log, <1>queue, <2>1, <2>2, <2>3
            DEF Register, TypeInv, TypeOK, Goto, Request
<1>7. ASSUME NEW h \in Handlers, Commit(h) PROVE TypeInv'
  <2>1. request[h] \in Request
    BY <1>7 DEF Commit, TypeInv, ServingOK
  <2>2. orders' \in [Orders -> OrderRecord \cup {NoFold}]
    BY <1>7, <2>1, StatesAreStates DEF Commit, commit, Known, TypeInv, TypeOK, Request, OrderRecord
  <2>3. ServingOK'
    BY <1>7, <2>1 DEF Commit, TypeInv, TypeOK, ServingOK, Goto
  <2>4. QED BY <1>7, <1>back, <1>log, <1>queue, <2>1, <2>2, <2>3
            DEF Commit, TypeInv, TypeOK, Goto, Request
<1>8. ASSUME NEW h \in Handlers, CommitUnknown(h) PROVE TypeInv'
  <2>1. ServingOK'
    BY <1>8 DEF CommitUnknown, TypeInv, TypeOK, ServingOK, Goto
  <2>2. QED BY <1>8, <1>back, <1>log, <1>queue, <2>1 DEF CommitUnknown, TypeInv, TypeOK, Goto
<1>9. ASSUME NEW h \in Handlers, Remove(h) PROVE TypeInv'
  <2>1. ServingOK'
    BY <1>9 DEF Remove, TypeInv, TypeOK, ServingOK, Goto
  <2>2. QED BY <1>9, <1>back, <1>log, <1>queue, <2>1 DEF Remove, TypeInv, TypeOK, Goto
<1>10. ASSUME NEW h \in Handlers, PublishSnapshot(h) PROVE TypeInv'
  <2>1. request[h] \in Request
    BY <1>10 DEF PublishSnapshot, TypeInv, ServingOK
  <2>2. [order |-> request[h].order, value |-> snapshot[h]] \in Contents("snapshot")
    BY <2>1 DEF Contents, TableRecord, Request, TypeInv, TypeOK
  <2>3. QueueOK'
    BY <1>10, <1>q, <1>queue, <2>2, EnqueueType, TopicsExist DEF PublishSnapshot
  <2>4. ServingOK'
    BY <1>10 DEF PublishSnapshot, TypeInv, TypeOK, ServingOK, Goto
  <2>5. QED BY <1>10, <1>back, <1>log, <2>3, <2>4, DisruptType
            DEF PublishSnapshot, TypeInv, TypeOK, Goto
<1>11. ASSUME NEW t \in Topics, Deliver(t) PROVE TypeInv'
  <2>1. Head(queue[t]) \in Queued(t) /\ QueueOK'
    BY <1>11, <1>q, DequeueType DEF Deliver
  <2>2. LogOK'
    BY <1>11, <1>q, <2>1, AppendType DEF Deliver, Queued
  <2>3. /\ pc' \in [Handlers -> {"idle", "produce", "await", "acked", "mirror"}]
        /\ ServingOK'
    BY <1>11, <2>1, ReportType DEF Deliver, Queued
  <2>4. QED BY <1>11, <1>back, <2>1, <2>2, <2>3 DEF Deliver, TypeInv, TypeOK
<1>12. ASSUME NEW t \in Topics, DeliveryFails(t) PROVE TypeInv'
  <2>1. Head(queue[t]) \in Queued(t) /\ QueueOK'
    BY <1>12, <1>q, DequeueType DEF DeliveryFails
  <2>2. LogOK'
    BY <1>12, <1>q, <1>log, <2>1, AppendType DEF DeliveryFails, Queued
  <2>3. /\ pc' \in [Handlers -> {"idle", "produce", "await", "acked", "mirror"}]
        /\ ServingOK'
    BY <1>12, <2>1, ReportType DEF DeliveryFails, Queued
  <2>4. QED BY <1>12, <1>back, <2>1, <2>2, <2>3, DisruptType DEF DeliveryFails, TypeInv, TypeOK
<1>13. CASE UNCHANGED vars
  BY <1>13 DEF vars, TypeInv, TypeOK, ServingOK
<1>14. QED BY <1>1, <1>2, <1>3, <1>4, <1>5, <1>6, <1>7, <1>8, <1>9, <1>10, <1>11, <1>12, <1>13
           DEF Next, Requests, Answers

\* The order service keeps its types: every queued record is one its topic may hold,
\* every request a handler serves is a request, and sequences are natural numbers.
THEOREM TypeCorrect == Spec => []TypeOK
<1>1. Spec => []TypeInv
  BY TypeInit, TypeStep, PTL DEF Spec
<1>2. TypeInv => TypeOK
  BY DEF TypeInv
<1>3. QED BY <1>1, <1>2, PTL

-----------------------------------------------------------------------------
(* No two events share a sequence: what a step must respect to keep each   *)
(* part of the invariant.                                                  *)

\* What the queue says of a record, by its handler.
LEMMA Awaited ==
  ASSUME QueueIsAwaited, NEW t \in Topics, NEW i \in DOMAIN queue[t],
         NEW h, h = queue[t][i].handler, h # NoHandler
  PROVE  /\ pc[h] = "await"
         /\ Target(request[h]) = t
         /\ queue[t][i].record = Payload(request[h])
         /\ \A j \in DOMAIN queue[t] : queue[t][j].handler = h => i = j
  BY SMTT(30) DEF QueueIsAwaited, Target, Payload

LEMMA QueuedHandler ==
  ASSUME QueueOK, NEW t \in Topics, NEW i \in DOMAIN queue[t]
  PROVE  queue[t][i].handler \in Handlers \cup {NoHandler}
<1>1. queue[t] \in Seq(Queued(t))
  BY DEF QueueOK
<1>2. queue[t][i] \in Queued(t)
  BY <1>1
<1>3. QED BY <1>2 DEF Queued

LEMMA TailIsShifted ==
  ASSUME NEW S, NEW q \in Seq(S), q # << >>
  PROVE  \A i \in DOMAIN Tail(q) :
           i \in Nat \ {0} /\ i + 1 \in DOMAIN q /\ Tail(q)[i] = q[i + 1]
  OBVIOUS

LEMMA QueueKept ==
  ASSUME SeqInv, UNCHANGED queue,
         \A g \in Handlers : pc[g] = "await" => pc'[g] = "await" /\ request'[g] = request[g]
  PROVE  QueueIsAwaited'
<1> SUFFICES ASSUME NEW t \in Topics, NEW i \in DOMAIN queue[t],
                    NEW h, h = queue[t][i].handler
             PROVE  /\ t = "lifecycle" => h # NoHandler
                    /\ h # NoHandler =>
                         /\ pc'[h] = "await" /\ Target(request'[h]) = t
                         /\ queue[t][i].record = Payload(request'[h])
                         /\ \A j \in DOMAIN queue[t] : queue[t][j].handler = h => i = j
  BY DEF QueueIsAwaited, Target, Payload
<1>1. h \in Handlers \cup {NoHandler}
  BY TopicsTyped, QueuedHandler DEF SeqInv, TypeInv
<1>2. QED BY <1>1 DEF SeqInv, QueueIsAwaited

LEMMA FlightsKept ==
  ASSUME SeqInv, log'["lifecycle"] = log["lifecycle"],
         \A g \in Handlers : InFlight(g)' => InFlight(g) /\ request'[g] = request[g]
  PROVE  FlightsAreUnique' /\ FlightsAreNew' /\ SequencesAreUnique'
<1>1. FlightsAreUnique'
  BY DEF SeqInv, FlightsAreUnique
<1>2. FlightsAreNew'
  BY DEF SeqInv, FlightsAreNew
<1>3. SequencesAreUnique'
  BY DEF SeqInv, SequencesAreUnique
<1>4. QED BY <1>1, <1>2, <1>3

LEMMA CountersKept ==
  ASSUME SeqInv, TypeInv', log'["lifecycle"] = log["lifecycle"],
         registered \subseteq registered',
         \A g \in Handlers : InFlight(g)' => InFlight(g) /\ request'[g] = request[g],
         \A o \in Orders : Known(o)' =>
           Known(o) /\ orders'[o].last_sequence = orders[o].last_sequence
  PROVE  CounterIsAhead'
  BY DEF SeqInv, CounterIsAhead

LEMMA CreatorsKept ==
  ASSUME SeqInv, log'["lifecycle"] = log["lifecycle"],
         \A g \in Handlers : Creating(g)' =>
           /\ Creating(g) /\ request'[g] = request[g]
           /\ request[g].order \notin registered',
         \A g \in Handlers : pc'[g] # "idle" =>
           \/ pc[g] # "idle" /\ request'[g] = request[g]
           \/ request'[g].order \in registered
  PROVE  CreatorIsAlone'
<1> SUFFICES ASSUME NEW h \in Handlers, Creating(h)'
             PROVE  /\ request'[h].order \notin registered'
                    /\ request'[h].sequence = 1
                    /\ \A g \in Handlers :
                         pc'[g] # "idle" /\ request'[g].order = request'[h].order => g = h
                    /\ \A i \in DOMAIN log["lifecycle"] :
                         log["lifecycle"][i].order = request'[h].order =>
                           log["lifecycle"][i].sequence = 1
  BY DEF CreatorIsAlone
<1>1. Creating(h) /\ request'[h] = request[h] /\ request[h].order \notin registered'
  OBVIOUS
<1>2. QED BY <1>1 DEF SeqInv, CreatorIsAlone

\* The oldest record leaves its queue and its handler stops waiting.
LEMMA QueueShrinks ==
  ASSUME SeqInv, NEW t \in Topics, queue[t] # << >>,
         queue' = [queue EXCEPT ![t] = Tail(@)], NEW label,
         Report(Head(queue[t]).handler, label), UNCHANGED request
  PROVE  QueueIsAwaited'
<1> DEFINE h == Head(queue[t]).handler
<1>q. QueueOK
  BY TopicsTyped DEF SeqInv, TypeInv
<1>1. queue[t] \in Seq(Queued(t)) /\ 1 \in DOMAIN queue[t] /\ h = queue[t][1].handler
  BY <1>q DEF QueueOK
<1>2. DOMAIN queue = Topics
  BY <1>q DEF QueueOK
<1>3. \A u \in Topics : u # t => queue'[u] = queue[u]
  BY <1>2
<1>4. queue'[t] = Tail(queue[t])
  BY <1>2
<1>5. \A i \in DOMAIN queue'[t] :
        i \in Nat \ {0} /\ i + 1 \in DOMAIN queue[t] /\ queue'[t][i] = queue[t][i + 1]
  BY <1>1, <1>4, TailIsShifted
<1>6. \A g \in Handlers : g # h => pc'[g] = pc[g]
  BY DEF Report, SeqInv, TypeInv, TypeOK
<1>7. \A u \in Topics : \A i \in DOMAIN queue[u] :
        queue[u][i].handler \in Handlers \cup {NoHandler}
  BY <1>q, QueuedHandler
<1> SUFFICES ASSUME NEW u \in Topics, NEW i \in DOMAIN queue'[u],
                    NEW g, g = queue'[u][i].handler
             PROVE  /\ u = "lifecycle" => g # NoHandler
                    /\ g # NoHandler =>
                         /\ pc'[g] = "await" /\ Target(request[g]) = u
                         /\ queue'[u][i].record = Payload(request[g])
                         /\ \A j \in DOMAIN queue'[u] : queue'[u][j].handler = g => i = j
  BY SMTT(30) DEF QueueIsAwaited, Target, Payload
<1>8. CASE u = t
  <2>1. PICK k \in DOMAIN queue[t] : i \in Nat \ {0} /\ k = i + 1 /\ queue'[t][i] = queue[t][k]
    BY <1>5, <1>8
  <2>2. g = queue[t][k].handler
    BY <1>8, <2>1
  <2>3. t = "lifecycle" => g # NoHandler
    BY <2>2 DEF SeqInv, QueueIsAwaited
  <2>4. ASSUME g # NoHandler
        PROVE  /\ pc[g] = "await" /\ Target(request[g]) = t
               /\ queue[t][k].record = Payload(request[g])
               /\ \A j \in DOMAIN queue[t] : queue[t][j].handler = g => k = j
    BY <2>2, <2>4, Awaited DEF SeqInv
  <2>5. g # NoHandler => g # h
    BY <1>1, <2>1, <2>4
  <2>6. g # NoHandler => pc'[g] = "await"
    BY <1>6, <1>7, <2>2, <2>4, <2>5
  <2>7. ASSUME g # NoHandler, NEW j \in DOMAIN queue'[t], queue'[t][j].handler = g
        PROVE  i = j
    <3>1. PICK l \in DOMAIN queue[t] : j \in Nat \ {0} /\ l = j + 1 /\ queue'[t][j] = queue[t][l]
      BY <1>5
    <3>2. k = l
      BY <2>4, <2>7, <3>1
    <3>3. QED BY <2>1, <3>1, <3>2
  <2>8. QED BY <1>8, <2>1, <2>3, <2>4, <2>6, <2>7
<1>9. CASE u # t
  <2>1. i \in DOMAIN queue[u] /\ queue'[u] = queue[u] /\ g = queue[u][i].handler
    BY <1>3, <1>9
  <2>2. u = "lifecycle" => g # NoHandler
    BY <2>1 DEF SeqInv, QueueIsAwaited
  <2>3. ASSUME g # NoHandler
        PROVE  /\ pc[g] = "await" /\ Target(request[g]) = u
               /\ queue[u][i].record = Payload(request[g])
               /\ \A j \in DOMAIN queue[u] : queue[u][j].handler = g => i = j
    BY <2>1, <2>3, Awaited DEF SeqInv
  <2>4. h # NoHandler => Target(request[h]) = t
    BY <1>1 DEF SeqInv, QueueIsAwaited
  <2>5. g # NoHandler => pc'[g] = "await"
    BY <1>6, <1>7, <1>9, <2>1, <2>3, <2>4
  <2>6. QED BY <2>1, <2>2, <2>3, <2>5
<1>10. QED BY <1>8, <1>9

\* A record joins the end of its queue.
LEMMA QueueGrows ==
  ASSUME SeqInv, NEW t \in Topics, NEW h \in Handlers \cup {NoHandler}, NEW r,
         Enqueue(t, h, r),
         t = "lifecycle" => h # NoHandler,
         h # NoHandler => /\ pc[h] = "produce" /\ pc'[h] = "await"
                          /\ Target(request[h]) = t /\ r = Payload(request[h]),
         \A g \in Handlers : pc[g] = "await" => pc'[g] = "await",
         UNCHANGED request
  PROVE  QueueIsAwaited'
<1>q. QueueOK
  BY TopicsTyped DEF SeqInv, TypeInv
<1>1. DOMAIN queue = Topics /\ queue[t] \in Seq(Queued(t))
  BY <1>q DEF QueueOK
<1>2. \A u \in Topics : u # t => queue'[u] = queue[u]
  BY <1>1 DEF Enqueue
<1>3. queue'[t] = Append(queue[t], [handler |-> h, record |-> r])
  BY <1>1 DEF Enqueue
<1>4. \A i \in DOMAIN queue'[t] :
        \/ i \in DOMAIN queue[t] /\ queue'[t][i] = queue[t][i]
        \/ i = Len(queue[t]) + 1 /\ queue'[t][i] = [handler |-> h, record |-> r]
  BY <1>1, <1>3
<1>5. \A u \in Topics : \A i \in DOMAIN queue[u] :
        queue[u][i].handler \in Handlers \cup {NoHandler}
  BY <1>q, QueuedHandler
<1>6. \A u \in Topics : \A i \in DOMAIN queue[u] :
        queue[u][i].handler # NoHandler =>
          pc[queue[u][i].handler] = "await" /\ queue[u][i].handler # h
  BY Awaited DEF SeqInv
<1> SUFFICES ASSUME NEW u \in Topics, NEW i \in DOMAIN queue'[u],
                    NEW g, g = queue'[u][i].handler
             PROVE  /\ u = "lifecycle" => g # NoHandler
                    /\ g # NoHandler =>
                         /\ pc'[g] = "await" /\ Target(request[g]) = u
                         /\ queue'[u][i].record = Payload(request[g])
                         /\ \A j \in DOMAIN queue'[u] : queue'[u][j].handler = g => i = j
  BY DEF QueueIsAwaited, Target, Payload
<1>7. CASE i \in DOMAIN queue[u] /\ queue'[u][i] = queue[u][i]
  <2>1. g = queue[u][i].handler
    BY <1>7
  <2>2. u = "lifecycle" => g # NoHandler
    BY <1>7, <2>1 DEF SeqInv, QueueIsAwaited
  <2>3. ASSUME g # NoHandler
        PROVE  /\ pc[g] = "await" /\ Target(request[g]) = u
               /\ queue[u][i].record = Payload(request[g])
               /\ \A j \in DOMAIN queue[u] : queue[u][j].handler = g => i = j
    BY <1>7, <2>1, <2>3, Awaited DEF SeqInv
  <2>4. g # NoHandler => pc'[g] = "await" /\ g # h
    BY <1>5, <1>6, <1>7, <2>1, <2>3
  <2>5. ASSUME g # NoHandler, NEW j \in DOMAIN queue'[u], queue'[u][j].handler = g
        PROVE  i = j
    <3>1. j \in DOMAIN queue[u] /\ queue'[u][j] = queue[u][j]
      BY <1>2, <1>4, <2>4, <2>5
    <3>2. QED BY <2>3, <2>5, <3>1
  <2>6. QED BY <1>7, <2>2, <2>3, <2>4, <2>5
<1>8. CASE u = t /\ i = Len(queue[t]) + 1 /\ queue'[t][i] = [handler |-> h, record |-> r]
  <2>1. g = h /\ queue'[t][i].record = r
    BY <1>8
  <2>2. ASSUME g # NoHandler, NEW j \in DOMAIN queue'[t], queue'[t][j].handler = g
        PROVE  i = j
    BY <1>4, <1>6, <1>8, <2>1, <2>2
  <2>3. QED BY <1>8, <2>1, <2>2
<1>9. QED BY <1>2, <1>4, <1>7, <1>8

\* The event of a waiting handler lands, and the handler stops waiting.
LEMMA EventLands ==
  ASSUME SeqInv, TypeInv', NEW h \in Handlers, InFlight(h), NEW label \in {"acked", "idle"},
         log' = [log EXCEPT !["lifecycle"] = Append(@, Payload(request[h]))],
         pc' = [pc EXCEPT ![h] = label],
         UNCHANGED <<orders, request, registered>>
  PROVE  FlightsAreUnique' /\ FlightsAreNew' /\ CounterIsAhead' /\ CreatorIsAlone'
           /\ SequencesAreUnique'
<1> DEFINE L == log["lifecycle"]  e == Payload(request[h])
<1>1. LogOK /\ L \in Seq(Contents("lifecycle"))
  BY TopicsTyped, TopicsExist DEF SeqInv, TypeInv, LogOK
<1>2. log'["lifecycle"] = Append(L, e)
  BY <1>1, TopicsExist DEF LogOK
<1>3. \A i \in DOMAIN log'["lifecycle"] :
        \/ i \in DOMAIN L /\ log'["lifecycle"][i] = L[i]
        \/ i = Len(L) + 1 /\ log'["lifecycle"][i] = e
  BY <1>1, <1>2
<1>4. request[h] \in Request
  BY DEF InFlight, SeqInv, TypeInv, ServingOK
<1>5. e.order = request[h].order /\ e.sequence = request[h].sequence
  BY DEF Payload, InFlight
<1>6. \A g \in Handlers : InFlight(g)' => InFlight(g) /\ g # h
  BY DEF InFlight, SeqInv, TypeInv, TypeOK
<1>7. \A g \in Handlers : Creating(g)' => Creating(g)
  BY DEF InFlight, Creating, SeqInv, TypeInv, TypeOK
<1>8. \A g \in Handlers : pc'[g] # "idle" => pc[g] # "idle"
  BY DEF InFlight, SeqInv, TypeInv, TypeOK
<1>9. FlightsAreUnique'
  BY <1>6 DEF SeqInv, FlightsAreUnique
<1>10. FlightsAreNew'
  <2> SUFFICES ASSUME NEW g \in Handlers, InFlight(g)', NEW i \in DOMAIN log'["lifecycle"],
                      log'["lifecycle"][i].order = request[g].order
               PROVE  log'["lifecycle"][i].sequence # request[g].sequence
    BY DEF FlightsAreNew
  <2>1. CASE i \in DOMAIN L /\ log'["lifecycle"][i] = L[i]
    BY <1>6, <2>1 DEF SeqInv, FlightsAreNew
  <2>2. CASE log'["lifecycle"][i] = e
    BY <1>5, <1>6, <2>2 DEF SeqInv, FlightsAreUnique
  <2>3. QED BY <1>3, <2>1, <2>2
<1>11. CounterIsAhead'
  <2> SUFFICES ASSUME NEW o \in Orders, Known(o)
               PROVE  /\ o \in registered
                      /\ \A i \in DOMAIN log'["lifecycle"] :
                           log'["lifecycle"][i].order = o =>
                             log'["lifecycle"][i].sequence <= orders[o].last_sequence
                      /\ \A g \in Handlers : InFlight(g)' /\ request[g].order = o =>
                           request[g].sequence <= orders[o].last_sequence
    BY DEF CounterIsAhead, Known
  <2>1. /\ o \in registered
        /\ \A i \in DOMAIN L : L[i].order = o => L[i].sequence <= orders[o].last_sequence
        /\ \A g \in Handlers : InFlight(g) /\ request[g].order = o =>
             request[g].sequence <= orders[o].last_sequence
    BY DEF SeqInv, CounterIsAhead
  <2>2. QED BY <1>3, <1>5, <1>6, <2>1
<1>12. CreatorIsAlone'
  <2> SUFFICES ASSUME NEW g \in Handlers, Creating(g)'
               PROVE  /\ request[g].order \notin registered
                      /\ request[g].sequence = 1
                      /\ \A f \in Handlers :
                           pc'[f] # "idle" /\ request[f].order = request[g].order => f = g
                      /\ \A i \in DOMAIN log'["lifecycle"] :
                           log'["lifecycle"][i].order = request[g].order =>
                             log'["lifecycle"][i].sequence = 1
    BY DEF CreatorIsAlone
  <2>1. /\ request[g].order \notin registered
        /\ request[g].sequence = 1
        /\ \A f \in Handlers :
             pc[f] # "idle" /\ request[f].order = request[g].order => f = g
        /\ \A i \in DOMAIN L : L[i].order = request[g].order => L[i].sequence = 1
    BY <1>7 DEF SeqInv, CreatorIsAlone
  <2>2. e.order = request[g].order => e.sequence = 1
    BY <1>5, <2>1 DEF InFlight
  <2>3. QED BY <1>3, <1>8, <2>1, <2>2
<1>13. SequencesAreUnique'
  <2>1. \A i \in DOMAIN L : L[i].order = e.order => L[i].sequence # e.sequence
    BY <1>5 DEF SeqInv, FlightsAreNew
  <2>2. \A i, j \in DOMAIN L : i # j /\ L[i].order = L[j].order => L[i].sequence # L[j].sequence
    BY DEF SeqInv, SequencesAreUnique
  <2> SUFFICES ASSUME NEW i \in DOMAIN log'["lifecycle"], NEW j \in DOMAIN log'["lifecycle"],
                      i # j, log'["lifecycle"][i].order = log'["lifecycle"][j].order
               PROVE  log'["lifecycle"][i].sequence # log'["lifecycle"][j].sequence
    BY DEF SequencesAreUnique
  <2>3. QED BY <1>3, <2>1, <2>2
<1>14. QED BY <1>9, <1>10, <1>11, <1>12, <1>13

LEMMA SeqInit == Init => SeqInv
<1> SUFFICES ASSUME Init PROVE SeqInv
  OBVIOUS
<1>1. TypeInv
  BY TypeInit
<1>2. QueueIsAwaited
  BY DEF Init, QueueIsAwaited
<1>3. FlightsAreUnique /\ FlightsAreNew /\ CreatorIsAlone
  BY DEF Init, FlightsAreUnique, FlightsAreNew, CreatorIsAlone, InFlight, Creating
<1>4. CounterIsAhead
  BY DEF Init, CounterIsAhead, Known
<1>5. SequencesAreUnique
  BY TopicsExist DEF Init, SequencesAreUnique
<1>6. QED BY <1>1, <1>2, <1>3, <1>4, <1>5 DEF SeqInv

\* An idle handler takes up a request that publishes an event.
LEMMA FlightBegins ==
  ASSUME SeqInv, TypeInv', NEW h \in Handlers, pc[h] = "idle",
         NEW r \in Request, r.op # "delete",
         request' = [request EXCEPT ![h] = r], pc' = [pc EXCEPT ![h] = "produce"],
         UNCHANGED <<log, queue>>,
         \A g \in Handlers : InFlight(g) /\ request[g].order = r.order =>
           request[g].sequence # r.sequence,
         \A i \in DOMAIN log["lifecycle"] : log["lifecycle"][i].order = r.order =>
           log["lifecycle"][i].sequence # r.sequence
  PROVE  QueueIsAwaited' /\ FlightsAreUnique' /\ FlightsAreNew' /\ SequencesAreUnique'
<1>1. \A g \in Handlers : g # h => pc'[g] = pc[g] /\ request'[g] = request[g]
  BY DEF SeqInv, TypeInv, TypeOK
<1>2. request'[h] = r /\ pc'[h] = "produce"
  BY DEF SeqInv, TypeInv, TypeOK
<1>3. \A g \in Handlers : g # h => (InFlight(g)' <=> InFlight(g))
  BY <1>1 DEF InFlight
<1>4. QueueIsAwaited'
  BY <1>1, QueueKept
<1>5. FlightsAreUnique'
  BY <1>1, <1>2, <1>3 DEF SeqInv, FlightsAreUnique
<1>6. FlightsAreNew'
  BY <1>1, <1>2, <1>3 DEF SeqInv, FlightsAreNew
<1>7. SequencesAreUnique'
  BY DEF SeqInv, SequencesAreUnique
<1>8. QED BY <1>4, <1>5, <1>6, <1>7

\* A handler goes on to its next step, or answers, without waiting for a report.
LEMMA HandlerMovesOn ==
  ASSUME SeqInv, TypeInv', NEW h \in Handlers, pc[h] \in {"produce", "acked", "mirror"},
         NEW label \in {"idle", "mirror"}, pc' = [pc EXCEPT ![h] = label],
         UNCHANGED <<log, request>>,
         registered \subseteq registered',
         \A g \in Handlers : g # h /\ Creating(g) => request[g].order \notin registered'
  PROVE  /\ UNCHANGED queue => QueueIsAwaited'
         /\ FlightsAreUnique' /\ FlightsAreNew' /\ SequencesAreUnique' /\ CreatorIsAlone'
         /\ \A g \in Handlers : InFlight(g)' => InFlight(g) /\ g # h
<1>1. pc'[h] = label /\ \A g \in Handlers : g # h => pc'[g] = pc[g]
  BY DEF SeqInv, TypeInv, TypeOK
<1>2. UNCHANGED queue => QueueIsAwaited'
  BY <1>1, QueueKept
<1>3. \A g \in Handlers : InFlight(g)' => InFlight(g) /\ g # h
  BY <1>1 DEF InFlight
<1>4. FlightsAreUnique' /\ FlightsAreNew' /\ SequencesAreUnique'
  BY <1>3, FlightsKept
<1>5. \A g \in Handlers : Creating(g)' => Creating(g) /\ g # h
  BY <1>1 DEF Creating
<1>6. CreatorIsAlone'
  BY <1>1, <1>5, CreatorsKept
<1>7. QED BY <1>2, <1>3, <1>4, <1>6

\* A record that is no event lands, or one is given up on: its handler, if it has
\* one, stops waiting.
LEMMA NoEventLands ==
  ASSUME SeqInv, TypeInv', NEW t \in Topics, queue[t] # << >>,
         NEW label \in {"acked", "idle"}, Report(Head(queue[t]).handler, label),
         log'["lifecycle"] = log["lifecycle"], UNCHANGED <<orders, request, registered>>
  PROVE  FlightsAreUnique' /\ FlightsAreNew' /\ SequencesAreUnique' /\ CounterIsAhead'
           /\ CreatorIsAlone'
<1> DEFINE h == Head(queue[t]).handler
<1>1. pc' = pc \/ (pc[h] = "await" /\ pc' = [pc EXCEPT ![h] = label])
  BY DEF Report
<1>2. \A g \in Handlers : pc'[g] = pc[g] \/ (pc[g] = "await" /\ pc'[g] = label)
  BY <1>1 DEF SeqInv, TypeInv, TypeOK
<1>3. \A g \in Handlers : InFlight(g)' => InFlight(g)
  BY <1>2 DEF InFlight
<1>4. FlightsAreUnique' /\ FlightsAreNew' /\ SequencesAreUnique'
  BY <1>3, FlightsKept
<1>5. CounterIsAhead'
  BY <1>3, CountersKept DEF Known
<1>6. \A g \in Handlers : Creating(g)' => Creating(g)
  BY <1>2 DEF Creating
<1>7. CreatorIsAlone'
  <2>1. \A g \in Handlers : Creating(g)' => request[g].order \notin registered'
    BY <1>6 DEF SeqInv, CreatorIsAlone
  <2>2. QED BY <1>2, <1>6, <2>1, CreatorsKept
<1>8. QED BY <1>4, <1>5, <1>7

\* The handler waiting for the oldest event.
LEMMA OldestEvent ==
  ASSUME SeqInv, queue["lifecycle"] # << >>
  PROVE  LET h == Head(queue["lifecycle"]).handler IN
           /\ h \in Handlers /\ pc[h] = "await" /\ InFlight(h)
           /\ Head(queue["lifecycle"]).record = Payload(request[h])
<1> DEFINE t == "lifecycle"  h == queue[t][1].handler
<1>1. QueueOK
  BY TopicsTyped DEF SeqInv, TypeInv
<1>2. 1 \in DOMAIN queue[t] /\ Head(queue[t]) = queue[t][1]
  BY <1>1, TopicsExist DEF QueueOK
<1>3. h # NoHandler
  BY <1>2, TopicsExist DEF SeqInv, QueueIsAwaited
<1>4. h \in Handlers
  BY <1>1, <1>2, <1>3, TopicsExist, QueuedHandler
<1>5. pc[h] = "await" /\ Target(request[h]) = t /\ queue[t][1].record = Payload(request[h])
  BY <1>2, <1>3, TopicsExist, Awaited DEF SeqInv
<1>6. InFlight(h)
  BY <1>5 DEF InFlight, Target
<1>7. QED BY <1>2, <1>4, <1>5, <1>6

LEMMA SeqStep == SeqInv /\ [Next]_vars => SeqInv'
<1> SUFFICES ASSUME SeqInv, [Next]_vars PROVE SeqInv'
  OBVIOUS
<1>t. TypeInv /\ TypeInv'
  BY TypeStep DEF SeqInv
<1>1. ASSUME NEW h \in Handlers, NEW o \in Orders, CreateOrder(h, o) PROVE SeqInv'
  <2> DEFINE r == [op |-> "create", order |-> o, sequence |-> 1,
                   type |-> "ORDER_CREATED", forced |-> FALSE]
  <2>1. r \in Request
    BY DEF Request, EventType
  <2>2. /\ pc[h] = "idle" /\ o \notin registered
        /\ \A g \in Handlers : pc[g] # "idle" => request[g].order # o
        /\ \A i \in DOMAIN log["lifecycle"] : log["lifecycle"][i].order # o
        /\ request' = [request EXCEPT ![h] = r] /\ pc' = [pc EXCEPT ![h] = "produce"]
        /\ UNCHANGED <<orders, log, queue, registered>>
    BY <1>1 DEF CreateOrder, Goto
  <2>3. QueueIsAwaited' /\ FlightsAreUnique' /\ FlightsAreNew' /\ SequencesAreUnique'
    BY <1>t, <2>1, <2>2, FlightBegins DEF InFlight
  <2>4. \A g \in Handlers : g # h => pc'[g] = pc[g] /\ request'[g] = request[g]
    BY <1>t, <2>2 DEF TypeInv, TypeOK
  <2>5. request'[h] = r /\ pc'[h] = "produce"
    BY <1>t, <2>2 DEF TypeInv, TypeOK
  <2>6. ~ Known(o)
    BY <2>2 DEF SeqInv, CounterIsAhead
  <2>7. CounterIsAhead'
    BY <2>2, <2>4, <2>5, <2>6 DEF SeqInv, CounterIsAhead, Known, InFlight
  <2>8. CreatorIsAlone'
    BY <2>2, <2>4, <2>5 DEF SeqInv, CreatorIsAlone, Creating
  <2>9. QED BY <1>t, <2>3, <2>7, <2>8 DEF SeqInv
<1>2. ASSUME NEW h \in Handlers, NEW o \in Orders, DeleteOrder(h, o) PROVE SeqInv'
  <2>1. \A g \in Handlers : g # h => pc'[g] = pc[g] /\ request'[g] = request[g]
    BY <1>2, <1>t DEF DeleteOrder, Goto, TypeInv, TypeOK
  <2>2. /\ pc[h] = "idle" /\ request'[h].op = "delete" /\ request'[h].order = o
        /\ o \in registered /\ UNCHANGED <<orders, log, queue, registered>>
    BY <1>2, <1>t DEF DeleteOrder, Callable, TypeInv, TypeOK, SeqInv, CounterIsAhead
  <2>3. \A g \in Handlers : InFlight(g)' => InFlight(g) /\ request'[g] = request[g]
    BY <2>1, <2>2 DEF InFlight
  <2>4. \A g \in Handlers : Creating(g)' => Creating(g) /\ request'[g] = request[g]
    BY <2>1, <2>2 DEF Creating
  <2>5. QueueIsAwaited'
    BY <2>1, <2>2, QueueKept
  <2>6. FlightsAreUnique' /\ FlightsAreNew' /\ SequencesAreUnique'
    BY <2>2, <2>3, FlightsKept
  <2>7. CounterIsAhead'
    BY <1>t, <2>2, <2>3, CountersKept DEF Known
  <2>8. \A g \in Handlers : Creating(g)' => request[g].order \notin registered'
    BY <2>2, <2>4 DEF SeqInv, CreatorIsAlone
  <2>9. CreatorIsAlone'
    BY <2>1, <2>2, <2>4, <2>8, CreatorsKept
  <2>10. QED BY <1>t, <2>5, <2>6, <2>7, <2>9 DEF SeqInv
<1>3. ASSUME NEW h \in Handlers, NEW o \in Orders, NEW type \in EventType,
             NEW forced \in BOOLEAN, PublishEvent(h, o, type, forced)
      PROVE  SeqInv'
  <2> DEFINE n == orders[o].last_sequence
             r == [op |-> "event", order |-> o, sequence |-> n + 1, type |-> type,
                   forced |-> forced]
  <2>1. Known(o) /\ o \in registered
    BY <1>3 DEF PublishEvent, Callable, SeqInv, CounterIsAhead
  <2>2. orders[o] \in OrderRecord /\ n \in Nat
    BY <1>t, <2>1 DEF Known, TypeInv, TypeOK, OrderRecord
  <2>3. r \in Request
    BY <2>2 DEF Request
  <2>4. /\ pc[h] = "idle" /\ orders' = reserve(o)
        /\ request' = [request EXCEPT ![h] = r] /\ pc' = [pc EXCEPT ![h] = "produce"]
        /\ UNCHANGED <<log, queue, registered>>
    BY <1>3 DEF PublishEvent, Goto
  <2>5. \A g \in Handlers : InFlight(g) /\ request[g].order = o =>
          request[g].sequence <= n /\ request[g].sequence \in Nat
    BY <1>t, <2>1 DEF SeqInv, CounterIsAhead, InFlight, TypeInv, ServingOK, Request
  <2>6. \A i \in DOMAIN log["lifecycle"] : log["lifecycle"][i].order = o =>
          log["lifecycle"][i].sequence <= n /\ log["lifecycle"][i].sequence \in Nat
    <3>1. log["lifecycle"] \in Seq(EventRecord)
      BY <1>t, TopicsTyped, TopicsExist DEF TypeInv, LogOK, Contents
    <3>2. \A i \in DOMAIN log["lifecycle"] : log["lifecycle"][i] \in EventRecord
      BY <3>1
    <3>3. QED BY <2>1, <3>2 DEF SeqInv, CounterIsAhead, EventRecord
  <2>7. QueueIsAwaited' /\ FlightsAreUnique' /\ FlightsAreNew' /\ SequencesAreUnique'
    <3>1. \A g \in Handlers : InFlight(g) /\ request[g].order = r.order =>
            request[g].sequence # r.sequence
      BY <2>2, <2>5
    <3>2. \A i \in DOMAIN log["lifecycle"] : log["lifecycle"][i].order = r.order =>
            log["lifecycle"][i].sequence # r.sequence
      BY <2>2, <2>6
    <3>3. r.op # "delete"
      OBVIOUS
    <3> HIDE DEF r
    <3>4. QED BY <1>t, <2>3, <2>4, <3>1, <3>2, <3>3, FlightBegins
  <2>8. \A g \in Handlers : g # h => pc'[g] = pc[g] /\ request'[g] = request[g]
    BY <1>t, <2>4 DEF TypeInv, TypeOK
  <2>9. request'[h] = r /\ pc'[h] = "produce"
    BY <1>t, <2>4 DEF TypeInv, TypeOK
  <2>10. \A k \in Orders : k # o => orders'[k] = orders[k]
    BY <1>t, <2>4 DEF reserve, TypeInv, TypeOK
  <2>11. orders'[o].last_sequence = n + 1
    BY <1>t, <2>2, <2>4 DEF reserve, TypeInv, TypeOK, OrderRecord
  <2>12. CounterIsAhead'
    <3> SUFFICES ASSUME NEW k \in Orders, Known(k)'
                 PROVE  /\ k \in registered
                        /\ \A i \in DOMAIN log["lifecycle"] :
                             log["lifecycle"][i].order = k =>
                               log["lifecycle"][i].sequence <= orders'[k].last_sequence
                        /\ \A g \in Handlers : InFlight(g)' /\ request'[g].order = k =>
                             request'[g].sequence <= orders'[k].last_sequence
      BY <2>4 DEF CounterIsAhead
    <3>1. CASE k = o
      BY <2>1, <2>2, <2>5, <2>6, <2>8, <2>9, <2>11, <3>1 DEF InFlight
    <3>2. CASE k # o
      BY <2>8, <2>9, <2>10, <3>2 DEF SeqInv, CounterIsAhead, Known, InFlight
    <3>3. QED BY <3>1, <3>2
  <2>13. \A g \in Handlers : Creating(g)' => Creating(g) /\ request'[g] = request[g]
    BY <2>8, <2>9 DEF Creating
  <2>14. \A g \in Handlers : Creating(g)' => request[g].order \notin registered'
    BY <2>4, <2>13 DEF SeqInv, CreatorIsAlone
  <2>15. CreatorIsAlone'
    BY <2>1, <2>4, <2>8, <2>9, <2>13, <2>14, CreatorsKept
  <2>16. QED BY <1>t, <2>7, <2>12, <2>15 DEF SeqInv
<1>4. ASSUME NEW h \in Handlers, Produce(h) PROVE SeqInv'
  <2>1. /\ pc[h] = "produce" /\ pc'[h] = "await"
        /\ \A g \in Handlers : g # h => pc'[g] = pc[g]
        /\ UNCHANGED <<orders, log, request, registered>>
    BY <1>4, <1>t DEF Produce, Goto, TypeInv, TypeOK
  <2>2. request[h] \in Request /\ h # NoHandler
    BY <1>t, <2>1, ServiceAssumption DEF TypeInv, ServingOK
  <2>3. QueueIsAwaited'
    BY <1>4, <2>1, <2>2, PayloadType, QueueGrows DEF Produce
  <2>4. FlightsAreUnique' /\ FlightsAreNew' /\ SequencesAreUnique'
    BY <2>1, FlightsKept DEF InFlight
  <2>5. CounterIsAhead'
    BY <1>t, <2>1, CountersKept DEF InFlight, Known
  <2>6. \A g \in Handlers : Creating(g)' => Creating(g)
    BY <2>1 DEF Creating
  <2>7. CreatorIsAlone'
    BY <2>1, <2>6, CreatorsKept DEF SeqInv, CreatorIsAlone
  <2>8. QED BY <1>t, <2>3, <2>4, <2>5, <2>7 DEF SeqInv
<1>5. ASSUME NEW h \in Handlers, ProduceRefused(h) PROVE SeqInv'
  <2>1. /\ QueueIsAwaited' /\ FlightsAreUnique' /\ FlightsAreNew' /\ SequencesAreUnique'
        /\ CreatorIsAlone' /\ \A g \in Handlers : InFlight(g)' => InFlight(g)
    BY <1>5, <1>t, HandlerMovesOn DEF ProduceRefused, Goto, SeqInv, CreatorIsAlone
  <2>2. CounterIsAhead'
    BY <1>5, <1>t, <2>1, CountersKept DEF ProduceRefused, Known
  <2>3. QED BY <1>t, <2>1, <2>2 DEF SeqInv
<1>6. ASSUME NEW h \in Handlers, Register(h) PROVE SeqInv'
  <2> DEFINE o == request[h].order
  <2>1. /\ pc[h] = "acked" /\ Creating(h) /\ pc' = [pc EXCEPT ![h] = "mirror"]
        /\ registered' = registered \cup {o} /\ UNCHANGED <<log, queue, request>>
    BY <1>6 DEF Register, may_register, Goto, Creating
  <2>2. /\ o \notin registered
        /\ \A g \in Handlers : pc[g] # "idle" /\ request[g].order = o => g = h
        /\ \A i \in DOMAIN log["lifecycle"] :
             log["lifecycle"][i].order = o => log["lifecycle"][i].sequence = 1
    BY <2>1 DEF SeqInv, CreatorIsAlone
  <2>3. \A g \in Handlers : g # h /\ Creating(g) => request[g].order \notin registered'
    BY <2>1, <2>2 DEF SeqInv, CreatorIsAlone, Creating
  <2>4. /\ QueueIsAwaited' /\ FlightsAreUnique' /\ FlightsAreNew' /\ SequencesAreUnique'
        /\ CreatorIsAlone' /\ \A g \in Handlers : InFlight(g)' => InFlight(g) /\ g # h
    BY <1>t, <2>1, <2>3, HandlerMovesOn
  <2>5. o \in Orders
    BY <1>t, <2>1 DEF TypeInv, ServingOK, Request
  <2>6. orders'[o].last_sequence = 1 /\ \A k \in Orders : k # o => orders'[k] = orders[k]
    BY <1>6, <1>t, <2>5 DEF Register, TypeInv, TypeOK
  <2>7. CounterIsAhead'
    <3> SUFFICES ASSUME NEW k \in Orders, Known(k)'
                 PROVE  /\ k \in registered'
                        /\ \A i \in DOMAIN log["lifecycle"] :
                             log["lifecycle"][i].order = k =>
                               log["lifecycle"][i].sequence <= orders'[k].last_sequence
                        /\ \A g \in Handlers : InFlight(g)' /\ request[g].order = k =>
                             request[g].sequence <= orders'[k].last_sequence
      BY <2>1 DEF CounterIsAhead
    <3>1. CASE k = o
      BY <2>1, <2>2, <2>4, <2>6, <3>1 DEF InFlight
    <3>2. CASE k # o
      BY <2>1, <2>4, <2>6, <3>2 DEF SeqInv, CounterIsAhead, Known
    <3>3. QED BY <3>1, <3>2
  <2>8. QED BY <1>t, <2>4, <2>7 DEF SeqInv
<1>7. ASSUME NEW h \in Handlers, Commit(h) PROVE SeqInv'
  <2>1. /\ QueueIsAwaited' /\ FlightsAreUnique' /\ FlightsAreNew' /\ SequencesAreUnique'
        /\ CreatorIsAlone' /\ \A g \in Handlers : InFlight(g)' => InFlight(g)
    BY <1>7, <1>t, HandlerMovesOn DEF Commit, Goto, SeqInv, CreatorIsAlone
  <2>2. /\ Known(request[h].order) /\ request[h].order \in Orders
        /\ orders' = commit(request[h].order, request[h].type, request[h].forced)
    BY <1>7, <1>t DEF Commit, TypeInv, ServingOK, Request
  <2>3. orders[request[h].order] \in OrderRecord
    BY <1>t, <2>2 DEF Known, TypeInv, TypeOK
  <2>4. \A o \in Orders : Known(o)' =>
          Known(o) /\ orders'[o].last_sequence = orders[o].last_sequence
    BY <1>t, <2>2, <2>3 DEF commit, Known, TypeInv, TypeOK, OrderRecord
  <2>5. CounterIsAhead'
    BY <1>7, <1>t, <2>1, <2>4, CountersKept DEF Commit
  <2>6. QED BY <1>t, <2>1, <2>5 DEF SeqInv
<1>8. ASSUME NEW h \in Handlers, CommitUnknown(h) PROVE SeqInv'
  <2>1. /\ QueueIsAwaited' /\ FlightsAreUnique' /\ FlightsAreNew' /\ SequencesAreUnique'
        /\ CreatorIsAlone' /\ \A g \in Handlers : InFlight(g)' => InFlight(g)
    BY <1>8, <1>t, HandlerMovesOn DEF CommitUnknown, Goto, SeqInv, CreatorIsAlone
  <2>2. CounterIsAhead'
    BY <1>8, <1>t, <2>1, CountersKept DEF CommitUnknown, Known
  <2>3. QED BY <1>t, <2>1, <2>2 DEF SeqInv
<1>9. ASSUME NEW h \in Handlers, Remove(h) PROVE SeqInv'
  <2>1. /\ QueueIsAwaited' /\ FlightsAreUnique' /\ FlightsAreNew' /\ SequencesAreUnique'
        /\ CreatorIsAlone' /\ \A g \in Handlers : InFlight(g)' => InFlight(g)
    BY <1>9, <1>t, HandlerMovesOn DEF Remove, may_remove, Goto, SeqInv, CreatorIsAlone
  <2>2. \A o \in Orders : Known(o)' =>
          Known(o) /\ orders'[o].last_sequence = orders[o].last_sequence
    BY <1>9, <1>t DEF Remove, Known, TypeInv, TypeOK
  <2>3. CounterIsAhead'
    BY <1>9, <1>t, <2>1, <2>2, CountersKept DEF Remove
  <2>4. QED BY <1>t, <2>1, <2>3 DEF SeqInv
<1>10. ASSUME NEW h \in Handlers, PublishSnapshot(h) PROVE SeqInv'
  <2>1. /\ pc[h] = "mirror" /\ pc' = [pc EXCEPT ![h] = "idle"]
        /\ UNCHANGED <<orders, log, request, registered>>
    BY <1>10 DEF PublishSnapshot, Goto
  <2>2. /\ UNCHANGED queue => QueueIsAwaited'
        /\ FlightsAreUnique' /\ FlightsAreNew' /\ SequencesAreUnique'
        /\ CreatorIsAlone' /\ \A g \in Handlers : InFlight(g)' => InFlight(g)
    BY <1>t, <2>1, HandlerMovesOn DEF SeqInv, CreatorIsAlone
  <2>3. \A g \in Handlers : pc[g] = "await" => pc'[g] = "await"
    BY <1>t, <2>1 DEF TypeInv, TypeOK
  <2>4. ASSUME NEW r, Enqueue("snapshot", NoHandler, r) PROVE QueueIsAwaited'
    BY <2>1, <2>3, <2>4, TopicsExist, QueueGrows
  <2>5. QueueIsAwaited'
    BY <1>10, <2>2, <2>4 DEF PublishSnapshot
  <2>6. CounterIsAhead'
    BY <1>t, <2>1, <2>2, CountersKept DEF Known
  <2>7. QED BY <1>t, <2>2, <2>5, <2>6 DEF SeqInv
<1>11. ASSUME NEW t \in Topics, Deliver(t) PROVE SeqInv'
  <2>1. QueueIsAwaited'
    BY <1>11, QueueShrinks DEF Deliver
  <2>2. CASE t = "lifecycle"
    <3> DEFINE h == Head(queue["lifecycle"]).handler
    <3>1. /\ h \in Handlers /\ pc[h] = "await" /\ InFlight(h)
          /\ Head(queue["lifecycle"]).record = Payload(request[h])
      BY <1>11, <2>2, OldestEvent DEF Deliver
    <3>2. h # NoHandler
      BY <3>1, ServiceAssumption
    <3>3. pc' = [pc EXCEPT ![h] = "acked"]
      BY <1>11, <2>2, <3>1, <3>2 DEF Deliver, Report
    <3>4. log' = [log EXCEPT !["lifecycle"] = Append(@, Payload(request[h]))]
      BY <1>11, <2>2, <3>1 DEF Deliver
    <3>5. QED BY <1>11, <1>t, <2>1, <3>1, <3>3, <3>4, EventLands DEF Deliver, SeqInv
  <2>3. CASE t = "snapshot"
    <3>1. log'["lifecycle"] = log["lifecycle"]
      BY <1>11, <1>t, <2>3, TopicsExist DEF Deliver, TypeInv, TypeOK
    <3>2. QED BY <1>11, <1>t, <2>1, <2>3, <3>1, NoEventLands DEF Deliver, SeqInv
  <2>4. QED BY <2>2, <2>3 DEF Topics
<1>12. ASSUME NEW t \in Topics, DeliveryFails(t) PROVE SeqInv'
  <2>1. QueueIsAwaited'
    BY <1>12, QueueShrinks DEF DeliveryFails
  <2>2. CASE t = "lifecycle" /\ log' = [log EXCEPT ![t] = Append(@, Head(queue[t]).record)]
    <3> DEFINE h == Head(queue["lifecycle"]).handler
    <3>1. /\ h \in Handlers /\ pc[h] = "await" /\ InFlight(h)
          /\ Head(queue["lifecycle"]).record = Payload(request[h])
      BY <1>12, <2>2, OldestEvent DEF DeliveryFails
    <3>2. h # NoHandler
      BY <3>1, ServiceAssumption
    <3>3. pc' = [pc EXCEPT ![h] = "idle"]
      BY <1>12, <2>2, <3>1, <3>2 DEF DeliveryFails, Report
    <3>4. log' = [log EXCEPT !["lifecycle"] = Append(@, Payload(request[h]))]
      BY <2>2, <3>1
    <3>5. QED BY <1>12, <1>t, <2>1, <3>1, <3>3, <3>4, EventLands DEF DeliveryFails, SeqInv
  <2>3. CASE t = "snapshot" \/ UNCHANGED log
    <3>1. log'["lifecycle"] = log["lifecycle"]
      BY <1>12, <1>t, <2>3, TopicsExist DEF DeliveryFails, TypeInv, TypeOK
    <3>2. QED BY <1>12, <1>t, <2>1, <3>1, NoEventLands DEF DeliveryFails, SeqInv
  <2>4. QED BY <1>12, <2>2, <2>3 DEF Topics, DeliveryFails
<1>13. CASE UNCHANGED vars
  <2>1. UNCHANGED <<orders, log, queue, pc, request, registered>>
    BY <1>13 DEF vars
  <2>2. QueueIsAwaited'
    BY <2>1, QueueKept
  <2>3. FlightsAreUnique' /\ FlightsAreNew' /\ SequencesAreUnique'
    BY <2>1, FlightsKept DEF InFlight
  <2>4. CounterIsAhead'
    BY <1>t, <2>1, CountersKept DEF InFlight, Known
  <2>5. CreatorIsAlone'
    BY <2>1, CreatorsKept DEF Creating, SeqInv, CreatorIsAlone
  <2>6. QED BY <1>t, <2>2, <2>3, <2>4, <2>5 DEF SeqInv
<1>14. QED BY <1>1, <1>2, <1>3, <1>4, <1>5, <1>6, <1>7, <1>8, <1>9, <1>10, <1>11, <1>12, <1>13
           DEF Next, Requests, Answers

\* However many requests race for an order, and whichever publications fail, no two
\* of its events on the lifecycle topic carry the same sequence (OrderStore.reserve).
THEOREM NoSequenceTwice == Spec => []SequencesAreUnique
<1>1. Spec => []SeqInv
  BY SeqInit, SeqStep, PTL DEF Spec
<1>2. SeqInv => SequencesAreUnique
  BY DEF SeqInv
<1>3. QED BY <1>1, <1>2, PTL
=============================================================================
