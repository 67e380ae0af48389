--------------------------- MODULE OrderStoreProofs ---------------------------
(***************************************************************************)
(* What TLAPS proves of the order store against the topics: what the store *)
(* knows has been published, what it has dropped has its tombstone, an     *)
(* event nobody forced stands behind its predecessor, and without a failed *)
(* delivery an order's sequences have no hole.  All of it rests on SeqInv, *)
(* the invariant of OrderServiceProofs.                                    *)
(***************************************************************************)
EXTENDS OrderServiceProofs

OnTopic(t, r) == \E i \in DOMAIN log[t] : log[t][i] = r

\* An event of order o that leads to state s is on the lifecycle topic.
Reached(o, s) ==
  \E i \in DOMAIN log["lifecycle"] :
    log["lifecycle"][i].order = o /\ RESULTING_STATE[log["lifecycle"][i].type] = s

\* The event with this sequence of order o is on the lifecycle topic.
Published(o, n) ==
  \E i \in DOMAIN log["lifecycle"] :
    log["lifecycle"][i].order = o /\ log["lifecycle"][i].sequence = n

\* An event that must stand behind another does, if it were appended now.
Follows(o, type) ==
  \/ is_legal_transition(type, NoFold)
  \/ \E i \in DOMAIN log["lifecycle"] :
       /\ log["lifecycle"][i].order = o
       /\ is_legal_transition(type, RESULTING_STATE[log["lifecycle"][i].type])

\* An acknowledged record has landed.
AckedIsOnTopic ==
  \A h \in Handlers : pc[h] = "acked" => OnTopic(Target(request[h]), Payload(request[h]))

\* Only ORDER_CREATED creates an order.
CreatesAreFirst ==
  \A h \in Handlers : Creating(h) => request[h].type = "ORDER_CREATED"

\* The predecessor of an event in flight has already landed.
FlightsFollow ==
  \A h \in Handlers :
    InFlight(h) /\ ~ request[h].forced => Follows(request[h].order, request[h].type)

\* Sequences start at 1.
SequencesArePositive ==
  /\ \A i \in DOMAIN log["lifecycle"] : log["lifecycle"][i].sequence >= 1
  /\ \A h \in Handlers : InFlight(h) => request[h].sequence >= 1

\* Unless something failed, a sequence given out is in flight or on the topic.
NoHole ==
  disruptions = 0 =>
    \A o \in Orders : Known(o) => \A n \in 1 .. orders[o].last_sequence :
      \/ Published(o, n)
      \/ \E h \in Handlers :
           InFlight(h) /\ request[h].order = o /\ request[h].sequence = n

StoreInv ==
  /\ SeqInv
  /\ AckedIsOnTopic
  /\ CreatesAreFirst
  /\ FlightsFollow
  /\ SequencesArePositive
  /\ NoHole
  /\ StoreOnlyKnowsPublished
  /\ GoneOnlyWithTombstone
  /\ UnforcedEventsFollow

-----------------------------------------------------------------------------
(* What a step may do.                                                     *)

\* A handler's step leaves the topics and the other handlers alone.
LEMMA HandlerActs ==
  ASSUME SeqInv, NEW h \in Handlers, Requests(h) \/ Answers(h)
  PROVE  /\ UNCHANGED log
         /\ \A g \in Handlers : g # h => pc'[g] = pc[g] /\ request'[g] = request[g]
<1>1. UNCHANGED log
  BY DEF Requests, Answers, CreateOrder, DeleteOrder, PublishEvent, Produce, ProduceRefused,
         Register, Commit, CommitUnknown, Remove, PublishSnapshot
<1>2. \E label : pc' = [pc EXCEPT ![h] = label]
  BY DEF Requests, Answers, CreateOrder, DeleteOrder, PublishEvent, Produce, ProduceRefused,
         Register, Commit, CommitUnknown, Remove, PublishSnapshot, Goto
<1>3. \E r : request' = [request EXCEPT ![h] = r]
  <2>1. request' = request \/ \E r : request' = [request EXCEPT ![h] = r]
    BY DEF Requests, Answers, CreateOrder, DeleteOrder, PublishEvent, Produce, ProduceRefused,
           Register, Commit, CommitUnknown, Remove, PublishSnapshot
  <2>2. request = [request EXCEPT ![h] = request[h]]
    BY DEF SeqInv, TypeInv, TypeOK
  <2>3. QED BY <2>1, <2>2
<1>4. QED BY <1>1, <1>2, <1>3 DEF SeqInv, TypeInv, TypeOK

\* The handler that waits for the oldest record of a topic, if there is one.
LEMMA OldestRecord ==
  ASSUME SeqInv, NEW t \in Topics, queue[t] # << >>,
         NEW h, h = Head(queue[t]).handler, h # NoHandler
  PROVE  /\ h \in Handlers /\ pc[h] = "await" /\ Target(request[h]) = t
         /\ Head(queue[t]).record = Payload(request[h])
<1>1. QueueOK
  BY TopicsTyped DEF SeqInv, TypeInv
<1>2. 1 \in DOMAIN queue[t] /\ Head(queue[t]) = queue[t][1]
  BY <1>1 DEF QueueOK
<1>3. h \in Handlers
  BY <1>1, <1>2, QueuedHandler
<1>4. QED BY <1>2, <1>3, Awaited DEF SeqInv

\* What an append does to a topic.
LEMMA AppendGrows ==
  ASSUME SeqInv, NEW t \in Topics, NEW r, log' = [log EXCEPT ![t] = Append(@, r)]
  PROVE  /\ \A u \in Topics : \A i \in DOMAIN log[u] :
              i \in DOMAIN log'[u] /\ log'[u][i] = log[u][i]
         /\ OnTopic(t, r)'
         /\ \A i \in DOMAIN log'[t] :
              \/ i \in DOMAIN log[t]
              \/ i = Len(log[t]) + 1 /\ log'[t][i] = r
         /\ \A u \in Topics : u # t => log'[u] = log[u]
<1>1. LogOK
  BY TopicsTyped DEF SeqInv, TypeInv
<1>2. log[t] \in Seq(Contents(t)) /\ log'[t] = Append(log[t], r)
      /\ \A u \in Topics : u # t => log'[u] = log[u]
  BY <1>1 DEF LogOK
<1>3. /\ \A i \in DOMAIN log[t] : i \in DOMAIN log'[t] /\ log'[t][i] = log[t][i]
      /\ Len(log[t]) + 1 \in DOMAIN log'[t] /\ log'[t][Len(log[t]) + 1] = r
      /\ \A i \in DOMAIN log'[t] : i \in DOMAIN log[t] \/ i = Len(log[t]) + 1
  BY <1>2
<1>4. OnTopic(t, r)'
  BY <1>3 DEF OnTopic
<1>5. QED BY <1>2, <1>3, <1>4

\* A delivery ends the wait of at most one handler, with "acked" only if its record
\* has landed; a failed one counts as a disruption.
LEMMA DeliveryActs ==
  ASSUME SeqInv, NEW t \in Topics, Deliver(t) \/ DeliveryFails(t)
  PROVE  /\ UNCHANGED <<orders, request, registered>>
         /\ UNCHANGED log \/ log' = [log EXCEPT ![t] = Append(@, Head(queue[t]).record)]
         /\ \A g \in Handlers :
              \/ pc'[g] = pc[g]
              \/ pc[g] = "await" /\ pc'[g] = "acked" /\ UNCHANGED disruptions
                   /\ OnTopic(Target(request[g]), Payload(request[g]))'
              \/ pc[g] = "await" /\ pc'[g] = "idle" /\ disruptions' # 0
<1> DEFINE h == Head(queue[t]).handler
<1>1. /\ UNCHANGED <<orders, request, registered>> /\ queue[t] # << >>
      /\ UNCHANGED log \/ log' = [log EXCEPT ![t] = Append(@, Head(queue[t]).record)]
  BY DEF Deliver, DeliveryFails
<1>2. CASE Deliver(t)
  <2>1. log' = [log EXCEPT ![t] = Append(@, Head(queue[t]).record)] /\ Report(h, "acked")
        /\ UNCHANGED disruptions
    BY <1>2 DEF Deliver
  <2>2. PICK r : r = Head(queue[t]).record /\ OnTopic(t, r)'
    BY <2>1, AppendGrows
  <2>3. CASE pc' = pc
    BY <1>1, <2>3
  <2>4. CASE h # NoHandler /\ pc' = [pc EXCEPT ![h] = "acked"]
    <3>1. /\ h \in Handlers /\ pc[h] = "await" /\ Target(request[h]) = t
          /\ Head(queue[t]).record = Payload(request[h])
      BY <1>1, <2>4, OldestRecord
    <3>2. Target(request'[h]) = t /\ Payload(request'[h]) = r
      BY <1>1, <2>2, <3>1
    <3>3. pc'[h] = "acked" /\ \A g \in Handlers : g # h => pc'[g] = pc[g]
      BY <2>4, <3>1 DEF SeqInv, TypeInv, TypeOK
    <3>4. QED BY <1>1, <2>1, <2>2, <3>1, <3>2, <3>3
  <2>5. QED BY <2>1, <2>3, <2>4 DEF Report
<1>3. CASE DeliveryFails(t)
  <2>1. Report(h, "idle") /\ disruptions' # 0
    BY <1>3 DEF DeliveryFails, Disrupt, SeqInv, TypeInv, TypeOK
  <2>2. \A g \in Handlers : pc'[g] = pc[g] \/ (pc[g] = "await" /\ pc'[g] = "idle")
    BY <2>1 DEF Report, SeqInv, TypeInv, TypeOK
  <2>3. QED BY <1>1, <2>1, <2>2
<1>4. QED BY <1>2, <1>3

\* Nothing leaves a topic.
LEMMA TopicsGrow ==
  ASSUME SeqInv, [Next]_vars
  PROVE  \A u \in Topics : \A i \in DOMAIN log[u] :
           i \in DOMAIN log'[u] /\ log'[u][i] = log[u][i]
<1>1. UNCHANGED log \/ \E t \in Topics : \E r : log' = [log EXCEPT ![t] = Append(@, r)]
  BY HandlerActs, DeliveryActs DEF Next, vars
<1>2. QED BY <1>1, AppendGrows

LEMMA StaysOnTopic ==
  ASSUME SeqInv, [Next]_vars
  PROVE  /\ \A t \in Topics : \A r : OnTopic(t, r) => OnTopic(t, r)'
         /\ \A o, s : Reached(o, s) => Reached(o, s)'
         /\ \A o, n : Published(o, n) => Published(o, n)'
         /\ \A o, type : Follows(o, type) => Follows(o, type)'
  BY TopicsGrow, TopicsExist DEF OnTopic, Reached, Published, Follows

\* Whatever lands on the lifecycle topic was in flight.
LEMMA OnlyFlightsLand ==
  ASSUME SeqInv, [Next]_vars, NEW i \in DOMAIN log'["lifecycle"]
  PROVE  \/ i \in DOMAIN log["lifecycle"] /\ log'["lifecycle"][i] = log["lifecycle"][i]
         \/ /\ i = Len(log["lifecycle"]) + 1
            /\ \E h \in Handlers : InFlight(h) /\ log'["lifecycle"][i] = Payload(request[h])
<1>1. CASE UNCHANGED log
  BY <1>1
<1>2. ASSUME NEW t \in Topics, queue[t] # << >>,
             log' = [log EXCEPT ![t] = Append(@, Head(queue[t]).record)]
      PROVE  \/ i \in DOMAIN log["lifecycle"] /\ log'["lifecycle"][i] = log["lifecycle"][i]
             \/ /\ i = Len(log["lifecycle"]) + 1
                /\ \E h \in Handlers : InFlight(h) /\ log'["lifecycle"][i] = Payload(request[h])
  <2>1. CASE t = "lifecycle"
    <3>1. \E h \in Handlers : InFlight(h) /\ Head(queue[t]).record = Payload(request[h])
      BY <1>2, <2>1, OldestEvent
    <3>2. QED BY <1>2, <2>1, <3>1, AppendGrows
  <2>2. CASE t # "lifecycle"
    BY <1>2, <2>2, AppendGrows, TopicsExist
  <2>3. QED BY <2>1, <2>2
<1>3. UNCHANGED log \/ \E t \in Topics :
        queue[t] # << >> /\ log' = [log EXCEPT ![t] = Append(@, Head(queue[t]).record)]
  BY HandlerActs DEF Next, vars, Deliver, DeliveryFails
<1>4. QED BY <1>1, <1>2, <1>3

\* How a handler comes to hold an acknowledgement.
LEMMA Acknowledged ==
  ASSUME SeqInv, [Next]_vars, NEW h \in Handlers, pc'[h] = "acked"
  PROVE  /\ request'[h] = request[h]
         /\ pc[h] = "acked" \/ OnTopic(Target(request[h]), Payload(request[h]))'
<1>1. ASSUME NEW g \in Handlers, Requests(g) \/ Answers(g)
      PROVE  pc[h] = "acked" /\ request'[h] = request[h]
  <2>1. CASE g = h
    <3>1. \E label \in {"produce", "await", "idle", "mirror"} : pc' = [pc EXCEPT ![h] = label]
      BY <1>1, <2>1 DEF Requests, Answers, CreateOrder, DeleteOrder, PublishEvent, Produce,
           ProduceRefused, Register, Commit, CommitUnknown, Remove, PublishSnapshot, Goto
    <3>2. QED BY <3>1 DEF SeqInv, TypeInv, TypeOK
  <2>2. QED BY <1>1, <2>1, HandlerActs
<1>2. ASSUME NEW t \in Topics, Deliver(t) \/ DeliveryFails(t)
      PROVE  /\ request'[h] = request[h]
             /\ pc[h] = "acked" \/ OnTopic(Target(request[h]), Payload(request[h]))'
  BY <1>2, DeliveryActs
<1>3. QED BY <1>1, <1>2 DEF Next, vars

\* What a handler takes up to publish: the first event of an order, or the next one of
\* an order the store knows.
Begins(r) ==
  \/ r.type = "ORDER_CREATED" /\ r.sequence = 1
  \/ /\ r.order \in Orders /\ Known(r.order)
     /\ r.sequence = orders[r.order].last_sequence + 1
     /\ r.forced \/ is_legal_transition(r.type, orders[r.order].state)

\* How an event comes to be in flight.
LEMMA FlightsStart ==
  ASSUME SeqInv, [Next]_vars, NEW h \in Handlers, InFlight(h)'
  PROVE  \/ InFlight(h) /\ request'[h] = request[h]
         \/ \E r : r = request'[h] /\ Begins(r)
<1>1. ASSUME NEW o \in Orders, CreateOrder(h, o)
      PROVE  \E r : r = request'[h] /\ Begins(r)
  BY <1>1 DEF CreateOrder, Begins, SeqInv, TypeInv, TypeOK
<1>2. ASSUME NEW o \in Orders, DeleteOrder(h, o)
      PROVE  FALSE
  BY <1>2 DEF DeleteOrder, InFlight, SeqInv, TypeInv, TypeOK
<1>3. ASSUME NEW o \in Orders, NEW type \in EventType, NEW forced \in BOOLEAN,
             PublishEvent(h, o, type, forced)
      PROVE  \E r : r = request'[h] /\ Begins(r)
  <2>1. request'[h] = [op |-> "event", order |-> o, sequence |-> orders[o].last_sequence + 1,
                       type |-> type, forced |-> forced]
    BY <1>3 DEF PublishEvent, SeqInv, TypeInv, TypeOK
  <2>2. Known(o) /\ (forced \/ is_legal_transition(type, orders[o].state))
    BY <1>3 DEF PublishEvent, Callable
  <2>3. QED BY <2>1, <2>2 DEF Begins
<1>4. CASE Answers(h)
  BY <1>4 DEF Answers, Produce, ProduceRefused, Register, Commit, CommitUnknown, Remove,
       PublishSnapshot, Goto, InFlight, SeqInv, TypeInv, TypeOK
<1>5. ASSUME NEW g \in Handlers, g # h, Requests(g) \/ Answers(g)
      PROVE  InFlight(h) /\ request'[h] = request[h]
  BY <1>5, HandlerActs DEF InFlight
<1>6. ASSUME NEW t \in Topics, Deliver(t) \/ DeliveryFails(t)
      PROVE  InFlight(h) /\ request'[h] = request[h]
  BY <1>6, DeliveryActs DEF InFlight
<1>7. CASE UNCHANGED vars
  BY <1>7 DEF vars, InFlight
<1>8. QED BY <1>1, <1>2, <1>3, <1>4, <1>5, <1>6, <1>7 DEF Next, Requests

\* What becomes of an event in flight when nothing fails.
LEMMA FlightsEnd ==
  ASSUME SeqInv, [Next]_vars, NEW h \in Handlers, InFlight(h), disruptions' = 0
  PROVE  /\ request'[h] = request[h]
         /\ InFlight(h)' \/ OnTopic("lifecycle", Payload(request[h]))'
<1>1. CASE Requests(h)
  BY <1>1 DEF Requests, CreateOrder, DeleteOrder, PublishEvent, InFlight
<1>2. CASE Answers(h)
  <2>1. ~ ProduceRefused(h)
    BY DEF ProduceRefused, Disrupt, SeqInv, TypeInv, TypeOK
  <2>2. Produce(h)
    BY <1>2, <2>1 DEF Answers, Register, may_register, Commit, CommitUnknown, Remove,
         may_remove, PublishSnapshot, InFlight
  <2>3. QED BY <2>2 DEF Produce, Goto, InFlight, SeqInv, TypeInv, TypeOK
<1>3. ASSUME NEW g \in Handlers, g # h, Requests(g) \/ Answers(g)
      PROVE  InFlight(h)' /\ request'[h] = request[h]
  BY <1>3, HandlerActs DEF InFlight
<1>4. ASSUME NEW t \in Topics, Deliver(t) \/ DeliveryFails(t)
      PROVE  /\ request'[h] = request[h]
             /\ InFlight(h)' \/ OnTopic("lifecycle", Payload(request[h]))'
  <2>1. Target(request[h]) = "lifecycle" /\ UNCHANGED request
    BY <1>4, DeliveryActs DEF InFlight, Target
  <2>2. QED BY <1>4, <2>1, DeliveryActs DEF InFlight
<1>5. CASE UNCHANGED vars
  BY <1>5 DEF vars, InFlight
<1>6. QED BY <1>1, <1>2, <1>3, <1>4, <1>5 DEF Next

\* Only a step that succeeds leaves the count of disruptions at 0.
LEMMA FailuresAreCounted ==
  ASSUME SeqInv, [Next]_vars, disruptions' = 0
  PROVE  disruptions = 0
<1>1. disruptions' = disruptions \/ Disrupt
  <2>1. ASSUME NEW h \in Handlers, Requests(h) \/ Answers(h)
        PROVE  disruptions' = disruptions \/ Disrupt
    BY <2>1 DEF Requests, Answers, CreateOrder, DeleteOrder, PublishEvent, Produce,
         ProduceRefused, Register, Commit, CommitUnknown, Remove, PublishSnapshot
  <2>2. QED BY <2>1 DEF Next, vars, Deliver, DeliveryFails
<1>2. QED BY <1>1 DEF Disrupt, SeqInv, TypeInv, TypeOK

\* How an order's entry in the store comes about: it was there; its sequence has just
\* been reserved by an event now in flight; an acknowledged event moved its state; or
\* its acknowledged creation registered it.
LEMMA StoreChanges ==
  ASSUME SeqInv, [Next]_vars, NEW o \in Orders, Known(o)'
  PROVE  \/ UNCHANGED orders[o] /\ Known(o)
         \/ /\ Known(o) /\ orders'[o].state = orders[o].state
            /\ orders'[o].last_sequence = orders[o].last_sequence + 1
            /\ \E h \in Handlers : /\ InFlight(h)' /\ request'[h].order = o
                                   /\ request'[h].sequence = orders'[o].last_sequence
         \/ /\ Known(o) /\ orders'[o].last_sequence = orders[o].last_sequence
            /\ \E h \in Handlers :
                 /\ pc[h] = "acked" /\ request[h].op = "event" /\ request[h].order = o
                 /\ orders'[o].state = RESULTING_STATE[request[h].type]
         \/ /\ orders'[o].last_sequence = 1 /\ orders'[o].state = RESULTING_STATE["ORDER_CREATED"]
            /\ \E h \in Handlers :
                 pc[h] = "acked" /\ request[h].op = "create" /\ request[h].order = o
<1>1. ASSUME NEW h \in Handlers, NEW p \in Orders, NEW type \in EventType,
             NEW forced \in BOOLEAN, PublishEvent(h, p, type, forced), p = o
      PROVE  /\ Known(o) /\ orders'[o].state = orders[o].state
             /\ orders'[o].last_sequence = orders[o].last_sequence + 1
             /\ InFlight(h)' /\ request'[h].order = o
             /\ request'[h].sequence = orders'[o].last_sequence
  <2>1. Known(o) /\ orders' = reserve(o)
    BY <1>1 DEF PublishEvent, Callable
  <2>2. orders[o] \in OrderRecord
    BY <2>1 DEF Known, SeqInv, TypeInv, TypeOK
  <2>3. orders'[o] = [orders[o] EXCEPT !.last_sequence = @ + 1]
    BY <2>1 DEF reserve, SeqInv, TypeInv, TypeOK
  <2>4. /\ orders'[o].state = orders[o].state
        /\ orders'[o].last_sequence = orders[o].last_sequence + 1
    BY <2>2, <2>3 DEF OrderRecord
  <2>5. /\ InFlight(h)' /\ request'[h].order = o
        /\ request'[h].sequence = orders[o].last_sequence + 1
    BY <1>1 DEF PublishEvent, Goto, InFlight, SeqInv, TypeInv, TypeOK
  <2>6. QED BY <2>1, <2>4, <2>5
<1>2. ASSUME NEW h \in Handlers, Commit(h), request[h].order = o
      PROVE  \/ UNCHANGED orders[o] /\ Known(o)
             \/ /\ Known(o) /\ orders'[o].last_sequence = orders[o].last_sequence
                /\ pc[h] = "acked" /\ request[h].op = "event"
                /\ orders'[o].state = RESULTING_STATE[request[h].type]
  <2>1. Known(o) /\ pc[h] = "acked" /\ request[h].op = "event"
    BY <1>2 DEF Commit
  <2>2. orders[o] \in OrderRecord
    BY <2>1 DEF Known, SeqInv, TypeInv, TypeOK
  <2>3. \/ orders' = orders
        \/ orders'[o] = [orders[o] EXCEPT !.state = RESULTING_STATE[request[h].type]]
    BY <1>2 DEF Commit, commit, SeqInv, TypeInv, TypeOK
  <2>4. QED BY <2>1, <2>2, <2>3 DEF OrderRecord
<1>3. ASSUME NEW h \in Handlers, Register(h), request[h].order = o
      PROVE  /\ orders'[o].last_sequence = 1
             /\ orders'[o].state = RESULTING_STATE["ORDER_CREATED"]
             /\ pc[h] = "acked" /\ request[h].op = "create"
  BY <1>3 DEF Register, may_register, SeqInv, TypeInv, TypeOK
<1>4. ASSUME NEW h \in Handlers, Remove(h)
      PROVE  UNCHANGED orders[o]
  BY <1>4 DEF Remove, Known, SeqInv, TypeInv, TypeOK
<1>5. ASSUME NEW h \in Handlers, NEW p \in Orders, NEW type \in EventType,
             NEW forced \in BOOLEAN, PublishEvent(h, p, type, forced), p # o
      PROVE  UNCHANGED orders[o]
  BY <1>5 DEF PublishEvent, reserve, SeqInv, TypeInv, TypeOK
<1>6. ASSUME NEW h \in Handlers, Commit(h) \/ Register(h), request[h].order # o
      PROVE  UNCHANGED orders[o]
  BY <1>6 DEF Commit, commit, Register, SeqInv, TypeInv, TypeOK
<1>7. UNCHANGED orders[o] => UNCHANGED orders[o] /\ Known(o)
  BY DEF Known
<1>8. ASSUME NEW h \in Handlers, \/ \E p \in Orders : CreateOrder(h, p) \/ DeleteOrder(h, p)
                                 \/ Produce(h) \/ ProduceRefused(h) \/ CommitUnknown(h)
                                 \/ PublishSnapshot(h)
      PROVE  UNCHANGED orders[o]
  BY <1>8 DEF CreateOrder, DeleteOrder, Produce, ProduceRefused, CommitUnknown, PublishSnapshot
<1>9. ASSUME NEW t \in Topics, Deliver(t) \/ DeliveryFails(t)
      PROVE  UNCHANGED orders[o]
  BY <1>9, DeliveryActs
<1>10. CASE UNCHANGED vars
  BY <1>10 DEF vars, Known
<1>11. QED BY <1>1, <1>2, <1>3, <1>4, <1>5, <1>6, <1>7, <1>8, <1>9, <1>10
           DEF Next, Requests, Answers

\* How an order comes to be registered and not known: it was so, or an acknowledged
\* tombstone took it out of the store.
LEMMA OrdersLeave ==
  ASSUME SeqInv, [Next]_vars, NEW o \in registered', ~ Known(o)'
  PROVE  \/ o \in registered /\ ~ Known(o)
         \/ \E h \in Handlers : pc[h] = "acked" /\ request[h].op = "delete" /\ request[h].order = o
<1>1. ASSUME NEW h \in Handlers, Register(h) PROVE o \in registered /\ ~ Known(o)
  <2>1. pc[h] = "acked" /\ request[h].order \in Orders
    BY <1>1 DEF Register, may_register, SeqInv, TypeInv, ServingOK, Request
  <2>2. orders'[request[h].order]
          = [state |-> RESULTING_STATE["ORDER_CREATED"], last_sequence |-> 1]
    BY <1>1, <2>1 DEF Register, SeqInv, TypeInv, TypeOK
  <2>3. orders'[request[h].order] \in OrderRecord
    BY <2>2, StatesAreStates DEF OrderRecord, EventType
  <2>4. o # request[h].order
    BY <2>3, NoFoldAssumption DEF Known
  <2>5. QED BY <1>1, <2>4 DEF Register, Known, SeqInv, TypeInv, TypeOK
<1>2. ASSUME NEW h \in Handlers, Remove(h), request[h].order = o
      PROVE  pc[h] = "acked" /\ request[h].op = "delete"
  BY <1>2 DEF Remove, may_remove
<1>3. ASSUME NEW h \in Handlers, Remove(h), request[h].order # o
      PROVE  o \in registered /\ ~ Known(o)
  BY <1>3 DEF Remove, Known, SeqInv, TypeInv, TypeOK
<1>4. ASSUME NEW h \in Handlers, Commit(h)
      PROVE  o \in registered /\ ~ Known(o)
  <2>1. request[h] \in Request /\ Known(request[h].order) /\ registered' = registered
    BY <1>4 DEF Commit, SeqInv, TypeInv, ServingOK
  <2>2. orders[request[h].order] \in OrderRecord
    BY <2>1 DEF Known, SeqInv, TypeInv, TypeOK, Request
  <2>3. \/ orders' = orders
        \/ orders' = [orders EXCEPT ![request[h].order].state = RESULTING_STATE[request[h].type]]
    BY <1>4 DEF Commit, commit
  <2>4. [orders[request[h].order] EXCEPT !.state = RESULTING_STATE[request[h].type]]
          \in OrderRecord
    BY <2>1, <2>2, StatesAreStates DEF OrderRecord, Request
  <2>5. o = request[h].order => orders' = orders
    BY <2>1, <2>3, <2>4, NoFoldAssumption DEF Known, SeqInv, TypeInv, TypeOK, Request
  <2>6. QED BY <2>1, <2>3, <2>5 DEF Known, SeqInv, TypeInv, TypeOK, Request
<1>5. ASSUME NEW h \in Handlers, NEW p \in Orders, NEW type \in EventType,
             NEW forced \in BOOLEAN, PublishEvent(h, p, type, forced)
      PROVE  o \in registered /\ ~ Known(o)
  <2>1. Known(p) /\ orders' = reserve(p) /\ registered' = registered
    BY <1>5 DEF PublishEvent, Callable
  <2>2. orders[p] \in OrderRecord
    BY <2>1 DEF Known, SeqInv, TypeInv, TypeOK
  <2>3. [orders[p] EXCEPT !.last_sequence = @ + 1] \in OrderRecord
    BY <2>2 DEF OrderRecord
  <2>4. o # p
    BY <2>1, <2>3, NoFoldAssumption DEF Known, reserve, SeqInv, TypeInv, TypeOK
  <2>5. QED BY <2>1, <2>4 DEF Known, reserve, SeqInv, TypeInv, TypeOK
<1>6. ASSUME NEW h \in Handlers, \/ \E p \in Orders : CreateOrder(h, p) \/ DeleteOrder(h, p)
                                 \/ Produce(h) \/ ProduceRefused(h) \/ CommitUnknown(h)
                                 \/ PublishSnapshot(h)
      PROVE  o \in registered /\ ~ Known(o)
  BY <1>6 DEF CreateOrder, DeleteOrder, Produce, ProduceRefused, CommitUnknown,
       PublishSnapshot, Known
<1>7. ASSUME NEW t \in Topics, Deliver(t) \/ DeliveryFails(t)
      PROVE  o \in registered /\ ~ Known(o)
  BY <1>7, DeliveryActs DEF Known
<1>8. CASE UNCHANGED vars
  BY <1>8 DEF vars, Known
<1>9. QED BY <1>1, <1>2, <1>3, <1>4, <1>5, <1>6, <1>7, <1>8 DEF Next, Requests, Answers

-----------------------------------------------------------------------------
(* The invariant, part by part.                                            *)

LEMMA AckedStep == StoreInv /\ [Next]_vars => AckedIsOnTopic'
<1> SUFFICES ASSUME StoreInv, [Next]_vars, NEW h \in Handlers, pc'[h] = "acked"
             PROVE  OnTopic(Target(request[h]), Payload(request[h]))'
  BY DEF AckedIsOnTopic
<1>1. /\ request'[h] = request[h]
      /\ pc[h] = "acked" \/ OnTopic(Target(request[h]), Payload(request[h]))'
  BY Acknowledged DEF StoreInv
<1>2. CASE pc[h] = "acked"
  <2>1. PICK t, r : /\ t = Target(request[h]) /\ r = Payload(request[h]) /\ OnTopic(t, r)
    BY <1>2 DEF StoreInv, AckedIsOnTopic
  <2>2. t \in Topics
    BY <2>1, TopicsExist DEF Target
  <2>3. OnTopic(t, r)'
    BY <2>1, <2>2, StaysOnTopic DEF StoreInv
  <2>4. Target(request'[h]) = t /\ Payload(request'[h]) = r
    BY <1>1, <2>1
  <2>5. QED BY <2>3, <2>4
<1>3. QED BY <1>1, <1>2

LEMMA CreatesStep == StoreInv /\ [Next]_vars => CreatesAreFirst'
<1> SUFFICES ASSUME StoreInv, [Next]_vars, NEW h \in Handlers, Creating(h)'
             PROVE  request'[h].type = "ORDER_CREATED"
  BY DEF CreatesAreFirst
<1>s. SeqInv
  BY DEF StoreInv
<1>1. ASSUME NEW o \in Orders, CreateOrder(h, o) PROVE request'[h].type = "ORDER_CREATED"
  BY <1>1, <1>s DEF CreateOrder, SeqInv, TypeInv, TypeOK
<1>2. ASSUME NEW o \in Orders, DeleteOrder(h, o) PROVE FALSE
  BY <1>2, <1>s DEF DeleteOrder, Creating, SeqInv, TypeInv, TypeOK
<1>3. ASSUME NEW o \in Orders, NEW type \in EventType, NEW forced \in BOOLEAN,
             PublishEvent(h, o, type, forced)
      PROVE  FALSE
  BY <1>3, <1>s DEF PublishEvent, Creating, SeqInv, TypeInv, TypeOK
<1>4. ASSUME Creating(h), request'[h] = request[h] PROVE request'[h].type = "ORDER_CREATED"
  BY <1>4 DEF StoreInv, CreatesAreFirst
<1>5. CASE Answers(h)
  <2>1. request' = request /\ pc[h] \in {"produce", "acked", "mirror"}
    BY <1>5 DEF Answers, Produce, ProduceRefused, Register, may_register, Commit, CommitUnknown,
         Remove, may_remove, PublishSnapshot
  <2>2. pc'[h] \in {"produce", "await", "acked"} => pc[h] # "mirror"
    BY <1>5, <1>s DEF Answers, Produce, ProduceRefused, Register, may_register, Commit,
         CommitUnknown, Remove, may_remove, PublishSnapshot, Goto, SeqInv, TypeInv, TypeOK
  <2>3. Creating(h)
    BY <2>1, <2>2 DEF Creating
  <2>4. QED BY <1>4, <2>1, <2>3
<1>6. ASSUME NEW g \in Handlers, g # h, Requests(g) \/ Answers(g)
      PROVE  Creating(h) /\ request'[h] = request[h]
  BY <1>6, <1>s, HandlerActs DEF Creating
<1>7. ASSUME NEW t \in Topics, Deliver(t) \/ DeliveryFails(t)
      PROVE  Creating(h) /\ request'[h] = request[h]
  BY <1>7, <1>s, DeliveryActs DEF Creating
<1>8. CASE UNCHANGED vars
  BY <1>4, <1>8 DEF vars, Creating
<1>9. QED BY <1>1, <1>2, <1>3, <1>4, <1>5, <1>6, <1>7, <1>8 DEF Next, Requests

LEMMA FollowStep == StoreInv /\ [Next]_vars => FlightsFollow'
<1> SUFFICES ASSUME StoreInv, [Next]_vars, NEW h \in Handlers, InFlight(h)',
                    ~ request'[h].forced
             PROVE  Follows(request[h].order, request[h].type)'
  BY DEF FlightsFollow
<1>1. ASSUME NEW o, NEW type, Follows(o, type) PROVE Follows(o, type)'
  BY <1>1, StaysOnTopic DEF StoreInv
<1>2. CASE InFlight(h) /\ request'[h] = request[h]
  <2>1. PICK o, type : /\ o = request[h].order /\ type = request[h].type /\ Follows(o, type)
    BY <1>2 DEF StoreInv, FlightsFollow
  <2>2. Follows(o, type)' /\ request'[h].order = o /\ request'[h].type = type
    BY <1>1, <1>2, <2>1
  <2>3. QED BY <2>2
<1>3. ASSUME NEW r, r = request'[h], Begins(r)
      PROVE  Follows(request[h].order, request[h].type)'
  <2>1. Follows(r.order, r.type)
    <3>1. CASE r.type = "ORDER_CREATED"
      BY <3>1 DEF Follows, is_legal_transition, LEGAL_PREDECESSOR
    <3>2. CASE /\ r.order \in Orders /\ Known(r.order)
               /\ is_legal_transition(r.type, orders[r.order].state)
      BY <3>2 DEF StoreInv, StoreOnlyKnowsPublished, Follows, is_legal_transition
    <3>3. QED BY <1>3, <3>1, <3>2 DEF Begins
  <2>2. Follows(r.order, r.type)'
    BY <1>1, <2>1
  <2>3. QED BY <1>3, <2>2
<1>4. QED BY <1>2, <1>3, FlightsStart DEF StoreInv

LEMMA UnforcedStep == StoreInv /\ [Next]_vars => UnforcedEventsFollow'
<1> DEFINE L == log["lifecycle"]
           Behind(i, e, S) == \E j \in 1 .. i - 1 :
             S[j].order = e.order /\ is_legal_transition(e.type, RESULTING_STATE[S[j].type])
<1> SUFFICES ASSUME StoreInv, [Next]_vars, NEW i \in DOMAIN log'["lifecycle"],
                    ~ log'["lifecycle"][i].forced,
                    ~ is_legal_transition(log'["lifecycle"][i].type, NoFold)
             PROVE  Behind(i, log'["lifecycle"][i], log'["lifecycle"])
  BY DEF UnforcedEventsFollow
<1>1. L \in Seq(Contents("lifecycle"))
  BY TopicsTyped, TopicsExist DEF StoreInv, SeqInv, TypeInv, LogOK
<1>2. \A j \in DOMAIN L : j \in DOMAIN log'["lifecycle"] /\ log'["lifecycle"][j] = L[j]
  BY TopicsGrow, TopicsExist DEF StoreInv
<1>3. CASE i \in DOMAIN L /\ log'["lifecycle"][i] = L[i]
  <2>1. PICK j \in 1 .. i - 1 :
          L[j].order = L[i].order /\ is_legal_transition(L[i].type, RESULTING_STATE[L[j].type])
    BY <1>3 DEF StoreInv, UnforcedEventsFollow
  <2>2. j \in DOMAIN L
    BY <1>1, <1>3
  <2>3. QED BY <1>2, <1>3, <2>1, <2>2
<1>4. ASSUME i = Len(L) + 1, NEW h \in Handlers, InFlight(h),
             log'["lifecycle"][i] = Payload(request[h])
      PROVE  Behind(i, log'["lifecycle"][i], log'["lifecycle"])
  <2>1. /\ log'["lifecycle"][i].order = request[h].order
        /\ log'["lifecycle"][i].type = request[h].type
        /\ log'["lifecycle"][i].forced = request[h].forced
    BY <1>4 DEF Payload, InFlight
  <2>2. PICK j \in DOMAIN L : /\ L[j].order = request[h].order
                              /\ is_legal_transition(request[h].type, RESULTING_STATE[L[j].type])
    BY <1>4, <2>1 DEF StoreInv, FlightsFollow, Follows
  <2>3. j \in 1 .. i - 1
    BY <1>1, <1>4
  <2>4. QED BY <1>2, <2>1, <2>2, <2>3
<1>5. QED BY <1>3, <1>4, OnlyFlightsLand DEF StoreInv

LEMMA PositiveStep == StoreInv /\ [Next]_vars => SequencesArePositive'
<1> SUFFICES ASSUME StoreInv, [Next]_vars PROVE SequencesArePositive'
  OBVIOUS
<1>1. ASSUME NEW i \in DOMAIN log'["lifecycle"] PROVE log'["lifecycle"][i].sequence >= 1
  <2>1. CASE i \in DOMAIN log["lifecycle"] /\ log'["lifecycle"][i] = log["lifecycle"][i]
    BY <2>1 DEF StoreInv, SequencesArePositive
  <2>2. ASSUME NEW h \in Handlers, InFlight(h), log'["lifecycle"][i] = Payload(request[h])
        PROVE  log'["lifecycle"][i].sequence >= 1
    BY <2>2 DEF Payload, InFlight, StoreInv, SequencesArePositive
  <2>3. QED BY <2>1, <2>2, OnlyFlightsLand DEF StoreInv
<1>2. ASSUME NEW h \in Handlers, InFlight(h)' PROVE request'[h].sequence >= 1
  <2>1. CASE InFlight(h) /\ request'[h] = request[h]
    BY <2>1 DEF StoreInv, SequencesArePositive
  <2>2. ASSUME NEW r, r = request'[h], Begins(r) PROVE request'[h].sequence >= 1
    <3>1. CASE r.sequence = 1
      BY <2>2, <3>1
    <3>2. CASE /\ r.order \in Orders /\ Known(r.order)
               /\ r.sequence = orders[r.order].last_sequence + 1
      <4>1. orders[r.order].last_sequence \in Nat
        BY <3>2 DEF Known, StoreInv, SeqInv, TypeInv, TypeOK, OrderRecord
      <4>2. QED BY <2>2, <3>2, <4>1
    <3>3. QED BY <2>2, <3>1, <3>2 DEF Begins
  <2>3. QED BY <1>2, <2>1, <2>2, FlightsStart DEF StoreInv
<1>3. QED BY <1>1, <1>2 DEF SequencesArePositive

\* What an acknowledged event says of the topic.
LEMMA AckedEvent ==
  ASSUME StoreInv, NEW h \in Handlers, pc[h] = "acked", request[h].op # "delete"
  PROVE  /\ Reached(request[h].order, RESULTING_STATE[request[h].type])
         /\ Published(request[h].order, request[h].sequence)
<1>1. OnTopic("lifecycle", Payload(request[h]))
  BY DEF StoreInv, AckedIsOnTopic, Target
<1>2. /\ Payload(request[h]).order = request[h].order
      /\ Payload(request[h]).type = request[h].type
      /\ Payload(request[h]).sequence = request[h].sequence
  BY DEF Payload
<1>3. QED BY <1>1, <1>2 DEF OnTopic, Reached, Published

LEMMA KnownStep == StoreInv /\ [Next]_vars => StoreOnlyKnowsPublished'
<1> SUFFICES ASSUME StoreInv, [Next]_vars, NEW o \in Orders, Known(o)'
             PROVE  Reached(o, "CREATED")' /\ Reached(o, orders[o].state)'
  BY DEF StoreOnlyKnowsPublished, Reached
<1>1. ASSUME NEW s, Reached(o, s) PROVE Reached(o, s)'
  BY <1>1, StaysOnTopic DEF StoreInv
<1>2. Known(o) => Reached(o, "CREATED") /\ Reached(o, orders[o].state)
  BY DEF StoreInv, StoreOnlyKnowsPublished, Reached
<1>3. RESULTING_STATE["ORDER_CREATED"] = "CREATED"
  BY DEF RESULTING_STATE
<1>4. ASSUME NEW h \in Handlers, pc[h] = "acked", request[h].op \in {"event", "create"},
             request[h].order = o
      PROVE  Reached(o, RESULTING_STATE[request[h].type])
  BY <1>4, AckedEvent
<1>5. ASSUME NEW h \in Handlers, pc[h] = "acked", request[h].op = "create", request[h].order = o
      PROVE  Reached(o, "CREATED")
  <2>1. request[h].type = "ORDER_CREATED"
    BY <1>5 DEF StoreInv, CreatesAreFirst, Creating
  <2>2. QED BY <1>3, <1>4, <1>5, <2>1
<1>6. /\ Reached(o, "CREATED")
      /\ \E s : s = orders'[o].state /\ Reached(o, s)
  BY <1>2, <1>3, <1>4, <1>5, StoreChanges DEF StoreInv
<1>7. QED BY <1>1, <1>6

LEMMA GoneStep == StoreInv /\ [Next]_vars => GoneOnlyWithTombstone'
<1> SUFFICES ASSUME StoreInv, [Next]_vars, NEW o \in registered', ~ Known(o)'
             PROVE  OnTopic("snapshot", [order |-> o, value |-> NoFold])'
  BY DEF GoneOnlyWithTombstone, OnTopic
<1>1. OnTopic("snapshot", [order |-> o, value |-> NoFold])
  <2>1. CASE o \in registered /\ ~ Known(o)
    BY <2>1 DEF StoreInv, GoneOnlyWithTombstone, OnTopic
  <2>2. ASSUME NEW h \in Handlers, pc[h] = "acked", request[h].op = "delete",
               request[h].order = o
        PROVE  OnTopic("snapshot", [order |-> o, value |-> NoFold])
    BY <2>2 DEF StoreInv, AckedIsOnTopic, Target, Payload
  <2>3. QED BY <2>1, <2>2, OrdersLeave DEF StoreInv
<1>2. QED BY <1>1, StaysOnTopic, TopicsExist DEF StoreInv

LEMMA HoleStep == StoreInv /\ [Next]_vars => NoHole'
<1> DEFINE Flying(o, n) == \E h \in Handlers :
             InFlight(h) /\ request[h].order = o /\ request[h].sequence = n
<1> SUFFICES ASSUME StoreInv, [Next]_vars, disruptions' = 0, NEW o \in Orders, Known(o)',
                    NEW n \in 1 .. orders'[o].last_sequence
             PROVE  Published(o, n)' \/ Flying(o, n)'
  BY DEF NoHole
<1>1. disruptions = 0
  BY FailuresAreCounted DEF StoreInv
<1>2. orders[o] # NoFold => orders[o].last_sequence \in Nat
  BY DEF StoreInv, SeqInv, TypeInv, TypeOK, OrderRecord
<1>3. ASSUME Known(o), n \in 1 .. orders[o].last_sequence
      PROVE  Published(o, n)' \/ Flying(o, n)'
  <2>1. CASE Published(o, n)
    BY <2>1, StaysOnTopic DEF StoreInv
  <2>2. ASSUME NEW h \in Handlers, InFlight(h), request[h].order = o, request[h].sequence = n
        PROVE  Published(o, n)' \/ Flying(o, n)'
    <3>1. /\ request'[h] = request[h]
          /\ InFlight(h)' \/ OnTopic("lifecycle", Payload(request[h]))'
      BY <2>2, FlightsEnd DEF StoreInv
    <3>2. CASE InFlight(h)'
      BY <2>2, <3>1, <3>2
    <3>3. CASE OnTopic("lifecycle", Payload(request[h]))'
      <4>1. Payload(request'[h]).order = o /\ Payload(request'[h]).sequence = n
        BY <2>2, <3>1 DEF Payload, InFlight
      <4>2. QED BY <3>3, <4>1 DEF OnTopic, Published
    <3>4. QED BY <3>1, <3>2, <3>3
  <2>3. QED BY <1>1, <1>3, <2>1, <2>2 DEF StoreInv, NoHole
<1>4. CASE Known(o) /\ orders'[o].last_sequence = orders[o].last_sequence
  BY <1>3, <1>4
<1>5. ASSUME Known(o), orders'[o].last_sequence = orders[o].last_sequence + 1,
             NEW h \in Handlers, InFlight(h)', request'[h].order = o,
             request'[h].sequence = orders'[o].last_sequence
      PROVE  Published(o, n)' \/ Flying(o, n)'
  <2>1. n \in 1 .. orders[o].last_sequence \/ n = orders'[o].last_sequence
    BY <1>2, <1>5 DEF Known
  <2>2. QED BY <1>3, <1>5, <2>1
<1>6. ASSUME orders'[o].last_sequence = 1, NEW h \in Handlers, pc[h] = "acked",
             request[h].op = "create", request[h].order = o
      PROVE  Published(o, n)'
  <2>1. request[h].sequence = 1
    BY <1>6 DEF StoreInv, SeqInv, CreatorIsAlone, Creating
  <2>2. n = 1
    BY <1>6
  <2>3. Published(o, n)
    BY <1>6, <2>1, <2>2, AckedEvent
  <2>4. QED BY <2>3, StaysOnTopic DEF StoreInv
<1>7. QED BY <1>4, <1>5, <1>6, StoreChanges DEF StoreInv

LEMMA StoreInit == Init => StoreInv
<1> SUFFICES ASSUME Init PROVE StoreInv
  OBVIOUS
<1>1. SeqInv
  BY SeqInit
<1>2. \A h \in Handlers : pc[h] = "idle"
  BY DEF Init
<1>3. \A t \in Topics : log[t] = << >>
  BY DEF Init
<1>4. AckedIsOnTopic /\ CreatesAreFirst /\ FlightsFollow
  BY <1>2 DEF AckedIsOnTopic, CreatesAreFirst, FlightsFollow, InFlight, Creating
<1>5. SequencesArePositive /\ UnforcedEventsFollow
  BY <1>2, <1>3, TopicsExist DEF SequencesArePositive, UnforcedEventsFollow, InFlight
<1>6. NoHole /\ StoreOnlyKnowsPublished /\ GoneOnlyWithTombstone
  BY DEF Init, NoHole, StoreOnlyKnowsPublished, GoneOnlyWithTombstone, Known
<1>7. QED BY <1>1, <1>4, <1>5, <1>6 DEF StoreInv

LEMMA StoreStep == StoreInv /\ [Next]_vars => StoreInv'
<1>1. StoreInv /\ [Next]_vars => SeqInv'
  BY SeqStep DEF StoreInv
<1>2. QED BY <1>1, AckedStep, CreatesStep, FollowStep, PositiveStep, HoleStep, KnownStep,
             GoneStep, UnforcedStep DEF StoreInv

LEMMA StoreInvariant == Spec => []StoreInv
  BY StoreInit, StoreStep, PTL DEF Spec

-----------------------------------------------------------------------------
\* Whatever requests overlap and whichever deliveries fail, the store never knows an
\* order whose creation, or whose state's event, is not on the lifecycle topic
\* (create_order registers, and publish_event commits, only what was acknowledged).
THEOREM StoreIsBehindTopic == Spec => []StoreOnlyKnowsPublished
<1>1. StoreInv => StoreOnlyKnowsPublished
  BY DEF StoreInv
<1>2. QED BY <1>1, StoreInvariant, PTL

\* An order is dropped from the store only once its tombstone is on the snapshot topic
\* (delete_order removes after the acknowledgement, never before).
THEOREM DeleteIsWhole == Spec => []GoneOnlyWithTombstone
<1>1. StoreInv => GoneOnlyWithTombstone
  BY DEF StoreInv
<1>2. QED BY <1>1, StoreInvariant, PTL

\* An event that was not forced stands on the topic behind the event it continues from:
\* reserve's guard reads a state whose event has already landed.
THEOREM NoStepSkipped == Spec => []UnforcedEventsFollow
<1>1. StoreInv => UnforcedEventsFollow
  BY DEF StoreInv
<1>2. QED BY <1>1, StoreInvariant, PTL

\* If nothing has failed, then once all is quiet the topic holds the sequences 1 up to
\* the last one reserved of every known order, and no other.
THEOREM NoSequenceMissing == Spec => []SequencesAreContiguous
<1>1. StoreInv => SequencesAreContiguous
  <2> SUFFICES ASSUME StoreInv, Quiet, disruptions = 0, NEW o \in Orders, Known(o)
               PROVE  SequencesOf(o) = 1 .. orders[o].last_sequence
    BY DEF SequencesAreContiguous
  <2>1. orders[o].last_sequence \in Nat
    BY DEF Known, StoreInv, SeqInv, TypeInv, TypeOK, OrderRecord
  <2>2. \A i \in DOMAIN log["lifecycle"] : log["lifecycle"][i].sequence \in Nat
    <3>1. log["lifecycle"] \in Seq(EventRecord)
      BY TopicsTyped, TopicsExist DEF StoreInv, SeqInv, TypeInv, LogOK, Contents
    <3>2. \A i \in DOMAIN log["lifecycle"] : log["lifecycle"][i] \in EventRecord
      BY <3>1
    <3>3. QED BY <3>2 DEF EventRecord
  <2>3. \A n \in SequencesOf(o) : n \in 1 .. orders[o].last_sequence
    BY <2>1, <2>2 DEF SequencesOf, StoreInv, SequencesArePositive, SeqInv, CounterIsAhead
  <2>4. \A n \in 1 .. orders[o].last_sequence : Published(o, n)
    BY DEF StoreInv, NoHole, Quiet, InFlight
  <2>5. \A n \in 1 .. orders[o].last_sequence : n \in SequencesOf(o)
    BY <2>4 DEF Published, SequencesOf
  <2>6. QED BY <2>3, <2>5
<1>2. QED BY <1>1, StoreInvariant, PTL
=============================================================================
