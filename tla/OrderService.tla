----------------------------- MODULE OrderService -----------------------------
(***************************************************************************)
(* The order service: its in-memory OrderStore (producer/orders.py), the   *)
(* request handlers that run against it in worker threads                  *)
(* (producer/routes.py) and the one producer they share                    *)
(* (producer/kafka_producer.py), up to what the two topics end up holding. *)
(*                                                                         *)
(* A handler is atomic where the store's lock makes it so, and nowhere     *)
(* else: it can be overtaken between any two calls.  A refused request     *)
(* (404, 409, 422) changes nothing and is not a step.                      *)
(***************************************************************************)
EXTENDS Lifecycle, Sequences

CONSTANTS
  Handlers,         \* worker threads serving requests
  NoHandler,        \* a fire-and-forget record: nobody waits for its report
  Orders,           \* the order ids that new_order_id will draw
  ForceAllowed,     \* may callers set force?
  MaxSequence,      \* bound: no event is requested past this sequence
  MaxDisruptions    \* bound: deliveries and enqueues that fail

ASSUME ServiceAssumption ==
  /\ NoHandler \notin Handlers
  /\ ForceAllowed \in BOOLEAN
  /\ MaxSequence \in Nat /\ MaxDisruptions \in Nat

Topics == {"lifecycle", "snapshot"}

\* The service's record of an order, as far as events change it; NoFold when the
\* store does not know it.
OrderRecord == [state : OrderState, last_sequence : Nat]

ASSUME NoFoldAssumption == NoFold \notin OrderRecord

\* forced is not on the wire: it tells the properties who asked for the event.
EventRecord == [order : Orders, sequence : Nat, type : EventType, forced : BOOLEAN]

\* A record of the compacted topic; a null value is a tombstone.
TableRecord == [order : Orders, value : OrderRecord \cup {NoFold}]

\* What a topic holds.
Contents(topic) == IF topic = "lifecycle" THEN EventRecord ELSE TableRecord

\* What a handler is working on; a delete has no sequence, type or force.
Request == [op : {"create", "event", "delete"}, order : Orders, sequence : Nat,
            type : EventType, forced : BOOLEAN]

NoRequest == [op |-> "none"]

VARIABLES
  orders,      \* OrderStore._orders
  log,         \* topic |-> what the broker has appended
  queue,       \* topic |-> what the producer has accepted and not yet delivered
  pc,          \* handler |-> where it stands
  request,     \* handler |-> the event, or the tombstone, it is publishing
  snapshot,    \* handler |-> the order as it is to be mirrored
  registered,  \* history: orders register() has recorded
  disruptions

vars == <<orders, log, queue, pc, request, snapshot, registered, disruptions>>

Goto(h, label) == pc' = [pc EXCEPT ![h] = label]

Disrupt == disruptions < MaxDisruptions /\ disruptions' = disruptions + 1

Known(o) == orders[o] # NoFold

\* A caller learns an order's id from the answer to its POST /orders.
Callable(o) ==
  /\ Known(o)
  /\ \A g \in Handlers :
       pc[g] # "idle" => ~ (request[g].op = "create" /\ request[g].order = o)

\* What a request publishes, and where.
Target(req) == IF req.op = "delete" THEN "snapshot" ELSE "lifecycle"

Payload(req) ==
  IF req.op = "delete" THEN [order |-> req.order, value |-> NoFold]
  ELSE [order |-> req.order, sequence |-> req.sequence, type |-> req.type,
        forced |-> req.forced]

Enqueue(topic, handler, record) ==
  queue' = [queue EXCEPT ![topic] = Append(@, [handler |-> handler, record |-> record])]

-----------------------------------------------------------------------------
(* OrderStore, one operator per locked section.                            *)

\* Mutant: the sequence is computed, not taken.
reserve_unallocated(o) == orders

\* OrderStore.reserve: allocate the next sequence.
reserve(o) == [orders EXCEPT ![o].last_sequence = @ + 1]

\* Mutant: the state and the sequence both advance on commit.
commit_counts(o, type, forced) ==
  [orders EXCEPT ![o].state = RESULTING_STATE[type], ![o].last_sequence = @ + 1]

\* Mutant: the event type is stored for the state.
commit_type(o, type, forced) == [orders EXCEPT ![o].state = type]

\* OrderStore.commit: a forced illegal event leaves the state as it was.
commit(o, type, forced) ==
  IF forced /\ ~ is_legal_transition(type, orders[o].state) THEN orders
  ELSE [orders EXCEPT ![o].state = RESULTING_STATE[type]]

\* Mutant: the order is dropped before its tombstone is acknowledged.
removed_early(h) == pc[h] \in {"await", "acked"} /\ request[h].op = "delete"

\* delete_order removes only once the tombstone is acknowledged.
may_remove(h) == pc[h] = "acked" /\ request[h].op = "delete"

\* Mutant: the order is registered while its event is in flight.
registered_early(h) == pc[h] \in {"await", "acked"} /\ request[h].op = "create"

\* create_order registers only once ORDER_CREATED is acknowledged.
may_register(h) == pc[h] = "acked" /\ request[h].op = "create"

-----------------------------------------------------------------------------
(* The requests.                                                           *)

\* POST /orders: a fresh id, sequence 1.
CreateOrder(h, o) ==
  /\ pc[h] = "idle" /\ o \notin registered
  /\ \A g \in Handlers : pc[g] # "idle" => request[g].order # o
  /\ \A i \in DOMAIN log["lifecycle"] : log["lifecycle"][i].order # o
  /\ request' = [request EXCEPT ![h] = [op |-> "create", order |-> o, sequence |-> 1,
                                        type |-> "ORDER_CREATED", forced |-> FALSE]]
  /\ Goto(h, "produce")
  /\ UNCHANGED <<orders, log, queue, snapshot, registered, disruptions>>

\* POST /orders/{id}/events: the guard and the allocation share the store's lock.
PublishEvent(h, o, type, forced) ==
  /\ pc[h] = "idle" /\ Callable(o)
  /\ forced \/ is_legal_transition(type, orders[o].state)
  /\ forced => ForceAllowed
  /\ orders[o].last_sequence < MaxSequence
  /\ orders' = reserve(o)
  /\ request' = [request EXCEPT ![h] = [op |-> "event", order |-> o,
                   sequence |-> orders[o].last_sequence + 1, type |-> type,
                   forced |-> forced]]
  /\ Goto(h, "produce")
  /\ UNCHANGED <<log, queue, snapshot, registered, disruptions>>

\* DELETE /orders/{id}.
DeleteOrder(h, o) ==
  /\ pc[h] = "idle" /\ Callable(o)
  /\ request' = [request EXCEPT ![h] = [op |-> "delete", order |-> o, sequence |-> 0,
                                        type |-> "ORDER_CREATED", forced |-> FALSE]]
  /\ Goto(h, "produce")
  /\ UNCHANGED <<orders, log, queue, snapshot, registered, disruptions>>

\* _produce_keyed accepts the record; _publish_blocking waits for its report.
Produce(h) ==
  /\ pc[h] = "produce"
  /\ Enqueue(Target(request[h]), h, Payload(request[h]))
  /\ Goto(h, "await")
  /\ UNCHANGED <<orders, log, request, snapshot, registered, disruptions>>

\* _produce_keyed refuses it: 502.
ProduceRefused(h) ==
  /\ pc[h] = "produce" /\ Disrupt
  /\ Goto(h, "idle")
  /\ UNCHANGED <<orders, log, queue, request, snapshot, registered>>

\* create_order's second half.
Register(h) ==
  LET o == request[h].order
      new == [state |-> RESULTING_STATE["ORDER_CREATED"], last_sequence |-> 1]
  IN  /\ may_register(h)
      /\ orders' = [orders EXCEPT ![o] = new]
      /\ registered' = registered \cup {o}
      /\ snapshot' = [snapshot EXCEPT ![h] = new]
      /\ Goto(h, "mirror")
      /\ UNCHANGED <<log, queue, request, disruptions>>

\* publish_event's second half.
Commit(h) ==
  LET req == request[h] IN
    /\ pc[h] = "acked" /\ req.op = "event" /\ Known(req.order)
    /\ orders' = commit(req.order, req.type, req.forced)
    /\ snapshot' = [snapshot EXCEPT ![h] = orders'[req.order]]
    /\ Goto(h, "mirror")
    /\ UNCHANGED <<log, queue, request, registered, disruptions>>

\* commit() raises UnknownOrder, which publish_event does not catch: 500.
CommitUnknown(h) ==
  /\ pc[h] = "acked" /\ request[h].op = "event" /\ ~ Known(request[h].order)
  /\ Goto(h, "idle")
  /\ UNCHANGED <<orders, log, queue, request, snapshot, registered, disruptions>>

\* delete_order's second half; removing an order already gone is a success.
Remove(h) ==
  /\ may_remove(h)
  /\ orders' = [orders EXCEPT ![request[h].order] = NoFold]
  /\ Goto(h, "idle")
  /\ UNCHANGED <<log, queue, request, snapshot, registered, disruptions>>

\* _publish_snapshot: enqueued and not waited for, or not even enqueued.
PublishSnapshot(h) ==
  /\ pc[h] = "mirror"
  /\ \/ /\ Enqueue("snapshot", NoHandler,
                   [order |-> request[h].order, value |-> snapshot[h]])
        /\ UNCHANGED disruptions
     \/ Disrupt /\ UNCHANGED queue
  /\ Goto(h, "idle")
  /\ UNCHANGED <<orders, log, request, snapshot, registered>>

-----------------------------------------------------------------------------
(* The producer and the broker.  The producer is idempotent (R8.1), so the *)
(* records of a partition land in the order they were enqueued, once each. *)

Report(h, label) ==
  pc' = IF h # NoHandler /\ pc[h] = "await" THEN [pc EXCEPT ![h] = label] ELSE pc

\* The oldest record lands and is acknowledged.
Deliver(topic) ==
  /\ queue[topic] # << >>
  /\ log' = [log EXCEPT ![topic] = Append(@, Head(queue[topic]).record)]
  /\ queue' = [queue EXCEPT ![topic] = Tail(@)]
  /\ Report(Head(queue[topic]).handler, "acked")
  /\ UNCHANGED <<orders, request, snapshot, registered, disruptions>>

\* The report is an error, or message.timeout.ms ends it: 502 or 504.  The record
\* may have landed all the same, its acknowledgement lost.
DeliveryFails(topic) ==
  /\ queue[topic] # << >> /\ Disrupt
  /\ \/ log' = [log EXCEPT ![topic] = Append(@, Head(queue[topic]).record)]
     \/ UNCHANGED log
  /\ queue' = [queue EXCEPT ![topic] = Tail(@)]
  /\ Report(Head(queue[topic]).handler, "idle")
  /\ UNCHANGED <<orders, request, snapshot, registered>>

-----------------------------------------------------------------------------
Init ==
  /\ orders = [o \in Orders |-> NoFold]
  /\ log = [t \in Topics |-> << >>]
  /\ queue = [t \in Topics |-> << >>]
  /\ pc = [h \in Handlers |-> "idle"]
  /\ request = [h \in Handlers |-> NoRequest]
  /\ snapshot = [h \in Handlers |-> NoFold]
  /\ registered = {}
  /\ disruptions = 0

Requests(h) ==
  \E o \in Orders :
    \/ CreateOrder(h, o) \/ DeleteOrder(h, o)
    \/ \E type \in EventType, forced \in BOOLEAN : PublishEvent(h, o, type, forced)

Answers(h) ==
  \/ Produce(h) \/ ProduceRefused(h) \/ Register(h) \/ Commit(h) \/ CommitUnknown(h)
  \/ Remove(h) \/ PublishSnapshot(h)

Next ==
  \/ \E h \in Handlers : Requests(h) \/ Answers(h)
  \/ \E topic \in Topics : Deliver(topic) \/ DeliveryFails(topic)

Spec == Init /\ [][Next]_vars

-----------------------------------------------------------------------------
(* Properties.                                                             *)

\* Type correctness of the whole state.
TypeOK ==
  /\ orders \in [Orders -> OrderRecord \cup {NoFold}]
  /\ DOMAIN log = Topics /\ DOMAIN queue = Topics
  /\ \A t \in Topics :
       /\ log[t] \in Seq(Contents(t))
       /\ queue[t] \in Seq([handler : Handlers \cup {NoHandler}, record : Contents(t)])
  /\ pc \in [Handlers -> {"idle", "produce", "await", "acked", "mirror"}]
  /\ request \in [Handlers -> Request \cup {NoRequest}]
  /\ snapshot \in [Handlers -> OrderRecord \cup {NoFold}]
  /\ registered \subseteq Orders
  /\ disruptions \in Nat

\* No request and no delivery is under way.
Quiet ==
  (\A h \in Handlers : pc[h] = "idle") /\ (\A t \in Topics : queue[t] = << >>)

SequencesOf(o) == {log["lifecycle"][i].sequence :
                     i \in {j \in DOMAIN log["lifecycle"] : log["lifecycle"][j].order = o}}

\* Two concurrent requests never hold the same sequence (orders.py, reserve): no two
\* events of an order on the topic share one.
SequencesAreUnique ==
  \A i, j \in DOMAIN log["lifecycle"] :
    i # j /\ log["lifecycle"][i].order = log["lifecycle"][j].order =>
      log["lifecycle"][i].sequence # log["lifecycle"][j].sequence

\* Sequences start at 1 and leave no hole (R1.3), however requests interleave, as
\* long as every delivery succeeds: once all is quiet, the topic holds 1 up to the
\* sequence the store recorded last.
SequencesAreContiguous ==
  Quiet /\ disruptions = 0 =>
    \A o \in Orders : Known(o) => SequencesOf(o) = 1 .. orders[o].last_sequence

\* The store knows nothing the topic does not (R1.13, R1.23): a known order's
\* creation, and the event that put it in its state, are on the lifecycle topic.
StoreOnlyKnowsPublished ==
  \A o \in Orders : Known(o) =>
    \A s \in {"CREATED", orders[o].state} :
      \E i \in DOMAIN log["lifecycle"] :
        log["lifecycle"][i].order = o /\ RESULTING_STATE[log["lifecycle"][i].type] = s

\* A delete is never half-applied (R6.8, R6.9): an order leaves the store only
\* when its tombstone is on the snapshot topic.
GoneOnlyWithTombstone ==
  \A o \in registered : ~ Known(o) =>
    \E i \in DOMAIN log["snapshot"] :
      log["snapshot"][i] = [order |-> o, value |-> NoFold]

\* The records of the compacted topic for an order, oldest first.
RowsOf(o) == SelectSeq(log["snapshot"], LAMBDA row : row.order = o)

LastRow(o) == RowsOf(o)[Len(RowsOf(o))]

\* No step is skipped unless someone forced it (R1.21): an event that was not forced
\* stands on the topic after the event that led to the state it continues from, however
\* handlers overlap and whichever delivery fails.  (It may repeat a transition: two
\* handlers may both pass the guard before either is acknowledged.)
UnforcedEventsFollow ==
  \A i \in DOMAIN log["lifecycle"] :
    LET e == log["lifecycle"][i] IN
      ~ e.forced /\ ~ is_legal_transition(e.type, NoFold) =>
        \E j \in 1 .. i - 1 :
          LET f == log["lifecycle"][j] IN
            f.order = e.order /\ is_legal_transition(e.type, RESULTING_STATE[f.type])

\* R6.4, R6.6, R6.8: once all is quiet and nothing failed, the newest row of an order
\* is its complete current state, and a deleted order's is its tombstone.
TableMirrorsStore ==
  Quiet /\ disruptions = 0 => \A o \in registered : LastRow(o).value = orders[o]
=============================================================================
