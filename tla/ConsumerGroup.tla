---------------------------- MODULE ConsumerGroup ----------------------------
(***************************************************************************)
(* One consumer group of one service under PROCESSING_GUARANTEE=           *)
(* at_least_once with the local state backend and a full rebuild: the      *)
(* consume loop of consumer/runtime.py, the store of consumer/state.py,    *)
(* the direct committer of consumer/transactions.py and the failure        *)
(* route of consumer/dlq.py, for ONE partition number.                     *)
(*                                                                         *)
(* A partition number names one partition of each subscribed topic         *)
(* (order-lifecycle and order-snapshot), one store per member and one      *)
(* partition of the group's compacted changelog.  Partition numbers share  *)
(* nothing but the process that serves them, so the others only delay      *)
(* this one.  Topics are append-only and poll may return nothing at any    *)
(* time, so a topic is its final contents and readers may lag arbitrarily. *)
(***************************************************************************)
EXTENDS Lifecycle, Sequences, FiniteSets

CONSTANTS
  Members,          \* the instances of the service
  NoMember,         \* "no member owns this partition"
  Orders,           \* the orders whose key hashes to this partition number
  EventLog,         \* the messages of order-lifecycle, oldest first
  SnapshotLog,      \* the messages of order-snapshot, oldest first
  state_write_order,\* STATE_WRITE_ORDER: "state_first" or "offset_first"
  CoAssigned,       \* does the assignor give both topics to one member? (range does)
  HandlerMayFail,   \* may a handler raise?
  LiveEvictions,    \* may the coordinator evict a member that is still running?
  DeliveryMayFail,  \* may a produce be given up on, or a flush time out?
  MaxDisruptions    \* bound: crashes, exits, evictions, revocations, commit errors

Topics == {"lifecycle", "snapshot"}

Log(t) == IF t = "lifecycle" THEN EventLog ELSE SnapshotLog

\* A message is the key it carries plus what the loop can tell about its value:
\* a null ("tombstone"), bytes that do not decode ("undecodable") or a body.
\* target is the x-retry-target header: absent, this service, or another one.
Message == [kind     : {"body", "tombstone", "undecodable"},
            order    : Orders,
            sequence : Nat,
            type     : EventType,
            target   : {"none", "ours", "other"}]

ASSUME ConstantsAssumption ==
  /\ EventLog \in Seq(Message)
  /\ SnapshotLog \in Seq(Message)
  /\ NoMember \notin Members
  /\ state_write_order \in {"state_first", "offset_first"}
  /\ {CoAssigned, HandlerMayFail, LiveEvictions, DeliveryMayFail} \subseteq BOOLEAN
  /\ MaxDisruptions \in Nat

-----------------------------------------------------------------------------
VARIABLES
  owner,      \* coordinator: topic |-> the member its partition is assigned to
  committed,  \* coordinator: topic |-> the committed offset
  changelog,  \* broker: the compacted changelog, order |-> its last record
  pc,         \* member |-> where its consume loop stands
  joining,    \* member |-> topics assigned to it, being restored by _on_assign
  held,       \* member |-> topics it consumes
  position,   \* member |-> topic |-> the next offset poll delivers
  store,      \* member |-> the store it holds for this partition number
  queue,      \* member |-> changelog records its producer has not delivered
  work,       \* member |-> the message in hand: its topic and offset
  done,       \* history: messages handled, routed, or skipped by rule
  routed,     \* history: lifecycle offsets published to the retry or DLQ topic
  reported,   \* history: <<order, sequence>> logged with a VIOLATION
  erased,     \* history: orders whose tombstone is committed, not folded since
  disruptions \* how many disruptions there have been

group   == <<owner, committed, changelog>>
history == <<done, routed, reported, erased>>
vars == <<group, pc, joining, held, position, store, queue, work, history,
                 disruptions>>

\* A stored record.  last_event_id is left out: nothing reads it back.
Record == [last_sequence : Nat, state : OrderState, handled_count : Nat]

ASSUME NoFoldAssumption == NoFold \notin Record

Empty == [k \in Orders |-> NoFold]

Running(m) == pc[m] # "down"

\* The message member m has in hand.
Current(m) == Log(work[m].topic)[work[m].offset + 1]

Goto(m, label) == pc' = [pc EXCEPT ![m] = label]

\* The environment spends one of its disruptions.
Disrupt == disruptions < MaxDisruptions /\ disruptions' = disruptions + 1

-----------------------------------------------------------------------------
(* The pieces of the loop that decide what survives a failure.             *)

\* Mutant: the last write wins.
saved_unguarded(previous, event) ==
  [last_sequence |-> event.sequence, state |-> RESULTING_STATE[event.type],
   handled_count |-> IF previous = NoFold THEN 1 ELSE previous.handled_count + 1]

\* Mutant: a delivery the guard absorbs is not counted.
saved_uncounted(previous, event) ==
  IF previous # NoFold /\ event.sequence <= previous.last_sequence THEN previous
  ELSE saved_unguarded(previous, event)

\* LocalStateStore.save: the sequence guard.  The delivery is counted whether
\* or not the fold advanced.
saved_record(previous, event) ==
  LET count == IF previous = NoFold THEN 1 ELSE previous.handled_count + 1
      fold  == updated_fold(event)
      kept  == IF event.sequence > last_sequence_of(previous) \/ previous = NoFold
               THEN fold ELSE previous
  IN  [last_sequence |-> kept.last_sequence, state |-> kept.state,
       handled_count |-> count]

\* Mutant: the flush does not wait.
not_flushed(m) == TRUE

\* LocalStateStore.flush: the producer has nothing left to deliver.
flushed(m) == queue[m] = << >>

\* LocalStateStore.forget flushes too, but ignores a timeout.
flushed_or_gave_up(m) == flushed(m) \/ DeliveryMayFail

\* Mutant: the rebuild is skipped (the memory backend's restore).
not_restored(m) == Empty

\* LocalStateStore._restore_one in full mode: the directory is destroyed and the
\* changelog replayed to its high watermark, last record per key.
restored(m) == changelog

\* Mutant: the committed offset is taken for the last one read.
resume_off_by_one(m, t) == committed[t] - 1

\* Mutant: auto.offset.reset=latest where nothing is committed.
resume_latest(m, t) == IF committed[t] = 0 THEN Len(Log(t)) ELSE committed[t]

\* Where a newly assigned partition is read from (auto.offset.reset=earliest).
resume(m, t) == committed[t]

\* Mutant: a stale generation is not refused.
commit_unchecked(m, t) == TRUE

\* DirectCommitter.note: the coordinator refuses a member that is not the owner.
commit_accepted(m, t) == owner[t] = m

\* Mutant: the seek is missing.
no_rewind(m) == position

\* ServiceConsumer._rewind: seek back to the message in hand.
rewind(m) == [position EXCEPT ![m][work[m].topic] = work[m].offset]

\* The read position of a message is the offset after it.
Take(m, t) ==
  /\ work' = [work EXCEPT ![m] = [topic |-> t, offset |-> position[m][t]]]
  /\ position' = [position EXCEPT ![m][t] = @ + 1]

Produce(m, order, value) ==
  queue' = [queue EXCEPT ![m] = Append(@, [order |-> order, value |-> value])]

\* The member consumes these topics no more.  _forget closes the store; while the
\* other topic is held, _store_for reopens the same directory with what it had.
\* Otherwise the directory stays on disk, and a full rebuild destroys it unread.
LetGo(m, T) ==
  /\ held' = [held EXCEPT ![m] = @ \ T]
  /\ joining' = [joining EXCEPT ![m] = {}]
  /\ position' = [position EXCEPT ![m] = [t \in Topics |-> IF t \in T THEN 0 ELSE @[t]]]
  /\ store' = [store EXCEPT ![m] = IF held[m] \subseteq T THEN Empty ELSE @]

\* The coordinator takes back what the member owned.
Release(m) == owner' = [t \in Topics |-> IF owner[t] = m THEN NoMember ELSE owner[t]]

\* _handle_message logs the violations of a first delivery, none of a repeat.
Report(m, event) ==
  LET current == store[m][event.order]
  IN  reported' = IF redelivered(current, event) \/ violations_of(current, event) = {}
                  THEN reported
                  ELSE reported \cup {<<event.order, event.sequence>>}

-----------------------------------------------------------------------------
(* Membership: the coordinator's decisions and the rebalance callbacks.    *)

\* The coordinator assigns free partitions to a member that is polling; its
\* client calls _on_assign, which blocks until the store is rebuilt.
Assign(m, T) ==
  /\ pc[m] = "poll"
  /\ T # {} /\ \A t \in T : owner[t] = NoMember
  /\ CoAssigned => T = Topics
  /\ \A t \in held[m] : owner[t] = m
  /\ owner' = [t \in Topics |-> IF t \in T THEN m ELSE owner[t]]
  /\ joining' = [joining EXCEPT ![m] = T]
  /\ Goto(m, "restore")
  /\ UNCHANGED <<committed, changelog, held, position, store, queue, work, history,
                 disruptions>>

\* _on_assign returns: the store is rebuilt and consumption starts at the
\* committed offset.
Restore(m) ==
  /\ pc[m] = "restore"
  /\ store' = [store EXCEPT ![m] = restored(m)]
  /\ position' = [position EXCEPT ![m] =
                    [t \in Topics |-> IF t \in joining[m] THEN resume(m, t) ELSE @[t]]]
  /\ held' = [held EXCEPT ![m] = @ \cup joining[m]]
  /\ joining' = [joining EXCEPT ![m] = {}]
  /\ Goto(m, "poll")
  /\ UNCHANGED <<group, queue, work, history,
                 disruptions>>

\* _on_revoke, called from poll: flush and let go.  The directory stays on disk.
Revoke(m, T) ==
  /\ pc[m] = "poll"
  /\ T # {} /\ T \subseteq held[m] /\ \A t \in T : owner[t] = m
  /\ CoAssigned => T = Topics
  /\ flushed_or_gave_up(m)
  /\ owner' = [t \in Topics |-> IF t \in T THEN NoMember ELSE owner[t]]
  /\ Disrupt
  /\ LetGo(m, T)
  /\ UNCHANGED <<committed, changelog, pc, queue, work, history>>

\* The coordinator stops hearing from a member: it is dead, or it is alive and
\* has outlived its session or max.poll.interval.ms.  The member is not told.
Evict(m) ==
  /\ \E t \in Topics : owner[t] = m
  /\ \/ ~ Running(m) /\ UNCHANGED disruptions
     \/ Running(m) /\ LiveEvictions /\ Disrupt
  /\ Release(m)
  /\ UNCHANGED <<committed, changelog, pc, joining, held, position, store, queue, work,
                 history>>

\* _on_lost: an evicted member finds out on its next poll.
Lost(m) ==
  /\ pc[m] = "poll"
  /\ \E t \in held[m] : owner[t] # m
  /\ flushed_or_gave_up(m)
  /\ LetGo(m, Topics)
  /\ UNCHANGED <<group, pc, queue, work, history,
                 disruptions>>

\* SIGKILL, or the crash lever, at any point of the loop: everything in memory
\* is gone, the producer's queue included; the coordinator is not told.
Crash(m) ==
  /\ Running(m) /\ Disrupt
  /\ Goto(m, "down")
  /\ LetGo(m, Topics)
  /\ queue' = [queue EXCEPT ![m] = << >>]
  /\ UNCHANGED <<group, work, history>>

\* The loop ends: a signal at the top of it, or StateStoreUnavailable from a
\* rebuild, a store write or a flush that timed out.  consumer.close() runs
\* _on_revoke (hence forget, hence a flush) and leaves the group.
Exit(m) ==
  /\ Disrupt
  /\ \/ pc[m] \in {"poll", "restore", "persist"}
     \/ pc[m] = "flush" /\ DeliveryMayFail
  /\ flushed_or_gave_up(m)
  /\ Release(m)
  /\ Goto(m, "down")
  /\ LetGo(m, Topics)
  /\ queue' = [queue EXCEPT ![m] = << >>]
  /\ UNCHANGED <<committed, changelog, work, history>>

\* A stopped instance is started again, once its old membership has expired.
Start(m) ==
  /\ ~ Running(m) /\ \A t \in Topics : owner[t] # m
  /\ Goto(m, "poll")
  /\ UNCHANGED <<group, joining, held, position, store, queue, work, history,
                 disruptions>>

-----------------------------------------------------------------------------
(* The consume loop.  Every branch of _handle_message takes one message and *)
(* ends in _commit, except the failed publish, which rewinds.              *)

Polls(m, t) ==
  pc[m] = "poll" /\ t \in held[m] /\ position[m][t] < Len(Log(t))

Polled(m, t) == Log(t)[position[m][t] + 1]

\* A lifecycle message this service has to handle.
Folded(t, msg) ==
  t = "lifecycle" /\ msg.kind # "tombstone" /\ msg.target # "other"

\* _handle_tombstone: erase the fold, tombstone the changelog, commit.  There
\* is no flush on this path.
HandleTombstone(m, t) ==
  LET msg == Polled(m, t) IN
    /\ Polls(m, t) /\ msg.kind = "tombstone"
    /\ Take(m, t)
    /\ store' = [store EXCEPT ![m][msg.order] = NoFold]
    /\ Produce(m, msg.order, NoFold)
    /\ done' = done \cup {<<t, position[m][t]>>}
    /\ Goto(m, "commit")
    /\ UNCHANGED <<group, joining, held, routed, reported, erased, disruptions>>

\* A snapshot, or a retry put back for another service: committed, not handled.
Skip(m, t) ==
  LET msg == Polled(m, t) IN
    /\ Polls(m, t) /\ msg.kind # "tombstone" /\ ~ Folded(t, msg)
    /\ Take(m, t)
    /\ done' = done \cup {<<t, position[m][t]>>}
    /\ Goto(m, "commit")
    /\ UNCHANGED <<group, joining, held, store, queue, routed, reported, erased, disruptions>>

\* The message decodes and its handler returns.
HandleEvent(m, t) ==
  LET msg == Polled(m, t) IN
    /\ Polls(m, t) /\ Folded(t, msg) /\ msg.kind = "body"
    /\ Take(m, t)
    /\ Report(m, msg)
    /\ done' = done \cup {<<t, position[m][t]>>}
    /\ Goto(m, IF state_write_order = "state_first" THEN "persist" ELSE "commit_first")
    /\ UNCHANGED <<group, joining, held, store, queue, routed, erased, disruptions>>

\* The message does not decode, or its handler raises.
HandleFailure(m, t) ==
  LET msg == Polled(m, t) IN
    /\ Polls(m, t) /\ Folded(t, msg)
    /\ \/ msg.kind = "undecodable" /\ UNCHANGED reported
       \/ msg.kind = "body" /\ HandlerMayFail /\ Report(m, msg)
    /\ Take(m, t)
    /\ Goto(m, "route")
    /\ UNCHANGED <<group, joining, held, store, queue, done, routed, erased, disruptions>>

\* _route_failure: the router's flush drained the producer and its delivery
\* report was good, so the message is on the retry or the dead-letter topic.
RoutePublished(m) ==
  /\ pc[m] = "route" /\ flushed(m)
  /\ routed' = routed \cup {work[m].offset}
  /\ done' = done \cup {<<work[m].topic, work[m].offset>>}
  /\ Goto(m, "commit")
  /\ UNCHANGED <<group, joining, held, position, store, queue, work, reported, erased,
                 disruptions>>

\* FailurePublishFailed: nothing is committed and the message is read again.
RouteFailed(m) ==
  /\ pc[m] = "route"
  /\ position' = rewind(m)
  /\ Goto(m, "poll")
  /\ UNCHANGED <<group, joining, held, store, queue, work, history,
                 disruptions>>

\* _save_fold: the guarded local write, and its changelog record is enqueued.
Save(m) ==
  LET msg == Current(m)
      rec == saved_record(store[m][msg.order], msg)
  IN  /\ pc[m] = "persist"
      /\ store' = [store EXCEPT ![m][msg.order] = rec]
      /\ Produce(m, msg.order, rec)
      /\ erased' = erased \ {msg.order}
      /\ Goto(m, IF state_write_order = "state_first" THEN "flush" ELSE "poll")
      /\ UNCHANGED <<group, joining, held, position, work, done, routed, reported, disruptions>>

\* store.flush() returns.
Flush(m) ==
  /\ pc[m] = "flush" /\ flushed(m)
  /\ Goto(m, "commit")
  /\ UNCHANGED <<group, joining, held, position, store, queue, work, history,
                 disruptions>>

\* _commit: the coordinator takes the offset.
CommitAccepted(m) ==
  LET t == work[m].topic IN
    /\ pc[m] \in {"commit", "commit_first"} /\ commit_accepted(m, t)
    /\ committed' = [committed EXCEPT ![t] = work[m].offset + 1]
    /\ erased' = IF Current(m).kind = "tombstone"
                 THEN erased \cup {Current(m).order} ELSE erased
    /\ Goto(m, IF pc[m] = "commit" THEN "poll" ELSE "persist")
    /\ UNCHANGED <<owner, changelog, joining, held, position, store, queue, work,
                   done, routed, reported, disruptions>>

\* COMMIT_REJECTED: the member is no longer the owner, or the call failed for a
\* passing reason.  It is logged and the loop goes on.
CommitRejected(m) ==
  /\ pc[m] \in {"commit", "commit_first"}
  /\ \/ ~ commit_accepted(m, work[m].topic) /\ UNCHANGED disruptions
     \/ commit_accepted(m, work[m].topic) /\ Disrupt
  /\ Goto(m, IF pc[m] = "commit" THEN "poll" ELSE "persist")
  /\ UNCHANGED <<group, joining, held, position, store, queue, work, history>>

-----------------------------------------------------------------------------
(* The changelog's broker side.                                            *)

\* The oldest undelivered record of a running producer reaches the changelog.
Deliver(m) ==
  /\ queue[m] # << >>
  /\ changelog' = [changelog EXCEPT ![Head(queue[m]).order] = Head(queue[m]).value]
  /\ queue' = [queue EXCEPT ![m] = Tail(@)]
  /\ UNCHANGED <<owner, committed, pc, joining, held, position, store, work, history,
                 disruptions>>

\* The producer gives up on a record: its delivery report is an error, which
\* on_delivery logs.
DeliveryFails(m) ==
  /\ DeliveryMayFail /\ queue[m] # << >>
  /\ queue' = [queue EXCEPT ![m] = Tail(@)]
  /\ UNCHANGED <<group, pc, joining, held, position, store, work, history,
                 disruptions>>

-----------------------------------------------------------------------------
Init ==
  /\ owner = [t \in Topics |-> NoMember]
  /\ committed = [t \in Topics |-> 0]
  /\ changelog = Empty
  /\ pc = [m \in Members |-> "poll"]
  /\ joining = [m \in Members |-> {}]
  /\ held = [m \in Members |-> {}]
  /\ position = [m \in Members |-> [t \in Topics |-> 0]]
  /\ store = [m \in Members |-> Empty]
  /\ queue = [m \in Members |-> << >>]
  /\ work = [m \in Members |-> [topic |-> "lifecycle", offset |-> 0]]
  /\ done = {} /\ routed = {} /\ reported = {} /\ erased = {}
  /\ disruptions = 0

Handle(m) ==
  \E t \in Topics :
    HandleTombstone(m, t) \/ Skip(m, t) \/ HandleEvent(m, t) \/ HandleFailure(m, t)

\* What a member's own thread does next.
Step(m) == \/ Restore(m) \/ Lost(m) \/ Handle(m) \/ RoutePublished(m)
           \/ Save(m) \/ Flush(m) \/ CommitAccepted(m) \/ CommitRejected(m)

Next ==
  \E m \in Members :
    \/ \E T \in SUBSET Topics : Assign(m, T) \/ Revoke(m, T)
    \/ Step(m) \/ RouteFailed(m)
    \/ Deliver(m) \/ DeliveryFails(m)
    \/ Evict(m) \/ Crash(m) \/ Exit(m) \/ Start(m)

Spec == Init /\ [][Next]_vars

-----------------------------------------------------------------------------
(* Properties.                                                             *)

\* Type correctness of the whole state.
TypeOK ==
  /\ owner \in [Topics -> Members \cup {NoMember}]
  /\ committed \in [Topics -> Nat]
  /\ changelog \in [Orders -> Record \cup {NoFold}]
  /\ pc \in [Members -> {"down", "poll", "restore", "route", "persist", "flush",
                         "commit", "commit_first"}]
  /\ joining \in [Members -> SUBSET Topics]
  /\ held \in [Members -> SUBSET Topics]
  /\ position \in [Members -> [Topics -> Nat]]
  /\ store \in [Members -> [Orders -> Record \cup {NoFold}]]
  /\ queue \in [Members -> Seq([order : Orders, value : Record \cup {NoFold}])]
  /\ work \in [Members -> [topic : Topics, offset : Nat]]
  /\ done \subseteq Topics \X Nat
  /\ routed \subseteq Nat
  /\ reported \subseteq Orders \X Nat
  /\ erased \subseteq Orders
  /\ disruptions \in Nat

\* Nothing is lost between poll and commit (R1.32, R5.7): every message below a
\* committed offset was handled, moved to the retry or dead-letter topic, or
\* skipped by rule, whatever crashed, was evicted or failed to publish.
CommittedIsDone ==
  \A t \in Topics : \A o \in 0 .. committed[t] - 1 : <<t, o>> \in done

\* The same promise as an abstract specification, with the offset's monotonicity.
Promise == INSTANCE AtLeastOnce
             WITH Length <- [t \in Topics |-> Len(Log(t))]

\* The consume loop, the rebalances and the failures together do nothing the
\* at-least-once contract forbids.
ImplementsAtLeastOnce == Promise!Spec

\* An order some tombstone deletes; its fold may legitimately be absent.
Tombstoned(order) ==
  \E t \in Topics : \E i \in DOMAIN Log(t) :
    Log(t)[i].kind = "tombstone" /\ Log(t)[i].order = order

\* table[order] reflects the event.
Reflects(table, event) ==
  /\ table[event.order] # NoFold
  /\ table[event.order].last_sequence >= event.sequence

\* The lifecycle offset o was folded into table, or need not be.
CoveredBy(table, o) ==
  LET msg == EventLog[o + 1] IN
    Folded("lifecycle", msg) =>
      o \in routed \/ Tombstoned(msg.order) \/ Reflects(table, msg)

\* "changelog >= committed offset" (R7.11): a rebuild may know more than the
\* committed offset says, never less, at any instant at which a crash may strike.
ChangelogCoversCommitted ==
  \A o \in 0 .. committed["lifecycle"] - 1 : CoveredBy(changelog, o)

\* The fold a rebuild would restore for an order never moves back to an earlier
\* sequence: the guard of save() and the single writer together (R3.11, R7.12).
ChangelogNeverRegresses ==
  [][\A k \in Orders : changelog[k] # NoFold /\ changelog'[k] # NoFold =>
       changelog'[k].last_sequence >= changelog[k].last_sequence]_vars

\* Every delivery is counted, the absorbed ones too (R3.13, R7.5): the durable
\* count of an order is at least the number of its committed, folded messages.
EveryDeliveryCounted ==
  \A k \in Orders :
    LET folded == {o \in 0 .. committed["lifecycle"] - 1 :
                     /\ EventLog[o + 1].order = k
                     /\ Folded("lifecycle", EventLog[o + 1]) /\ o \notin routed}
    IN  folded # {} /\ ~ Tombstoned(k) =>
          /\ changelog[k] # NoFold
          /\ changelog[k].handled_count >= Cardinality(folded)

\* table after the undelivered records of a producer have been applied.
Applied(table, records) ==
  [k \in Orders |->
     LET of == {i \in DOMAIN records : records[i].order = k} IN
       IF of = {} THEN table[k]
       ELSE records[CHOOSE i \in of : \A j \in of : j <= i].value]

\* A consuming owner's store is its changelog, up to what its producer still has
\* to deliver (R7.3, R7.7): a rebuild elsewhere would reproduce it exactly.
StoreMirrorsChangelog ==
  \A m \in Members :
    held[m] # {} /\ pc[m] # "restore" /\ (\A t \in held[m] : owner[t] = m) =>
      store[m] = Applied(changelog, queue[m])

\* The event at index i is out of order on the topic itself.
OutOfOrderOnTopic(i) ==
  LET e == EventLog[i]
      before == {j \in 1 .. i - 1 : EventLog[j].kind = "body" /\ EventLog[j].order = e.order}
      last == CHOOSE j \in before : \A k \in before : k <= j
  IN  IF before = {} THEN violations_of(NoFold, e) # {}
      ELSE violations_of(updated_fold(EventLog[last]), e) # {}

\* A VIOLATION is never an artefact of the service's own memory (R3.6, R3.8): the
\* topic itself is out of order there, or an earlier event of the order was
\* routed away, or the order was deleted.
ViolationsAreReal ==
  \A r \in reported :
    \/ Tombstoned(r[1])
    \/ \E i \in DOMAIN EventLog :
         /\ EventLog[i].order = r[1] /\ EventLog[i].sequence = r[2]
         /\ \/ OutOfOrderOnTopic(i)
            \/ \E o \in routed : o + 1 < i /\ EventLog[o + 1].order = r[1]

\* A committed tombstone is durable (R7.6, R7.11): until the order is folded
\* again, its changelog record is null or a live producer still carries the null.
DeletedStaysDeleted ==
  \A k \in erased :
    \/ changelog[k] = NoFold
    \/ \E m \in Members : \E i \in DOMAIN queue[m] :
         queue[m][i].order = k /\ queue[m][i].value = NoFold

-----------------------------------------------------------------------------
\* Progress is asked of the processes and of the brokers, never of the faults: a
\* running member keeps polling and working, the coordinator expires the dead and
\* assigns what is free, the broker accepts produces, and does not refuse a
\* failure record for ever.  Nothing restarts a stopped instance.
Fairness ==
  /\ \A m \in Members :
       /\ WF_vars(Step(m)) /\ WF_vars(Deliver(m))
       /\ SF_vars(RoutePublished(m))
       /\ WF_vars(~ Running(m) /\ Evict(m))
  /\ WF_vars(\E m \in Members, T \in SUBSET Topics : Assign(m, T))

FairSpec == Spec /\ Fairness

\* Every message on the topics is eventually handled, routed or skipped, as long
\* as one member is left running.
EveryMessageHandled ==
  \A t \in Topics : \A o \in 0 .. Len(Log(t)) - 1 : <>(<<t, o>> \in done)
=============================================================================
