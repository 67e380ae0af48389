# A TLA+ development of the Kafka playground's order pipeline

This directory holds the TLA+ modules, TLC configurations and TLAPS proofs kept
beside `src/order_service`. Paths below are relative to `src/order_service` unless
they start with `specs/`; R-numbers and D-numbers are those of `specs/`.

1. [The system](#1-the-system)
2. [Modules and how they correspond to the code](#2-modules-and-how-they-correspond-to-the-code)
3. [Runs](#3-runs)
4. [Bounds](#4-bounds)
5. [Fairness](#5-fairness)
6. [Proofs](#6-proofs)
7. [Findings](#7-findings)
8. [What is not modelled](#8-what-is-not-modelled)
9. [Plan](#9-plan)

## 1. The system

An HTTP order service publishes lifecycle events to `order-lifecycle` and the current
row of each order to the compacted `order-snapshot`. Three services (inventory,
notification, analytics), one consumer group each, fold the events into a per-order
record kept in a local store that is backed by a compacted changelog. What a handler
cannot process goes to a retry topic, whose worker puts it back once its backoff is
over, or to a dead-letter topic.

| Component | State | Operations | Correct when |
|---|---|---|---|
| order lifecycle (`events.py`, `apply_event`) | none (pure) | legal transition, fold, violations | a violation is reported only for what the topic really holds |
| consume loop (`consumer/runtime.py`) | assignment, read positions, the message in hand | `_handle_message`, `_handle_tombstone`, `_route_failure`, `_persist_and_commit`, `_on_assign`, `_on_revoke`, `_on_lost`, crash, exit | no offset is committed past a message nobody dealt with; no partition stalls |
| state store (`consumer/state.py`) | one directory and one checkpoint file per partition number, the producer's undelivered changelog records | `save`, `delete`, `flush`, `restore`, `forget`, checkpoints, `discard` | a rebuild is never behind the committed offset, never older than what was there, and counts every delivery |
| committers (`consumer/transactions.py`) | open transaction, noted offsets, touched partitions | direct commit; begin, note, commit, abort | commits are the owner's only; offsets, folds and routed failures become visible together and once; no transaction stays open |
| failure router (`consumer/dlq.py`) | none; headers on the records | `to_retry`, `to_source`, `to_dead_letter` | provenance and attempt count survive every hop |
| retry worker (`consumer/retry_worker.py`) | deferred partitions | defer, resume, release, give up, commit | no event falls between two topics; every event ends |
| order store and routes (`producer/orders.py`, `producer/routes.py`) | orders by id, behind a lock | create, publish, force, delete | sequences are unique and contiguous; store and topics agree |
| event producer (`producer/kafka_producer.py`) | undelivered records | blocking publish, snapshot, tombstone | an answer of success means the record is on the topic |
| dead-letter replay (`tools/dlq_replay.py`) | a bounded snapshot of the topic | list, replay | replays what was there when it started, once |
| configuration, handlers, wiring | | | |

The parts interact through topics only, except that a service's loop calls its store,
its router and its committer on the same thread, and that the request handlers share
one order store and one producer. What is hard:

* **ownership**: the coordinator moves partitions while a member works, and does not
  tell an evicted member until its next poll;
* **crash points**: between local write, changelog record, its acknowledgement and the
  offset commit;
* **acknowledgement**: a publication may fail after it was enqueued, or be reported as
  failed after it landed;
* **transactions**: one transaction covers every partition of a member, the local store
  is outside it, and the broker may end it without asking;
* **what outlives the process**: directories, checkpoint files and a changelog that is
  compacted while it is read;
* **order**: a retried event comes back behind its successors; two request threads
  overtake each other between two locked sections;
* **seek, pause, commit**: a Kafka commit is cumulative, so a message left behind is
  committed by its successor.

`PROJECT.json` lists each of these at the line where it bites ("hazards").

## 2. Modules and how they correspond to the code

| Module | Models | Composes |
|---|---|---|
| `Lifecycle` | event types, transition table, `apply_event` split into `updated_fold` and `violations_of`, the redelivery test | |
| `ConsumerGroup` | one group of one service for one partition number: loop, store, changelog, direct committer, coordinator | `Lifecycle`, `AtLeastOnce` (as a refinement) |
| `AtLeastOnce` | the abstract contract of a group: deal with messages, advance an offset over messages dealt with, never back | |
| `ConsumerGroupProofs` | theorems about `ConsumerGroup`: offsets, the refinement of `AtLeastOnce` | `ConsumerGroup` |
| `ChangelogProofs` | theorems about its store and changelog | `ConsumerGroupProofs` |
| `DeliveryProofs` | theorems about its counted deliveries and reported violations | `ChangelogProofs` |
| `TransactionalGroup` | one group under `exactly_once`: loop, `TransactionalCommitter`, transaction and group coordinators, rebuild at `read_committed` | `ExactlyOnce` (as a refinement) |
| `TransactionalGroupProofs` | theorems about `TransactionalGroup`: types, the refinement of `ExactlyOnce` | `TransactionalGroup` |
| `ExactlyOnce` | the abstract promise: offsets and the effects below them move in one step | |
| `Rebuild` | directories, checkpoints and marks of one partition number against a compacting changelog | |
| `RebuildProofs` | theorems about `Rebuild` | `Rebuild` |
| `RetryPath` | source, retry and dead-letter topics, every service's failure route, the retry worker, an operator's `dlq_replay` | |
| `RetryPathProofs` | theorems about `RetryPath` | `RetryPath` |
| `OrderService` | order store, concurrent request handlers, shared producer, both topics | `Lifecycle` |
| `OrderServiceProofs` | theorems about `OrderService`: sequences | `OrderService` |
| `OrderStoreProofs` | theorems about the store against the topics | `OrderServiceProofs` |
| `MC...` | topic contents and symmetry sets for TLC | the module they extend |

**`ConsumerGroup`.** A partition number names one partition of each subscribed topic,
one store per member and one changelog partition; different numbers share nothing but
the process, so one is modelled and the others only delay it. The topics are constants
(`EventLog`, `SnapshotLog`): they only grow, and a poll may come back empty at any
time, so a reader of the final contents that may lag arbitrarily has every behaviour of
a reader of a growing topic. `pc[m]` is where the loop of member `m` stands; a label
sits at each point at which a crash, an eviction or another member's step makes a
difference:

```
poll --HandleEvent--> persist --Save--> flush --Flush--> commit --Commit*--> poll      state_first
poll --HandleEvent--> commit_first --Commit*--> persist --Save--> poll                 offset_first
poll --HandleFailure--> route --RoutePublished--> commit | --RouteFailed--> poll (after seek)
poll --HandleTombstone, Skip--> commit
poll --Assign--> restore --Restore--> poll
```

`HandleTombstone` is the whole of `_handle_tombstone` before its commit: the local
delete and the changelog tombstone, with no flush. `Save` is `_save_fold` with
`LocalStateStore.save`: guard, count, local write, produce. `Restore` is `_on_assign`
with a full rebuild, which blocks until the replay ends. `LetGo` is what `_forget` does
on revoke, loss and exit. `Evict` is the coordinator's; a member that is still running
notices in `Lost`. `Deliver` and `DeliveryFails` are the producer's background thread.
The history variables `done`, `routed`, `reported` and `erased` record what the
properties speak of and are never read by an action.

**`RetryPath`.** Each service is one reader here. Its instances and its fold are the
matter of `ConsumerGroup`; what a crash, an eviction or a rebalance does to a reader is
to send it back to its committed offset (`Restart`). A record carries the headers that
are read back: event, target service, attempt, origin, whether it has a due time.
`BackoffEnds` lets time pass, in any order, since backoffs differ per attempt.
`after_failed_publish` is where `_release` and `_give_up` differ. A run of `dlq_replay
--publish` is `ReplayStarts` (the snapshot of the watermark, `--service`,
`--include-poison`), then `ReplayPasses` or `ReplayPublishes` for each dead letter, and
`ReplayStops`, at the watermark or before it (`--limit`, a stall, an error). It puts a
record back without headers, so every service starts over with it.

**`TransactionalGroup`.** What a fold contains is `ConsumerGroup`'s; here a changelog
record is the set of messages it reflects, the question being which messages take
effect, how often, and with which offset. `client[m]` is the transaction as the client
library sees it: `ready`, `open`, or `failed` once a send or commit has raised.

```
poll --Fold, Skip, Route--> note --Note--> settle --NotYet--> poll
settle, poll --SendOffsets--> commit --Commit--> poll
             --SendOffsetsFails, CommitFails--> poll     (client failed, committer reset)
poll --FoldRefused--> closing --Close, CloseFenced--> down
poll --Assign--> restore --Restore--> fetch --Fetch--> poll
                         --RestoreStalls--> closing
```

`Fold` and `Route` are enabled inside a transaction only; outside one `produce()` is
refused (`FoldRefused`, `RouteRefused`). `CommitFailed` is `_settle` with
`_abort_and_repair`: the `finally` clause of `commit()` has reset the committer, so that
the abort finds nothing open and the repair does nothing. `Restore` reads up to the last
stable offset; `Drains` says when `_drain` gets to its watermark. `TimeOut` and `Evict`
are the broker's; `offsets_are_stable` and `in_generation` are its two checks of
KIP-447. `SendOffsets` may happen after a message or on an empty poll at any time,
because the elapsed time is not modelled; the count only forces it.

**`Rebuild`.** What `ConsumerGroup` does in one step, `restore`, is taken apart: the
watermark is read, the directory opened or destroyed (`Assign`), records replayed one by
one (`Drain`), the mark set (`Restored`). Disk and checkpoint survive a `Crash`, which
may also hit a process that is closing. `Forget` is `forget`: in `GiveUp` that of a
revocation, a loss or a stop (the flush may give up, the file may not be written); in
`DrainFails` that of a process that ends because `_drain` raised (a stall, a reader error,
an engine error). By then `_store_for` has registered the store, so that `close()`, or
`_on_revoke` before it, writes its checkpoint: the `_position` of an earlier assignment to
the same process, if there was one. A rebuild that fails earlier (the watermark, the
directory) has written nothing, and is a crash right after `Assign`. A member that
rebuilds for longer than `max.poll.interval.ms` may be evicted (`Evict`) and reads on
without noticing. `CutShort` records in the history variable `overstated` that a rebuild
ended before the offset its checkpoint file then says. `Deliver` is the delivery callback
that moves `_position`. `Compact` and `Expire` are the log cleaner's.

**`OrderService`.** A request handler is atomic inside one locked section of
`OrderStore` and nowhere else. `PublishEvent` is `reserve` (guard and allocation in one
lock), `Produce`, the wait, `Commit`, then `PublishSnapshot`, each its own step.
`DeliveryFails` covers a refused delivery and one that landed with its acknowledgement
lost; the wait outlasts `message.timeout.ms`, so a handler never gives up on a record
its producer still holds. The producer is idempotent: a partition's records land in the
order they were enqueued, once each. Refused requests and reads change nothing.

Operators named after the code (`saved_record`, `flushed`, `restored`, `resume`,
`rewind`, `reserve`, `commit`, ...) hold the decisions. The definitions marked *Mutant*
before some of them are plausible mistakes in the same place; each property is violated
by at least one of them, which is how we know that it speaks about the code.

## 3. Runs

Run a configuration with `tlc -config <cfg> <module>`.

| Run | Configuration | Outcome | Shows |
|---|---|---|---|
| `state_first` | `ConsumerGroup_state_first` | holds | default write order; crashes, exits, revocations, refused commits, failing handlers and late retries leave the changelog complete (`ChangelogCoversCommitted`), monotone (`ChangelogNeverRegresses`), counted (`EveryDeliveryCounted`) and mirrored by its owner (`StoreMirrorsChangelog`); no violation is an artefact (`ViolationsAreReal`) |
| `anything_goes` | `ConsumerGroup_anything_goes` | holds | members evicted while they work, lost deliveries, split assignments, `offset_first`: still no message lost between poll and commit (`CommittedIsDone`, `ImplementsAtLeastOnce`), and every message is eventually dealt with (`EveryMessageHandled`) |
| `retry_bookkeeping` | `RetryPath_bookkeeping` | holds | no event falls between the topics; budget and one-service-per-retry rule hold up to one repetition per disturbance |
| `retry_ends` | `RetryPath_ends` | holds | every event ends (`EveryEventEnds`), with a replay of the dead letters going on: the replay ends where the topic ended when it started (`ReplayIsBounded`) and gives each event one fresh budget (`RunsWithinBudget`) |
| `eos` | `TransactionalGroup_eos` | holds | with eager rebalances, crashes, live evictions, broker timeouts, failed sends and commits: `ImplementsExactlyOnce`, and no transaction stays open (`TransactionsEnd`) |
| `rebuild` | `Rebuild_current` | holds | a rebuild, checkpointed or not, is never behind the changelog (`RebuildIsCurrent`), a full one is exactly it (`FullRebuildIsExact`), while the cleaner works, members crash with anything on disk, rebuilds fail half-way and members are evicted in the middle of one |
| `order_store` | `OrderService_store` | holds | unique and contiguous sequences; no step is skipped that nobody forced (`UnforcedEventsFollow`); the store neither knows nor forgets an order the topics do not |
| `tombstone_crash` | `ConsumerGroup_tombstone_crash` | violated | finding 1 |
| `failed_release` | `RetryPath_failed_release` | violated | finding 2 |
| `stale_row` | `OrderService_stale_row` | violated | finding 3 |
| `unbegun` | `TransactionalGroup_unbegun` | violated | finding 4 |
| `incremental` | `TransactionalGroup_incremental` | violated | finding 5 |

Some passing runs leave a fault out because with it the property is false, which the
next runs or section 7 show: `state_first` has no live evictions and no failed
deliveries (observations 1 and 2), `retry_bookkeeping` no failing publications to the source
topic (`failed_release`), `eos` no incremental rebalance (`incremental`).
`RebuildIsCurrent` names its three exceptions itself: late records of a former holder, a
directory that was away longer than tombstones are kept, and one whose last rebuild ended
short of the offset in its checkpoint file (observations 6 and 12). Each member of
`rebuild` keeps its `STATE_REBUILD` only to keep the run small; the theorem covers a
change at every start. Deadlock is not checked: topics are finite and everything may be
read.

`TypeOK` is worth its place for the offsets it keeps in `Nat`: a seek or a resume one
short of the right place goes below zero, and a checkpoint past the end of the
changelog is no offset of it.

## 4. Bounds

Every bound is a CONSTANT: `MaxDisruptions` counts crashes, exits, live evictions,
revocations, refused commits, failed publications, failed rebuilds and failed writes of a
checkpoint file; `MaxSequence` caps the events of an order; `MaxWrites` caps fold writes
and deletes of `Rebuild`, `MaxEvents` those and its disruptions together; `MaxReplays`
runs of `dlq_replay`; the topics' contents are fixed per instance.

* Two members: every fault in the loop is between one owner and its successor; a third
  adds another successor. The theorems cover any number.
* `RetriedLog` has two orders, an event put back after its successor and one for another
  service, and a tombstone of the second order on the other topic, so that the guard,
  the skip and the deletion all meet each other. `PoisonLog` puts an undecodable message
  behind an event. With two disruptions a member dies and its successor too.
* Two services, two events and two attempts give the retry topic several records with
  independent due times, and a service that must skip another's retry. `retry_ends` has
  one service, one event, a retry record that names no service, one disruption and one
  replay: the dead letters are then of both origins, and the service fails again what the
  replay puts back while it reads.
* `MixedLog` has a message that only commits, an event and a poison message, so that a
  transaction may hold a fold, a routed failure or neither. `eos` has an interval beyond
  the three messages, so that the time alone decides and every split into transactions is
  tried; `incremental` reaches the count. Two disruptions let a commit fail after an
  eviction, and a second member is fenced or timed out in turn.
* `Rebuild` with two orders and three writes has a fold, its deletion and a record behind
  it, which is what lets a tombstone expire; one member resumes from checkpoints and one
  rebuilds in full, over the same changelog. Two disruptions let a truncated checkpoint
  file meet a failed rebuild (observation 12), with two records in the changelog.
* Two handlers and one order with sequences up to 3: orders do not interact, and a
  handler can be overtaken twice.

Symmetry is used in the runs without liveness, over members, services, handlers and
orders that no definition names.

## 5. Fairness

`ConsumerGroup!Fairness`: a running member takes its next step (the loop polls without
end and every branch returns), its producer delivers, the coordinator expires a dead
member and assigns what is free. `RoutePublished` is strongly
fair: after each failed publication the loop seeks back and tries again, without end,
and only a broker that refuses the record for ever, which no client can overcome, would
keep the message from being routed. No
fault is fair. `Start` is not fair: `docker-compose.yml` restarts nothing; with one
disruption a second member is left.

`RetryPath!Fairness`: services and worker keep polling, time passes, publications are
acknowledged unless a bounded number of disruptions says otherwise. The operator's
replay is not fair.

`TransactionalGroup!Fairness`: a running loop goes round, and the broker times out a
transaction whose member is gone or has lost track of it. `KeptRunning`, used by
`unbegun` only, adds everything an operator could do: instances are started again and
assigned their partitions. It is more than the code guarantees, so the violation does
not come from a group left lying.

## 6. Proofs

`tlapm` checks `ConsumerGroupProofs` for every set of members and orders, every
contents of the topics, both write orders and all faults, from `ConstantsAssumption`
(the topics hold messages, `NoMember` is no member, the switches are Boolean) and
`NoFoldAssumption` (the null is no record).

* `TypeCorrect`: `Spec => []TypeOK`. `TypeOK` alone is not inductive: saving and
  committing look up the message in hand, which must exist. `TypeInv` adds `InHandOK`.
* `NothingLost`: `Spec => []CommittedIsDone`. A commit is the offset of one message and
  covers all before it, so the invariant has to know that those were dealt with by
  someone. `AloInv` adds three parts to `TypeInv` and `CommittedIsDone`: everything
  below a member's frontier (its read position, or the message in hand when that still
  waits for its outcome) is done (`ReadIsDone`); an owner is never behind the committed
  offset (`OwnerIsAhead`); and the message in hand is the last one read
  (`HandIsLastRead`), which is what makes the seek back after a failed publication
  enough. An evicted member may be behind; its commit is refused, which is where
  `commit_accepted` is used.
* `GroupImplementsContract`: `Spec => ImplementsAtLeastOnce`. From `AloInv` each step is
  a `Finish`, an `Advance` or a stutter of the abstract contract. This adds that a
  committed offset never moves back.

`OrderServiceProofs` is checked for any number of handlers and orders and any bounds,
from `ServiceAssumption` (`NoHandler` is no handler).

* `TypeCorrect`: `Spec => []TypeOK`, with `ServingOK` (a busy handler has a request) as
  strengthening.
* `NoSequenceTwice`: `Spec => []SequencesAreUnique`. An event reaches the topic long
  after its sequence was taken, so the invariant has to follow it on its way. `SeqInv`
  adds: no two handlers have the same event in flight (`FlightsAreUnique`) and none that
  is on the topic (`FlightsAreNew`); a queued event is the one its handler waits for,
  once (`QueueIsAwaited`), so that what lands is what was in flight; a known order's
  counter is at or past everything given out for it (`CounterIsAhead`), so that `reserve`
  gives out something new; and until an order is registered only its creator works on it
  (`CreatorIsAlone`), so that `register` may start the counter at 1.

`ChangelogProofs` and `DeliveryProofs` build on `AloInv`, under hypotheses on the
constants that the theorems name. `SafeDeployment`: both topics of a number go to one
member (`range`, equal partition counts), the coordinator evicts only a member that is
dead, no produce is given up. `SafeStateFirst`: that, with `STATE_WRITE_ORDER` at its
default. They are the hypotheses of R7.11 and R7.12 as the code has them, and the run
`state_first` satisfies them; under `anything_goes` these promises are not made.

* `StoreIsRebuildable`: `Spec => []StoreMirrorsChangelog`, and `GuardHoldsInChangelog`:
  `Spec => ChangelogNeverRegresses`, for either write order. `WriterInv` adds to `AloInv`:
  whoever consumes or restores owns both topics and nobody else has records to deliver
  (`SoleWriter`); its store is the changelog with its queue applied, and the queue, order
  by order, never moves the changelog back (`StoreIsApplied`, `Advances`). What applying
  a queue finds is an order's last record (`AppliedAt`); that a bounded set of numbers has
  a greatest element is derived from the well-foundedness of the naturals.
* `ChangelogIsAhead`: `Spec => []ChangelogCoversCommitted`, state first. `CoverInv` adds:
  everything below the offset a consumer is about to commit past is covered by the
  changelog (`Secured`, `ConsumerIsCovered`), the loop never commits first
  (`LoopIsStateFirst`), and a null is under way only to an order some tombstone deletes.
* `NoDeliveryUncounted`: `Spec => []EveryDeliveryCounted`, state first. `CountInv` adds
  that all a producer holds is the record the loop waits for (`QueueIsInHand`), and that
  the changelog's count of an order is at least the number of folded offsets below the
  secured one. The sets that are counted are finite, their sizes are compared with the
  library's facts on cardinality.
* `ViolationsAreOfTheTopic`: `Spec => []ViolationsAreReal`, state first, on a
  `WellFormedTopic`: sequences start at 1, a sequence of an order belongs to one event
  however often it is put back, and what is addressed to another service was on the topic
  before. That is what `OrderService` (`NoSequenceTwice`) and the retry worker make of
  the topic. `ReportInv` adds that each stored fold is that of an event of its order
  (`HasOrigin`); a fold in place is then one step behind, or further on.

`OrderStoreProofs` builds on `SeqInv`. `StoreInv` follows a record on its way: an
acknowledged one is on its topic (`AckedIsOnTopic`), the predecessor of an event in
flight has landed (`FlightsFollow`), and while nothing has failed a sequence given out is
in flight or on the topic (`NoHole`). From it: `StoreIsBehindTopic`
(`StoreOnlyKnowsPublished`), `DeleteIsWhole` (`GoneOnlyWithTombstone`), `NoStepSkipped`
(`UnforcedEventsFollow`) and `NoSequenceMissing` (`SequencesAreContiguous`).

`RetryPathProofs` is checked for every set of services, any number of events, retries,
failures and replays, from `PathAssumption`.

* `TypeCorrect` and `ReplayStaysBounded` (`ReplayIsBounded`). `PathInv` adds: the message
  in hand is the last one read and is routed as its reader does (`HandOK`), a committed
  offset is not past what was dealt with (`FrontOK`), a replay stays below its watermark
  (`ReplayOK`).
* `NoEventIsLost`: `Spec => []NothingFallsBetweenTopics` if no publication to the source
  topic fails. `KeptInv`: of each event and service an end is recorded, or a copy lies at
  or past the front (not just the committed offset) of the service or of the worker. The
  hypothesis is finding 2: `failed_release` violates the property without it.
* `EndsAreAccountedFor`: `Spec => []EndsOncePerService` if the retry topic did not start
  with records for published events (`NoFreeRetries`; such a record is one more end that
  nobody here caused). `EndsInv` counts: ends, plus the copies on both topics that a
  reader may yet deal with, exceed one by no more than the disruptions and the replays.
* `BudgetIsKept`: `Spec => []RunsWithinBudget` under the same hypothesis. `BudgetInv`
  counts attempts instead of ends: the runs so far, plus the attempts that the copies on
  both topics still carry, are within the budget. An attempt to come is a pair of a copy
  and a number between the copy's own attempt and `retry_max_attempts` (`SourceTries`,
  `RetryTries`), less the one its service has made and not yet routed (`Spent`). Running
  the handler turns one pair into a run; a failure moves the rest to the retry topic, the
  release moves them back unchanged; a disruption (a record that landed although its
  publication failed, a commit refused, a restart) gives back at most one budget, and a
  replay of the event brings one. That needs every copy to have an attempt within the
  budget (`AttemptsOK`) and what is routed to a retry to have one left (`HandedTry`,
  `budget_left` in the code).

`RebuildProofs` is checked for every set of members, orders, writes and disruptions, from
`RebuildAssumption`.

* `TypeCorrect`: `Spec => []TypeOK`, inductive as it stands.
* `FullRebuildEndsExact`: `Spec => []FullRebuildIsExact`. `FullInv`: what is removed is
  superseded, or was a null with nothing of its order left before it (`CleanedOK`); a
  directory being built from nothing has no order whose null it will not meet any more
  (`NoGhosts`); each order is as the changelog left it up to the next offset, or has a
  record to come (`Replayed`). A reader that passes over a removed record has missed
  nothing, one that is superseded (to come), or an order's last null (`PassedOver`), which
  is where `NoGhosts` is needed.
* `RebuildEndsCurrent`: `Spec => []RebuildIsCurrent`, whatever `STATE_REBUILD` is at each
  start and wherever a rebuild crashes, fails or is evicted. The measure is whether a
  directory is good to go on from an offset (`Sound`): each order is there as the
  changelog leaves it, or newer (`Settled`), or its last record is at or past the offset
  and still there to be read (`Awaits`). `CurrentInv` adds to `FullInv`: while nothing
  straggles, stamps grow along the changelog, and the records a member has under way are
  newer than all of it and no newer than its directory (`SentOK`); and a member neither
  outlived nor overstated has a directory that is sound from its checkpoint, while it works
  also from its mark, during a rebuild from the next offset, and that is settled while it
  works as the owner (`MemberOK`). During a rebuild the file and the mark count only up to what the
  rebuild has come to, since the directory may have been emptied under them; whatever
  ends it short of what the file says is `CutShort`.

`TransactionalGroupProofs` is checked for every set of members, numbers and orders, any
contents of the topics and every assignment of transactional ids, from
`TransactionalAssumption`.

* `TypeCorrect`: `Spec => []TypeOK`, inductive as it stands; a resolved partition still
  holds entries, and what a rebuild reads is the value of one.
* `ExactlyOnceHolds`: `Spec => ImplementsExactlyOnce` if rebalances are eager
  (`~ Incremental`; the run `incremental` violates the property without it: finding 5).
  `EosInv` ties three parties together. A transaction that may yet be committed carries
  exactly the effects of the messages between the committed offsets and where its member
  is, each once (`CarriesOK`); the offsets noted are where an owner is, and the committed
  offset is where it began (`OwnerTracks`); between the two calls of a commit the member
  need no longer be the owner, so the offsets it sent must still be its own
  (`CommitTracks`). Meanwhile nobody else may come to consume those numbers: `PendingOK`,
  which `in_generation` and `offsets_are_stable` uphold, each at one end. The rest says what
  those need of a member (`HoldsOK`, `HandOK`, `ClientOK`) and of what the broker still has
  of it (`BrokerOK`: a fenced member, or one that has begun nothing, has nothing there to
  resolve). From `EosInv` a `Publish` is one `Transact` of the promise, every other step a
  stutter. Effects are counted as the cardinality of the set of committed entries, which is
  finite because a record lies where its cause's key hashes to (`PlacedOK`).

TLC has checked every inductive invariant above on small instances too. Every safety
invariant and every refinement that a passing run checks is stated by one of these
theorems. Only model-checked is liveness (`EveryMessageHandled`, `EveryEventEnds`,
`TransactionsEnd`): it rests on fairness, and ENABLED is out of the prover's reach.

## 7. Findings

1. **A deleted order returns after a crash** (`tombstone_crash`). The tombstone path
   commits without a flush, against R7.11.
2. **A failed release is lost** (`failed_release`). `_release` returns without a seek;
   the next commit covers the message. `_give_up` does seek.
3. **A row older than the order, or of a deleted order, stays in the table**
   (`stale_row`): the snapshot is enqueued after the store's lock is released.
4. **A message that finds no transaction open is never settled** (`unbegun`).
   `_persist_and_commit` saves the fold, which produces its changelog record, and only
   then calls `note()`, which begins the transaction. A transactional producer refuses
   `produce()` outside one: the process ends with `StateStoreUnavailable`, after every
   restart again. A failure to be routed first is sought back and tried without end
   (`RouteRefused`). Only behind a message that is committed without effect (a snapshot,
   a retry for another service) does it work, until the next commit.
5. **An incremental revocation skips messages** (`incremental`). `_on_revoke` aborts the
   whole transaction and repairs only what it gives away; for what a cooperative member
   keeps, D6 promises a rebuild and a seek that do not happen.

Observations without a run of their own; the first two are a changed constant away.

1. **A late writer overwrites the new owner's fold.** With `LiveEvictions = TRUE` in
   `ConsumerGroup_state_first.cfg`, `ChangelogCoversCommitted` fails: `save`'s guard
   compares with the member's own store, and an evicted member that finishes its handler
   produces an older fold to the shared changelog. `_on_lost` says that this write "loses
   to the guard" (`consumer/runtime.py:564-565`).
2. **A failed changelog delivery is committed over.** With `DeliveryMayFail = TRUE` there,
   the same invariant fails: `flush()` counts what is still queued, and a failed record is
   not. The comment in `on_delivery` relies on `flush()` to refuse
   (`consumer/state.py:802-803`).
3. **A failed commit is not repaired.** `commit()` resets the committer in its `finally`
   clause, so `_abort_and_repair` always returns early; `discard` and
   `_rewind_partition` are dead code, and the next `begin_transaction()` is refused
   (`NoteRefused`). `ImplementsExactlyOnce` holds because the process then ends.
4. **A rebuild under `exactly_once` stalls.** The offset below the watermark is a
   transaction marker after every transaction, and no reader is delivered one, so
   `_drain` gives up (`RestoreStalls`, which fires in `eos`). A variant of the model whose
   drain ends there still satisfies `ImplementsExactlyOnce`, so that the promise does not
   rest on the stall.
5. **A rebuild behind an open transaction is incomplete.** `transaction.timeout.ms` (60 s)
   outlasts the session timeout (45 s), so a crashed member's partition is rebuilt while
   its transaction is open; the reader stops at the last stable offset and misses what
   others committed after it. `ImplementsExactlyOnce` counts effects and does not look
   into a fold.
6. **An expired tombstone.** A member under `STATE_REBUILD=checkpoint` that was away
   longer than `delete.retention.ms` (one minute, `scripts/create_topics.sh`) keeps an
   order whose deletion it will not read; that is the `outlived` exception of
   `RebuildIsCurrent`. `straggled` covers `_position`: it moves to the largest offset of
   this producer's own records, past records of another writer. `overstated` covers what
   `_destroy` leaves: the checkpoint file of the directory it destroys. A member that
   crashes in the middle of a full replay and is started again with
   `STATE_REBUILD=checkpoint` resumes where the destroyed directory had come to, over the
   half-filled one. Observation 12 gets there without a change of the setting.
7. **A retry record without provenance circles for ever**, put back onto the retry topic
   itself, where `Origin.from_headers` says "wrong but bounded" (`consumer/dlq.py:129`).
8. **Two concurrent requests publish the same transition**: both pass the guard before
   either is acknowledged, against R1.21. `UnforcedEventsFollow` is what remains true.
9. `_route_failure` records the republished copy's offset as the origin of a second
   failure, although `Origin` is documented as "where a message was first published"
   (`consumer/runtime.py:813`, `consumer/dlq.py:101`); the offset is shown to operators and
   read by nothing.
10. If an assignor gives the two topics' partitions of one number to two members, a
    tombstone is committed by a member that does not hold the fold; the default range
    assignor with equal partition counts never does, while the round-robin, sticky and
    remote assignors that can be configured may.
11. `dlq_replay` reports what its `flush` left in the queue as undelivered; a record whose
    delivery failed is counted as republished.
12. **A rebuild that fails writes a checkpoint it never reached.** A member under
    `STATE_REBUILD=checkpoint` gives a partition up with its checkpoint file truncated by a
    full disk (`consumer/state.py:872-877`), and is assigned it again in the same process:
    without a file it destroys the directory and replays from the beginning. The replay
    stalls; the process ends, and `forget` writes the `_position` of the first assignment
    (`consumer/main.py:164-166`, `consumer/state.py:700`) over a directory that holds less.
    The next start resumes past the records in between. The comment in `forget` says that
    "a checkpoint claims the changelog holds everything up to that offset"
    (`consumer/state.py:693`), and `specs/007-stateful-consumer/design.md:143` that it is
    "the changelog offset the store was last brought up to": of the directory it is not
    true. Without `overstated` in its first line `RebuildIsCurrent` fails in the run
    `rebuild` with this trace.
13. **Two conversions are not guarded.** A valid body whose key is not UTF-8 raises where
    the key is decoded (`consumer/runtime.py:701`), although `key_of` expects such keys
    (`consumer/runtime.py:239-251`), and ends every process that reads the message. A
    retry record whose partition or offset header is no number raises in
    `Origin.from_headers` (`consumer/dlq.py:135-136`), called by the retry worker
    (`consumer/retry_worker.py:232`). `EveryMessageHandled` and `EveryEventEnds` say
    nothing of such records: no producer of the repository writes one.

## 8. What is not modelled

* The memory backend, whose loss of folds on a rebalance is its purpose.
* Configuration parsing, payload validation, log lines, metrics, the web framework's
  wiring, the three handlers (a handler is an outcome).
* `seek()` or `pause()` raising in the retry worker.
* Messages with a valid body and an unreadable key, records whose provenance headers are
  not numbers (observation 13).
* The order service losing its in-memory store on a restart, and a producer configured
  without idempotence.
* Static membership (`CONSUMER_INSTANCE_ID_STATIC`), off by default, and two members with
  one transactional id (`Id` is a constant; the runs give each member its own).
* Rows and events that the broker deletes by retention; the offset at which the changelog
  starts is 0, a compacted topic having no other reason to move it.
* `exactly_once` read at `read_uncommitted`, which `CONSUMER_ISOLATION_LEVEL` allows.

## 9. Plan

Done: all modules of section 2 with their runs, and the proofs of section 6. No theorem
is left that the prover can reach. What would extend the development is in section 8:
a `seek()` or `pause()` that raises in the retry worker would be the first.
