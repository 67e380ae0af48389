------------------------------ MODULE RetryPath ------------------------------
(***************************************************************************)
(* The path of a message no handler could process: from the source topic   *)
(* (order-lifecycle) through the retry topic and its worker back to the    *)
(* source topic, or to the dead-letter topic.  It composes the failure     *)
(* route of every service's consume loop (consumer/runtime.py), the        *)
(* router (consumer/dlq.py) and the scheduler (consumer/retry_worker.py),  *)
(* under at_least_once, for one partition of each topic, and the tool that *)
(* an operator puts dead letters back with (tools/dlq_replay.py).          *)
(*                                                                         *)
(* A service is one reader here, its instances and its fold being the      *)
(* matter of ConsumerGroup; what a crash, an eviction or a rebalance does  *)
(* to a reader is to send it back to its committed offset.                 *)
(***************************************************************************)
EXTENDS Naturals, Sequences

CONSTANTS
  Services,           \* SERVICE_REGISTRY: the services, one consumer group each
  Worker,             \* the retry worker, a consumer group of its own
  NoService,          \* "no x-retry-target header"
  Published,          \* how many events the order service published
  Undecodable,        \* the ones among them whose bytes do not decode
  Strays,             \* what stands on the retry topic before any failure
  retry_max_attempts, \* RETRY_MAX_ATTEMPTS, the inline attempt included
  FailingTopics,      \* topics a publication to which may go unacknowledged
  MaxDisruptions,     \* bound: unacknowledged publications and commits, restarts
  MaxReplays          \* bound: runs of dlq_replay --publish

Readers == Services \cup {Worker}

\* x-original-topic and x-original-offset.
Origin == [topic : {"source", "retry"}, offset : Nat]

SourceRecord == [event : Nat, target : Services \cup {NoService}, attempt : Nat]

\* timed: the record has an x-retry-at header.  A service outside Services is an
\* x-service header that names no registered service.
RetryRecord == [event : Nat, service : Services \cup {NoService}, attempt : Nat,
                origin : Origin, timed : BOOLEAN]

\* retryable: x-error-class is not NonRetryableError.
DeadLetter == [event : Nat, service : Services \cup {NoService}, attempts_made : Nat,
               origin : Origin, retryable : BOOLEAN]

ASSUME PathAssumption ==
  /\ Worker \notin Services /\ NoService \notin Readers
  /\ Published \in Nat /\ retry_max_attempts \in Nat \ {0}
  /\ MaxDisruptions \in Nat /\ MaxReplays \in Nat
  /\ Strays \in Seq(RetryRecord)
  /\ FailingTopics \subseteq {"source", "retry", "dlq"}

VARIABLES
  source, retry, dlq, \* the three topics
  due,                \* offsets of timed retry records whose time has come
  committed,          \* reader |-> its committed offset
  position,           \* reader |-> the next offset it reads
  pc,                 \* reader |-> where its loop stands
  hand,               \* reader |-> the message in hand and where it is to go
  deferred,           \* the offset the worker's partition is paused for, if it is
  replay,             \* a run of dlq_replay: what it was given and how far it is
  runs,               \* history: service |-> event |-> handler runs
  ends,               \* history: service |-> event |-> times handled or dead-lettered
  replays,            \* history: how often dlq_replay put each event back
  disruptions

topics  == <<source, retry, dlq, due>>
tool    == <<replay, replays>>
history == <<runs, ends>>
vars == <<topics, committed, position, pc, hand, deferred, history, tool, disruptions>>

Events == 1 .. Published

Goto(r, label) == pc' = [pc EXCEPT ![r] = label]

Disrupt == disruptions < MaxDisruptions /\ disruptions' = disruptions + 1

Count(history_var, s, e) ==
  IF s \in Services /\ e \in Events
  THEN [history_var EXCEPT ![s][e] = @ + 1] ELSE history_var

\* The reader takes the next message and knows where it goes next.
Take(r, route) ==
  /\ hand' = [hand EXCEPT ![r] = [offset |-> position[r], route |-> route]]
  /\ position' = [position EXCEPT ![r] = @ + 1]

-----------------------------------------------------------------------------
(* The decisions.                                                          *)

\* _attempt_of: x-attempt, or 1.
attempt_of(rec) == rec.attempt

\* Mutant: a retry fans out to every service.
for_everyone(s, rec) == TRUE

\* A delivery this service has to handle: no x-retry-target, or its own name.
for_us(s, rec) == rec.target \in {NoService, s}

\* Mutant: one attempt too many.
budget_left_off_by_one(retryable, attempt) == retryable /\ retry_max_attempts >= attempt

\* _route_failure: may the message be tried again after this attempt?
budget_left(retryable, attempt) == retryable /\ retry_max_attempts > attempt

\* Mutant: paused without a seek, the position stays past the message.
read_on(o) == o + 1

\* RetryWorker._defer: seek back to the message that is not due.
seek_back(o) == o

\* due_at > utc_now() is false: the time has come, or there is no time header.
is_due(o) == ~ retry[o + 1].timed \/ o \in due

\* Mutant: the failed publication is committed over.
no_rewind(r) == position

\* Mutant: the seek goes to the message before.
rewind_before(r) == [position EXCEPT ![r] = hand[r].offset - 1]

\* _rewind of a service and of the worker's _give_up: seek back.
rewind(r) == [position EXCEPT ![r] = hand[r].offset]

\* After an unacknowledged publication.  RetryWorker._release only returns: it
\* does not seek, and the loop reads on.
after_failed_publish(r) == IF hand[r].route = "source" THEN position ELSE rewind(r)

\* Origin.from_message and FailureRouter.to_retry / to_dead_letter: what a service
\* publishes when it fails.  The origin is where it read the message.
FailureRecord(s) ==
  LET rec  == source[hand[s].offset + 1]
      from == [topic |-> "source", offset |-> hand[s].offset]
  IN  IF hand[s].route = "retry"
      THEN [event |-> rec.event, service |-> s, attempt |-> attempt_of(rec) + 1,
            origin |-> from, timed |-> TRUE]
      ELSE [event |-> rec.event, service |-> s, attempts_made |-> attempt_of(rec),
            origin |-> from, retryable |-> hand[s].route = "exhausted"]

\* RetryWorker._handle_message: put back, or given up as poison.
WorkerRoute(rec) ==
  IF rec.service \in Services /\ rec.event \notin Undecodable THEN "source" ELSE "poison"

-----------------------------------------------------------------------------
(* What the three topics look like after a publication.                    *)

\* FailureRouter.to_retry, to_dead_letter: a service's failure record lands.
ServiceLands(s) ==
  /\ IF hand[s].route = "retry"
     THEN retry' = Append(retry, FailureRecord(s)) /\ UNCHANGED <<dlq, ends>>
     ELSE /\ dlq' = Append(dlq, FailureRecord(s)) /\ UNCHANGED retry
          /\ ends' = Count(ends, s, FailureRecord(s).event)
  /\ UNCHANGED source

\* FailureRouter.to_source goes to origin.topic; to_dead_letter keeps the origin.
WorkerLands ==
  LET rec  == retry[hand[Worker].offset + 1]
      back == rec.origin.topic
  IN  \/ /\ hand[Worker].route = "source"
         /\ source' = IF back = "retry" THEN source
                      ELSE Append(source, [event |-> rec.event, target |-> rec.service,
                                           attempt |-> rec.attempt])
         /\ retry' = IF back = "source" THEN retry
                     ELSE Append(retry, [rec EXCEPT !.timed = FALSE])
         /\ UNCHANGED <<dlq, ends>>
      \/ /\ hand[Worker].route = "poison"
         /\ dlq' = Append(dlq, [event |-> rec.event, service |-> rec.service,
                                attempts_made |-> rec.attempt, origin |-> rec.origin,
                                retryable |-> FALSE])
         /\ ends' = Count(ends, rec.service, rec.event)
         /\ UNCHANGED <<source, retry>>

Lands(r) == IF r = Worker THEN WorkerLands ELSE ServiceLands(r)

\* The topic the message in hand goes to.
Destination(r) ==
  CASE hand[r].route = "source" -> retry[hand[r].offset + 1].origin.topic
    [] hand[r].route = "retry"  -> "retry"
    [] OTHER                    -> "dlq"

-----------------------------------------------------------------------------
(* A service's consume loop, as far as failures go.                        *)

Upcoming(s) == source[position[s] + 1]

CanRead(s) == pc[s] = "poll" /\ position[s] < Len(source)

\* x-retry-target names another service: committed, not handled.
SkipOthers(s) ==
  /\ CanRead(s) /\ ~ for_us(s, Upcoming(s))
  /\ Take(s, "none") /\ Goto(s, "commit")
  /\ UNCHANGED <<topics, committed, deferred, history, tool, disruptions>>

\* The handler returns; the fold is written and committed as in ConsumerGroup.
HandleOk(s) ==
  LET rec == Upcoming(s) IN
    /\ CanRead(s) /\ for_us(s, rec) /\ rec.event \notin Undecodable
    /\ Take(s, "none") /\ Goto(s, "commit")
    /\ runs' = Count(runs, s, rec.event)
    /\ ends' = Count(ends, s, rec.event)
    /\ UNCHANGED <<topics, committed, deferred, tool, disruptions>>

\* The handler raises, retryably or not, or the bytes do not decode: classify and
\* the attempt budget choose between the retry and the dead-letter topic.
HandleFails(s, retryable) ==
  LET rec == Upcoming(s) IN
    /\ CanRead(s) /\ for_us(s, rec)
    /\ rec.event \in Undecodable => ~ retryable
    /\ Take(s, CASE budget_left(retryable, attempt_of(rec)) -> "retry"
                 [] ~ retryable -> "poison" [] OTHER -> "exhausted")
    /\ Goto(s, "publish")
    /\ runs' = IF rec.event \in Undecodable THEN runs ELSE Count(runs, s, rec.event)
    /\ UNCHANGED <<topics, committed, deferred, ends, tool, disruptions>>

-----------------------------------------------------------------------------
(* The retry worker.                                                       *)

WorkerReads == pc[Worker] = "poll" /\ deferred = {} /\ position[Worker] < Len(retry)

\* _defer: the head message is not due; pause the partition and seek back.
Defer ==
  /\ WorkerReads /\ ~ is_due(position[Worker])
  /\ deferred' = {position[Worker]}
  /\ position' = [position EXCEPT ![Worker] = seek_back(@)]
  /\ UNCHANGED <<topics, committed, pc, hand, history, tool, disruptions>>

\* _resume_due: the message the partition was paused for is due.
ResumeDue ==
  /\ pc[Worker] = "poll" /\ \E o \in deferred : is_due(o)
  /\ deferred' = {}
  /\ UNCHANGED <<topics, committed, position, pc, hand, history, tool, disruptions>>

\* A due message is read: it goes back, or is given up on.
WorkerTakes ==
  /\ WorkerReads /\ is_due(position[Worker])
  /\ Take(Worker, WorkerRoute(retry[position[Worker] + 1]))
  /\ Goto(Worker, "publish")
  /\ UNCHANGED <<topics, committed, deferred, history, tool, disruptions>>

\* Time passes: a backoff ends.  Backoffs differ, so any may end first.
BackoffEnds ==
  /\ \E o \in 0 .. Len(retry) - 1 :
       retry[o + 1].timed /\ o \notin due /\ due' = due \cup {o}
  /\ UNCHANGED <<source, retry, dlq, committed, position, pc, hand, deferred, history,
                 tool, disruptions>>

-----------------------------------------------------------------------------
(* What every reader does with the message in hand.                        *)

\* FailureRouter._publish returns: the broker acknowledged the record.
PublishAcknowledged(r) ==
  /\ pc[r] = "publish" /\ Lands(r) /\ Goto(r, "commit")
  /\ UNCHANGED <<due, committed, position, hand, deferred, runs, tool, disruptions>>

\* FailurePublishFailed: rejected, or no delivery report in time, in which case
\* the record may have landed all the same.
PublishFails(r) ==
  /\ pc[r] = "publish" /\ Destination(r) \in FailingTopics /\ Disrupt
  /\ Lands(r) \/ UNCHANGED <<source, retry, dlq, ends>>
  /\ position' = after_failed_publish(r)
  /\ Goto(r, "poll")
  /\ UNCHANGED <<due, committed, hand, deferred, runs, tool>>

Commit(r) ==
  /\ pc[r] = "commit"
  /\ committed' = [committed EXCEPT ![r] = hand[r].offset + 1]
  /\ Goto(r, "poll")
  /\ UNCHANGED <<topics, position, hand, deferred, history, tool, disruptions>>

\* COMMIT_REJECTED: logged, and the loop goes on.
CommitRejected(r) ==
  /\ pc[r] = "commit" /\ Disrupt /\ Goto(r, "poll")
  /\ UNCHANGED <<topics, committed, position, hand, deferred, history, tool>>

\* A crash and restart, or a rebalance: back to the committed offset.  The worker
\* forgets its deferral, and a newly assigned partition is not paused.
Restart(r) ==
  /\ Disrupt
  /\ position' = [position EXCEPT ![r] = committed[r]]
  /\ Goto(r, "poll")
  /\ deferred' = IF r = Worker THEN {} ELSE deferred
  /\ UNCHANGED <<topics, committed, hand, history, tool>>

-----------------------------------------------------------------------------
(* dlq_replay, by hand: reads the dead-letter topic without a position.    *)

\* Mutant: the run reads to the live end of the topic.
read_to_live_end == Len(dlq)

\* snapshot_topic: the run ends at the watermark read before it publishes anything.
read_to == replay.end

\* No run going on, after nth of them.
NoReplay(nth) ==
  [running |-> FALSE, nth |-> nth, only |-> NoService, include_poison |-> FALSE,
   next |-> 0, end |-> 0, published |-> 0]

\* --publish, with or without --service and --include-poison.
ReplayStarts(only, include_poison) ==
  /\ ~ replay.running /\ replay.nth < MaxReplays
  /\ replay' = [running |-> TRUE, nth |-> replay.nth + 1, only |-> only,
                include_poison |-> include_poison, next |-> 0, end |-> Len(dlq),
                published |-> 0]
  /\ UNCHANGED <<topics, committed, position, pc, hand, deferred, history, replays,
                 disruptions>>

\* Does the run put this dead letter back?
replayable(rec) ==
  replay.only \in {NoService, rec.service} /\ (rec.retryable \/ replay.include_poison)

ReplayPasses ==
  /\ replay.running /\ replay.next < read_to /\ ~ replayable(dlq[replay.next + 1])
  /\ replay' = [replay EXCEPT !.next = @ + 1]
  /\ UNCHANGED <<topics, committed, position, pc, hand, deferred, history, replays,
                 disruptions>>

\* The record goes to x-original-topic as if for the first time: no headers, of which a
\* service makes attempt 1 and the worker attempt 2.  Its delivery may fail, which the run
\* only counts.
ReplayPublishes ==
  LET rec == dlq[replay.next + 1] IN
    /\ replay.running /\ replay.next < read_to /\ replayable(rec)
    /\ replay' = [replay EXCEPT !.next = @ + 1, !.published = @ + 1]
    /\ \/ /\ rec.origin.topic = "source"
          /\ source' = Append(source, [event |-> rec.event, target |-> NoService, attempt |-> 1])
          /\ replays' = [replays EXCEPT ![rec.event] = @ + 1]
          /\ UNCHANGED <<retry, disruptions>>
       \/ /\ rec.origin.topic = "retry"
          /\ retry' = Append(retry,
               [event |-> rec.event, service |-> NoService, attempt |-> 2, timed |-> FALSE,
                origin |-> [topic |-> "retry", offset |-> Len(retry)]])
          /\ replays' = [replays EXCEPT ![rec.event] = @ + 1]
          /\ UNCHANGED <<source, disruptions>>
       \/ Disrupt /\ UNCHANGED <<source, retry, replays>>
    /\ UNCHANGED <<dlq, due, committed, position, pc, hand, deferred, history>>

\* The watermark is reached; or --limit, a stall or an error stops the run short.
ReplayStops ==
  /\ replay.running
  /\ replay' = NoReplay(replay.nth)
  /\ UNCHANGED <<topics, committed, position, pc, hand, deferred, history, replays,
                 disruptions>>

Replay ==
  \/ \E only \in Services \cup {NoService}, include_poison \in BOOLEAN :
       ReplayStarts(only, include_poison)
  \/ ReplayPasses \/ ReplayPublishes \/ ReplayStops

-----------------------------------------------------------------------------
Init ==
  /\ source = [i \in Events |-> [event |-> i, target |-> NoService, attempt |-> 1]]
  /\ retry = Strays
  /\ dlq = << >> /\ due = {}
  /\ committed = [r \in Readers |-> 0]
  /\ position = [r \in Readers |-> 0]
  /\ pc = [r \in Readers |-> "poll"]
  /\ hand = [r \in Readers |-> [offset |-> 0, route |-> "none"]]
  /\ deferred = {}
  /\ replay = NoReplay(0)
  /\ runs = [s \in Services |-> [e \in Events |-> 0]]
  /\ ends = [s \in Services |-> [e \in Events |-> 0]]
  /\ replays = [e \in Events \cup {Strays[i].event : i \in DOMAIN Strays} |-> 0]
  /\ disruptions = 0

ServiceStep(s) ==
  SkipOthers(s) \/ HandleOk(s) \/ \E retryable \in BOOLEAN : HandleFails(s, retryable)

WorkerStep == Defer \/ ResumeDue \/ WorkerTakes

Settle(r) == PublishAcknowledged(r) \/ Commit(r)

Next ==
  \/ \E s \in Services : ServiceStep(s)
  \/ WorkerStep
  \/ BackoffEnds
  \/ \E r \in Readers : Settle(r) \/ PublishFails(r) \/ CommitRejected(r) \/ Restart(r)
  \/ Replay

Spec == Init /\ [][Next]_vars

\* Every reader keeps polling and working, and time passes.  No fault is fair.
Fairness ==
  /\ \A s \in Services : WF_vars(ServiceStep(s))
  /\ WF_vars(WorkerStep)
  /\ \A r \in Readers : WF_vars(Settle(r))
  /\ WF_vars(BackoffEnds)

FairSpec == Spec /\ Fairness

-----------------------------------------------------------------------------
(* Properties.                                                             *)

\* Type correctness of the whole state.
TypeOK ==
  /\ source \in Seq(SourceRecord) /\ retry \in Seq(RetryRecord) /\ dlq \in Seq(DeadLetter)
  /\ due \subseteq Nat
  /\ committed \in [Readers -> Nat] /\ position \in [Readers -> Nat]
  /\ pc \in [Readers -> {"poll", "publish", "commit"}]
  /\ hand \in [Readers -> [offset : Nat, route : {"none", "retry", "exhausted", "poison", "source"}]]
  /\ deferred \subseteq Nat
  /\ replay \in [running : BOOLEAN, nth : Nat, only : Services \cup {NoService},
                 include_poison : BOOLEAN, next : Nat, end : Nat, published : Nat]
  /\ runs \in [Services -> [Events -> Nat]] /\ ends \in [Services -> [Events -> Nat]]
  /\ replays \in [Events \cup {Strays[i].event : i \in DOMAIN Strays} -> Nat]
  /\ disruptions \in Nat

\* No service ever loses an event on its way through the topics (R5.6, R5.14):
\* it was handled or dead-lettered, or a copy for that service is still ahead of a
\* committed offset, of the service on the source topic or of the worker on the
\* retry topic.
NothingFallsBetweenTopics ==
  \A s \in Services : \A e \in Events :
    \/ ends[s][e] > 0
    \/ \E o \in committed[s] .. Len(source) - 1 :
         source[o + 1].event = e /\ source[o + 1].target \in {NoService, s}
    \/ \E o \in committed[Worker] .. Len(retry) - 1 :
         retry[o + 1].event = e /\ retry[o + 1].service = s

\* The attempt count survives the round trip through the retry topic (R7.13): a
\* service runs its handler on an event at most retry_max_attempts times, plus the
\* same again for each failure that made something be delivered twice and each time an
\* operator put the event back.
RunsWithinBudget ==
  \A s \in Services : \A e \in Events :
    runs[s][e] <= retry_max_attempts * (1 + disruptions + replays[e])

\* One service's retry is nobody else's (R7.13): an event is handled or dead-lettered
\* once per service, plus at most once for each failure that delivered it twice and each
\* time an operator put it back.
EndsOncePerService ==
  \A s \in Services : \A e \in Events : ends[s][e] <= 1 + disruptions + replays[e]

\* A run of dlq_replay puts back at most what the topic held when it started (R5.17),
\* however fast the services fail again what it publishes.
ReplayIsBounded == replay.published <= replay.end

\* Every event ends for every service, handled or dead-lettered: no failure route
\* goes round for ever, and no pause is left standing.
EveryEventEnds ==
  \A s \in Services : \A e \in Events : <>(ends[s][e] > 0)
=============================================================================
