------------------------- MODULE TransactionalGroup --------------------------
(***************************************************************************)
(* One consumer group under PROCESSING_GUARANTEE=exactly_once with the     *)
(* local state backend: the TransactionalCommitter of                      *)
(* consumer/transactions.py inside the consume loop of consumer/runtime.py *)
(* and over the store of consumer/state.py (full rebuild: the settings     *)
(* refuse a checkpoint here).                                              *)
(*                                                                         *)
(* A transaction spans partition numbers, so several are modelled.  What   *)
(* a fold contains is the matter of ConsumerGroup; here a record is the    *)
(* set of messages it reflects, and the question is which messages take    *)
(* effect, how often, and with which offset.  Of the client library the    *)
(* model has what the code meets: produce() outside a transaction and      *)
(* begin_transaction() after a failed one are refused.                     *)
(***************************************************************************)
EXTENDS Naturals, Sequences, FiniteSets

CONSTANTS
  Members, NoMember,
  Numbers,          \* partition numbers
  Orders, Home,     \* orders, and the partition number each one's key hashes to
  Log,              \* source |-> its messages, oldest first
  Id,               \* member |-> its transactional.id
  Interval,         \* TRANSACTION_COMMIT_INTERVAL_MESSAGES
  Incremental,      \* does a rebalance revoke only what moves? (range: everything)
  LiveEvictions,    \* may the coordinator evict a member that is still running?
  HandlerMayFail,   \* may a handler raise?
  MaxDisruptions    \* bound: crashes, exits, evictions, revocations, failed calls

Topics  == {"lifecycle", "snapshot"}
Sources == Topics \X Numbers

\* What the loop makes of a message: a fold, a null, nothing (a snapshot, or a
\* retry for another service), or a failure (it does not decode).
Message == [kind : {"event", "tombstone", "skip", "poison"}, order : Orders]

ASSUME TransactionalAssumption ==
  /\ Numbers # {} /\ Home \in [Orders -> Numbers]
  /\ Log \in [Sources -> Seq(Message)]
  /\ \A s \in Sources : \A i \in DOMAIN Log[s] : Home[Log[s][i].order] = s[2]
  /\ NoMember \notin Members
  /\ Interval \in Nat \ {0}
  /\ {Incremental, LiveEvictions, HandlerMayFail} \subseteq BOOLEAN
  /\ MaxDisruptions \in Nat

\* A message is known by its source and offset.
Place == Sources \X Nat

-----------------------------------------------------------------------------
VARIABLES
  owner,      \* group coordinator: number |-> the member it is assigned to
  committed,  \* group coordinator: source |-> the committed offset
  accepted,   \* group coordinator: member |-> offsets its transaction submitted
  changelog,  \* broker: number |-> its changelog partition, markers included
  routing,    \* broker: member |-> records on the failure topics, uncommitted
  routed,     \* broker: committed records on the failure topics
  fenced,     \* broker: the members whose producer epoch is behind
  pc,         \* member |-> where its consume loop stands
  joining,    \* member |-> numbers being restored by _on_assign
  held,       \* member |-> numbers it consumes
  position,   \* member |-> source |-> the next offset poll delivers
  work,       \* member |-> the message in hand
  store,      \* member |-> order |-> the messages its local record reflects
  client,     \* member |-> its transaction as the client library sees it
  offsets,    \* member |-> committer: source |-> offset noted, 0 if none
  messages,   \* member |-> committer: messages noted since begin
  disruptions

coordinator == <<owner, committed, accepted>>
broker      == <<changelog, routing, routed, fenced>>
committer   == <<client, offsets, messages>>
loop        == <<pc, joining, held, position, work, store>>
vars        == <<coordinator, broker, committer, loop, disruptions>>

\* A changelog offset holds a record of some transaction, or its marker.
Entry == [status : {"open", "committed", "aborted"}, by : Members, order : Orders,
          cause : Place, value : SUBSET Place]
Marker == [status |-> "marker"]

NoOffsets == [s \in Sources |-> 0]
Nothing   == [k \in Orders |-> {}]

Running(m) == pc[m] # "down"
Goto(m, label) == pc' = [pc EXCEPT ![m] = label]
Disrupt == disruptions < MaxDisruptions /\ disruptions' = disruptions + 1

Open(m) == client[m] = "open"

\* The broker knows of an unresolved transaction of m.
WroteTo(m) ==
  {n \in Numbers : \E i \in DOMAIN changelog[n] :
     changelog[n][i].status = "open" /\ changelog[n][i].by = m}
Ongoing(m) == WroteTo(m) # {} \/ routing[m] # << >> \/ accepted[m] # NoOffsets

-----------------------------------------------------------------------------
(* Resolving a transaction at the broker.                                  *)

\* n's partition once the transactions of M are resolved: one marker each.
Resolved(n, M, outcome) ==
  LET flip == [i \in DOMAIN changelog[n] |->
                 IF changelog[n][i].status = "open" /\ changelog[n][i].by \in M
                 THEN [changelog[n][i] EXCEPT !.status = outcome] ELSE changelog[n][i]]
  IN  IF flip = changelog[n] THEN flip ELSE Append(flip, Marker)

Discard(M) ==
  /\ changelog' = [n \in Numbers |-> Resolved(n, M, "aborted")]
  /\ routing' = [m \in Members |-> IF m \in M THEN << >> ELSE routing[m]]
  /\ accepted' = [m \in Members |-> IF m \in M THEN NoOffsets ELSE accepted[m]]
  /\ UNCHANGED <<committed, routed>>

Publish(m) ==
  /\ changelog' = [n \in Numbers |-> Resolved(n, {m}, "committed")]
  /\ routed' = routed \o routing[m]
  /\ routing' = [routing EXCEPT ![m] = << >>]
  /\ committed' = [s \in Sources |->
       IF accepted[m][s] = 0 THEN committed[s] ELSE accepted[m][s]]
  /\ accepted' = [accepted EXCEPT ![m] = NoOffsets]

\* TransactionalCommitter._reset, leaving the library's transaction in state c.
Reset(m, c) ==
  /\ client' = [client EXCEPT ![m] = c]
  /\ offsets' = [offsets EXCEPT ![m] = NoOffsets]
  /\ messages' = [messages EXCEPT ![m] = 0]

\* TransactionalCommitter.abort, leaving the library's transaction in state c.
\* Fencing is an exception (FencedOut); any other failure is logged, and leaves
\* the broker to time the transaction out.
Abort(m, c) ==
  \/ /\ ~ Open(m) /\ c = client[m]
     /\ UNCHANGED <<committed, accepted, changelog, routing, routed>>
  \/ Open(m) /\ m \notin fenced /\ c = "ready" /\ Discard({m})
  \/ /\ Open(m) /\ m \notin fenced /\ c = "failed"
     /\ UNCHANGED <<committed, accepted, changelog, routing, routed>>

-----------------------------------------------------------------------------
(* Rebuilding a store at read_committed.                                   *)

\* The last stable offset: everything before the oldest open transaction.
LastStable(n) ==
  LET open == {i \in DOMAIN changelog[n] : changelog[n][i].status = "open"}
  IN  IF open = {} THEN Len(changelog[n])
      ELSE (CHOOSE i \in open : \A j \in open : i <= j) - 1

\* The committed records of an order among the first `high` entries.
Records(k, high) ==
  {i \in 1 .. high : /\ changelog[Home[k]][i].status = "committed"
                     /\ changelog[Home[k]][i].order = k}

\* The value a read_committed reader of those entries ends up with.
ValueAt(k, high) ==
  LET of == Records(k, high) IN
    IF of = {} THEN {} ELSE changelog[Home[k]][CHOOSE i \in of : \A j \in of : j <= i].value

\* _drain returns at the watermark only if the entry just below it is delivered
\* to the reader; a marker, or an aborted record, never is.
Drains(n) ==
  LastStable(n) > 0 => changelog[n][LastStable(n)].status = "committed"

\* LocalStateStore.restore over the numbers N.
restored(m, N) ==
  [k \in Orders |-> IF Home[k] \in N THEN ValueAt(k, LastStable(Home[k])) ELSE store[m][k]]

-----------------------------------------------------------------------------
(* Membership.                                                             *)

\* _forget: the stores are closed; a full rebuild destroys them unread.
LetGo(m, N) ==
  /\ held' = [held EXCEPT ![m] = @ \ N]
  /\ joining' = [joining EXCEPT ![m] = {}]
  /\ position' = [position EXCEPT ![m] = [s \in Sources |-> IF s[2] \in N THEN 0 ELSE @[s]]]
  /\ store' = [store EXCEPT ![m] = [k \in Orders |-> IF Home[k] \in N THEN {} ELSE @[k]]]

Release(m) == owner' = [n \in Numbers |-> IF owner[n] = m THEN NoMember ELSE owner[n]]

\* run() ends, by a signal or an exception.  Its finally clause: close() aborts what
\* is open, then the consumer leaves the group.
Close(m) ==
  /\ pc[m] = "closing"
  /\ \E c \in {"ready", "failed"} : Abort(m, c)
  /\ Reset(m, "ready")
  /\ Release(m)
  /\ Goto(m, "down")
  /\ LetGo(m, Numbers)
  /\ UNCHANGED <<fenced, work, disruptions>>

\* The abort of close() raises ProducerFenced, and the group is not left.
CloseFenced(m) ==
  /\ pc[m] = "closing" /\ Open(m) /\ m \in fenced
  /\ Reset(m, "ready")
  /\ Goto(m, "down")
  /\ LetGo(m, Numbers)
  /\ UNCHANGED <<coordinator, broker, work, disruptions>>

\* main() starts an instance: init_transactions() fences whoever holds its
\* transactional.id and aborts what was left open under it.
Start(m) ==
  /\ ~ Running(m) /\ \A n \in Numbers : owner[n] # m
  /\ LET same == {n \in Members : Id[n] = Id[m]} IN
       /\ Discard(same)
       /\ fenced' = (fenced \cup {n \in same : Running(n)}) \ {m}
  /\ Goto(m, "poll")
  /\ UNCHANGED <<owner, committer, joining, held, position, work, store, disruptions>>

\* The coordinator assigns free numbers to a polling member.  An eager rebalance
\* has taken everything from it before.
Assign(m, N) ==
  /\ pc[m] = "poll"
  /\ N # {} /\ \A n \in N : owner[n] = NoMember
  /\ IF Incremental THEN \A n \in held[m] : owner[n] = m ELSE held[m] = {}
  /\ owner' = [n \in Numbers |-> IF n \in N THEN m ELSE owner[n]]
  /\ joining' = [joining EXCEPT ![m] = N]
  /\ Goto(m, "restore")
  /\ UNCHANGED <<committed, accepted, broker, committer, held, position, work, store,
                 disruptions>>

\* _on_assign: the rebuild returns.
Restore(m) ==
  /\ pc[m] = "restore" /\ \A n \in joining[m] : Drains(n)
  /\ store' = [store EXCEPT ![m] = restored(m, joining[m])]
  /\ Goto(m, "fetch")
  /\ UNCHANGED <<coordinator, broker, committer, joining, held, position, work, disruptions>>

\* _on_assign: the rebuild stalls below the watermark; StateStoreUnavailable.
RestoreStalls(m) ==
  /\ pc[m] = "restore" /\ \E n \in joining[m] : ~ Drains(n)
  /\ Goto(m, "closing")
  /\ UNCHANGED <<coordinator, broker, committer, joining, held, position, work, store,
                 disruptions>>

\* Mutant: offsets of an unresolved transaction are not waited for.
offsets_unchecked(n) == TRUE

\* A read_committed consumer's offset fetch waits for pending offsets (KIP-447).
offsets_are_stable(n) == \A m \in Members, t \in Topics : accepted[m][<<t, n>>] = 0

\* The client assigns after the callback: consumption starts where committed.
Fetch(m) ==
  /\ pc[m] = "fetch" /\ \A n \in joining[m] : offsets_are_stable(n)
  /\ position' = [position EXCEPT ![m] =
       [s \in Sources |-> IF s[2] \in joining[m] THEN committed[s] ELSE @[s]]]
  /\ held' = [held EXCEPT ![m] = @ \cup joining[m]]
  /\ joining' = [joining EXCEPT ![m] = {}]
  /\ Goto(m, "poll")
  /\ UNCHANGED <<coordinator, broker, committer, work, store, disruptions>>

\* Mutant: partitions are given up with the transaction still open.
not_aborted(m, c) ==
  c = "ready" /\ UNCHANGED <<committed, accepted, changelog, routing, routed>>

\* _on_revoke, and _on_lost: abort, then release these numbers and no others.
aborted_first(m, c) == Abort(m, c)

GiveUp(m, N) ==
  \E c \in {"ready", "failed"} : aborted_first(m, c) /\ Reset(m, c) /\ LetGo(m, N)

Revoke(m, N) ==
  /\ pc[m] = "poll" /\ Disrupt
  /\ N # {} /\ N \subseteq held[m] /\ \A n \in N : owner[n] = m
  /\ Incremental \/ N = held[m]
  /\ owner' = [n \in Numbers |-> IF n \in N THEN NoMember ELSE owner[n]]
  /\ GiveUp(m, N)
  /\ UNCHANGED <<fenced, pc, work>>

Lost(m) ==
  /\ pc[m] = "poll" /\ \E n \in held[m] : owner[n] # m
  /\ GiveUp(m, Numbers)
  /\ UNCHANGED <<owner, fenced, pc, work, disruptions>>

\* The coordinator stops hearing from a member and does not tell it.
Evict(m) ==
  /\ \E n \in Numbers : owner[n] = m
  /\ \/ ~ Running(m) /\ UNCHANGED disruptions
     \/ Running(m) /\ LiveEvictions /\ Disrupt
  /\ Release(m)
  /\ UNCHANGED <<committed, accepted, broker, committer, loop>>

\* SIGKILL, or the transaction_open crash lever.
Crash(m) ==
  /\ Running(m) /\ Disrupt
  /\ Goto(m, "down")
  /\ LetGo(m, Numbers)
  /\ Reset(m, "ready")
  /\ UNCHANGED <<coordinator, broker, work>>

\* A signal at the top of the loop.
Exit(m) ==
  /\ pc[m] = "poll" /\ Disrupt
  /\ Goto(m, "closing")
  /\ UNCHANGED <<coordinator, broker, committer, joining, held, position, work, store>>

\* ProducerFenced: the next commit or abort of a member whose epoch is behind ends
\* the loop.
FencedOut(m) ==
  /\ m \in fenced /\ Open(m) /\ pc[m] \in {"poll", "settle", "commit"}
  /\ Reset(m, "ready")
  /\ Goto(m, "closing")
  /\ UNCHANGED <<coordinator, broker, joining, held, position, work, store, disruptions>>

\* transaction.timeout.ms: the broker aborts and bumps the producer's epoch.
TimeOut(m) ==
  /\ Ongoing(m)
  /\ \/ Running(m) /\ Open(m) /\ Disrupt
     \/ ~ (Running(m) /\ Open(m)) /\ UNCHANGED disruptions
  /\ Discard({m})
  /\ fenced' = fenced \cup {m}
  /\ UNCHANGED <<owner, committer, loop>>

-----------------------------------------------------------------------------
(* The consume loop.                                                       *)

Polls(m, s) == pc[m] = "poll" /\ s[2] \in held[m] /\ position[m][s] < Len(Log[s])
Polled(m, s) == Log[s][position[m][s] + 1]
Take(m, s) ==
  /\ work' = [work EXCEPT ![m] = <<s, position[m][s]>>]
  /\ position' = [position EXCEPT ![m][s] = @ + 1]

\* LocalStateStore.save or delete: the local write, then the changelog record.  A
\* fenced producer enqueues it too; the broker does not take it.
Fold(m, s) ==
  LET k == Polled(m, s).order
      here == <<s, position[m][s]>>
      value == store[m][k] \cup {here}
  IN  /\ Polls(m, s) /\ Polled(m, s).kind \in {"event", "tombstone"} /\ Open(m)
      /\ Take(m, s)
      /\ store' = [store EXCEPT ![m][k] = value]
      /\ changelog' = IF m \in fenced THEN changelog ELSE
           [changelog EXCEPT ![Home[k]] = Append(@,
              [status |-> "open", by |-> m, order |-> k, cause |-> here, value |-> value])]
      /\ Goto(m, "note")
      /\ UNCHANGED <<coordinator, routing, routed, fenced, committer, joining, held,
                     disruptions>>

\* The same with no transaction open: the library refuses the record, which is
\* StateStoreUnavailable.  The local write has happened; the loop ends.
FoldRefused(m, s) ==
  /\ Polls(m, s) /\ Polled(m, s).kind \in {"event", "tombstone"} /\ ~ Open(m)
  /\ Take(m, s)
  /\ store' = [store EXCEPT ![m][Polled(m, s).order] = @ \cup {<<s, position[m][s]>>}]
  /\ Goto(m, "closing")
  /\ UNCHANGED <<coordinator, broker, committer, joining, held, disruptions>>

\* A message that does not decode, or whose handler raises.
Fail(m, s) ==
  /\ Polls(m, s)
  /\ \/ Polled(m, s).kind = "poison"
     \/ Polled(m, s).kind = "event" /\ HandlerMayFail
  /\ Take(m, s)
  /\ Goto(m, "route")
  /\ UNCHANGED <<coordinator, broker, committer, joining, held, store, disruptions>>

\* FailureRouter: the record joins the transaction; there is no flush.
Route(m) ==
  /\ pc[m] = "route" /\ Open(m)
  /\ routing' = IF m \in fenced THEN routing
                ELSE [routing EXCEPT ![m] = Append(@, work[m])]
  /\ Goto(m, "note")
  /\ UNCHANGED <<coordinator, changelog, routed, fenced, committer, joining, held,
                 position, work, store, disruptions>>

\* Mutant: the seek is missing.
no_rewind(m) == position

\* Mutant: the seek goes one message too far.
rewind_too_far(m) == [position EXCEPT ![m][work[m][1]] = work[m][2] - 1]

\* ServiceConsumer._rewind.
rewind(m) == [position EXCEPT ![m][work[m][1]] = work[m][2]]

\* With no transaction open it is FailurePublishFailed: seek back and try again.
RouteRefused(m) ==
  /\ pc[m] = "route" /\ ~ Open(m)
  /\ position' = rewind(m)
  /\ Goto(m, "poll")
  /\ UNCHANGED <<coordinator, broker, committer, joining, held, work, store, disruptions>>

\* A snapshot, or a retry for another service.
Skip(m, s) ==
  /\ Polls(m, s) /\ Polled(m, s).kind = "skip"
  /\ Take(m, s)
  /\ Goto(m, "note")
  /\ UNCHANGED <<coordinator, broker, committer, joining, held, store, disruptions>>

\* TransactionalCommitter.note with _begin_if_needed.
Note(m) ==
  /\ pc[m] = "note" /\ client[m] # "failed"
  /\ client' = [client EXCEPT ![m] = "open"]
  /\ offsets' = [offsets EXCEPT ![m][work[m][1]] = work[m][2] + 1]
  /\ messages' = [messages EXCEPT ![m] = @ + 1]
  /\ Goto(m, "settle")
  /\ UNCHANGED <<coordinator, broker, joining, held, position, work, store, disruptions>>

\* begin_transaction() is refused after a transaction that failed.
NoteRefused(m) ==
  /\ pc[m] = "note" /\ client[m] = "failed"
  /\ Goto(m, "closing")
  /\ UNCHANGED <<coordinator, broker, committer, joining, held, position, work, store,
                 disruptions>>

\* Mutant: the interval is not checked on an empty poll.
settles_when_busy == {"settle"}

\* run() calls _settle after a message and on an empty poll.
settles_at == {"settle", "poll"}

\* maybe_commit: neither interval is reached.
NotYet(m) ==
  /\ pc[m] = "settle" /\ messages[m] < Interval
  /\ Goto(m, "poll")
  /\ UNCHANGED <<coordinator, broker, committer, joining, held, position, work, store,
                 disruptions>>

\* Mutant: the group metadata is not checked.
any_member(m) == TRUE

\* The coordinator takes offsets from the numbers' owner only (KIP-447).
in_generation(m) == \A s \in Sources : offsets[m][s] > 0 => owner[s[2]] = m

\* maybe_commit, an interval being reached: send_offsets_to_transaction().
SendOffsets(m) ==
  /\ pc[m] \in settles_at /\ Open(m) /\ m \notin fenced /\ in_generation(m)
  /\ accepted' = [accepted EXCEPT ![m] = offsets[m]]
  /\ Goto(m, "commit")
  /\ UNCHANGED <<owner, committed, broker, committer, joining, held, position, work, store,
                 disruptions>>

\* commit()'s finally clause has reset the committer by the time _settle calls
\* _abort_and_repair, whose abort() then finds nothing open: no abort reaches the
\* broker, no store is discarded, nothing is sought.  The library's transaction
\* stays in error.
CommitFailed(m) == Reset(m, "failed") /\ Goto(m, "poll")

SendOffsetsFails(m) ==
  /\ pc[m] \in settles_at /\ Open(m) /\ m \notin fenced
  /\ \/ ~ in_generation(m) /\ UNCHANGED disruptions
     \/ in_generation(m) /\ Disrupt
  /\ CommitFailed(m)
  /\ UNCHANGED <<coordinator, broker, joining, held, position, work, store>>

\* commit_transaction().
Commit(m) ==
  /\ pc[m] = "commit" /\ m \notin fenced
  /\ Publish(m)
  /\ Reset(m, "ready")
  /\ Goto(m, "poll")
  /\ UNCHANGED <<owner, fenced, joining, held, position, work, store, disruptions>>

\* commit_transaction() raises: a record was not delivered, or the answer was lost
\* after the broker committed.
CommitFails(m) ==
  /\ pc[m] = "commit" /\ m \notin fenced /\ Disrupt
  /\ CommitFailed(m)
  /\ \/ Publish(m)
     \/ UNCHANGED <<committed, accepted, changelog, routing, routed>>
  /\ UNCHANGED <<owner, fenced, joining, held, position, work, store>>

-----------------------------------------------------------------------------
Init ==
  /\ owner = [n \in Numbers |-> NoMember]
  /\ committed = NoOffsets
  /\ accepted = [m \in Members |-> NoOffsets]
  /\ changelog = [n \in Numbers |-> << >>]
  /\ routing = [m \in Members |-> << >>]
  /\ routed = << >>
  /\ fenced = {}
  /\ pc = [m \in Members |-> "down"]
  /\ joining = [m \in Members |-> {}]
  /\ held = [m \in Members |-> {}]
  /\ position = [m \in Members |-> NoOffsets]
  /\ work = [m \in Members |-> <<CHOOSE s \in Sources : TRUE, 0>>]
  /\ store = [m \in Members |-> Nothing]
  /\ client = [m \in Members |-> "ready"]
  /\ offsets = [m \in Members |-> NoOffsets]
  /\ messages = [m \in Members |-> 0]
  /\ disruptions = 0

Handle(m) ==
  \E s \in Sources : Fold(m, s) \/ FoldRefused(m, s) \/ Fail(m, s) \/ Skip(m, s)

Step(m) ==
  \/ Restore(m) \/ RestoreStalls(m) \/ Fetch(m) \/ Lost(m) \/ Handle(m)
  \/ Route(m) \/ RouteRefused(m) \/ Note(m) \/ NoteRefused(m) \/ NotYet(m)
  \/ SendOffsets(m) \/ SendOffsetsFails(m) \/ Commit(m) \/ FencedOut(m)
  \/ Close(m) \/ CloseFenced(m)

Next ==
  \E m \in Members :
    \/ Start(m) \/ Step(m) \/ CommitFails(m)
    \/ \E N \in SUBSET Numbers : Assign(m, N) \/ Revoke(m, N)
    \/ Evict(m) \/ Crash(m) \/ Exit(m) \/ TimeOut(m)

Spec == Init /\ [][Next]_vars

-----------------------------------------------------------------------------
(* Properties.                                                             *)

\* Type correctness of the whole state.
TypeOK ==
  /\ owner \in [Numbers -> Members \cup {NoMember}]
  /\ committed \in [Sources -> Nat]
  /\ accepted \in [Members -> [Sources -> Nat]]
  /\ changelog \in [Numbers -> Seq(Entry \cup {Marker})]
  /\ routing \in [Members -> Seq(Place)]
  /\ routed \in Seq(Place)
  /\ fenced \subseteq Members
  /\ pc \in [Members -> {"down", "restore", "fetch", "poll", "route", "note", "settle",
                         "commit", "closing"}]
  /\ joining \in [Members -> SUBSET Numbers]
  /\ held \in [Members -> SUBSET Numbers]
  /\ position \in [Members -> [Sources -> Nat]]
  /\ work \in [Members -> Place]
  /\ store \in [Members -> [Orders -> SUBSET Place]]
  /\ client \in [Members -> {"ready", "open", "failed"}]
  /\ offsets \in [Members -> [Sources -> Nat]]
  /\ messages \in [Members -> Nat]
  /\ disruptions \in Nat

\* The messages that ask for an effect.
Effectful ==
  {p \in UNION {{s} \X (0 .. Len(Log[s]) - 1) : s \in Sources} :
     Log[p[1]][p[2] + 1].kind # "skip"}

\* How often the effect of each is visible to a read_committed reader.
Effects ==
  [p \in Effectful |->
     Cardinality({e \in UNION {{n} \X DOMAIN changelog[n] : n \in Numbers} :
                    /\ changelog[e[1]][e[2]].status = "committed"
                    /\ changelog[e[1]][e[2]].cause = p})
     + Cardinality({i \in DOMAIN routed : routed[i] = p})]

Promise == INSTANCE ExactlyOnce
             WITH effects <- Effects, Length <- [s \in Sources |-> Len(Log[s])]

\* Offsets, folds and routed failures take effect together and once (R8.6, R8.7),
\* whatever crashed, was fenced, was evicted or timed out, and whichever call of a
\* transaction failed.
ImplementsExactlyOnce == Promise!Spec

\* The broker times an abandoned transaction out, and a running loop goes round.
Fairness ==
  \A m \in Members :
    WF_vars(Step(m)) /\ WF_vars(~ (Running(m) /\ Open(m)) /\ TimeOut(m))

FairSpec == Spec /\ Fairness

\* No transaction stays open (R8.8, D5), whether or not more messages arrive, so no
\* read_committed reader is held at the last stable offset for ever.
TransactionsEnd ==
  \A m \in Members : (Open(m) \/ Ongoing(m)) ~> ~ (Open(m) \/ Ongoing(m))

\* Everything is done to keep the group going: instances are restarted and
\* assigned their partitions again.
KeptRunning ==
  /\ Fairness
  /\ \A m \in Members : WF_vars(Start(m)) /\ WF_vars(~ Running(m) /\ Evict(m))
  /\ WF_vars(\E m \in Members : Assign(m, Numbers))

KeptSpec == Spec /\ KeptRunning

\* Every message is eventually committed past.
EveryMessageSettles ==
  \A s \in Sources : <>(committed[s] = Len(Log[s]))
=============================================================================
