--------------------------- MODULE RetryPathProofs ---------------------------
(***************************************************************************)
(* What TLAPS proves of RetryPath, for every set of services, every number *)
(* of events, every retry budget and every bound on failures and replays.  *)
(***************************************************************************)
EXTENDS RetryPath, FiniteSetTheorems, SequenceTheorems, TLAPS

\* The topic a reader reads.
Topic(r) == IF r = Worker THEN retry ELSE source

\* The offset a reader has dealt with everything below: its read position, or the
\* message in hand while its publication is still out.
Front(r) == IF pc[r] = "publish" THEN hand[r].offset ELSE position[r]

-----------------------------------------------------------------------------
(* The invariants.                                                         *)

\* The message in hand is the last one read, and is routed as its reader does.
HandOK(r) ==
  /\ pc[r] # "poll" =>
       position[r] = hand[r].offset + 1 /\ hand[r].offset < Len(Topic(r))
  /\ pc[r] = "publish" =>
       hand[r].route \in IF r = Worker THEN {"source", "poison"}
                         ELSE {"retry", "exhausted", "poison"}

FrontOK(r) == committed[r] <= Front(r) /\ Front(r) <= Len(Topic(r))

ReaderOK(r) == HandOK(r) /\ FrontOK(r)

\* A run of dlq_replay stays below the watermark it read.
ReplayOK ==
  /\ replay.published <= replay.next /\ replay.next <= replay.end
  /\ replay.end <= Len(dlq)

PathInv == TypeOK /\ (\A r \in Readers : ReaderOK(r)) /\ ReplayOK

\* A copy of event e for service s stands on the source topic at offset o, on the retry
\* topic at offset o on its way back to the source topic.
OnSource(s, e, o) == source[o + 1].event = e /\ source[o + 1].target \in {NoService, s}

OnRetry(s, e, o) ==
  /\ retry[o + 1].event = e /\ retry[o + 1].service = s
  /\ retry[o + 1].origin.topic = "source"

Underway(s, e) ==
  \/ ends[s][e] > 0
  \/ \E o \in Front(s) .. Len(source) - 1 : OnSource(s, e, o)
  \/ \E o \in Front(Worker) .. Len(retry) - 1 : OnRetry(s, e, o)

KeptInv == PathInv /\ \A s \in Services, e \in Events : Underway(s, e)

\* Every copy of e for s that may yet be handled: those past the committed offset, but
\* for the one whose commit is next.
Due(r, o) == ~ (pc[r] = "commit" /\ o = hand[r].offset)

Window(r) == {o \in committed[r] .. Len(Topic(r)) - 1 : Due(r, o)}

SourceCopies(s, e) == {o \in Window(s) : OnSource(s, e, o)}

RetryCopies(s, e) ==
  {o \in Window(Worker) : retry[o + 1].event = e /\ retry[o + 1].service = s}

\* How often e has ended or may yet end for s, if nothing more goes wrong.
Account(s, e) ==
  ends[s][e] + Cardinality(SourceCopies(s, e)) + Cardinality(RetryCopies(s, e))

Balanced(s, e) == Account(s, e) <= 1 + disruptions + replays[e]

\* What a reader publishes about is its own: a service's failure is of a message for it,
\* and a release names a registered service.
HandedOwn(r) ==
  pc[r] = "publish" =>
    IF r = Worker
    THEN hand[r].route = "source" => retry[hand[r].offset + 1].service \in Services
    ELSE source[hand[r].offset + 1].target \in {NoService, r}

EndsInv ==
  /\ PathInv /\ \A r \in Readers : HandedOwn(r)
  /\ \A s \in Services, e \in Events : Balanced(s, e)

-----------------------------------------------------------------------------
(* Topics only grow.                                                       *)

Extends(a, b) == Len(a) <= Len(b) /\ \A i \in 1 .. Len(a) : b[i] = a[i]

LEMMA AppendExtends ==
  ASSUME NEW S, NEW a \in Seq(S), NEW x \in S
  PROVE  /\ Append(a, x) \in Seq(S) /\ Extends(a, Append(a, x)) /\ Extends(a, a)
         /\ Len(Append(a, x)) = Len(a) + 1 /\ Append(a, x)[Len(a) + 1] = x
  BY DEF Extends

LEMMA GrowsExtends ==
  ASSUME NEW S, NEW a \in Seq(S), NEW b, b = a \/ \E x \in S : b = Append(a, x)
  PROVE  b \in Seq(S) /\ Extends(a, b)
<1>1. CASE b = a
  BY <1>1 DEF Extends
<1>2. ASSUME NEW x \in S, b = Append(a, x) PROVE b \in Seq(S) /\ Extends(a, b)
  BY <1>2, AppendExtends
<1>3. QED BY <1>1, <1>2

LEMMA WorkerIsNoService == Worker \in Readers /\ \A s \in Services : s \in Readers /\ s # Worker
  BY PathAssumption DEF Readers

\* What a reader has in hand is a record of its topic.
LEMMA RecordInHand ==
  ASSUME PathInv, NEW r \in Readers, pc[r] # "poll"
  PROVE  /\ hand[r].offset \in Nat /\ hand[r].offset + 1 \in 1 .. Len(Topic(r))
         /\ r = Worker => retry[hand[r].offset + 1] \in RetryRecord
         /\ r # Worker => source[hand[r].offset + 1] \in SourceRecord
<1>1. hand[r].offset \in Nat /\ source \in Seq(SourceRecord) /\ retry \in Seq(RetryRecord)
  BY DEF PathInv, TypeOK
<1>2. hand[r].offset < Len(Topic(r))
  BY DEF PathInv, ReaderOK, HandOK
<1>3. QED BY <1>1, <1>2 DEF Topic

\* What a publication puts on the topics.
LEMMA ServicePublishes ==
  ASSUME PathInv, NEW s \in Services, pc[s] = "publish", ServiceLands(s)
  PROVE  /\ source' = source
         /\ \/ \E rec \in RetryRecord :
                 /\ rec.event = source[hand[s].offset + 1].event /\ rec.service = s
                 /\ rec.attempt = source[hand[s].offset + 1].attempt + 1
                 /\ rec.origin.topic = "source" /\ hand[s].route = "retry"
                 /\ retry' = Append(retry, rec) /\ dlq' = dlq /\ ends' = ends
            \/ \E rec \in DeadLetter :
                 /\ rec.event = source[hand[s].offset + 1].event
                 /\ dlq' = Append(dlq, rec) /\ retry' = retry
                 /\ ends' = Count(ends, s, rec.event)
<1> DEFINE o == hand[s].offset  src == source[o + 1]  route == hand[s].route
<1>1. o \in Nat /\ src \in SourceRecord
  BY RecordInHand, WorkerIsNoService
<1>2. src.event \in Nat /\ src.attempt \in Nat
  BY <1>1 DEF SourceRecord
<1> HIDE DEF o, src, route
<1>3. CASE route = "retry"
  <2> DEFINE rec == [event |-> src.event, service |-> s, attempt |-> src.attempt + 1,
                     origin |-> [topic |-> "source", offset |-> o], timed |-> TRUE]
  <2>1. rec \in RetryRecord
    BY <1>1, <1>2 DEF RetryRecord, Origin
  <2>2. retry' = Append(retry, rec) /\ dlq' = dlq /\ ends' = ends /\ source' = source
    BY <1>3 DEF ServiceLands, FailureRecord, attempt_of, o, src, route
  <2>3. /\ rec.event = src.event /\ rec.service = s /\ rec.origin.topic = "source"
        /\ rec.attempt = src.attempt + 1
    OBVIOUS
  <2> HIDE DEF rec
  <2>4. QED BY <1>3, <2>1, <2>2, <2>3 DEF src, o, route
<1>4. CASE route # "retry"
  <2> DEFINE rec == [event |-> src.event, service |-> s, attempts_made |-> src.attempt,
                     origin |-> [topic |-> "source", offset |-> o],
                     retryable |-> route = "exhausted"]
  <2>1. rec \in DeadLetter
    BY <1>1, <1>2 DEF DeadLetter, Origin
  <2>2. FailureRecord(s) = rec
    BY <1>4 DEF FailureRecord, attempt_of, o, src, route
  <2>3. rec.event = src.event
    OBVIOUS
  <2> HIDE DEF rec
  <2>4. dlq' = Append(dlq, rec) /\ retry' = retry /\ source' = source
        /\ ends' = Count(ends, s, rec.event)
    BY <1>4, <2>2 DEF ServiceLands, route
  <2>5. QED BY <2>1, <2>3, <2>4 DEF src, o
<1>5. QED BY <1>3, <1>4

LEMMA WorkerPublishes ==
  ASSUME PathInv, pc[Worker] = "publish", WorkerLands
  PROVE  \E old \in RetryRecord :
           /\ old = retry[hand[Worker].offset + 1]
           /\ \/ /\ hand[Worker].route = "source" /\ old.origin.topic = "source"
                 /\ \E rec \in SourceRecord :
                      /\ rec.event = old.event /\ rec.target = old.service
                      /\ rec.attempt = old.attempt
                      /\ source' = Append(source, rec)
                 /\ UNCHANGED <<retry, dlq, ends>>
              \/ /\ hand[Worker].route = "source" /\ old.origin.topic = "retry"
                 /\ \E rec \in RetryRecord :
                      /\ rec.event = old.event /\ rec.service = old.service
                      /\ rec.attempt = old.attempt
                      /\ retry' = Append(retry, rec)
                 /\ UNCHANGED <<source, dlq, ends>>
              \/ /\ hand[Worker].route = "poison"
                 /\ \E rec \in DeadLetter : dlq' = Append(dlq, rec)
                 /\ ends' = Count(ends, old.service, old.event)
                 /\ UNCHANGED <<source, retry>>
<1>1. PICK old \in RetryRecord : old = retry[hand[Worker].offset + 1]
  BY RecordInHand, WorkerIsNoService
<1>2. /\ old.event \in Nat /\ old.service \in Services \cup {NoService} /\ old.attempt \in Nat
      /\ old.origin \in Origin /\ old.origin.topic \in {"source", "retry"}
  BY DEF RetryRecord, Origin
<1>3. CASE hand[Worker].route = "source" /\ old.origin.topic = "source"
  <2> DEFINE rec == [event |-> old.event, target |-> old.service, attempt |-> old.attempt]
  <2>1. /\ rec \in SourceRecord /\ rec.event = old.event /\ rec.target = old.service
        /\ rec.attempt = old.attempt
    BY <1>2 DEF SourceRecord
  <2>2. source' = Append(source, rec) /\ UNCHANGED <<retry, dlq, ends>>
    BY <1>1, <1>3 DEF WorkerLands
  <2> HIDE DEF rec
  <2>3. QED BY <1>1, <1>3, <2>1, <2>2
<1>4. CASE hand[Worker].route = "source" /\ old.origin.topic = "retry"
  <2> DEFINE rec == [old EXCEPT !.timed = FALSE]
  <2>1. /\ rec \in RetryRecord /\ rec.event = old.event /\ rec.service = old.service
        /\ rec.attempt = old.attempt
    BY DEF RetryRecord
  <2>2. retry' = Append(retry, rec) /\ UNCHANGED <<source, dlq, ends>>
    BY <1>1, <1>4 DEF WorkerLands
  <2> HIDE DEF rec
  <2>3. QED BY <1>1, <1>4, <2>1, <2>2
<1>5. CASE hand[Worker].route = "poison"
  <2> DEFINE rec == [event |-> old.event, service |-> old.service,
                     attempts_made |-> old.attempt, origin |-> old.origin,
                     retryable |-> FALSE]
  <2>1. rec \in DeadLetter
    BY <1>2 DEF DeadLetter
  <2>2. /\ dlq' = Append(dlq, rec) /\ ends' = Count(ends, old.service, old.event)
        /\ UNCHANGED <<source, retry>>
    BY <1>1, <1>5 DEF WorkerLands
  <2> HIDE DEF rec
  <2>3. QED BY <1>1, <1>5, <2>1, <2>2
<1>6. hand[Worker].route \in {"source", "poison"}
  BY WorkerIsNoService DEF PathInv, ReaderOK, HandOK
<1>7. QED BY <1>2, <1>3, <1>4, <1>5, <1>6

LEMMA CountType ==
  ASSUME NEW f \in [Services -> [Events -> Nat]], NEW s, NEW e
  PROVE  /\ Count(f, s, e) \in [Services -> [Events -> Nat]]
         /\ \A t \in Services, d \in Events :
              Count(f, s, e)[t][d] = IF t = s /\ d = e THEN f[t][d] + 1 ELSE f[t][d]
  BY DEF Count

LEMMA LandsGrows ==
  ASSUME PathInv, NEW r \in Readers, pc[r] = "publish", Lands(r)
  PROVE  /\ source' \in Seq(SourceRecord) /\ Extends(source, source')
         /\ retry' \in Seq(RetryRecord) /\ Extends(retry, retry')
         /\ dlq' \in Seq(DeadLetter) /\ Extends(dlq, dlq')
         /\ ends' \in [Services -> [Events -> Nat]]
         /\ \A s \in Services, e \in Events : ends[s][e] <= ends'[s][e]
<1>1. /\ source \in Seq(SourceRecord) /\ retry \in Seq(RetryRecord) /\ dlq \in Seq(DeadLetter)
      /\ ends \in [Services -> [Events -> Nat]]
  BY DEF PathInv, TypeOK
<1>2. /\ source' = source \/ \E x \in SourceRecord : source' = Append(source, x)
      /\ retry' = retry \/ \E x \in RetryRecord : retry' = Append(retry, x)
      /\ dlq' = dlq \/ \E x \in DeadLetter : dlq' = Append(dlq, x)
      /\ ends' = ends \/ \E s, e : ends' = Count(ends, s, e)
  <2>1. CASE r = Worker
    <3>1. WorkerLands /\ pc[Worker] = "publish"
      BY <2>1 DEF Lands
    <3>2. QED BY <3>1, WorkerPublishes
  <2>2. CASE r # Worker
    <3>1. r \in Services /\ ServiceLands(r)
      BY <2>2 DEF Lands, Readers
    <3>2. QED BY <3>1, ServicePublishes
  <2>3. QED BY <2>1, <2>2
<1>3. source' \in Seq(SourceRecord) /\ Extends(source, source')
  BY <1>1, <1>2, GrowsExtends
<1>4. retry' \in Seq(RetryRecord) /\ Extends(retry, retry')
  BY <1>1, <1>2, GrowsExtends
<1>5. dlq' \in Seq(DeadLetter) /\ Extends(dlq, dlq')
  BY <1>1, <1>2, GrowsExtends
<1>6. ends' \in [Services -> [Events -> Nat]]
  BY <1>1, <1>2, CountType
<1>7. \A s \in Services, e \in Events : ends[s][e] <= ends'[s][e]
  <2> SUFFICES ASSUME NEW s \in Services, NEW e \in Events PROVE ends[s][e] <= ends'[s][e]
    OBVIOUS
  <2>1. ends[s][e] \in Nat
    BY <1>1
  <2>2. ends'[s][e] \in {ends[s][e], ends[s][e] + 1}
    <3>1. ASSUME NEW t, NEW d, ends' = Count(ends, t, d)
          PROVE  ends'[s][e] \in {ends[s][e], ends[s][e] + 1}
      <4>1. Count(ends, t, d)[s][e] \in {ends[s][e], ends[s][e] + 1}
        BY <1>1 DEF Count
      <4>2. QED BY <3>1, <4>1
    <3>2. QED BY <1>2, <3>1
  <2>3. QED BY <2>1, <2>2
<1>8. QED BY <1>3, <1>4, <1>5, <1>6, <1>7

-----------------------------------------------------------------------------
(* What a step does to a reader.                                           *)

\* What reader r may do next, or may happen to it.
Acts(r) ==
  \/ r \in Services /\ ServiceStep(r)
  \/ r = Worker /\ WorkerStep
  \/ Settle(r) \/ PublishFails(r) \/ CommitRejected(r) \/ Restart(r)

LEMMA NextActs == Next <=> (\E r \in Readers : Acts(r)) \/ BackoffEnds \/ Replay
  BY WorkerIsNoService DEF Next, Acts

Place(r) == <<committed[r], position[r], pc[r], hand[r]>>

LEMMA OthersStay ==
  ASSUME TypeOK, NEW r \in Readers, Acts(r)
  PROVE  \A n \in Readers : n # r => UNCHANGED Place(n)
<1> USE DEF Place, Goto, Take, TypeOK
<1>1. CASE r \in Services /\ ServiceStep(r)
  BY <1>1 DEF ServiceStep, SkipOthers, HandleOk, HandleFails
<1>2. CASE r = Worker /\ WorkerStep
  BY <1>2 DEF WorkerStep, Defer, ResumeDue, WorkerTakes
<1>3. CASE PublishAcknowledged(r) \/ PublishFails(r)
  BY <1>3 DEF PublishAcknowledged, PublishFails, after_failed_publish, rewind
<1>4. CASE Commit(r) \/ CommitRejected(r) \/ Restart(r)
  BY <1>4 DEF Commit, CommitRejected, Restart
<1>5. QED BY <1>1, <1>2, <1>3, <1>4 DEF Acts, Settle

\* The route a service's failure takes.
LEMMA FailureRoute ==
  ASSUME NEW retryable \in BOOLEAN, NEW attempt
  PROVE  (CASE budget_left(retryable, attempt) -> "retry"
            [] ~ retryable -> "poison" [] OTHER -> "exhausted")
           \in {"retry", "exhausted", "poison"}
  BY DEF budget_left

\* A message is read.
Reads(r, route) ==
  /\ pc[r] = "poll" /\ position[r] < Len(Topic(r)) /\ committed'[r] = committed[r]
  /\ hand'[r] = [offset |-> position[r], route |-> route]
  /\ position'[r] = position[r] + 1

LEMMA ServiceReads ==
  ASSUME TypeOK, NEW s \in Services, ServiceStep(s)
  PROVE  /\ \/ Reads(s, "none") /\ pc'[s] = "commit"
            \/ \E route \in {"retry", "exhausted", "poison"} :
                 Reads(s, route) /\ pc'[s] = "publish"
         /\ UNCHANGED topics
<1>0. s \in Readers /\ Topic(s) = source
  BY WorkerIsNoService DEF Topic
<1> USE DEF Take, Goto, Reads, TypeOK, CanRead
<1>1. CASE SkipOthers(s) \/ HandleOk(s)
  BY <1>0, <1>1 DEF SkipOthers, HandleOk
<1>2. ASSUME NEW retryable \in BOOLEAN, HandleFails(s, retryable)
      PROVE  /\ \E route \in {"retry", "exhausted", "poison"} :
                   Reads(s, route) /\ pc'[s] = "publish"
             /\ UNCHANGED topics
  <2>1. PICK route \in {"retry", "exhausted", "poison"} : Take(s, route)
    BY <1>2, FailureRoute DEF HandleFails
  <2>2. pc[s] = "poll" /\ position[s] < Len(source) /\ Goto(s, "publish")
        /\ committed' = committed /\ UNCHANGED topics
    BY <1>2 DEF HandleFails
  <2>3. QED BY <1>0, <2>1, <2>2
<1>3. QED BY <1>1, <1>2 DEF ServiceStep

LEMMA WorkerMoves ==
  ASSUME TypeOK, WorkerStep
  PROVE  /\ \/ UNCHANGED Place(Worker)
            \/ /\ Reads(Worker, WorkerRoute(retry[position[Worker] + 1]))
               /\ pc'[Worker] = "publish"
         /\ UNCHANGED <<topics, ends>>
<1>0. Worker \in Readers /\ Topic(Worker) = retry
  BY WorkerIsNoService DEF Topic
<1> USE DEF Take, Goto, Reads, TypeOK, WorkerReads, Place
<1>1. CASE Defer \/ ResumeDue
  BY <1>0, <1>1 DEF Defer, ResumeDue, seek_back, history
<1>2. CASE WorkerTakes
  BY <1>0, <1>2 DEF WorkerTakes, history
<1>3. QED BY <1>1, <1>2 DEF WorkerStep

\* What may become of a message in hand, and where the reader stands then.
LEMMA SettleMoves ==
  ASSUME TypeOK, NEW r \in Readers,
         Settle(r) \/ PublishFails(r) \/ CommitRejected(r) \/ Restart(r)
  PROVE  \/ /\ PublishAcknowledged(r) /\ pc[r] = "publish" /\ Lands(r) /\ pc'[r] = "commit"
            /\ UNCHANGED <<committed[r], position[r], hand[r]>>
         \/ /\ PublishFails(r) /\ pc[r] = "publish" /\ pc'[r] = "poll"
            /\ Lands(r) \/ UNCHANGED <<source, retry, dlq, ends>>
            /\ position'[r] = IF hand[r].route = "source" THEN position[r] ELSE hand[r].offset
            /\ UNCHANGED <<committed[r], hand[r]>> /\ Disrupt
         \/ /\ pc[r] = "commit" /\ pc'[r] = "poll" /\ committed'[r] = hand[r].offset + 1
            /\ UNCHANGED <<position[r], hand[r], source, retry, dlq, ends>>
         \/ /\ pc[r] = "commit" /\ pc'[r] = "poll" /\ Disrupt
            /\ UNCHANGED <<committed[r], position[r], hand[r], source, retry, dlq, ends>>
         \/ /\ pc'[r] = "poll" /\ position'[r] = committed[r] /\ Disrupt
            /\ UNCHANGED <<committed[r], hand[r], source, retry, dlq, ends>>
<1> USE DEF Goto, TypeOK, topics, history
<1>1. CASE PublishAcknowledged(r)
  BY <1>1 DEF PublishAcknowledged
<1>2. CASE PublishFails(r)
  BY <1>2 DEF PublishFails, after_failed_publish, rewind
<1>3. CASE Commit(r)
  BY <1>3 DEF Commit
<1>4. CASE CommitRejected(r)
  BY <1>4 DEF CommitRejected
<1>5. CASE Restart(r)
  BY <1>5 DEF Restart
<1>6. QED BY <1>1, <1>2, <1>3, <1>4, <1>5 DEF Settle

LEMMA ReplayGrows ==
  ASSUME PathInv, Replay
  PROVE  /\ source = source' \/ \E x \in SourceRecord : source' = Append(source, x)
         /\ retry = retry' \/ \E x \in RetryRecord : retry' = Append(retry, x)
         /\ UNCHANGED <<dlq, due, committed, position, pc, hand, deferred, history>>
<1>1. CASE \/ \E only \in Services \cup {NoService}, include_poison \in BOOLEAN :
                ReplayStarts(only, include_poison)
           \/ ReplayPasses \/ ReplayStops
  BY <1>1 DEF ReplayStarts, ReplayPasses, ReplayStops, topics
<1>2. CASE ReplayPublishes
  <2> DEFINE rec == dlq[replay.next + 1]
             src == [event |-> rec.event, target |-> NoService, attempt |-> 1]
             ret == [event |-> rec.event, service |-> NoService, attempt |-> 2,
                     timed |-> FALSE, origin |-> [topic |-> "retry", offset |-> Len(retry)]]
  <2>1. rec.event \in Nat /\ Len(retry) \in Nat
    <3>1. replay.next \in Nat /\ replay.next < Len(dlq) /\ dlq \in Seq(DeadLetter)
      BY <1>2 DEF ReplayPublishes, read_to, PathInv, TypeOK, ReplayOK
    <3>2. rec \in DeadLetter
      BY <3>1
    <3>3. QED BY <3>2 DEF DeadLetter, PathInv, TypeOK
  <2>2. src \in SourceRecord /\ ret \in RetryRecord
    BY <2>1 DEF SourceRecord, RetryRecord, Origin
  <2>3. /\ \/ source' = Append(source, src) /\ retry' = retry
           \/ source' = source /\ retry' = Append(retry, ret)
           \/ source' = source /\ retry' = retry
        /\ UNCHANGED <<dlq, due, committed, position, pc, hand, deferred, history>>
    BY <1>2 DEF ReplayPublishes
  <2> HIDE DEF src, ret
  <2>4. QED BY <2>2, <2>3
<1>3. QED BY <1>1, <1>2 DEF Replay

\* Topics are append-only, and nothing that has ended is taken back.
LEMMA TopicsGrow ==
  ASSUME PathInv, [Next]_vars
  PROVE  /\ source' \in Seq(SourceRecord) /\ Extends(source, source')
         /\ retry' \in Seq(RetryRecord) /\ Extends(retry, retry')
         /\ dlq' \in Seq(DeadLetter) /\ Extends(dlq, dlq')
         /\ ends' \in [Services -> [Events -> Nat]]
         /\ \A s \in Services, e \in Events : ends[s][e] <= ends'[s][e]
<1>t. /\ source \in Seq(SourceRecord) /\ retry \in Seq(RetryRecord) /\ dlq \in Seq(DeadLetter)
      /\ ends \in [Services -> [Events -> Nat]] /\ TypeOK
  BY DEF PathInv, TypeOK
<1>0. /\ Extends(source, source) /\ Extends(retry, retry) /\ Extends(dlq, dlq)
      /\ \A s \in Services, e \in Events : ends[s][e] <= ends[s][e]
  BY <1>t, GrowsExtends
<1>1. CASE UNCHANGED <<source, retry, dlq, ends>>
  BY <1>0, <1>1, <1>t
<1>2. ASSUME NEW r \in Readers, pc[r] = "publish", Lands(r)
      PROVE  /\ source' \in Seq(SourceRecord) /\ Extends(source, source')
             /\ retry' \in Seq(RetryRecord) /\ Extends(retry, retry')
             /\ dlq' \in Seq(DeadLetter) /\ Extends(dlq, dlq')
             /\ ends' \in [Services -> [Events -> Nat]]
             /\ \A s \in Services, e \in Events : ends[s][e] <= ends'[s][e]
  BY <1>2, LandsGrows
<1>3. CASE Replay
  <2>1. UNCHANGED <<dlq, ends>>
    BY <1>3, ReplayGrows DEF history
  <2>2. source' \in Seq(SourceRecord) /\ Extends(source, source')
    BY <1>3, <1>t, ReplayGrows, GrowsExtends
  <2>3. retry' \in Seq(RetryRecord) /\ Extends(retry, retry')
    BY <1>3, <1>t, ReplayGrows, GrowsExtends
  <2>4. QED BY <1>0, <1>t, <2>1, <2>2, <2>3
<1>4. ASSUME NEW s \in Services, ServiceStep(s)
      PROVE  /\ UNCHANGED <<source, retry, dlq>>
             /\ ends' = ends \/ \E e : ends' = Count(ends, s, e)
  BY <1>4 DEF ServiceStep, SkipOthers, HandleOk, HandleFails, topics, history
<1>5. ASSUME NEW s \in Services, ServiceStep(s)
      PROVE  /\ ends' \in [Services -> [Events -> Nat]]
             /\ \A t \in Services, e \in Events : ends[t][e] <= ends'[t][e]
  <2>1. CASE ends' = ends
    BY <1>0, <1>t, <2>1
  <2>2. ASSUME NEW e, ends' = Count(ends, s, e)
        PROVE  /\ ends' \in [Services -> [Events -> Nat]]
               /\ \A t \in Services, d \in Events : ends[t][d] <= ends'[t][d]
    <3>1. /\ Count(ends, s, e) \in [Services -> [Events -> Nat]]
          /\ \A t \in Services, d \in Events : ends[t][d] <= Count(ends, s, e)[t][d]
      BY <1>t DEF Count
    <3>2. QED BY <2>2, <3>1
  <2>3. QED BY <1>4, <1>5, <2>1, <2>2
<1>6. UNCHANGED vars \/ BackoffEnds => UNCHANGED <<source, retry, dlq, ends>>
  BY DEF vars, topics, history, BackoffEnds
<1>7. ASSUME NEW r \in Readers,
             Settle(r) \/ PublishFails(r) \/ CommitRejected(r) \/ Restart(r)
      PROVE  (pc[r] = "publish" /\ Lands(r)) \/ UNCHANGED <<source, retry, dlq, ends>>
  BY <1>7, <1>t, SettleMoves
<1>8. WorkerStep => UNCHANGED <<source, retry, dlq, ends>>
  BY <1>t, WorkerMoves DEF topics
<1>9. ASSUME NEW r \in Readers, Acts(r)
      PROVE  /\ source' \in Seq(SourceRecord) /\ Extends(source, source')
             /\ retry' \in Seq(RetryRecord) /\ Extends(retry, retry')
             /\ dlq' \in Seq(DeadLetter) /\ Extends(dlq, dlq')
             /\ ends' \in [Services -> [Events -> Nat]]
             /\ \A s \in Services, e \in Events : ends[s][e] <= ends'[s][e]
  <2>1. CASE r \in Services /\ ServiceStep(r)
    BY <1>0, <1>t, <1>4, <1>5, <2>1
  <2>2. CASE r = Worker /\ WorkerStep
    BY <1>1, <1>8, <2>2
  <2>3. CASE Settle(r) \/ PublishFails(r) \/ CommitRejected(r) \/ Restart(r)
    BY <1>1, <1>2, <1>7, <2>3
  <2>4. QED BY <1>9, <2>1, <2>2, <2>3 DEF Acts
<1>10. QED BY <1>1, <1>3, <1>6, <1>9, NextActs

-----------------------------------------------------------------------------
(* Type correctness, and where each reader stands.                         *)

LEMMA ReaderTypes ==
  ASSUME TypeOK, NEW r \in Readers, Acts(r)
  PROVE  /\ due' \subseteq Nat /\ committed' \in [Readers -> Nat] /\ position' \in [Readers -> Nat]
         /\ pc' \in [Readers -> {"poll", "publish", "commit"}]
         /\ hand' \in [Readers -> [offset : Nat,
                                  route : {"none", "retry", "exhausted", "poison", "source"}]]
         /\ deferred' \subseteq Nat
         /\ replay' = replay /\ replays' = replays /\ disruptions' \in Nat
         /\ runs' \in [Services -> [Events -> Nat]]
<1> USE DEF TypeOK, Goto, Take, topics, tool, history
<1>1. CASE r \in Services /\ ServiceStep(r)
  <2>1. PICK route \in {"none", "retry", "exhausted", "poison"} : Take(r, route)
    <3>1. ASSUME NEW retryable \in BOOLEAN, HandleFails(r, retryable)
          PROVE  \E route \in {"none", "retry", "exhausted", "poison"} : Take(r, route)
      <4>1. \E route \in {"retry", "exhausted", "poison"} : Take(r, route)
        BY <3>1, FailureRoute DEF HandleFails
      <4>2. QED BY <4>1
    <3>2. QED BY <1>1, <3>1 DEF ServiceStep, SkipOthers, HandleOk
  <2>2. hand' \in [Readers -> [offset : Nat,
                              route : {"none", "retry", "exhausted", "poison", "source"}]]
        /\ position' \in [Readers -> Nat]
    BY <2>1
  <2>3. runs' = runs \/ \E e : runs' = Count(runs, r, e)
    BY <1>1 DEF ServiceStep, SkipOthers, HandleOk, HandleFails
  <2>4. runs' \in [Services -> [Events -> Nat]]
    <3>1. runs \in [Services -> [Events -> Nat]]
      OBVIOUS
    <3>2. QED BY ONLY <2>3, <3>1, CountType
  <2>5. /\ due' = due /\ committed' = committed /\ deferred' = deferred /\ UNCHANGED tool
        /\ disruptions' = disruptions /\ pc' \in [Readers -> {"poll", "publish", "commit"}]
    BY <1>1 DEF ServiceStep, SkipOthers, HandleOk, HandleFails
  <2>6. QED BY <2>2, <2>4, <2>5
<1>2. CASE r = Worker /\ WorkerStep
  <2>1. CASE Defer \/ ResumeDue
    <3>1. /\ due' = due /\ committed' = committed /\ pc' = pc /\ hand' = hand /\ runs' = runs
          /\ replay' = replay /\ replays' = replays /\ disruptions' = disruptions
      BY <2>1 DEF Defer, ResumeDue
    <3>2. position' \in [Readers -> Nat] /\ deferred' \subseteq Nat
      <4>1. CASE Defer
        BY <1>2, <4>1 DEF Defer, seek_back
      <4>2. CASE ResumeDue
        BY <4>2 DEF ResumeDue
      <4>3. QED BY <2>1, <4>1, <4>2
    <3>3. QED BY <3>1, <3>2
  <2>2. CASE WorkerTakes
    <3>1. PICK route \in {"source", "poison"} : Take(Worker, route)
      BY <2>2 DEF WorkerTakes, WorkerRoute
    <3>2. /\ hand' \in [Readers -> [offset : Nat,
                                   route : {"none", "retry", "exhausted", "poison", "source"}]]
          /\ position' \in [Readers -> Nat]
      BY <1>2, <3>1
    <3>3. QED BY <1>2, <2>2, <3>2 DEF WorkerTakes
  <2>3. QED BY <1>2, <2>1, <2>2 DEF WorkerStep
<1>3. CASE PublishAcknowledged(r) \/ Commit(r) \/ CommitRejected(r) \/ Restart(r)
  <2>1. CASE PublishAcknowledged(r)
    BY <2>1, SMTT(30) DEF PublishAcknowledged
  <2>2. CASE Commit(r)
    BY <2>2, SMTT(30) DEF Commit
  <2>3. CASE CommitRejected(r)
    BY <2>3 DEF CommitRejected, Disrupt
  <2>4. CASE Restart(r)
    <3>1. /\ due' = due /\ committed' = committed /\ hand' = hand /\ runs' = runs
          /\ replay' = replay /\ replays' = replays /\ disruptions' = disruptions + 1
          /\ deferred' \in {deferred, {}}
      BY <2>4 DEF Restart, Disrupt
    <3>2. position' \in [Readers -> Nat] /\ pc' \in [Readers -> {"poll", "publish", "commit"}]
      BY <2>4 DEF Restart
    <3>3. QED BY <3>1, <3>2
  <2>5. QED BY <1>3, <2>1, <2>2, <2>3, <2>4
<1>4. CASE PublishFails(r)
  BY <1>4 DEF PublishFails, after_failed_publish, rewind, Disrupt
<1>5. QED BY <1>1, <1>2, <1>3, <1>4 DEF Acts, Settle

LEMMA LengthsGrow ==
  ASSUME PathInv, [Next]_vars
  PROVE  /\ Len(dlq) \in Nat /\ Len(dlq') \in Nat /\ Len(dlq) <= Len(dlq')
         /\ \A n : /\ Len(Topic(n)) \in Nat /\ Len(Topic(n)') \in Nat
                  /\ Len(Topic(n)) <= Len(Topic(n)')
<1>1. source \in Seq(SourceRecord) /\ retry \in Seq(RetryRecord) /\ dlq \in Seq(DeadLetter)
  BY DEF PathInv, TypeOK
<1>2. /\ source' \in Seq(SourceRecord) /\ Extends(source, source')
      /\ retry' \in Seq(RetryRecord) /\ Extends(retry, retry')
      /\ dlq' \in Seq(DeadLetter) /\ Extends(dlq, dlq')
  BY TopicsGrow
<1>3. /\ Len(source) \in Nat /\ Len(source') \in Nat /\ Len(source) <= Len(source')
      /\ Len(retry) \in Nat /\ Len(retry') \in Nat /\ Len(retry) <= Len(retry')
      /\ Len(dlq) \in Nat /\ Len(dlq') \in Nat /\ Len(dlq) <= Len(dlq')
  BY <1>1, <1>2 DEF Extends
<1>4. QED BY <1>3 DEF Topic

\* A reader whose place does not change stays where it may be: its topic only grows.
LEMMA PlaceStays ==
  ASSUME PathInv, [Next]_vars, NEW n \in Readers, UNCHANGED Place(n)
  PROVE  ReaderOK(n)'
<1>1. /\ Len(Topic(n)) \in Nat /\ Len(Topic(n)') \in Nat /\ Len(Topic(n)) <= Len(Topic(n)')
  BY LengthsGrow
<1>2. /\ hand[n].offset \in Nat /\ position[n] \in Nat /\ committed[n] \in Nat /\ ReaderOK(n)
  BY DEF PathInv, TypeOK
<1>3. QED BY <1>1, <1>2 DEF ReaderOK, HandOK, FrontOK, Front, Place

\* So does one that acts.
LEMMA PlaceMoves ==
  ASSUME PathInv, Next, NEW r \in Readers, Acts(r)
  PROVE  ReaderOK(r)'
<1>1. /\ Len(Topic(r)) \in Nat /\ Len(Topic(r)') \in Nat /\ Len(Topic(r)) <= Len(Topic(r)')
  BY LengthsGrow
<1>2. /\ hand[r].offset \in Nat /\ position[r] \in Nat /\ committed[r] \in Nat /\ ReaderOK(r) /\ TypeOK
      /\ pc[r] \in {"poll", "publish", "commit"}
  BY DEF PathInv, TypeOK
<1> USE DEF ReaderOK, HandOK, FrontOK, Front
<1>3. ASSUME NEW route, Reads(r, route),
             \/ pc'[r] = "commit"
             \/ /\ pc'[r] = "publish"
                /\ route \in IF r = Worker THEN {"source", "poison"}
                             ELSE {"retry", "exhausted", "poison"}
      PROVE  ReaderOK(r)'
  <2>1. /\ pc[r] = "poll" /\ position[r] < Len(Topic(r)) /\ committed'[r] = committed[r]
        /\ hand'[r].offset = position[r] /\ hand'[r].route = route
        /\ position'[r] = position[r] + 1
    BY <1>3 DEF Reads
  <2>2. QED BY <1>1, <1>2, <1>3, <2>1
<1>4. CASE r \in Services /\ ServiceStep(r)
  <2>1. r # Worker
    BY <1>4, WorkerIsNoService
  <2>2. CASE Reads(r, "none") /\ pc'[r] = "commit"
    BY <1>3, <2>2
  <2>3. ASSUME NEW route \in {"retry", "exhausted", "poison"}, Reads(r, route), pc'[r] = "publish"
        PROVE  ReaderOK(r)'
    BY <1>3, <2>1, <2>3
  <2>4. QED BY <1>2, <1>4, <2>2, <2>3, ServiceReads
<1>5. CASE r = Worker /\ WorkerStep
  <2>1. CASE UNCHANGED Place(Worker)
    BY <1>5, <2>1, PlaceStays
  <2>2. CASE /\ Reads(Worker, WorkerRoute(retry[position[Worker] + 1]))
             /\ pc'[Worker] = "publish"
    <3>1. PICK route \in {"source", "poison"} : Reads(Worker, route)
      BY <2>2 DEF WorkerRoute
    <3>2. QED BY <1>3, <1>5, <2>2, <3>1
  <2>3. QED BY <1>2, <1>5, <2>1, <2>2, WorkerMoves
<1>6. CASE Settle(r) \/ PublishFails(r) \/ CommitRejected(r) \/ Restart(r)
  <2>1. \/ /\ pc[r] = "publish" /\ pc'[r] = "commit"
           /\ UNCHANGED <<committed[r], position[r], hand[r]>>
        \/ /\ pc[r] = "publish" /\ pc'[r] = "poll"
           /\ position'[r] \in {position[r], hand[r].offset}
           /\ UNCHANGED <<committed[r], hand[r]>>
        \/ /\ pc[r] = "commit" /\ pc'[r] = "poll" /\ committed'[r] = hand[r].offset + 1
           /\ UNCHANGED <<position[r], hand[r]>>
        \/ /\ pc[r] = "commit" /\ pc'[r] = "poll"
           /\ UNCHANGED <<committed[r], position[r], hand[r]>>
        \/ /\ pc'[r] = "poll" /\ position'[r] = committed[r]
           /\ UNCHANGED <<committed[r], hand[r]>>
    BY <1>2, <1>6, SettleMoves
  <2>2. QED BY <1>1, <1>2, <2>1
<1>7. QED BY <1>4, <1>5, <1>6 DEF Acts

LEMMA ReplayStep ==
  ASSUME PathInv, Replay
  PROVE  /\ replay' \in [running : BOOLEAN, nth : Nat, only : Services \cup {NoService},
                         include_poison : BOOLEAN, next : Nat, end : Nat, published : Nat]
         /\ replays' \in [Events \cup {Strays[i].event : i \in DOMAIN Strays} -> Nat]
         /\ disruptions' \in Nat /\ ReplayOK'
<1>1. /\ replay \in [running : BOOLEAN, nth : Nat, only : Services \cup {NoService},
                     include_poison : BOOLEAN, next : Nat, end : Nat, published : Nat]
      /\ replays \in [Events \cup {Strays[i].event : i \in DOMAIN Strays} -> Nat]
      /\ disruptions \in Nat /\ ReplayOK /\ Len(dlq) \in Nat
  BY DEF PathInv, TypeOK
<1>2. ASSUME NEW only \in Services \cup {NoService}, NEW include_poison \in BOOLEAN,
             ReplayStarts(only, include_poison)
      PROVE  /\ replay' \in [running : BOOLEAN, nth : Nat, only : Services \cup {NoService},
                         include_poison : BOOLEAN, next : Nat, end : Nat, published : Nat]
             /\ replays' \in [Events \cup {Strays[i].event : i \in DOMAIN Strays} -> Nat]
             /\ disruptions' \in Nat /\ ReplayOK'
  BY <1>1, <1>2 DEF ReplayStarts, ReplayOK, topics
<1>3. CASE ReplayPasses
  BY <1>1, <1>3 DEF ReplayPasses, ReplayOK, read_to, topics
<1>4. CASE ReplayPublishes
  <2>1. /\ replay' = [replay EXCEPT !.next = @ + 1, !.published = @ + 1]
        /\ replay.next < replay.end /\ dlq' = dlq
        /\ replays' = replays \/ \E e : replays' = [replays EXCEPT ![e] = @ + 1]
        /\ disruptions' = disruptions \/ disruptions' = disruptions + 1
    BY <1>4 DEF ReplayPublishes, read_to, Disrupt
  <2>2. replays' \in [Events \cup {Strays[i].event : i \in DOMAIN Strays} -> Nat]
    <3> DEFINE D == Events \cup {Strays[i].event : i \in DOMAIN Strays}
    <3>1. replays \in [D -> Nat]
      BY <1>1
    <3> HIDE DEF D
    <3>2. ASSUME NEW e PROVE [replays EXCEPT ![e] = @ + 1] \in [D -> Nat]
      <4>1. CASE e \in D
        BY <3>1, <4>1
      <4>2. CASE e \notin D
        BY <3>1, <4>2
      <4>3. QED BY <4>1, <4>2
    <3>3. replays' \in [D -> Nat]
      BY <2>1, <3>1, <3>2
    <3>4. QED BY <3>3 DEF D
  <2>3. /\ replay' \in [running : BOOLEAN, nth : Nat, only : Services \cup {NoService},
                         include_poison : BOOLEAN, next : Nat, end : Nat, published : Nat]
        /\ ReplayOK'
    <3>1. /\ replay'.next = replay.next + 1 /\ replay'.published = replay.published + 1
          /\ replay'.end = replay.end /\ replay.next \in Nat /\ replay.published \in Nat
          /\ replay.end \in Nat
          /\ replay' \in [running : BOOLEAN, nth : Nat, only : Services \cup {NoService},
                          include_poison : BOOLEAN, next : Nat, end : Nat, published : Nat]
      <4> DEFINE R == [running : BOOLEAN, nth : Nat, only : Services \cup {NoService},
                       include_poison : BOOLEAN, next : Nat, end : Nat, published : Nat]
      <4>1. PICK mid : mid = [replay EXCEPT !.next = @ + 1]
        OBVIOUS
      <4>2. /\ mid \in R /\ mid.next = replay.next + 1 /\ mid.published = replay.published
            /\ mid.end = replay.end /\ replay.next \in Nat /\ replay.published \in Nat
            /\ replay.end \in Nat
        BY ONLY <1>1, <4>1
      <4>3. replay' = [mid EXCEPT !.published = @ + 1]
        BY <2>1, <4>1
      <4>4. QED BY ONLY <4>2, <4>3
    <3>2. QED BY <1>1, <2>1, <3>1 DEF ReplayOK
  <2>4. QED BY <1>1, <2>1, <2>2, <2>3
<1>5. CASE ReplayStops
  BY <1>1, <1>5 DEF ReplayStops, NoReplay, ReplayOK, topics
<1>6. QED BY <1>2, <1>3, <1>4, <1>5 DEF Replay

LEMMA PathInit == Init => PathInv
<1> SUFFICES ASSUME Init PROVE PathInv
  OBVIOUS
<1>1. /\ Published \in Nat /\ Strays \in Seq(RetryRecord)
  BY PathAssumption
<1>2. source \in Seq(SourceRecord) /\ Len(source) \in Nat
  <2>1. source \in [1 .. Published -> SourceRecord]
    BY <1>1 DEF Init, SourceRecord, Events
  <2>2. QED BY <1>1, <2>1
<1>3. retry \in Seq(RetryRecord) /\ Len(retry) \in Nat /\ dlq \in Seq(DeadLetter) /\ Len(dlq) = 0
  BY <1>1 DEF Init
<1>4. TypeOK
  BY <1>2, <1>3 DEF Init, TypeOK, NoReplay
<1>5. \A r \in Readers : ReaderOK(r)
  BY <1>2, <1>3 DEF Init, ReaderOK, HandOK, FrontOK, Front, Topic
<1>6. ReplayOK
  BY <1>3 DEF Init, ReplayOK, NoReplay
<1>7. QED BY <1>4, <1>5, <1>6 DEF PathInv

LEMMA PathStep == PathInv /\ [Next]_vars => PathInv'
<1> SUFFICES ASSUME PathInv, [Next]_vars PROVE PathInv'
  OBVIOUS
<1>t. TypeOK /\ ReplayOK /\ Len(dlq) \in Nat /\ Len(dlq') \in Nat /\ Len(dlq) <= Len(dlq')
  BY LengthsGrow DEF PathInv
<1>1. ASSUME NEW r \in Readers, Acts(r) PROVE PathInv'
  <2>1. TypeOK'
    BY <1>t, <1>1, ReaderTypes, TopicsGrow DEF TypeOK
  <2>2. ASSUME NEW n \in Readers PROVE ReaderOK(n)'
    <3>1. CASE n = r
      BY <1>1, <3>1, PlaceMoves, NextActs
    <3>2. CASE n # r
      BY <1>t, <1>1, <3>2, OthersStay, PlaceStays
    <3>3. QED BY <3>1, <3>2
  <2>3. ReplayOK'
    <3>1. replay' = replay
      BY <1>t, <1>1, ReaderTypes
    <3>2. replay.end \in Nat
      BY DEF PathInv, TypeOK
    <3>3. QED BY <1>t, <3>1, <3>2 DEF ReplayOK
  <2>4. QED BY <2>1, <2>2, <2>3 DEF PathInv
<1>2. CASE Replay
  <2>1. UNCHANGED <<dlq, due, committed, position, pc, hand, deferred, runs, ends>>
    BY <1>2, ReplayGrows DEF history
  <2>2. TypeOK'
    BY <1>t, <1>2, <2>1, ReplayStep, TopicsGrow DEF TypeOK
  <2>3. \A n \in Readers : ReaderOK(n)'
    BY <2>1, PlaceStays DEF Place
  <2>4. QED BY <1>2, <2>2, <2>3, ReplayStep DEF PathInv
<1>3. CASE BackoffEnds \/ UNCHANGED vars
  <2>1. /\ UNCHANGED <<source, retry, dlq, committed, position, pc, hand, deferred, runs, ends,
                       replay, replays, disruptions>>
        /\ due' \subseteq Nat
    <3>1. due \subseteq Nat /\ Len(retry) \in Nat
      BY DEF PathInv, TypeOK
    <3>2. CASE UNCHANGED vars
      BY <3>1, <3>2 DEF vars, topics, tool, history
    <3>3. CASE BackoffEnds
      BY <3>1, <3>3 DEF BackoffEnds, tool, history
    <3>4. QED BY <1>3, <3>2, <3>3
  <2>2. TypeOK' /\ ReplayOK'
    BY <1>t, <2>1 DEF TypeOK, ReplayOK
  <2>3. \A n \in Readers : ReaderOK(n)'
    BY <2>1, PlaceStays DEF Place
  <2>4. QED BY <2>2, <2>3 DEF PathInv
<1>4. QED BY <1>1, <1>2, <1>3, NextActs

\* The topics, readers, records and counters of the failure path keep their types.
THEOREM TypeCorrect == Spec => []TypeOK
<1>1. PathInv => TypeOK
  BY DEF PathInv
<1>2. QED BY <1>1, PathInit, PathStep, PTL DEF Spec

\* However fast the services fail again what a run of dlq_replay puts back, the run puts
\* back no more than the topic held when it started: it reads to the watermark
\* snapshot_topic took, which never lies past the topic's end.
THEOREM ReplayStaysBounded == Spec => []ReplayIsBounded
<1>1. PathInv => ReplayIsBounded
  <2> SUFFICES ASSUME PathInv PROVE ReplayIsBounded
    OBVIOUS
  <2>1. replay.published \in Nat /\ replay.next \in Nat /\ replay.end \in Nat
    BY DEF PathInv, TypeOK
  <2>2. QED BY <2>1 DEF PathInv, ReplayOK, ReplayIsBounded
<1>2. QED BY <1>1, PathInit, PathStep, PTL DEF Spec

-----------------------------------------------------------------------------
(* Nothing falls between the topics.                                       *)

\* The only ways a reader gets past a message: it skips or handles it, its failure
\* record is acknowledged, or the worker's release is not and it reads on.
LEMMA FrontMoves ==
  ASSUME PathInv, NEW r \in Readers, Acts(r)
  PROVE  /\ Front(r) \in Nat /\ Front(r)' \in Nat
         /\ \/ Front(r)' <= Front(r)
            \/ /\ Front(r)' = Front(r) + 1 /\ r \in Services /\ Front(r) = position[r]
               /\ SkipOthers(r) \/ HandleOk(r)
            \/ /\ Front(r)' = Front(r) + 1 /\ Front(r) = hand[r].offset
               /\ pc[r] = "publish" /\ Lands(r)
               /\ UNCHANGED disruptions
            \/ /\ Front(r)' = Front(r) + 1 /\ Front(r) = hand[r].offset
               /\ PublishFails(r) /\ hand[r].route = "source" /\ pc[r] = "publish"
<1>1. /\ hand[r].offset \in Nat /\ position[r] \in Nat /\ committed[r] \in Nat /\ ReaderOK(r) /\ TypeOK
      /\ pc[r] \in {"poll", "publish", "commit"}
  BY DEF PathInv, TypeOK
<1> USE DEF Front
<1>2. CASE r \in Services /\ ServiceStep(r)
  <2>1. CASE SkipOthers(r) \/ HandleOk(r)
    <3>1. /\ pc[r] = "poll" /\ position'[r] = position[r] + 1 /\ pc'[r] = "commit"
      BY <1>1, <2>1 DEF SkipOthers, HandleOk, Take, Goto, CanRead, TypeOK
    <3>2. QED BY <1>1, <1>2, <2>1, <3>1
  <2>2. ASSUME NEW retryable \in BOOLEAN, HandleFails(r, retryable)
        PROVE  pc[r] = "poll" /\ pc'[r] = "publish"
    BY <1>1, <2>2 DEF HandleFails, Goto, CanRead, TypeOK
  <2>3. CASE \E retryable \in BOOLEAN : HandleFails(r, retryable)
    <3>1. PICK route \in {"none", "retry", "exhausted", "poison"} : Reads(r, route)
      BY <1>1, <1>2, ServiceReads
    <3>2. hand'[r].offset = position[r]
      BY <3>1 DEF Reads
    <3>3. QED BY <1>1, <2>2, <2>3, <3>2
  <2>4. QED BY <1>2, <2>1, <2>3 DEF ServiceStep
<1>3. CASE r = Worker /\ WorkerStep
  <2>1. CASE UNCHANGED Place(Worker)
    BY <1>1, <1>3, <2>1 DEF Place
  <2>2. CASE /\ Reads(Worker, WorkerRoute(retry[position[Worker] + 1]))
             /\ pc'[Worker] = "publish"
    <3>1. hand'[Worker].offset = position[Worker] /\ pc[Worker] = "poll"
      BY <2>2 DEF Reads
    <3>2. QED BY <1>1, <1>3, <2>2, <3>1
  <2>3. QED BY <1>1, <1>3, <2>1, <2>2, WorkerMoves
<1>4. CASE Settle(r) \/ PublishFails(r) \/ CommitRejected(r) \/ Restart(r)
  <2>1. \/ /\ pc[r] = "publish" /\ Lands(r) /\ pc'[r] = "commit" /\ UNCHANGED disruptions
           /\ UNCHANGED <<committed[r], position[r], hand[r]>>
        \/ /\ PublishFails(r) /\ pc[r] = "publish" /\ pc'[r] = "poll"
           /\ position'[r] = IF hand[r].route = "source" THEN position[r] ELSE hand[r].offset
           /\ UNCHANGED <<committed[r], hand[r]>>
        \/ /\ pc[r] = "commit" /\ pc'[r] = "poll" /\ UNCHANGED <<position[r], hand[r]>>
        \/ /\ pc'[r] = "poll" /\ position'[r] = committed[r]
           /\ UNCHANGED <<committed[r], hand[r]>>
    <3>1. PublishAcknowledged(r) => UNCHANGED disruptions
      BY DEF PublishAcknowledged
    <3>2. QED BY <1>1, <1>4, <3>1, SettleMoves
  <2>2. QED BY <1>1, <2>1 DEF ReaderOK, HandOK, FrontOK
<1>5. QED BY <1>2, <1>3, <1>4 DEF Acts

\* A copy that no front has got past is still ahead of it.
LEMMA StillAhead ==
  ASSUME PathInv, [Next]_vars, NEW s \in Services, NEW e \in Events, Underway(s, e)
  PROVE  \/ Underway(s, e)'
         \/ \E o \in Front(s) .. Front(s)' - 1 : o < Len(source) /\ OnSource(s, e, o)
         \/ \E o \in Front(Worker) .. Front(Worker)' - 1 : o < Len(retry) /\ OnRetry(s, e, o)
<1>1. /\ Front(s) \in Nat /\ Front(Worker) \in Nat /\ Front(s)' \in Nat /\ Front(Worker)' \in Nat
  <2>1. s \in Readers /\ Worker \in Readers /\ TypeOK /\ TypeOK'
    BY PathStep, WorkerIsNoService DEF PathInv
  <2>2. QED BY <2>1 DEF Front, TypeOK
<1>2. /\ Len(source) \in Nat /\ Len(source') \in Nat /\ Len(source) <= Len(source')
      /\ Len(retry) \in Nat /\ Len(retry') \in Nat /\ Len(retry) <= Len(retry')
      /\ \A i \in 1 .. Len(source) : source'[i] = source[i]
      /\ \A i \in 1 .. Len(retry) : retry'[i] = retry[i]
      /\ ends[s][e] \in Nat /\ ends'[s][e] \in Nat /\ ends[s][e] <= ends'[s][e]
  <2>1. Len(Topic(s)) = Len(source) /\ Len(Topic(Worker)) = Len(retry)
        /\ Len(Topic(s)') = Len(source') /\ Len(Topic(Worker)') = Len(retry')
    BY WorkerIsNoService DEF Topic
  <2>2. ends \in [Services -> [Events -> Nat]]
    BY DEF PathInv, TypeOK
  <2>3. ends' \in [Services -> [Events -> Nat]] /\ ends[s][e] <= ends'[s][e]
    BY TopicsGrow
  <2>4. /\ Len(source) \in Nat /\ Len(source') \in Nat /\ Len(source) <= Len(source')
        /\ Len(retry) \in Nat /\ Len(retry') \in Nat /\ Len(retry) <= Len(retry')
    BY <2>1, LengthsGrow
  <2>5. /\ \A i \in 1 .. Len(source) : source'[i] = source[i]
        /\ \A i \in 1 .. Len(retry) : retry'[i] = retry[i]
    BY TopicsGrow DEF Extends
  <2>6. QED BY <2>2, <2>3, <2>4, <2>5
<1>3. CASE ends[s][e] > 0
  BY <1>2, <1>3 DEF Underway
<1>4. ASSUME NEW o \in Front(s) .. Len(source) - 1, OnSource(s, e, o), ~ Underway(s, e)'
      PROVE  \E x \in Front(s) .. Front(s)' - 1 : x < Len(source) /\ OnSource(s, e, x)
  <2>1. o \in Nat /\ o + 1 \in 1 .. Len(source) /\ o < Len(source) /\ o <= Len(source') - 1
    BY <1>1, <1>2
  <2>2. OnSource(s, e, o)'
    BY <1>2, <1>4, <2>1 DEF OnSource
  <2>3. ~ (o \in Front(s)' .. Len(source') - 1)
    BY <1>4, <2>2 DEF Underway
  <2>4. o \in Front(s) .. Front(s)' - 1
    BY <1>1, <1>2, <2>1, <2>3
  <2>5. QED BY <1>4, <2>1, <2>4
<1>5. ASSUME NEW o \in Front(Worker) .. Len(retry) - 1, OnRetry(s, e, o), ~ Underway(s, e)'
      PROVE  \E x \in Front(Worker) .. Front(Worker)' - 1 : x < Len(retry) /\ OnRetry(s, e, x)
  <2>1. o \in Nat /\ o + 1 \in 1 .. Len(retry) /\ o < Len(retry) /\ o <= Len(retry') - 1
    BY <1>1, <1>2
  <2>2. OnRetry(s, e, o)'
    BY <1>2, <1>5, <2>1 DEF OnRetry
  <2>3. ~ (o \in Front(Worker)' .. Len(retry') - 1)
    BY <1>5, <2>2 DEF Underway
  <2>4. o \in Front(Worker) .. Front(Worker)' - 1
    BY <1>1, <1>2, <2>1, <2>3
  <2>5. QED BY <1>5, <2>1, <2>4
<1>6. QED BY <1>3, <1>4, <1>5 DEF Underway

\* What a service gets past has ended, or goes on by the retry topic.
LEMMA ServicePasses ==
  ASSUME PathInv, Next, NEW s \in Services, NEW e \in Events, Acts(s),
         Front(s)' = Front(s) + 1, OnSource(s, e, Front(s))
  PROVE  Underway(s, e)'
<1>0. /\ s \in Readers /\ Worker \in Readers /\ s # Worker /\ TypeOK
      /\ ends \in [Services -> [Events -> Nat]]
  BY WorkerIsNoService DEF PathInv, TypeOK
<1>1. ASSUME ends' = Count(ends, s, e) PROVE Underway(s, e)'
  <2>1. ends[s][e] \in Nat /\ ends'[s][e] = ends[s][e] + 1
    BY <1>0, <1>1, CountType
  <2>2. ends'[s][e] > 0
    BY <2>1
  <2>3. QED BY <2>2 DEF Underway
<1>2. CASE Front(s) = position[s] /\ (SkipOthers(s) \/ HandleOk(s))
  <2>1. Upcoming(s).event = e /\ for_us(s, Upcoming(s))
    BY <1>2 DEF Upcoming, OnSource, for_us
  <2>2. HandleOk(s)
    BY <1>2, <2>1 DEF SkipOthers
  <2>3. ends' = Count(ends, s, e)
    BY <2>1, <2>2 DEF HandleOk
  <2>4. QED BY <1>1, <2>3
<1>3. CASE Front(s) = hand[s].offset /\ pc[s] = "publish" /\ Lands(s)
  <2>1. ServiceLands(s) /\ source[hand[s].offset + 1].event = e
    BY <1>0, <1>3 DEF Lands, OnSource
  <2>2. CASE \E rec \in DeadLetter :
               /\ rec.event = source[hand[s].offset + 1].event
               /\ dlq' = Append(dlq, rec) /\ retry' = retry
               /\ ends' = Count(ends, s, rec.event)
    BY <1>1, <2>1, <2>2
  <2>3. ASSUME NEW rec \in RetryRecord,
               rec.event = e, rec.service = s, rec.origin.topic = "source",
               retry' = Append(retry, rec)
        PROVE  Underway(s, e)'
    <3>1. retry \in Seq(RetryRecord)
      BY <1>0 DEF TypeOK
    <3>2. Len(retry) \in Nat /\ Len(retry') = Len(retry) + 1 /\ retry'[Len(retry) + 1] = rec
      BY <2>3, <3>1
    <3>3. Front(Worker)' = Front(Worker) /\ Front(Worker) \in Nat /\ Front(Worker) <= Len(retry)
      <4>1. UNCHANGED Place(Worker)
        BY <1>0, OthersStay
      <4>2. ReaderOK(Worker)
        BY <1>0 DEF PathInv
      <4>3. QED BY <1>0, <4>1, <4>2 DEF Place, Front, ReaderOK, FrontOK, Topic, TypeOK
    <3>4. PICK n \in Nat : n = Len(retry)
      BY <3>2
    <3>5. OnRetry(s, e, n)' /\ n \in Front(Worker)' .. Len(retry') - 1
      BY <2>3, <3>2, <3>3, <3>4 DEF OnRetry
    <3>6. QED BY <3>5 DEF Underway
  <2>4. QED BY <1>3, <2>1, <2>2, <2>3, ServicePublishes
<1>4. CASE PublishFails(s) /\ hand[s].route = "source" /\ pc[s] = "publish"
  <2>1. HandOK(s)
    BY <1>0 DEF PathInv, ReaderOK
  <2>2. QED BY <1>0, <1>4, <2>1 DEF HandOK
<1>5. Front(s) \in Nat
  BY <1>0, FrontMoves
<1>6. QED BY <1>0, <1>2, <1>3, <1>4, <1>5, FrontMoves

\* What the worker gets past is dead-lettered, or back on the source topic: the only
\* records it may lose, when a release fails, are those that go back to a topic a
\* publication to which may fail.
LEMMA WorkerPasses ==
  ASSUME PathInv, Next, NEW s \in Services, NEW e \in Events, Acts(Worker),
         Front(Worker)' = Front(Worker) + 1, OnRetry(s, e, Front(Worker)),
         "source" \notin FailingTopics
  PROVE  Underway(s, e)'
<1>0. /\ s \in Readers /\ Worker \in Readers /\ s # Worker /\ TypeOK /\ Worker \notin Services
      /\ ends \in [Services -> [Events -> Nat]]
  BY WorkerIsNoService DEF PathInv, TypeOK
<1>1. CASE Front(Worker) = hand[Worker].offset /\ pc[Worker] = "publish" /\ Lands(Worker)
  <2>1. PICK old \in RetryRecord :
           /\ old = retry[hand[Worker].offset + 1]
           /\ \/ /\ hand[Worker].route = "source" /\ old.origin.topic = "source"
                 /\ \E rec \in SourceRecord :
                      /\ rec.event = old.event /\ rec.target = old.service
                      /\ source' = Append(source, rec)
                 /\ UNCHANGED <<retry, dlq, ends>>
              \/ /\ hand[Worker].route = "source" /\ old.origin.topic = "retry"
                 /\ \E rec \in RetryRecord :
                      /\ rec.event = old.event /\ rec.service = old.service
                      /\ retry' = Append(retry, rec)
                 /\ UNCHANGED <<source, dlq, ends>>
              \/ /\ hand[Worker].route = "poison"
                 /\ \E rec \in DeadLetter : dlq' = Append(dlq, rec)
                 /\ ends' = Count(ends, old.service, old.event)
                 /\ UNCHANGED <<source, retry>>
    BY <1>1, WorkerPublishes DEF Lands
  <2>2. old.event = e /\ old.service = s /\ old.origin.topic = "source"
    BY <1>1, <2>1 DEF OnRetry
  <2>3. CASE ends' = Count(ends, old.service, old.event)
    <3>1. ends[s][e] \in Nat /\ ends'[s][e] = ends[s][e] + 1
      BY <1>0, <2>2, <2>3, CountType
    <3>2. ends'[s][e] > 0
      BY <3>1
    <3>3. QED BY <3>2 DEF Underway
  <2>4. ASSUME NEW rec \in SourceRecord, rec.event = e, rec.target = s,
               source' = Append(source, rec)
        PROVE  Underway(s, e)'
    <3>1. source \in Seq(SourceRecord)
      BY <1>0 DEF TypeOK
    <3>2. Len(source) \in Nat /\ Len(source') = Len(source) + 1 /\ source'[Len(source) + 1] = rec
      BY <2>4, <3>1
    <3>3. Front(s)' = Front(s) /\ Front(s) \in Nat /\ Front(s) <= Len(source)
      <4>1. UNCHANGED Place(s)
        BY <1>0, OthersStay
      <4>2. ReaderOK(s)
        BY <1>0 DEF PathInv
      <4>3. QED BY <1>0, <4>1, <4>2 DEF Place, Front, ReaderOK, FrontOK, Topic, TypeOK
    <3>4. PICK n \in Nat : n = Len(source)
      BY <3>2
    <3>5. OnSource(s, e, n)' /\ n \in Front(s)' .. Len(source') - 1
      BY <2>4, <3>2, <3>3, <3>4 DEF OnSource
    <3>6. QED BY <3>5 DEF Underway
  <2>5. QED BY <2>1, <2>2, <2>3, <2>4
<1>2. CASE /\ PublishFails(Worker) /\ hand[Worker].route = "source"
           /\ Front(Worker) = hand[Worker].offset
  BY <1>2 DEF PublishFails, Destination, OnRetry
<1>3. Front(Worker) \in Nat
  BY <1>0, FrontMoves
<1>4. QED BY <1>0, <1>1, <1>2, <1>3, FrontMoves

LEMMA KeptInit == Init => KeptInv
<1> SUFFICES ASSUME Init, NEW s \in Services, NEW e \in Events PROVE Underway(s, e)
  BY PathInit DEF KeptInv
<1>1. Published \in Nat /\ e \in Nat /\ e >= 1 /\ e <= Published
  BY PathAssumption DEF Events
<1>2. source = [i \in 1 .. Published |-> [event |-> i, target |-> NoService, attempt |-> 1]]
  BY DEF Init, Events
<1>3. Len(source) = Published
  BY <1>1, <1>2
<1>4. Front(s) = 0
  BY WorkerIsNoService DEF Init, Front
<1>5. PICK o \in Nat : o = e - 1
  BY <1>1
<1>6. OnSource(s, e, o) /\ o \in Front(s) .. Len(source) - 1
  BY <1>1, <1>2, <1>3, <1>4, <1>5 DEF OnSource
<1>7. QED BY <1>6 DEF Underway

LEMMA KeptStep ==
  ASSUME "source" \notin FailingTopics
  PROVE  KeptInv /\ [Next]_vars => KeptInv'
<1> SUFFICES ASSUME KeptInv, [Next]_vars, NEW s \in Services, NEW e \in Events
             PROVE  Underway(s, e)'
  BY PathStep DEF KeptInv
<1>0. /\ PathInv /\ Underway(s, e) /\ TypeOK
      /\ s \in Readers /\ Worker \in Readers /\ s # Worker
  BY WorkerIsNoService DEF KeptInv, PathInv
<1>1. ASSUME NEW r \in Readers, Front(r)' > Front(r)
      PROVE  Front(r) \in Nat /\ Acts(r) /\ Next /\ Front(r)' = Front(r) + 1
  <2>0. Front(r) \in Nat
    BY <1>0 DEF Front, TypeOK
  <2>1. ASSUME UNCHANGED Place(r) PROVE FALSE
    BY <1>1, <2>0, <2>1 DEF Place, Front
  <2>2. CASE Replay \/ BackoffEnds \/ UNCHANGED vars
    <3>1. UNCHANGED <<committed, position, pc, hand>>
      BY <1>0, <2>2, ReplayGrows DEF BackoffEnds, vars
    <3>2. QED BY <2>1, <3>1 DEF Place
  <2>3. ASSUME NEW n \in Readers, Acts(n) PROVE Acts(r) /\ Next
    BY <1>0, <2>1, <2>3, OthersStay, NextActs
  <2>4. Acts(r) /\ Next
    BY <2>2, <2>3, NextActs
  <2>5. QED BY <1>0, <1>1, <2>0, <2>4, FrontMoves
<1>2. ASSUME NEW o \in Front(s) .. Front(s)' - 1, OnSource(s, e, o)
      PROVE  Underway(s, e)'
  <2>1. Front(s) \in Nat /\ Front(s)' \in Nat
    <3>1. TypeOK'
      BY <1>0, PathStep DEF PathInv
    <3>2. QED BY <1>0, <3>1 DEF Front, TypeOK
  <2>2. Front(s)' > Front(s)
    BY <2>1
  <2>3. Acts(s) /\ Next /\ Front(s)' = Front(s) + 1 /\ o = Front(s)
    BY <1>0, <1>1, <2>1, <2>2
  <2>4. QED BY <1>0, <1>2, <2>3, ServicePasses
<1>3. ASSUME NEW o \in Front(Worker) .. Front(Worker)' - 1, OnRetry(s, e, o)
      PROVE  Underway(s, e)'
  <2>1. Front(Worker) \in Nat /\ Front(Worker)' \in Nat
    <3>1. TypeOK'
      BY <1>0, PathStep DEF PathInv
    <3>2. QED BY <1>0, <3>1 DEF Front, TypeOK
  <2>2. Front(Worker)' > Front(Worker)
    BY <2>1
  <2>3. Acts(Worker) /\ Next /\ Front(Worker)' = Front(Worker) + 1 /\ o = Front(Worker)
    BY <1>0, <1>1, <2>1, <2>2
  <2>4. QED BY <1>0, <1>3, <2>3, WorkerPasses
<1>4. QED BY <1>0, <1>2, <1>3, StillAhead

\* As long as a release to the source topic is acknowledged, no service ever loses an event
\* between the topics: whatever fails, restarts or is put back, the event has ended for the
\* service or a copy for it is ahead of a committed offset.  (RetryWorker._release reads on
\* after a publication that failed, hence the hypothesis; the run
\* RetryPath_failed_release shows that it cannot go.)
THEOREM NoEventIsLost ==
  ASSUME "source" \notin FailingTopics
  PROVE  Spec => []NothingFallsBetweenTopics
<1>1. KeptInv => NothingFallsBetweenTopics
  <2> SUFFICES ASSUME KeptInv, NEW s \in Services, NEW e \in Events
               PROVE  \/ ends[s][e] > 0
                      \/ \E o \in committed[s] .. Len(source) - 1 :
                           source[o + 1].event = e /\ source[o + 1].target \in {NoService, s}
                      \/ \E o \in committed[Worker] .. Len(retry) - 1 :
                           retry[o + 1].event = e /\ retry[o + 1].service = s
    BY DEF NothingFallsBetweenTopics
  <2>1. /\ s \in Readers /\ Worker \in Readers /\ TypeOK /\ ReaderOK(s) /\ ReaderOK(Worker)
        /\ Underway(s, e)
    BY WorkerIsNoService DEF KeptInv, PathInv
  <2>2. /\ committed[s] \in Nat /\ committed[Worker] \in Nat /\ Front(s) \in Nat
        /\ Front(Worker) \in Nat /\ Len(source) \in Nat /\ Len(retry) \in Nat
    BY <2>1, SMTT(30) DEF TypeOK, Front
  <2>3. committed[s] <= Front(s) /\ committed[Worker] <= Front(Worker)
    BY <2>1 DEF ReaderOK, FrontOK
  <2>4. /\ \A o \in Front(s) .. Len(source) - 1 : o \in committed[s] .. Len(source) - 1
        /\ \A o \in Front(Worker) .. Len(retry) - 1 : o \in committed[Worker] .. Len(retry) - 1
    BY <2>2, <2>3
  <2>5. QED BY <2>1, <2>4 DEF Underway, OnSource, OnRetry
<1>2. QED BY <1>1, KeptInit, KeptStep, PTL DEF Spec

-----------------------------------------------------------------------------
(* Nothing ends twice for a service but at somebody's expense.             *)

\* The strays on the retry topic are of no published event for a registered service.
NoFreeRetries ==
  \A i \in DOMAIN Strays : Strays[i].event \notin Events \/ Strays[i].service \notin Services

LEMMA OffsetsFinite ==
  ASSUME NEW a \in Nat, NEW b \in Nat
  PROVE  IsFiniteSet(a .. b - 1)
  BY FS_Interval

LEMMA RemoveOne ==
  ASSUME NEW A, IsFiniteSet(A), NEW x \in A
  PROVE  /\ IsFiniteSet(A \ {x}) /\ Cardinality(A \ {x}) + 1 = Cardinality(A)
         /\ Cardinality(A \ {x}) \in Nat
<1>1. IsFiniteSet(A \ {x}) /\ Cardinality(A \ {x}) = Cardinality(A) - 1
  BY FS_RemoveElement
<1>2. Cardinality(A) \in Nat /\ Cardinality(A \ {x}) \in Nat
  BY <1>1, FS_CardinalityType
<1>3. QED BY <1>1, <1>2

LEMMA Sizes ==
  ASSUME NEW A, IsFiniteSet(A), NEW B
  PROVE  /\ Cardinality(A) \in Nat
         /\ B \subseteq A => IsFiniteSet(B) /\ Cardinality(B) <= Cardinality(A)
         /\ \A y : B \subseteq A \cup {y} =>
              IsFiniteSet(B) /\ Cardinality(B) <= Cardinality(A) + 1
         /\ \A x \in A : B \subseteq A \ {x} =>
              IsFiniteSet(B) /\ Cardinality(B) + 1 <= Cardinality(A)
         /\ \A x \in A : \A y : B \subseteq (A \ {x}) \cup {y} =>
              IsFiniteSet(B) /\ Cardinality(B) <= Cardinality(A)
<1>1. Cardinality(A) \in Nat
  BY FS_CardinalityType
<1>2. ASSUME NEW C, IsFiniteSet(C), B \subseteq C
      PROVE  IsFiniteSet(B) /\ Cardinality(B) \in Nat /\ Cardinality(B) <= Cardinality(C)
  BY <1>2, FS_Subset, FS_CardinalityType
<1>3. ASSUME NEW C, IsFiniteSet(C), NEW y
      PROVE  /\ IsFiniteSet(C \cup {y}) /\ Cardinality(C \cup {y}) <= Cardinality(C) + 1
             /\ Cardinality(C) \in Nat /\ Cardinality(C \cup {y}) \in Nat
  <2>1. Cardinality(C) \in Nat
    BY <1>3, FS_CardinalityType
  <2>2. /\ IsFiniteSet(C \cup {y})
        /\ Cardinality(C \cup {y}) \in {Cardinality(C), Cardinality(C) + 1}
    <3>1. CASE y \in C
      <4>1. C \cup {y} = C
        BY <3>1
      <4>2. QED BY <1>3, <4>1
    <3>2. CASE y \notin C
      BY <1>3, <3>2, FS_AddElement
    <3>3. QED BY <3>1, <3>2
  <2>3. QED BY <2>1, <2>2
<1>4. ASSUME NEW x \in A
      PROVE  /\ IsFiniteSet(A \ {x}) /\ Cardinality(A \ {x}) + 1 = Cardinality(A)
             /\ Cardinality(A \ {x}) \in Nat
  BY <1>4, RemoveOne
<1>5. B \subseteq A => IsFiniteSet(B) /\ Cardinality(B) <= Cardinality(A)
  BY <1>2
<1>6. ASSUME NEW y, B \subseteq A \cup {y}
      PROVE  IsFiniteSet(B) /\ Cardinality(B) <= Cardinality(A) + 1
  <2>1. /\ IsFiniteSet(A \cup {y}) /\ Cardinality(A \cup {y}) <= Cardinality(A) + 1
        /\ Cardinality(A \cup {y}) \in Nat
    BY <1>3
  <2>2. IsFiniteSet(B) /\ Cardinality(B) \in Nat /\ Cardinality(B) <= Cardinality(A \cup {y})
    BY <1>2, <1>6, <2>1
  <2>3. QED BY <1>1, <2>1, <2>2
<1>7. ASSUME NEW x \in A, B \subseteq A \ {x}
      PROVE  IsFiniteSet(B) /\ Cardinality(B) + 1 <= Cardinality(A)
  <2>1. IsFiniteSet(B) /\ Cardinality(B) \in Nat /\ Cardinality(B) <= Cardinality(A \ {x})
    BY <1>2, <1>4, <1>7
  <2>2. QED BY <1>1, <1>4, <2>1
<1>8. ASSUME NEW x \in A, NEW y, B \subseteq (A \ {x}) \cup {y}
      PROVE  IsFiniteSet(B) /\ Cardinality(B) <= Cardinality(A)
  <2>1. PICK C : C = A \ {x}
    OBVIOUS
  <2>2. IsFiniteSet(C) /\ Cardinality(C) + 1 = Cardinality(A) /\ Cardinality(C) \in Nat
    BY <1>4, <2>1
  <2>3. /\ IsFiniteSet(C \cup {y}) /\ Cardinality(C \cup {y}) <= Cardinality(C) + 1
        /\ Cardinality(C \cup {y}) \in Nat
    BY <1>3, <2>2
  <2>4. IsFiniteSet(B) /\ Cardinality(B) \in Nat /\ Cardinality(B) <= Cardinality(C \cup {y})
    BY <1>2, <1>8, <2>1, <2>3
  <2>5. QED BY <1>1, <2>2, <2>3, <2>4
<1>9. QED BY <1>1, <1>5, <1>6, <1>7, <1>8

LEMMA CopiesFinite ==
  ASSUME PathInv, NEW s \in Services, NEW e
  PROVE  /\ IsFiniteSet(SourceCopies(s, e)) /\ IsFiniteSet(RetryCopies(s, e))
         /\ Cardinality(SourceCopies(s, e)) \in Nat /\ Cardinality(RetryCopies(s, e)) \in Nat
<1>1. ASSUME NEW r \in Readers PROVE IsFiniteSet(Window(r))
  <2>1. committed[r] \in Nat /\ Len(Topic(r)) \in Nat
    BY DEF PathInv, TypeOK, Topic
  <2>2. IsFiniteSet(committed[r] .. Len(Topic(r)) - 1)
    BY <2>1, OffsetsFinite
  <2>3. QED BY <2>2, FS_Subset DEF Window
<1>2. IsFiniteSet(SourceCopies(s, e)) /\ IsFiniteSet(RetryCopies(s, e))
  BY <1>1, WorkerIsNoService, FS_Subset DEF SourceCopies, RetryCopies
<1>3. QED BY <1>2, FS_CardinalityType

\* What is new on a reader's topic.
New(r) == Len(Topic(r)) .. Len(Topic(r)') - 1

\* How a reader's step changes the messages it has yet to deal with.
LEMMA WindowMoves ==
  ASSUME PathInv, Next, NEW r \in Readers, Acts(r)
  PROVE  \/ /\ r \in Services /\ (SkipOthers(r) \/ HandleOk(r))
            /\ position[r] \in Window(r) /\ Window(r)' \subseteq Window(r) \ {position[r]}
         \/ /\ PublishAcknowledged(r) /\ pc[r] = "publish"
            /\ hand[r].offset \in Window(r)
            /\ Window(r)' \subseteq (Window(r) \ {hand[r].offset}) \cup New(r)
         \/ PublishFails(r) /\ pc[r] = "publish" /\ Window(r)' \subseteq Window(r) \cup New(r)
         \/ /\ CommitRejected(r) \/ Restart(r)
            /\ UNCHANGED <<source, retry, dlq, ends>> /\ Disrupt
            /\ Window(r)' \subseteq Window(r) \cup {hand[r].offset}
         \/ /\ \/ r \in Services /\ \E retryable \in BOOLEAN : HandleFails(r, retryable)
               \/ r = Worker /\ WorkerStep
               \/ Commit(r)
            /\ UNCHANGED <<source, retry, dlq, ends, disruptions>>
            /\ Window(r)' \subseteq Window(r)
<1>1. /\ hand[r].offset \in Nat /\ position[r] \in Nat /\ committed[r] \in Nat /\ ReaderOK(r) /\ TypeOK
      /\ pc[r] \in {"poll", "publish", "commit"}
  BY DEF PathInv, TypeOK
<1>2. /\ Len(Topic(r)) \in Nat /\ Len(Topic(r)') \in Nat /\ Len(Topic(r)) <= Len(Topic(r)')
  BY LengthsGrow
<1>3. /\ \A o : o \in Window(r) <=>
             /\ o \in committed[r] .. Len(Topic(r)) - 1
             /\ ~ (pc[r] = "commit" /\ o = hand[r].offset)
      /\ \A o : o \in Window(r)' <=>
             /\ o \in committed'[r] .. Len(Topic(r)') - 1
             /\ ~ (pc'[r] = "commit" /\ o = hand'[r].offset)
      /\ \A o : o \in New(r) <=> o \in Len(Topic(r)) .. Len(Topic(r)') - 1
  <2>1. \A o : o \in Window(r) <=>
             /\ o \in committed[r] .. Len(Topic(r)) - 1
             /\ ~ (pc[r] = "commit" /\ o = hand[r].offset)
    BY Zenon DEF Window, Due
  <2>2. \A o : o \in Window(r)' <=>
             /\ o \in committed'[r] .. Len(Topic(r)') - 1
             /\ ~ (pc'[r] = "commit" /\ o = hand'[r].offset)
    BY Zenon DEF Window, Due
  <2>3. \A o : o \in New(r) <=> o \in Len(Topic(r)) .. Len(Topic(r)') - 1
    BY DEF New
  <2>4. QED BY <2>1, <2>2, <2>3
<1>4. CASE r \in Services /\ ServiceStep(r)
  <2>1. Topic(r)' = Topic(r)
    BY <1>1, <1>4, ServiceReads DEF Topic, topics
  <2>2. CASE SkipOthers(r) \/ HandleOk(r)
    <3>1. /\ pc[r] = "poll" /\ pc'[r] = "commit" /\ hand'[r].offset = position[r]
          /\ committed'[r] = committed[r] /\ position[r] < Len(source)
      BY <1>1, <2>2 DEF SkipOthers, HandleOk, Take, Goto, CanRead, TypeOK
    <3>2. Topic(r) = source /\ committed[r] <= position[r]
      BY <1>1, <1>4, <3>1, WorkerIsNoService DEF Topic, ReaderOK, FrontOK, Front
    <3>3. QED BY <1>1, <1>2, <1>3, <1>4, <2>1, <2>2, <3>1, <3>2
  <2>3. CASE \E retryable \in BOOLEAN : HandleFails(r, retryable)
    <3>1. /\ pc[r] = "poll" /\ pc'[r] = "publish" /\ committed'[r] = committed[r]
          /\ UNCHANGED <<source, retry, dlq, ends, disruptions>>
      BY <1>1, <2>3 DEF HandleFails, Goto, CanRead, TypeOK, topics, history
    <3>2. Window(r)' \subseteq Window(r)
      BY <1>3, <2>1, <3>1
    <3>3. QED BY <1>4, <2>3, <3>1, <3>2
  <2>4. QED BY <1>4, <2>2, <2>3 DEF ServiceStep
<1>5. CASE r = Worker /\ WorkerStep
  <2>1. UNCHANGED <<source, retry, dlq, ends, disruptions>> /\ Topic(r)' = Topic(r)
    <3>1. UNCHANGED <<topics, ends>>
      BY <1>1, <1>5, WorkerMoves
    <3>2. UNCHANGED disruptions
      BY <1>5 DEF WorkerStep, Defer, ResumeDue, WorkerTakes
    <3>3. QED BY <3>1, <3>2 DEF topics, Topic
  <2>2. CASE UNCHANGED Place(Worker)
    <3>1. Window(r)' \subseteq Window(r)
      BY <1>3, <1>5, <2>1, <2>2 DEF Place
    <3>2. QED BY <1>5, <2>1, <3>1
  <2>3. CASE /\ Reads(Worker, WorkerRoute(retry[position[Worker] + 1]))
             /\ pc'[Worker] = "publish"
    <3>1. pc[r] = "poll" /\ committed'[r] = committed[r]
      BY <1>5, <2>3 DEF Reads
    <3>2. Window(r)' \subseteq Window(r)
      BY <1>3, <1>5, <2>1, <2>3, <3>1
    <3>3. QED BY <1>5, <2>1, <3>2
  <2>4. QED BY <1>1, <1>5, <2>2, <2>3, WorkerMoves
<1>6. CASE PublishAcknowledged(r)
  <2>1. /\ pc[r] = "publish" /\ pc'[r] = "commit" /\ committed' = committed /\ hand' = hand
    BY <1>1, <1>6 DEF PublishAcknowledged, Goto, TypeOK
  <2>2. committed[r] <= hand[r].offset /\ hand[r].offset < Len(Topic(r))
    BY <1>1, <2>1 DEF ReaderOK, HandOK, FrontOK, Front
  <2>3. hand[r].offset \in Window(r)
    BY <1>1, <1>2, <1>3, <2>1, <2>2
  <2>4. Window(r)' \subseteq (Window(r) \ {hand[r].offset}) \cup New(r)
    BY <1>1, <1>2, <1>3, <2>1
  <2>5. QED BY <1>6, <2>1, <2>3, <2>4
<1>7. CASE PublishFails(r)
  <2>1. pc[r] = "publish" /\ pc'[r] = "poll" /\ committed' = committed
    BY <1>1, <1>7 DEF PublishFails, Goto, TypeOK
  <2>2. Window(r)' \subseteq Window(r) \cup New(r)
    BY <1>1, <1>2, <1>3, <2>1
  <2>3. QED BY <1>7, <2>1, <2>2
<1>8. CASE Commit(r)
  <2>1. /\ pc[r] = "commit" /\ pc'[r] = "poll" /\ committed'[r] = hand[r].offset + 1
        /\ UNCHANGED <<source, retry, dlq, ends, disruptions>> /\ Topic(r)' = Topic(r)
    BY <1>1, <1>8 DEF Commit, Goto, TypeOK, topics, history, Topic
  <2>2. committed[r] <= hand[r].offset + 1
    BY <1>1, <2>1 DEF ReaderOK, HandOK, FrontOK, Front
  <2>3. Window(r)' \subseteq Window(r)
    BY <1>1, <1>2, <1>3, <2>1, <2>2
  <2>4. QED BY <1>8, <2>1, <2>3
<1>9. CASE CommitRejected(r) \/ Restart(r)
  <2>1. /\ pc'[r] = "poll" /\ committed' = committed /\ Disrupt
        /\ UNCHANGED <<source, retry, dlq, ends>> /\ Topic(r)' = Topic(r)
    BY <1>1, <1>9 DEF CommitRejected, Restart, Goto, TypeOK, topics, history, Topic
  <2>2. Window(r)' \subseteq Window(r) \cup {hand[r].offset}
    BY <1>1, <1>2, <1>3, <2>1
  <2>3. QED BY <1>9, <2>1, <2>2
<1>10. QED BY <1>4, <1>5, <1>6, <1>7, <1>8, <1>9 DEF Acts, Settle

LEMMA WindowStays ==
  ASSUME PathInv, [Next]_vars, NEW n \in Readers, UNCHANGED Place(n)
  PROVE  Window(n)' \subseteq Window(n) \cup New(n)
<1>1. committed[n] \in Nat /\ Len(Topic(n)) \in Nat /\ Len(Topic(n)') \in Nat
  BY LengthsGrow DEF PathInv, TypeOK
<1>2. QED BY <1>1 DEF Window, Due, New, Place

\* The copies of an event after a step, from the window and what was appended.
LEMMA SourceBound ==
  ASSUME PathInv, [Next]_vars, NEW s \in Services, NEW e \in Events,
         NEW X \in SUBSET Window(s), NEW Y, Window(s)' \subseteq X \cup New(s) \cup Y
  PROVE  /\ source' = source => SourceCopies(s, e)' \subseteq (SourceCopies(s, e) \cap X) \cup Y
         /\ \A rec \in SourceRecord : source' = Append(source, rec) =>
              /\ SourceCopies(s, e)' \subseteq (SourceCopies(s, e) \cap X) \cup Y \cup {Len(source)}
              /\ ~ (rec.event = e /\ rec.target \in {NoService, s}) =>
                   SourceCopies(s, e)' \subseteq (SourceCopies(s, e) \cap X) \cup Y
<1>1. /\ source \in Seq(SourceRecord) /\ Len(source) \in Nat
      /\ s \in Readers /\ committed[s] \in Nat /\ Topic(s) = source /\ Topic(s)' = source'
      /\ \A i \in 1 .. Len(source) : source'[i] = source[i]
  <2>1. source \in Seq(SourceRecord) /\ s \in Readers /\ committed[s] \in Nat
    BY WorkerIsNoService DEF PathInv, TypeOK
  <2>2. Topic(s) = source /\ Topic(s)' = source'
    BY WorkerIsNoService DEF Topic
  <2>3. \A i \in 1 .. Len(source) : source'[i] = source[i]
    BY TopicsGrow DEF Extends
  <2>4. QED BY <2>1, <2>2, <2>3
<1>2. ASSUME NEW o \in Window(s), OnSource(s, e, o)' PROVE OnSource(s, e, o)
  <2>1. o + 1 \in 1 .. Len(source)
    BY <1>1 DEF Window
  <2>2. QED BY <1>1, <1>2, <2>1 DEF OnSource
<1>3. ASSUME NEW o \in SourceCopies(s, e)'
      PROVE  /\ OnSource(s, e, o)' /\ o \in X \cup New(s) \cup Y
             /\ o \in X => o \in SourceCopies(s, e) \cap X
  <2>1. o \in Window(s)' /\ OnSource(s, e, o)'
    BY <1>3 DEF SourceCopies
  <2>2. QED BY <1>2, <2>1 DEF SourceCopies
<1>4. ASSUME source' = source PROVE New(s) = {}
  BY <1>1, <1>4 DEF New
<1>5. ASSUME NEW rec \in SourceRecord, source' = Append(source, rec)
      PROVE  New(s) = {Len(source)} /\ source'[Len(source) + 1] = rec
  BY <1>1, <1>5 DEF New
<1>6. ASSUME NEW rec \in SourceRecord, source' = Append(source, rec),
             ~ (rec.event = e /\ rec.target \in {NoService, s}),
             NEW o \in SourceCopies(s, e)', o = Len(source)
      PROVE  FALSE
  BY <1>3, <1>5, <1>6 DEF OnSource
<1>7. QED BY <1>3, <1>4, <1>5, <1>6

LEMMA RetryBound ==
  ASSUME PathInv, [Next]_vars, NEW s \in Services, NEW e \in Events,
         NEW X \in SUBSET Window(Worker), NEW Y, Window(Worker)' \subseteq X \cup New(Worker) \cup Y
  PROVE  /\ retry' = retry => RetryCopies(s, e)' \subseteq (RetryCopies(s, e) \cap X) \cup Y
         /\ \A rec \in RetryRecord : retry' = Append(retry, rec) =>
              /\ RetryCopies(s, e)' \subseteq (RetryCopies(s, e) \cap X) \cup Y \cup {Len(retry)}
              /\ ~ (rec.event = e /\ rec.service = s) =>
                   RetryCopies(s, e)' \subseteq (RetryCopies(s, e) \cap X) \cup Y
<1>1. /\ retry \in Seq(RetryRecord) /\ Len(retry) \in Nat
      /\ Worker \in Readers /\ committed[Worker] \in Nat /\ Topic(Worker) = retry
      /\ Topic(Worker)' = retry'
      /\ \A i \in 1 .. Len(retry) : retry'[i] = retry[i]
  <2>1. retry \in Seq(RetryRecord) /\ Worker \in Readers /\ committed[Worker] \in Nat
    BY WorkerIsNoService DEF PathInv, TypeOK
  <2>2. Topic(Worker) = retry /\ Topic(Worker)' = retry'
    BY DEF Topic
  <2>3. \A i \in 1 .. Len(retry) : retry'[i] = retry[i]
    BY TopicsGrow DEF Extends
  <2>4. QED BY <2>1, <2>2, <2>3
<1>2. ASSUME NEW o \in Window(Worker) PROVE retry'[o + 1] = retry[o + 1]
  <2>1. o + 1 \in 1 .. Len(retry)
    BY <1>1 DEF Window
  <2>2. QED BY <1>1, <2>1
<1>3. ASSUME NEW o \in RetryCopies(s, e)'
      PROVE  /\ retry'[o + 1].event = e /\ retry'[o + 1].service = s
             /\ o \in X \cup New(Worker) \cup Y
             /\ o \in X => o \in RetryCopies(s, e) \cap X
  <2>1. o \in Window(Worker)' /\ retry'[o + 1].event = e /\ retry'[o + 1].service = s
    BY <1>3 DEF RetryCopies
  <2>2. QED BY <1>2, <2>1 DEF RetryCopies
<1>4. ASSUME retry' = retry PROVE New(Worker) = {}
  BY <1>1, <1>4 DEF New
<1>5. ASSUME NEW rec \in RetryRecord, retry' = Append(retry, rec)
      PROVE  New(Worker) = {Len(retry)} /\ retry'[Len(retry) + 1] = rec
  BY <1>1, <1>5 DEF New
<1>6. ASSUME NEW rec \in RetryRecord, retry' = Append(retry, rec),
             ~ (rec.event = e /\ rec.service = s),
             NEW o \in RetryCopies(s, e)', o = Len(retry)
      PROVE  FALSE
  BY <1>3, <1>5, <1>6
<1>7. QED BY <1>3, <1>4, <1>5, <1>6

LEMMA OwnStep ==
  ASSUME PathInv, [Next]_vars, NEW n \in Readers, HandedOwn(n)
  PROVE  HandedOwn(n)'
<1>0. TypeOK
  BY DEF PathInv
<1> SUFFICES ASSUME pc'[n] = "publish" PROVE HandedOwn(n)'
  BY DEF HandedOwn
<1>1. CASE UNCHANGED Place(n)
  <2>1. pc[n] = "publish" /\ hand'[n] = hand[n]
    BY <1>1 DEF Place
  <2>2. hand[n].offset + 1 \in 1 .. Len(Topic(n))
    BY <2>1, RecordInHand
  <2>3. Extends(source, source') /\ Extends(retry, retry')
    BY TopicsGrow
  <2>4. /\ n = Worker => retry'[hand[n].offset + 1] = retry[hand[n].offset + 1]
        /\ n # Worker => source'[hand[n].offset + 1] = source[hand[n].offset + 1]
    BY <2>2, <2>3 DEF Extends, Topic
  <2>5. QED BY <2>1, <2>4 DEF HandedOwn
<1>2. CASE n \in Services /\ ServiceStep(n)
  <2>1. PICK retryable \in BOOLEAN : HandleFails(n, retryable)
    <3>1. ASSUME SkipOthers(n) \/ HandleOk(n) PROVE FALSE
      BY <1>0, <3>1 DEF SkipOthers, HandleOk, Goto, TypeOK
    <3>2. QED BY <1>2, <3>1 DEF ServiceStep
  <2>2. PICK route : Take(n, route)
    BY <2>1 DEF HandleFails
  <2>3. /\ hand'[n].offset = position[n] /\ source' = source
        /\ source[position[n] + 1].target \in {NoService, n}
    BY <1>0, <2>1, <2>2 DEF HandleFails, Take, TypeOK, for_us, Upcoming, topics
  <2>4. QED BY <1>2, <2>3, WorkerIsNoService DEF HandedOwn
<1>3. CASE n = Worker /\ WorkerStep
  <2>1. CASE UNCHANGED Place(Worker)
    BY <1>1, <1>3, <2>1
  <2>2. CASE Reads(Worker, WorkerRoute(retry[position[Worker] + 1]))
    <3>1. /\ hand'[Worker].offset = position[Worker]
          /\ hand'[Worker].route = WorkerRoute(retry[position[Worker] + 1])
      BY <2>2 DEF Reads
    <3>2. retry' = retry
      BY <1>0, <1>3, WorkerMoves DEF topics
    <3>3. QED BY <1>3, <3>1, <3>2 DEF HandedOwn, WorkerRoute
  <2>3. QED BY <1>0, <1>3, <2>1, <2>2, WorkerMoves
<1>4. CASE Settle(n) \/ PublishFails(n) \/ CommitRejected(n) \/ Restart(n)
  <2>1. pc'[n] \in {"poll", "commit"}
    BY <1>0, <1>4, SettleMoves
  <2>2. QED BY <2>1
<1>5. CASE Replay \/ BackoffEnds \/ UNCHANGED vars
  <2>1. UNCHANGED <<committed, position, pc, hand>>
    BY <1>5, ReplayGrows DEF BackoffEnds, vars
  <2>2. QED BY <1>1, <2>1 DEF Place
<1>6. ASSUME NEW r \in Readers, Acts(r) PROVE HandedOwn(n)'
  BY <1>0, <1>1, <1>2, <1>3, <1>4, <1>6, OthersStay DEF Acts
<1>7. QED BY <1>5, <1>6, NextActs

\* What a service's step writes: failures of its own, and never a message.
LEMMA ServiceWrites ==
  ASSUME PathInv, Next, NEW t \in Services, Acts(t)
  PROVE  /\ source' = source /\ disruptions <= disruptions'
         /\ ends' = ends \/ \E d : ends' = Count(ends, t, d)
         /\ \/ retry' = retry
            \/ \E rec \in RetryRecord : rec.service = t /\ retry' = Append(retry, rec)
<1>0. /\ t \in Readers /\ t # Worker /\ TypeOK /\ disruptions \in Nat
  BY WorkerIsNoService DEF PathInv, TypeOK
<1>1. CASE SkipOthers(t) \/ HandleOk(t)
  BY <1>0, <1>1 DEF SkipOthers, HandleOk, topics, history
<1>2. ASSUME Lands(t), pc[t] = "publish"
      PROVE  /\ source' = source
             /\ ends' = ends \/ \E d : ends' = Count(ends, t, d)
             /\ \/ retry' = retry
                \/ \E rec \in RetryRecord : rec.service = t /\ retry' = Append(retry, rec)
  <2>1. ServiceLands(t)
    BY <1>0, <1>2 DEF Lands
  <2>2. QED BY <1>2, <2>1, ServicePublishes
<1>3. CASE PublishAcknowledged(t)
  BY <1>0, <1>2, <1>3 DEF PublishAcknowledged
<1>4. CASE PublishFails(t)
  BY <1>0, <1>2, <1>4 DEF PublishFails, Disrupt
<1>5. CASE UNCHANGED <<source, retry, dlq, ends>> /\ (Disrupt \/ UNCHANGED disruptions)
  BY <1>0, <1>5 DEF Disrupt
<1>6. QED BY <1>0, <1>1, <1>3, <1>4, <1>5, WindowMoves

\* What any step but a replay does to an event's account at service s, by who takes it.
\* Another service's step: nothing but the passing of disruptions.
LEMMA OthersPay ==
  ASSUME PathInv, Next, NEW s \in Services, NEW e \in Events,
         NEW t \in Services, t # s, Acts(t)
  PROVE  /\ SourceCopies(s, e)' \subseteq SourceCopies(s, e)
         /\ RetryCopies(s, e)' \subseteq RetryCopies(s, e)
         /\ ends'[s][e] = ends[s][e] /\ disruptions <= disruptions'
<1>0. /\ s \in Readers /\ t \in Readers /\ Worker \in Readers /\ t # Worker
      /\ TypeOK /\ disruptions \in Nat /\ ends \in [Services -> [Events -> Nat]]
  BY WorkerIsNoService DEF PathInv, TypeOK
<1>1. UNCHANGED Place(s) /\ UNCHANGED Place(Worker)
  BY <1>0, OthersStay
<1>2. Window(s)' \subseteq Window(s) \cup New(s) \cup {}
  BY <1>0, <1>1, WindowStays
<1>3. Window(Worker)' \subseteq Window(Worker) \cup New(Worker) \cup {}
  BY <1>0, <1>1, WindowStays
<1>4. /\ source' = source /\ disruptions <= disruptions'
      /\ ends' = ends \/ \E d : ends' = Count(ends, t, d)
      /\ \/ retry' = retry
         \/ \E rec \in RetryRecord : rec.service = t /\ retry' = Append(retry, rec)
  BY ServiceWrites
<1>5. SourceCopies(s, e)' \subseteq SourceCopies(s, e)
  BY <1>2, <1>4, SourceBound
<1>6. RetryCopies(s, e)' \subseteq RetryCopies(s, e)
  <2>1. ASSUME NEW rec \in RetryRecord, rec.service = t, retry' = Append(retry, rec)
        PROVE  RetryCopies(s, e)' \subseteq RetryCopies(s, e)
    BY <1>3, <2>1, RetryBound
  <2>2. ASSUME retry' = retry PROVE RetryCopies(s, e)' \subseteq RetryCopies(s, e)
    BY <1>3, <2>2, RetryBound
  <2>3. QED BY <1>4, <2>1, <2>2
<1>7. ends'[s][e] = ends[s][e]
  BY <1>0, <1>4, CountType
<1>8. QED BY <1>4, <1>5, <1>6, <1>7

LEMMA AccountType ==
  ASSUME PathInv, [Next]_vars, NEW s \in Services, NEW e \in Events
  PROVE  /\ ends[s][e] \in Nat /\ ends'[s][e] \in Nat
         /\ disruptions \in Nat /\ disruptions' \in Nat /\ replays[e] \in Nat /\ replays'[e] \in Nat
         /\ Cardinality(SourceCopies(s, e)') \in Nat /\ Cardinality(RetryCopies(s, e)') \in Nat
<1>1. TypeOK /\ TypeOK'
  BY PathStep DEF PathInv
<1>2. /\ ends[s][e] \in Nat /\ ends'[s][e] \in Nat
      /\ disruptions \in Nat /\ disruptions' \in Nat /\ replays[e] \in Nat /\ replays'[e] \in Nat
  BY <1>1 DEF TypeOK
<1>3. ASSUME NEW r \in Readers PROVE IsFiniteSet(Window(r)')
  <2>1. committed'[r] \in Nat /\ Len(Topic(r)') \in Nat
    BY <1>1, LengthsGrow DEF TypeOK
  <2>2. IsFiniteSet(committed'[r] .. Len(Topic(r)') - 1)
    BY <2>1, OffsetsFinite
  <2>3. QED BY <2>2, FS_Subset DEF Window
<1>4. IsFiniteSet(SourceCopies(s, e)') /\ IsFiniteSet(RetryCopies(s, e)')
  BY <1>3, WorkerIsNoService, FS_Subset DEF SourceCopies, RetryCopies
<1>5. QED BY <1>2, <1>4, FS_CardinalityType

\* The service's own step: what it handles or passes on it no longer has, and what it
\* gets to do twice is paid for by a disruption.
LEMMA ServicePays ==
  ASSUME PathInv, Next, NEW s \in Services, NEW e \in Events, HandedOwn(s), Acts(s)
  PROVE  Account(s, e)' <= Account(s, e) + (disruptions' - disruptions)
<1>0. /\ s \in Readers /\ Worker \in Readers /\ s # Worker
      /\ TypeOK /\ ends \in [Services -> [Events -> Nat]]
  BY WorkerIsNoService DEF PathInv, TypeOK
<1>t. /\ ends[s][e] \in Nat /\ ends'[s][e] \in Nat /\ disruptions \in Nat /\ disruptions' \in Nat
      /\ Cardinality(SourceCopies(s, e)') \in Nat /\ Cardinality(RetryCopies(s, e)') \in Nat
  BY AccountType
<1> DEFINE S == SourceCopies(s, e)  R == RetryCopies(s, e)  d == source[hand[s].offset + 1].event
<1>1. IsFiniteSet(S) /\ IsFiniteSet(R) /\ Cardinality(S) \in Nat /\ Cardinality(R) \in Nat
  BY CopiesFinite
<1>2. Window(Worker)' \subseteq Window(Worker) \cup New(Worker) \cup {}
  BY <1>0, OthersStay, WindowStays
<1>3. ASSUME retry' = retry PROVE Cardinality(R') <= Cardinality(R)
  BY <1>1, <1>2, <1>3, RetryBound, Sizes
<1>4. ASSUME NEW rec \in RetryRecord, retry' = Append(retry, rec)
      PROVE  /\ Cardinality(R') <= Cardinality(R) + 1
             /\ rec.event # e => Cardinality(R') <= Cardinality(R)
  <2>1. R' \subseteq R \cup {Len(retry)} /\ (rec.event # e => R' \subseteq R)
    BY <1>2, <1>4, RetryBound
  <2>2. QED BY <1>1, <2>1, Sizes
<1>5. \A c : Count(ends, s, c)[s][e] = IF c = e THEN ends[s][e] + 1 ELSE ends[s][e]
  BY <1>0, CountType
<1>6. ASSUME NEW x \in Window(s), Window(s)' \subseteq Window(s) \ {x}, source' = source
      PROVE  /\ Cardinality(S') <= Cardinality(S)
             /\ OnSource(s, e, x) => Cardinality(S') + 1 <= Cardinality(S)
  <2>1. PICK X \in SUBSET Window(s) : X = Window(s) \ {x}
    OBVIOUS
  <2>2. Window(s)' \subseteq X \cup New(s) \cup {}
    BY <1>6, <2>1
  <2>3. S' \subseteq S \cap X
    BY <1>6, <2>2, SourceBound
  <2>4. S' \subseteq S /\ S' \subseteq S \ {x}
    BY <2>1, <2>3
  <2>5. OnSource(s, e, x) => x \in S
    BY DEF SourceCopies
  <2>6. QED BY <1>1, <2>4, <2>5, Sizes
<1>7. source' = source
  BY ServiceWrites
<1>8. New(s) = {}
  <2>1. Topic(s) = source /\ Topic(s)' = source' /\ Len(source) \in Nat
    BY <1>0 DEF Topic, TypeOK
  <2>2. QED BY <1>7, <2>1 DEF New
<1>9. ASSUME Lands(s), pc[s] = "publish"
      PROVE  \/ /\ ends'[s][e] = ends[s][e] /\ Cardinality(R') <= Cardinality(R) + 1
                /\ d # e => Cardinality(R') <= Cardinality(R)
             \/ /\ ends'[s][e] <= ends[s][e] + 1 /\ Cardinality(R') <= Cardinality(R)
                /\ d # e => ends'[s][e] = ends[s][e]
  <2>1. ServiceLands(s)
    BY <1>0, <1>9 DEF Lands
  <2>2. ASSUME NEW rec \in RetryRecord, rec.event = d, retry' = Append(retry, rec), ends' = ends
        PROVE  /\ ends'[s][e] = ends[s][e] /\ Cardinality(R') <= Cardinality(R) + 1
               /\ d # e => Cardinality(R') <= Cardinality(R)
    BY <1>4, <2>2
  <2>3. ASSUME NEW rec \in DeadLetter, rec.event = d, retry' = retry,
               ends' = Count(ends, s, rec.event)
        PROVE  /\ ends'[s][e] <= ends[s][e] + 1 /\ Cardinality(R') <= Cardinality(R)
               /\ d # e => ends'[s][e] = ends[s][e]
    BY <1>t, <1>3, <1>5, <2>3
  <2>4. QED BY <1>9, <2>1, <2>2, <2>3, ServicePublishes
<1> HIDE DEF S, R, d
<1>10. SUFFICES ends'[s][e] + Cardinality(S') + Cardinality(R')
                  <= ends[s][e] + Cardinality(S) + Cardinality(R) + (disruptions' - disruptions)
  BY DEF Account, S, R
<1>11. CASE /\ SkipOthers(s) \/ HandleOk(s)
            /\ position[s] \in Window(s) /\ Window(s)' \subseteq Window(s) \ {position[s]}
  <2>1. UNCHANGED <<retry, disruptions>>
    BY <1>11 DEF SkipOthers, HandleOk, topics
  <2>2. /\ Cardinality(S') <= Cardinality(S)
        /\ OnSource(s, e, position[s]) => Cardinality(S') + 1 <= Cardinality(S)
    BY <1>6, <1>7, <1>11
  <2>3. CASE SkipOthers(s)
    <3>1. ends' = ends
      BY <2>3 DEF SkipOthers, history
    <3>2. QED BY <1>t, <1>1, <1>3, <2>1, <2>2, <3>1 DEF S, R
  <2>4. CASE HandleOk(s)
    <3>1. ends' = Count(ends, s, Upcoming(s).event)
          /\ (Upcoming(s).event = e => OnSource(s, e, position[s]))
      BY <2>4 DEF HandleOk, OnSource, for_us, Upcoming
    <3>2. ends'[s][e] = IF Upcoming(s).event = e THEN ends[s][e] + 1 ELSE ends[s][e]
      BY <1>5, <3>1
    <3>3. QED BY <1>t, <1>1, <1>3, <2>1, <2>2, <3>1, <3>2 DEF S, R
  <2>5. QED BY <1>11, <2>3, <2>4
<1>12. CASE /\ PublishAcknowledged(s) /\ pc[s] = "publish"
            /\ hand[s].offset \in Window(s)
            /\ Window(s)' \subseteq (Window(s) \ {hand[s].offset}) \cup New(s)
  <2>1. disruptions' = disruptions /\ Lands(s)
    BY <1>12 DEF PublishAcknowledged
  <2>2. /\ Cardinality(S') <= Cardinality(S)
        /\ OnSource(s, e, hand[s].offset) => Cardinality(S') + 1 <= Cardinality(S)
    BY <1>6, <1>7, <1>8, <1>12
  <2>3. d = e => OnSource(s, e, hand[s].offset)
    BY <1>0, <1>12 DEF HandedOwn, OnSource, d
  <2>4. QED BY <1>t, <1>1, <1>9, <1>12, <2>1, <2>2, <2>3 DEF S, R
<1>13. ASSUME Window(s)' \subseteq Window(s) \cup New(s) PROVE Cardinality(S') <= Cardinality(S)
  <2>1. Window(s)' \subseteq Window(s) \cup New(s) \cup {}
    BY <1>13
  <2>2. S' \subseteq S
    BY <1>7, <2>1, SourceBound DEF S
  <2>3. QED BY <1>1, <2>2, Sizes
<1>14. CASE PublishFails(s) /\ pc[s] = "publish" /\ Window(s)' \subseteq Window(s) \cup New(s)
  <2>1. /\ disruptions' = disruptions + 1
        /\ Lands(s) \/ UNCHANGED <<source, retry, dlq, ends>>
    BY <1>14 DEF PublishFails, Disrupt
  <2>2. CASE Lands(s)
    BY <1>t, <1>1, <1>9, <1>13, <1>14, <2>1, <2>2 DEF S, R
  <2>3. CASE UNCHANGED <<source, retry, dlq, ends>>
    BY <1>t, <1>1, <1>3, <1>13, <1>14, <2>1, <2>3 DEF S, R
  <2>4. QED BY <2>1, <2>2, <2>3
<1>15. CASE /\ UNCHANGED <<source, retry, dlq, ends>> /\ Disrupt
            /\ Window(s)' \subseteq Window(s) \cup {hand[s].offset}
  <2>1. PICK Y : Y = {hand[s].offset}
    OBVIOUS
  <2>2. Window(s)' \subseteq Window(s) \cup New(s) \cup Y
    BY <1>15, <2>1
  <2>3. S' \subseteq S \cup {hand[s].offset}
    <3>1. S' \subseteq (S \cap Window(s)) \cup Y
      <4>1. Window(s) \in SUBSET Window(s)
        OBVIOUS
      <4>2. SourceCopies(s, e)' \subseteq (SourceCopies(s, e) \cap Window(s)) \cup Y
        BY <1>7, <2>2, <4>1, SourceBound
      <4>3. QED BY <4>2 DEF S
    <3>2. QED BY <2>1, <3>1
  <2>4. Cardinality(S') <= Cardinality(S) + 1
    BY <1>1, <2>3, Sizes
  <2>5. disruptions' = disruptions + 1
    BY <1>15 DEF Disrupt
  <2>6. QED BY <1>t, <1>1, <1>3, <1>15, <2>4, <2>5 DEF S, R
<1>16. CASE /\ UNCHANGED <<source, retry, dlq, ends, disruptions>>
            /\ Window(s)' \subseteq Window(s)
  <2>1. Window(s)' \subseteq Window(s) \cup New(s)
    BY <1>16
  <2>2. QED BY <1>t, <1>1, <1>3, <1>13, <1>16, <2>1 DEF S, R
<1>17. QED BY <1>0, <1>11, <1>12, <1>14, <1>15, <1>16, WindowMoves

\* The worker's step: a copy leaves the retry topic for the source or the dead-letter topic,
\* or, being a stray that came from there, goes to its end.
LEMMA WorkerPays ==
  ASSUME PathInv, Next, NEW s \in Services, NEW e \in Events, HandedOwn(Worker), Acts(Worker)
  PROVE  Account(s, e)' <= Account(s, e) + (disruptions' - disruptions)
<1>0. /\ s \in Readers /\ Worker \in Readers /\ s # Worker /\ Worker \notin Services
      /\ TypeOK /\ ends \in [Services -> [Events -> Nat]] /\ NoService \notin Services
  BY WorkerIsNoService, PathAssumption DEF PathInv, TypeOK, Readers
<1>t. /\ ends[s][e] \in Nat /\ ends'[s][e] \in Nat /\ disruptions \in Nat /\ disruptions' \in Nat
      /\ Cardinality(SourceCopies(s, e)') \in Nat /\ Cardinality(RetryCopies(s, e)') \in Nat
  BY AccountType
<1> DEFINE S == SourceCopies(s, e)  R == RetryCopies(s, e)  h == hand[Worker].offset
           mine == retry[h + 1].event = e /\ retry[h + 1].service = s
<1>1. IsFiniteSet(S) /\ IsFiniteSet(R) /\ Cardinality(S) \in Nat /\ Cardinality(R) \in Nat
  BY CopiesFinite
<1>2. Window(s)' \subseteq Window(s) \cup New(s) \cup {}
  BY <1>0, OthersStay, WindowStays
<1>3. ASSUME source' = source PROVE Cardinality(S') <= Cardinality(S)
  BY <1>1, <1>2, <1>3, SourceBound, Sizes
<1>4. ASSUME NEW rec \in SourceRecord, source' = Append(source, rec)
      PROVE  /\ Cardinality(S') <= Cardinality(S) + 1
             /\ ~ (rec.event = e /\ rec.target \in {NoService, s}) =>
                  Cardinality(S') <= Cardinality(S)
  <2>1. /\ S' \subseteq S \cup {Len(source)}
        /\ ~ (rec.event = e /\ rec.target \in {NoService, s}) => S' \subseteq S
    BY <1>2, <1>4, SourceBound
  <2>2. QED BY <1>1, <2>1, Sizes
<1>5. ASSUME NEW X \in SUBSET Window(Worker), NEW Y,
             Window(Worker)' \subseteq X \cup New(Worker) \cup Y
      PROVE  /\ retry' = retry => R' \subseteq (R \cap X) \cup Y
             /\ \A rec \in RetryRecord : retry' = Append(retry, rec) =>
                  /\ R' \subseteq (R \cap X) \cup Y \cup {Len(retry)}
                  /\ ~ (rec.event = e /\ rec.service = s) => R' \subseteq (R \cap X) \cup Y
  BY <1>5, RetryBound
<1>6. h \in Window(Worker) => (mine => h \in R)
  BY DEF RetryCopies
<1>7. ASSUME WorkerLands, pc[Worker] = "publish"
      PROVE  \/ /\ ends' = ends /\ retry' = retry
                /\ Cardinality(S') <= Cardinality(S) + 1
                /\ ~ mine => Cardinality(S') <= Cardinality(S)
             \/ /\ ends' = ends /\ source' = source
                /\ \E rec \in RetryRecord :
                     /\ retry' = Append(retry, rec)
                     /\ (rec.event = e /\ rec.service = s) => mine
             \/ /\ ends'[s][e] = (IF mine THEN ends[s][e] + 1 ELSE ends[s][e])
                /\ source' = source /\ retry' = retry
  <2>1. PICK old \in RetryRecord :
           /\ old = retry[h + 1]
           /\ \/ /\ hand[Worker].route = "source" /\ old.origin.topic = "source"
                 /\ \E rec \in SourceRecord :
                      /\ rec.event = old.event /\ rec.target = old.service
                      /\ source' = Append(source, rec)
                 /\ UNCHANGED <<retry, dlq, ends>>
              \/ /\ hand[Worker].route = "source" /\ old.origin.topic = "retry"
                 /\ \E rec \in RetryRecord :
                      /\ rec.event = old.event /\ rec.service = old.service
                      /\ retry' = Append(retry, rec)
                 /\ UNCHANGED <<source, dlq, ends>>
              \/ /\ hand[Worker].route = "poison"
                 /\ \E rec \in DeadLetter : dlq' = Append(dlq, rec)
                 /\ ends' = Count(ends, old.service, old.event)
                 /\ UNCHANGED <<source, retry>>
    BY <1>7, WorkerPublishes
  <2>2. CASE \E rec \in SourceRecord :
               /\ hand[Worker].route = "source"
               /\ rec.event = old.event /\ rec.target = old.service
               /\ source' = Append(source, rec) /\ UNCHANGED <<retry, dlq, ends>>
    <3>1. PICK rec \in SourceRecord :
               /\ hand[Worker].route = "source"
               /\ rec.event = old.event /\ rec.target = old.service
               /\ source' = Append(source, rec) /\ UNCHANGED <<retry, dlq, ends>>
      BY <2>2
    <3>2. old.service \in Services
      BY <1>7, <2>1, <3>1 DEF HandedOwn
    <3>3. ~ mine => ~ (rec.event = e /\ rec.target \in {NoService, s})
      BY <1>0, <2>1, <3>1, <3>2
    <3>4. QED BY <1>4, <3>1, <3>3
  <2>3. CASE \E rec \in RetryRecord :
               /\ rec.event = old.event /\ rec.service = old.service
               /\ retry' = Append(retry, rec) /\ UNCHANGED <<source, dlq, ends>>
    BY <2>1, <2>3
  <2>4. CASE ends' = Count(ends, old.service, old.event) /\ UNCHANGED <<source, retry>>
    <3>1. ends'[s][e] = IF s = old.service /\ e = old.event THEN ends[s][e] + 1 ELSE ends[s][e]
      BY <1>0, <2>4, CountType
    <3>2. QED BY <2>1, <2>4, <3>1
  <2>5. QED BY <2>1, <2>2, <2>3, <2>4
<1>u. /\ ends[s][e] \in Nat /\ ends'[s][e] \in Nat /\ disruptions \in Nat /\ disruptions' \in Nat
      /\ Cardinality(S') \in Nat /\ Cardinality(R') \in Nat
  BY <1>t
<1> HIDE DEF S, R, h, mine
<1>8. SUFFICES ends'[s][e] + Cardinality(S') + Cardinality(R')
                 <= ends[s][e] + Cardinality(S) + Cardinality(R) + (disruptions' - disruptions)
  BY DEF Account, S, R
<1>9. CASE /\ PublishAcknowledged(Worker) /\ pc[Worker] = "publish"
           /\ h \in Window(Worker)
           /\ Window(Worker)' \subseteq (Window(Worker) \ {h}) \cup New(Worker)
  <2>1. PICK X \in SUBSET Window(Worker) : X = Window(Worker) \ {h}
    OBVIOUS
  <2>2. Window(Worker)' \subseteq X \cup New(Worker) \cup {}
    BY <1>9, <2>1
  <2>3. disruptions' = disruptions /\ WorkerLands
    BY <1>9 DEF PublishAcknowledged, Lands
  <2>4. ASSUME retry' = retry
        PROVE  /\ Cardinality(R') <= Cardinality(R)
               /\ mine => Cardinality(R') + 1 <= Cardinality(R)
    <3>1. R' \subseteq R \cap X
      BY <1>5, <2>2, <2>4
    <3>2. R' \subseteq R /\ R' \subseteq R \ {h}
      BY <2>1, <3>1
    <3>3. mine => h \in R
      BY <1>6, <1>9
    <3>4. QED BY <1>1, <3>2, <3>3, Sizes
  <2>5. ASSUME NEW rec \in RetryRecord, retry' = Append(retry, rec),
               (rec.event = e /\ rec.service = s) => mine
        PROVE  Cardinality(R') <= Cardinality(R)
    <3>1. CASE rec.event = e /\ rec.service = s
      <4>1. h \in R
        BY <1>6, <1>9, <2>5, <3>1
      <4>2. R' \subseteq (R \cap X) \cup {Len(retry)}
        BY <1>5, <2>2, <2>5
      <4>3. R' \subseteq (R \ {h}) \cup {Len(retry)}
        BY <2>1, <4>2
      <4>4. QED BY <1>1, <4>1, <4>3, Sizes
    <3>2. CASE ~ (rec.event = e /\ rec.service = s)
      <4>1. R' \subseteq R \cap X
        BY <1>5, <2>2, <2>5, <3>2
      <4>2. R' \subseteq R
        BY <4>1
      <4>3. QED BY <1>1, <4>2, Sizes
    <3>3. QED BY <3>1, <3>2
  <2>6. CASE /\ ends' = ends /\ source' = source
             /\ \E rec \in RetryRecord :
                  /\ retry' = Append(retry, rec)
                  /\ (rec.event = e /\ rec.service = s) => mine
    <3>1. Cardinality(R') <= Cardinality(R)
      BY <2>5, <2>6
    <3>2. QED BY <1>u, <1>1, <1>3, <2>3, <2>6, <3>1
  <2>7. CASE /\ ends' = ends /\ retry' = retry
             /\ Cardinality(S') <= Cardinality(S) + 1
             /\ ~ mine => Cardinality(S') <= Cardinality(S)
    BY <1>u, <1>1, <2>3, <2>4, <2>7
  <2>8. CASE /\ ends'[s][e] = (IF mine THEN ends[s][e] + 1 ELSE ends[s][e])
             /\ source' = source /\ retry' = retry
    BY <1>u, <1>1, <1>3, <2>3, <2>4, <2>8
  <2>9. QED BY <1>7, <1>9, <2>3, <2>6, <2>7, <2>8
<1>10. ASSUME Window(Worker)' \subseteq Window(Worker) \cup New(Worker)
       PROVE  /\ retry' = retry => Cardinality(R') <= Cardinality(R)
              /\ \A rec \in RetryRecord : retry' = Append(retry, rec) =>
                   Cardinality(R') <= Cardinality(R) + 1
  <2>1. Window(Worker)' \subseteq Window(Worker) \cup New(Worker) \cup {}
    BY <1>10
  <2>2. /\ retry' = retry => R' \subseteq R
        /\ \A rec \in RetryRecord : retry' = Append(retry, rec) => R' \subseteq R \cup {Len(retry)}
    BY <1>5, <2>1
  <2>3. QED BY <1>1, <2>2, Sizes
<1>11. CASE /\ PublishFails(Worker) /\ pc[Worker] = "publish"
            /\ Window(Worker)' \subseteq Window(Worker) \cup New(Worker)
  <2>1. /\ disruptions' = disruptions + 1
        /\ WorkerLands \/ UNCHANGED <<source, retry, dlq, ends>>
    BY <1>11 DEF PublishFails, Disrupt, Lands
  <2>2. CASE WorkerLands
    <3>1. CASE /\ ends' = ends /\ source' = source
               /\ \E rec \in RetryRecord : retry' = Append(retry, rec)
      <4>1. Cardinality(R') <= Cardinality(R) + 1
        BY <1>10, <1>11, <3>1
      <4>2. QED BY <1>u, <1>1, <1>3, <2>1, <3>1, <4>1, SMTT(30)
    <3>2. CASE /\ ends' = ends /\ retry' = retry /\ Cardinality(S') <= Cardinality(S) + 1
      <4>1. Cardinality(R') <= Cardinality(R) /\ ends'[s][e] = ends[s][e]
        BY <1>10, <1>11, <3>2
      <4>2. QED BY <1>u, <1>1, <2>1, <3>2, <4>1
    <3>3. CASE /\ ends'[s][e] = (IF mine THEN ends[s][e] + 1 ELSE ends[s][e])
               /\ source' = source /\ retry' = retry
      <4>1. Cardinality(R') <= Cardinality(R) /\ Cardinality(S') <= Cardinality(S)
        BY <1>3, <1>10, <1>11, <3>3
      <4>2. ends'[s][e] <= ends[s][e] + 1
        BY <1>u, <3>3
      <4>3. QED BY <1>u, <1>1, <2>1, <4>1, <4>2
    <3>4. QED BY <1>7, <1>11, <2>2, <3>1, <3>2, <3>3
  <2>3. CASE UNCHANGED <<source, retry, dlq, ends>>
    BY <1>u, <1>1, <1>3, <1>10, <1>11, <2>1, <2>3
  <2>4. QED BY <2>1, <2>2, <2>3
<1>12. CASE /\ UNCHANGED <<source, retry, dlq, ends>> /\ Disrupt
            /\ Window(Worker)' \subseteq Window(Worker) \cup {h}
  <2>1. PICK Y : Y = {h}
    OBVIOUS
  <2>2. Window(Worker)' \subseteq Window(Worker) \cup New(Worker) \cup Y
    BY <1>12, <2>1
  <2>3. R' \subseteq (R \cap Window(Worker)) \cup Y
    <3>1. Window(Worker) \in SUBSET Window(Worker)
      OBVIOUS
    <3>2. QED BY <1>5, <1>12, <2>2, <3>1
  <2>4. R' \subseteq R \cup {h}
    BY <2>1, <2>3
  <2>5. Cardinality(R') <= Cardinality(R) + 1
    BY <1>1, <2>4, Sizes
  <2>6. disruptions' = disruptions + 1
    BY <1>12 DEF Disrupt
  <2>7. QED BY <1>u, <1>1, <1>3, <1>12, <2>5, <2>6
<1>13. CASE /\ UNCHANGED <<source, retry, dlq, ends, disruptions>>
            /\ Window(Worker)' \subseteq Window(Worker)
  <2>1. Window(Worker)' \subseteq Window(Worker) \cup New(Worker)
    BY <1>13
  <2>2. QED BY <1>u, <1>1, <1>3, <1>10, <1>13, <2>1
<1>14. \/ /\ PublishAcknowledged(Worker) /\ pc[Worker] = "publish"
          /\ h \in Window(Worker)
          /\ Window(Worker)' \subseteq (Window(Worker) \ {h}) \cup New(Worker)
       \/ /\ PublishFails(Worker) /\ pc[Worker] = "publish"
          /\ Window(Worker)' \subseteq Window(Worker) \cup New(Worker)
       \/ /\ UNCHANGED <<source, retry, dlq, ends>> /\ Disrupt
          /\ Window(Worker)' \subseteq Window(Worker) \cup {h}
       \/ /\ UNCHANGED <<source, retry, dlq, ends, disruptions>>
          /\ Window(Worker)' \subseteq Window(Worker)
  <2>1. PICK r \in Readers : r = Worker
    BY <1>0
  <2>2. r \notin Services /\ Acts(r) /\ h = hand[r].offset
    BY <1>0, <2>1 DEF h
  <2>3. \/ /\ PublishAcknowledged(r) /\ pc[r] = "publish"
           /\ h \in Window(r)
           /\ Window(r)' \subseteq (Window(r) \ {h}) \cup New(r)
        \/ PublishFails(r) /\ pc[r] = "publish" /\ Window(r)' \subseteq Window(r) \cup New(r)
        \/ /\ UNCHANGED <<source, retry, dlq, ends>> /\ Disrupt
           /\ Window(r)' \subseteq Window(r) \cup {h}
        \/ /\ UNCHANGED <<source, retry, dlq, ends, disruptions>>
           /\ Window(r)' \subseteq Window(r)
    BY <2>2, WindowMoves
  <2>4. QED BY <2>1, <2>3
<1>15. QED BY <1>9, <1>11, <1>12, <1>13, <1>14

\* What dlq_replay puts back is on the operator's account.
LEMMA ReplayPays ==
  ASSUME PathInv, Replay, NEW s \in Services, NEW e \in Events
  PROVE  Account(s, e)' + replays[e] <= Account(s, e) + replays'[e] + (disruptions' - disruptions)
<1>0. /\ s \in Readers /\ Worker \in Readers /\ [Next]_vars /\ TypeOK /\ NoService \notin Services
  BY WorkerIsNoService, PathAssumption DEF PathInv, Next, Readers
<1>1. /\ ends[s][e] \in Nat /\ ends'[s][e] \in Nat /\ disruptions \in Nat /\ disruptions' \in Nat
      /\ replays[e] \in Nat /\ replays'[e] \in Nat
      /\ Cardinality(SourceCopies(s, e)') \in Nat /\ Cardinality(RetryCopies(s, e)') \in Nat
  BY <1>0, AccountType
<1> DEFINE S == SourceCopies(s, e)  R == RetryCopies(s, e)
<1>2. IsFiniteSet(S) /\ IsFiniteSet(R) /\ Cardinality(S) \in Nat /\ Cardinality(R) \in Nat
  BY CopiesFinite
<1>3. UNCHANGED <<committed, position, pc, hand, ends>>
  BY ReplayGrows DEF history
<1>4. /\ Window(s)' \subseteq Window(s) \cup New(s) \cup {}
      /\ Window(Worker)' \subseteq Window(Worker) \cup New(Worker) \cup {}
  BY <1>0, <1>3, WindowStays DEF Place
<1>5. ASSUME source' = source PROVE Cardinality(S') <= Cardinality(S)
  <2>1. S' \subseteq S
    BY <1>0, <1>4, <1>5, SourceBound
  <2>2. QED BY <1>2, <2>1, Sizes
<1>6. ASSUME NEW rec \in SourceRecord, source' = Append(source, rec)
      PROVE  /\ Cardinality(S') <= Cardinality(S) + 1
             /\ rec.event # e => Cardinality(S') <= Cardinality(S)
  <2>1. /\ S' \subseteq S \cup {Len(source)}
        /\ rec.event # e => S' \subseteq S
    BY <1>0, <1>4, <1>6, SourceBound
  <2>2. QED BY <1>2, <2>1, Sizes
<1>7. ASSUME retry' = retry PROVE Cardinality(R') <= Cardinality(R)
  <2>1. R' \subseteq R
    BY <1>0, <1>4, <1>7, RetryBound
  <2>2. QED BY <1>2, <2>1, Sizes
<1>8. ASSUME NEW rec \in RetryRecord, rec.service = NoService, retry' = Append(retry, rec)
      PROVE  Cardinality(R') <= Cardinality(R)
  <2>1. R' \subseteq R
    BY <1>0, <1>4, <1>8, RetryBound
  <2>2. QED BY <1>2, <2>1, Sizes
<1>9. ends'[s][e] = ends[s][e]
  BY <1>3
<1>10. /\ Cardinality(S') \in Nat /\ Cardinality(R') \in Nat
  BY <1>1
<1> HIDE DEF S, R
<1>11. SUFFICES ends'[s][e] + Cardinality(S') + Cardinality(R') + replays[e]
         <= ends[s][e] + Cardinality(S) + Cardinality(R) + replays'[e] + (disruptions' - disruptions)
  BY DEF Account, S, R
<1>12. CASE UNCHANGED <<source, retry, replays>> /\ disruptions' \in {disruptions, disruptions + 1}
  BY <1>1, <1>2, <1>5, <1>7, <1>9, <1>10, <1>12
<1>13. CASE ReplayPublishes
  <2>1. PICK old : old = dlq[replay.next + 1]
    OBVIOUS
  <2>2. old.event \in Nat /\ Len(retry) \in Nat
    <3>1. replay.next \in Nat /\ replay.next < Len(dlq) /\ dlq \in Seq(DeadLetter)
      BY <1>13 DEF ReplayPublishes, read_to, PathInv, TypeOK, ReplayOK
    <3>2. old \in DeadLetter
      BY <2>1, <3>1
    <3>3. QED BY <1>0, <3>2 DEF DeadLetter, TypeOK
  <2>3. CASE /\ source' = Append(source, [event |-> old.event, target |-> NoService, attempt |-> 1])
             /\ replays' = [replays EXCEPT ![old.event] = @ + 1]
             /\ UNCHANGED <<retry, disruptions>>
    <3>1. PICK rec \in SourceRecord : rec.event = old.event /\ source' = Append(source, rec)
      <4>1. [event |-> old.event, target |-> NoService, attempt |-> 1] \in SourceRecord
        BY <2>2 DEF SourceRecord
      <4>2. QED BY <2>3, <4>1
    <3>2. replays'[e] = IF old.event = e THEN replays[e] + 1 ELSE replays[e]
      BY <1>0, <2>3 DEF TypeOK
    <3>3. /\ Cardinality(S') <= Cardinality(S) + 1
          /\ old.event # e => Cardinality(S') <= Cardinality(S)
      BY <1>6, <3>1
    <3>4. Cardinality(R') <= Cardinality(R) /\ disruptions' = disruptions
      BY <1>7, <2>3
    <3>5. QED BY <1>1, <1>2, <1>9, <1>10, <3>2, <3>3, <3>4
  <2>4. CASE /\ retry' = Append(retry,
                  [event |-> old.event, service |-> NoService, attempt |-> 2, timed |-> FALSE,
                   origin |-> [topic |-> "retry", offset |-> Len(retry)]])
             /\ replays' = [replays EXCEPT ![old.event] = @ + 1]
             /\ UNCHANGED <<source, disruptions>>
    <3>1. PICK rec \in RetryRecord : rec.service = NoService /\ retry' = Append(retry, rec)
      <4>1. [event |-> old.event, service |-> NoService, attempt |-> 2, timed |-> FALSE,
             origin |-> [topic |-> "retry", offset |-> Len(retry)]] \in RetryRecord
        BY <2>2 DEF RetryRecord, Origin
      <4>2. QED BY <2>4, <4>1
    <3>2. replays[e] <= replays'[e]
      BY <1>0, <1>1, <2>4, SMTT(30) DEF TypeOK
    <3>3. Cardinality(R') <= Cardinality(R)
      BY <1>8, <3>1
    <3>4. Cardinality(S') <= Cardinality(S) /\ disruptions' = disruptions
      BY <1>5, <2>4
    <3>5. QED BY <1>1, <1>2, <1>9, <1>10, <3>2, <3>3, <3>4
  <2>5. CASE Disrupt /\ UNCHANGED <<source, retry, replays>>
    BY <1>12, <2>5 DEF Disrupt
  <2>6. QED BY <1>13, <2>1, <2>3, <2>4, <2>5 DEF ReplayPublishes
<1>14. CASE \/ \E only \in Services \cup {NoService}, include_poison \in BOOLEAN :
                 ReplayStarts(only, include_poison)
            \/ ReplayPasses \/ ReplayStops
  <2>1. UNCHANGED <<source, retry, replays, disruptions>>
    BY <1>14 DEF ReplayStarts, ReplayPasses, ReplayStops, topics
  <2>2. QED BY <1>12, <2>1
<1>15. QED BY <1>13, <1>14 DEF Replay

LEMMA EndsInit == NoFreeRetries /\ Init => EndsInv
<1> SUFFICES ASSUME NoFreeRetries, Init PROVE EndsInv
  OBVIOUS
<1>1. PathInv
  BY PathInit
<1>2. \A r \in Readers : HandedOwn(r)
  BY DEF Init, HandedOwn
<1>3. ASSUME NEW s \in Services, NEW e \in Events PROVE Balanced(s, e)
  <2>1. /\ Published \in Nat /\ e \in Nat /\ Strays \in Seq(RetryRecord)
        /\ s \in Readers /\ Worker \in Readers /\ s # Worker
    BY PathAssumption, WorkerIsNoService DEF Events
  <2>2. source = [i \in 1 .. Published |-> [event |-> i, target |-> NoService, attempt |-> 1]]
    BY DEF Init, Events
  <2>3. Len(source) = Published /\ Topic(s) = source /\ Topic(Worker) = Strays
    BY <2>1, <2>2 DEF Topic, Init
  <2>4. committed[s] = 0 /\ committed[Worker] = 0
    BY <2>1 DEF Init
  <2>5. SourceCopies(s, e) \subseteq {} \cup {e - 1}
    <3>1. ASSUME NEW o \in SourceCopies(s, e) PROVE o = e - 1
      <4>1. o \in 0 .. Published - 1 /\ source[o + 1].event = e
        BY <2>3, <2>4 DEF SourceCopies, Window, OnSource
      <4>2. o + 1 \in 1 .. Published /\ source[o + 1].event = o + 1
        BY <2>1, <2>2, <4>1
      <4>3. QED BY <2>1, <4>1, <4>2
    <3>2. QED BY <3>1
  <2>6. RetryCopies(s, e) = {}
    <3>1. ASSUME NEW o \in RetryCopies(s, e) PROVE FALSE
      <4>1. /\ o \in 0 .. Len(Strays) - 1
            /\ Strays[o + 1].event = e /\ Strays[o + 1].service = s
        BY <2>3, <2>4 DEF RetryCopies, Window, Init
      <4>2. o + 1 \in DOMAIN Strays
        BY <2>1, <4>1
      <4>3. QED BY <4>1, <4>2 DEF NoFreeRetries
    <3>2. QED BY <3>1
  <2>7. Cardinality({}) = 0 /\ IsFiniteSet({})
    BY FS_EmptySet
  <2>8. Cardinality(SourceCopies(s, e)) <= 1 /\ Cardinality(SourceCopies(s, e)) \in Nat
    <3>1. Cardinality(SourceCopies(s, e)) <= Cardinality({}) + 1
      BY <2>5, <2>7, Sizes
    <3>2. QED BY <1>1, <2>7, <3>1, CopiesFinite
  <2>9. ends[s][e] = 0 /\ disruptions = 0 /\ replays[e] = 0
    BY DEF Init
  <2>10. QED BY <2>6, <2>7, <2>8, <2>9 DEF Balanced, Account
<1>4. QED BY <1>1, <1>2, <1>3 DEF EndsInv

LEMMA EndsStep == EndsInv /\ [Next]_vars => EndsInv'
<1> SUFFICES ASSUME EndsInv, [Next]_vars PROVE EndsInv'
  OBVIOUS
<1>0. PathInv /\ TypeOK /\ PathInv'
  BY PathStep DEF EndsInv, PathInv
<1>1. \A r \in Readers : HandedOwn(r)'
  BY <1>0, OwnStep DEF EndsInv
<1>2. ASSUME NEW s \in Services, NEW e \in Events PROVE Balanced(s, e)'
  <2>1. /\ ends[s][e] \in Nat /\ ends'[s][e] \in Nat /\ disruptions \in Nat /\ disruptions' \in Nat
        /\ replays[e] \in Nat /\ replays'[e] \in Nat
        /\ Cardinality(SourceCopies(s, e)') \in Nat /\ Cardinality(RetryCopies(s, e)') \in Nat
    BY <1>0, AccountType
  <2>2. /\ IsFiniteSet(SourceCopies(s, e)) /\ IsFiniteSet(RetryCopies(s, e))
        /\ Cardinality(SourceCopies(s, e)) \in Nat /\ Cardinality(RetryCopies(s, e)) \in Nat
    BY <1>0, CopiesFinite
  <2>3. /\ Account(s, e) \in Nat /\ Account(s, e)' \in Nat
        /\ Account(s, e) <= 1 + disruptions + replays[e]
    BY <2>1, <2>2 DEF Account, EndsInv, Balanced
  <2>4. SUFFICES Account(s, e)' + replays[e]
                   <= Account(s, e) + replays'[e] + (disruptions' - disruptions)
    BY <2>1, <2>3 DEF Balanced
  <2>5. CASE Replay
    BY <1>0, <2>5, ReplayPays
  <2>6. CASE BackoffEnds \/ UNCHANGED vars
    <3>1. UNCHANGED <<source, retry, committed, pc, hand, ends, replays, disruptions>>
      BY <2>6 DEF BackoffEnds, vars, topics, tool, history
    <3>2. Account(s, e)' = Account(s, e)
      BY <3>1 DEF Account, SourceCopies, RetryCopies, Window, Due, Topic, OnSource
    <3>3. QED BY <2>1, <2>3, <3>1, <3>2
  <2>7. ASSUME NEW r \in Readers, Acts(r)
        PROVE  Account(s, e)' <= Account(s, e) + (disruptions' - disruptions) /\ replays' = replays
    <3>1. replays' = replays /\ Next
      BY <1>0, <2>7, ReaderTypes, NextActs
    <3>2. CASE r = s
      BY <1>0, <2>7, <3>1, <3>2, ServicePays DEF EndsInv
    <3>3. CASE r = Worker
      BY <1>0, <2>7, <3>1, <3>3, WorkerPays DEF EndsInv
    <3>4. CASE r # s /\ r # Worker
      <4>1. r \in Services
        BY <3>4 DEF Readers
      <4>2. /\ SourceCopies(s, e)' \subseteq SourceCopies(s, e)
            /\ RetryCopies(s, e)' \subseteq RetryCopies(s, e)
            /\ ends'[s][e] = ends[s][e] /\ disruptions <= disruptions'
        BY <1>0, <2>7, <3>1, <3>4, <4>1, OthersPay
      <4>3. /\ Cardinality(SourceCopies(s, e)') <= Cardinality(SourceCopies(s, e))
            /\ Cardinality(RetryCopies(s, e)') <= Cardinality(RetryCopies(s, e))
        BY <2>2, <4>2, Sizes
      <4>4. QED BY <2>1, <2>2, <3>1, <4>2, <4>3 DEF Account
    <3>5. QED BY <3>1, <3>2, <3>3, <3>4
  <2>8. CASE \E r \in Readers : Acts(r)
    <3>1. Account(s, e)' <= Account(s, e) + (disruptions' - disruptions) /\ replays' = replays
      BY <2>7, <2>8
    <3>2. QED BY <2>1, <2>3, <3>1
  <2>9. QED BY <2>5, <2>6, <2>8, NextActs
<1>3. QED BY <1>0, <1>1, <1>2 DEF EndsInv

\* One service's retry is nobody else's, and every ending is accounted for: if no record for
\* a published event stood on the retry topic to begin with, an event is handled or
\* dead-lettered once per service, plus at most once for each disruption and each replay.
THEOREM EndsAreAccountedFor ==
  ASSUME NoFreeRetries
  PROVE  Spec => []EndsOncePerService
<1>1. EndsInv => EndsOncePerService
  <2> SUFFICES ASSUME EndsInv, NEW s \in Services, NEW e \in Events
               PROVE  ends[s][e] <= 1 + disruptions + replays[e]
    BY DEF EndsOncePerService
  <2>1. Cardinality(SourceCopies(s, e)) \in Nat /\ Cardinality(RetryCopies(s, e)) \in Nat
    BY CopiesFinite DEF EndsInv
  <2>2. ends[s][e] \in Nat /\ disruptions \in Nat /\ replays[e] \in Nat
    BY DEF EndsInv, PathInv, TypeOK
  <2>3. Account(s, e) <= 1 + disruptions + replays[e]
    BY DEF EndsInv, Balanced
  <2>4. QED BY <2>1, <2>2, <2>3 DEF Account
<1>2. QED BY <1>1, EndsInit, EndsStep, PTL DEF Spec

-----------------------------------------------------------------------------
(* No handler runs more often than the attempts there were to spend.       *)

\* The attempts left from attempt a on, of the copy at offset x.
Tries(x, a) == {x} \X (a .. retry_max_attempts)

\* The attempt service s is making on the message it has in hand has been made.
Spent(s, o, j) == pc[s] = "publish" /\ o = hand[s].offset /\ j = source[o + 1].attempt

\* What may yet be tried of e for s: an attempt of a copy on the source or the retry topic.
SourceTries(s, e) ==
  {p \in SourceCopies(s, e) \X (1 .. retry_max_attempts) :
     source[p[1] + 1].attempt <= p[2] /\ ~ Spent(s, p[1], p[2])}

RetryTries(s, e) ==
  {p \in RetryCopies(s, e) \X (1 .. retry_max_attempts) : retry[p[1] + 1].attempt <= p[2]}

\* How often s has run its handler on e, and may yet if nothing more goes wrong.
Spending(s, e) ==
  runs[s][e] + Cardinality(SourceTries(s, e)) + Cardinality(RetryTries(s, e))

WithinBudget(s, e) ==
  Spending(s, e) <= retry_max_attempts * (1 + disruptions + replays[e])

\* What is on a topic to be handled has an attempt to its name and is within the budget;
\* what is on its way to the retry topic leaves one.
AttemptsOK ==
  /\ \A i \in DOMAIN source :
       source[i].event \in Events => source[i].attempt \in 1 .. retry_max_attempts
  /\ \A i \in DOMAIN retry :
       retry[i].event \in Events /\ retry[i].service \in Services =>
         retry[i].attempt \in 1 .. retry_max_attempts

HandedTry(s) ==
  pc[s] = "publish" /\ hand[s].route = "retry" =>
    source[hand[s].offset + 1].attempt < retry_max_attempts

BudgetInv ==
  /\ PathInv /\ \A r \in Readers : HandedOwn(r)
  /\ AttemptsOK /\ \A s \in Services : HandedTry(s)
  /\ \A s \in Services, e \in Events : WithinBudget(s, e)

\* RETRY_MAX_ATTEMPTS includes the first attempt.
LEMMA BudgetIsPositive == retry_max_attempts \in Nat /\ 1 <= retry_max_attempts
  BY PathAssumption

\* How many attempts there are from attempt a on.
LEMMA TriesCount ==
  ASSUME NEW x, NEW a \in Nat
  PROVE  /\ IsFiniteSet(Tries(x, a)) /\ Cardinality(Tries(x, a)) \in Nat
         /\ a <= retry_max_attempts + 1 =>
              Cardinality(Tries(x, a)) = retry_max_attempts + 1 - a
<1>1. /\ IsFiniteSet(a .. retry_max_attempts)
      /\ Cardinality(a .. retry_max_attempts)
           = IF a > retry_max_attempts THEN 0 ELSE retry_max_attempts - a + 1
  BY BudgetIsPositive, FS_Interval
<1>2. IsFiniteSet({x}) /\ Cardinality({x}) = 1
  BY FS_Singleton
<1>3. /\ IsFiniteSet(Tries(x, a))
      /\ Cardinality(Tries(x, a)) = 1 * Cardinality(a .. retry_max_attempts)
  BY <1>1, <1>2, FS_Product DEF Tries
<1>4. Cardinality(Tries(x, a)) \in Nat
  BY <1>3, FS_CardinalityType
<1>5. QED BY <1>1, <1>3, <1>4, BudgetIsPositive

\* Sizes when something is added, is taken away, or is less.
LEMMA Added ==
  ASSUME NEW A, IsFiniteSet(A), NEW C, IsFiniteSet(C), NEW B, B \subseteq A \cup C
  PROVE  Cardinality(B) <= Cardinality(A) + Cardinality(C)
<1>1. /\ IsFiniteSet(A \cup C)
      /\ Cardinality(A \cup C) = Cardinality(A) + Cardinality(C) - Cardinality(A \cap C)
  BY FS_Union
<1>2. IsFiniteSet(A \cap C)
  BY FS_Subset
<1>3. IsFiniteSet(B) /\ Cardinality(B) <= Cardinality(A \cup C)
  BY <1>1, FS_Subset
<1>4. /\ Cardinality(A) \in Nat /\ Cardinality(C) \in Nat /\ Cardinality(A \cap C) \in Nat
      /\ Cardinality(A \cup C) \in Nat /\ Cardinality(B) \in Nat
  BY <1>1, <1>2, <1>3, FS_CardinalityType
<1>5. QED BY <1>1, <1>3, <1>4

LEMMA Removed ==
  ASSUME NEW A, IsFiniteSet(A), NEW C \in SUBSET A, NEW B, B \subseteq A \ C
  PROVE  Cardinality(B) + Cardinality(C) <= Cardinality(A)
<1>1. IsFiniteSet(B) /\ IsFiniteSet(C)
  BY FS_Subset
<1>2. /\ IsFiniteSet(B \cup C)
      /\ Cardinality(B \cup C) = Cardinality(B) + Cardinality(C) - Cardinality(B \cap C)
  BY <1>1, FS_Union
<1>3. B \cap C = {} /\ B \cup C \subseteq A
  OBVIOUS
<1>4. Cardinality(B \cap C) = 0
  BY <1>3, FS_EmptySet
<1>5. Cardinality(B \cup C) <= Cardinality(A)
  BY <1>3, FS_Subset
<1>6. /\ Cardinality(A) \in Nat /\ Cardinality(B) \in Nat /\ Cardinality(C) \in Nat
      /\ Cardinality(B \cup C) \in Nat
  BY <1>1, <1>2, FS_CardinalityType
<1>7. QED BY <1>2, <1>4, <1>5, <1>6

LEMMA Fewer ==
  ASSUME NEW A, IsFiniteSet(A), NEW B, B \subseteq A
  PROVE  Cardinality(B) <= Cardinality(A)
  BY FS_Subset

\* What may be tried is finite, before a step and after it.
LEMMA TriesFinite ==
  ASSUME PathInv, NEW s \in Services, NEW e
  PROVE  /\ IsFiniteSet(SourceTries(s, e)) /\ IsFiniteSet(RetryTries(s, e))
         /\ Cardinality(SourceTries(s, e)) \in Nat /\ Cardinality(RetryTries(s, e)) \in Nat
<1>1. IsFiniteSet(1 .. retry_max_attempts)
  BY BudgetIsPositive, FS_Interval
<1>2. /\ IsFiniteSet(SourceCopies(s, e) \X (1 .. retry_max_attempts))
      /\ IsFiniteSet(RetryCopies(s, e) \X (1 .. retry_max_attempts))
  BY <1>1, CopiesFinite, FS_Product
<1>3. IsFiniteSet(SourceTries(s, e)) /\ IsFiniteSet(RetryTries(s, e))
  BY <1>2, FS_Subset DEF SourceTries, RetryTries
<1>4. QED BY <1>3, FS_CardinalityType

LEMMA SpendingType ==
  ASSUME PathInv, [Next]_vars, NEW s \in Services, NEW e \in Events
  PROVE  /\ runs[s][e] \in Nat /\ runs'[s][e] \in Nat
         /\ disruptions \in Nat /\ disruptions' \in Nat
         /\ replays[e] \in Nat /\ replays'[e] \in Nat
         /\ Cardinality(SourceTries(s, e)') \in Nat /\ Cardinality(RetryTries(s, e)') \in Nat
<1>1. TypeOK /\ PathInv'
  BY PathStep DEF PathInv
<1>2. TypeOK'
  BY <1>1 DEF PathInv
<1>3. runs[s][e] \in Nat /\ runs'[s][e] \in Nat
  BY <1>1, <1>2 DEF TypeOK
<1>4. Cardinality(SourceTries(s, e)') \in Nat /\ Cardinality(RetryTries(s, e)') \in Nat
  <2>1. IsFiniteSet(1 .. retry_max_attempts)
    BY BudgetIsPositive, FS_Interval
  <2>2. ASSUME NEW r \in Readers PROVE IsFiniteSet(Window(r)')
    <3>1. committed'[r] \in Nat /\ Len(Topic(r)') \in Nat
      BY <1>2, LengthsGrow DEF TypeOK
    <3>2. IsFiniteSet(committed'[r] .. Len(Topic(r)') - 1)
      BY <3>1, OffsetsFinite
    <3>3. QED BY <3>2, FS_Subset DEF Window
  <2>3. IsFiniteSet(SourceCopies(s, e)') /\ IsFiniteSet(RetryCopies(s, e)')
    BY <2>2, WorkerIsNoService, FS_Subset DEF SourceCopies, RetryCopies
  <2>4. /\ IsFiniteSet(SourceCopies(s, e)' \X (1 .. retry_max_attempts))
        /\ IsFiniteSet(RetryCopies(s, e)' \X (1 .. retry_max_attempts))
    BY <2>1, <2>3, FS_Product
  <2>5. IsFiniteSet(SourceTries(s, e)') /\ IsFiniteSet(RetryTries(s, e)')
    BY <2>4, FS_Subset DEF SourceTries, RetryTries
  <2>6. QED BY <2>5, FS_CardinalityType
<1>5. QED BY <1>3, <1>4, AccountType

\* The tries after a step, from the copies and what was appended.
LEMMA SourceTriesBound ==
  ASSUME PathInv, [Next]_vars, NEW s \in Services, NEW e \in Events, UNCHANGED Place(s)
  PROVE  /\ source' = source => SourceTries(s, e)' \subseteq SourceTries(s, e)
         /\ \A rec \in SourceRecord : source' = Append(source, rec) =>
              /\ SourceTries(s, e)' \subseteq SourceTries(s, e) \cup Tries(Len(source), rec.attempt)
              /\ ~ (rec.event = e /\ rec.target \in {NoService, s}) =>
                   SourceTries(s, e)' \subseteq SourceTries(s, e)
<1>1. /\ source \in Seq(SourceRecord) /\ Len(source) \in Nat /\ s \in Readers
      /\ committed[s] \in Nat /\ Topic(s) = source
      /\ \A i \in 1 .. Len(source) : source'[i] = source[i]
  <2>1. \A i \in 1 .. Len(source) : source'[i] = source[i]
    BY TopicsGrow DEF Extends
  <2>2. QED BY <2>1, WorkerIsNoService DEF PathInv, TypeOK, Topic
<1>2. pc'[s] = pc[s] /\ hand'[s] = hand[s]
  BY DEF Place
<1>3. Window(s)' \subseteq Window(s) \cup New(s) \cup {}
  BY <1>1, WindowStays
<1>4. Window(s) \in SUBSET Window(s)
  OBVIOUS
<1>5. /\ source' = source => SourceCopies(s, e)' \subseteq SourceCopies(s, e)
      /\ \A rec \in SourceRecord : source' = Append(source, rec) =>
           /\ SourceCopies(s, e)' \subseteq SourceCopies(s, e) \cup {Len(source)}
           /\ ~ (rec.event = e /\ rec.target \in {NoService, s}) =>
                SourceCopies(s, e)' \subseteq SourceCopies(s, e)
  <2>1. PICK X \in SUBSET Window(s) : X = Window(s)
    BY <1>4
  <2>2. Window(s)' \subseteq X \cup New(s) \cup {}
    BY <1>3, <2>1
  <2>3. /\ source' = source => SourceCopies(s, e)' \subseteq (SourceCopies(s, e) \cap X) \cup {}
        /\ \A rec \in SourceRecord : source' = Append(source, rec) =>
             /\ SourceCopies(s, e)' \subseteq
                  (SourceCopies(s, e) \cap X) \cup {} \cup {Len(source)}
             /\ ~ (rec.event = e /\ rec.target \in {NoService, s}) =>
                  SourceCopies(s, e)' \subseteq (SourceCopies(s, e) \cap X) \cup {}
    BY <2>2, SourceBound
  <2>4. QED BY <2>3
<1>6. ASSUME NEW o \in SourceCopies(s, e) PROVE source'[o + 1] = source[o + 1]
  <2>1. o + 1 \in 1 .. Len(source)
    BY <1>1 DEF SourceCopies, Window
  <2>2. QED BY <1>1, <2>1
<1>7. ASSUME NEW p \in SourceTries(s, e)'
      PROVE  /\ p = <<p[1], p[2]>> /\ p[1] \in SourceCopies(s, e)'
             /\ p[2] \in 1 .. retry_max_attempts
             /\ source'[p[1] + 1].attempt <= p[2]
             /\ p[1] \in SourceCopies(s, e) => p \in SourceTries(s, e)
  <2>1. /\ p = <<p[1], p[2]>> /\ p[1] \in SourceCopies(s, e)'
        /\ p[2] \in 1 .. retry_max_attempts
        /\ source'[p[1] + 1].attempt <= p[2] /\ ~ Spent(s, p[1], p[2])'
    BY DEF SourceTries
  <2>2. ASSUME p[1] \in SourceCopies(s, e) PROVE p \in SourceTries(s, e)
    <3>1. source'[p[1] + 1] = source[p[1] + 1]
      BY <1>6, <2>2
    <3>2. ~ Spent(s, p[1], p[2])
      BY <1>2, <2>1, <3>1 DEF Spent
    <3>3. QED BY <2>1, <2>2, <3>1, <3>2 DEF SourceTries
  <2>3. QED BY <2>1, <2>2
<1>8. ASSUME NEW rec \in SourceRecord, source' = Append(source, rec),
             NEW p \in SourceTries(s, e)', p[1] = Len(source)
      PROVE  p \in Tries(Len(source), rec.attempt)
  <2>1. source'[p[1] + 1] = rec /\ rec.attempt \in Nat
    BY <1>1, <1>8 DEF SourceRecord
  <2>2. p[2] \in rec.attempt .. retry_max_attempts /\ p = <<p[1], p[2]>>
    BY <1>7, <2>1, BudgetIsPositive
  <2>3. QED BY <1>8, <2>2 DEF Tries
<1>9. QED BY <1>5, <1>7, <1>8

\* What the worker passes (Z) may no longer be tried, what it gets back (Y) may.
LEMMA RetryTriesBound ==
  ASSUME PathInv, [Next]_vars, NEW s \in Services, NEW e \in Events, NEW Y, NEW Z,
         Window(Worker)' \subseteq (Window(Worker) \ Z) \cup New(Worker) \cup Y
  PROVE  /\ retry' = retry =>
              RetryTries(s, e)' \subseteq (RetryTries(s, e) \ (Z \X (1 .. retry_max_attempts)))
                                            \cup (Y \X (1 .. retry_max_attempts))
         /\ \A rec \in RetryRecord : retry' = Append(retry, rec) =>
              /\ RetryTries(s, e)' \subseteq
                   ((RetryTries(s, e) \ (Z \X (1 .. retry_max_attempts)))
                      \cup (Y \X (1 .. retry_max_attempts)))
                        \cup Tries(Len(retry), rec.attempt)
              /\ ~ (rec.event = e /\ rec.service = s) =>
                   RetryTries(s, e)' \subseteq
                     (RetryTries(s, e) \ (Z \X (1 .. retry_max_attempts)))
                       \cup (Y \X (1 .. retry_max_attempts))
<1>1. /\ retry \in Seq(RetryRecord) /\ Len(retry) \in Nat /\ Worker \in Readers
      /\ committed[Worker] \in Nat /\ Topic(Worker) = retry
      /\ \A i \in 1 .. Len(retry) : retry'[i] = retry[i]
  <2>1. \A i \in 1 .. Len(retry) : retry'[i] = retry[i]
    BY TopicsGrow DEF Extends
  <2>2. QED BY <2>1, WorkerIsNoService DEF PathInv, TypeOK, Topic
<1>2. PICK X \in SUBSET Window(Worker) : X = Window(Worker) \ Z
  OBVIOUS
<1>3. Window(Worker)' \subseteq X \cup New(Worker) \cup Y
  BY <1>2
<1>4. /\ retry' = retry => RetryCopies(s, e)' \subseteq (RetryCopies(s, e) \cap X) \cup Y
      /\ \A rec \in RetryRecord : retry' = Append(retry, rec) =>
           /\ RetryCopies(s, e)' \subseteq (RetryCopies(s, e) \cap X) \cup Y \cup {Len(retry)}
           /\ ~ (rec.event = e /\ rec.service = s) =>
                RetryCopies(s, e)' \subseteq (RetryCopies(s, e) \cap X) \cup Y
  BY <1>3, RetryBound
<1>5. ASSUME NEW o \in RetryCopies(s, e) PROVE retry'[o + 1] = retry[o + 1]
  <2>1. o + 1 \in 1 .. Len(retry)
    BY <1>1 DEF RetryCopies, Window
  <2>2. QED BY <1>1, <2>1
<1>6. ASSUME NEW p \in RetryTries(s, e)'
      PROVE  /\ p = <<p[1], p[2]>> /\ p[1] \in RetryCopies(s, e)'
             /\ p[2] \in 1 .. retry_max_attempts
             /\ retry'[p[1] + 1].attempt <= p[2]
             /\ p[1] \in RetryCopies(s, e) => p \in RetryTries(s, e)
             /\ p[1] \in RetryCopies(s, e) \cap X =>
                  p \in RetryTries(s, e) \ (Z \X (1 .. retry_max_attempts))
             /\ p[1] \in Y => p \in Y \X (1 .. retry_max_attempts)
  <2>1. /\ p = <<p[1], p[2]>> /\ p[1] \in RetryCopies(s, e)'
        /\ p[2] \in 1 .. retry_max_attempts /\ retry'[p[1] + 1].attempt <= p[2]
    BY DEF RetryTries
  <2>2. ASSUME p[1] \in RetryCopies(s, e) PROVE p \in RetryTries(s, e)
    BY <1>5, <2>1, <2>2 DEF RetryTries
  <2>3. ASSUME p[1] \in X PROVE p \notin Z \X (1 .. retry_max_attempts)
    BY <1>2, <2>3
  <2>4. ASSUME p[1] \in Y PROVE p \in Y \X (1 .. retry_max_attempts)
    BY <2>1, <2>4
  <2>5. QED BY <2>1, <2>2, <2>3, <2>4
<1>7. ASSUME NEW rec \in RetryRecord, retry' = Append(retry, rec),
             NEW p \in RetryTries(s, e)', p[1] = Len(retry)
      PROVE  p \in Tries(Len(retry), rec.attempt)
  <2>1. retry'[p[1] + 1] = rec /\ rec.attempt \in Nat
    BY <1>1, <1>7 DEF RetryRecord
  <2>2. p[2] \in rec.attempt .. retry_max_attempts /\ p = <<p[1], p[2]>>
    BY <1>6, <2>1, BudgetIsPositive
  <2>3. QED BY <1>7, <2>2 DEF Tries
<1>8. QED BY <1>4, <1>6, <1>7

\* The same when the worker gets nothing back and passes nothing.
LEMMA RetryTriesGrow ==
  ASSUME PathInv, [Next]_vars, NEW s \in Services, NEW e \in Events,
         Window(Worker)' \subseteq Window(Worker) \cup New(Worker)
  PROVE  /\ retry' = retry => RetryTries(s, e)' \subseteq RetryTries(s, e)
         /\ \A rec \in RetryRecord : retry' = Append(retry, rec) =>
              /\ RetryTries(s, e)' \subseteq RetryTries(s, e) \cup Tries(Len(retry), rec.attempt)
              /\ ~ (rec.event = e /\ rec.service = s) =>
                   RetryTries(s, e)' \subseteq RetryTries(s, e)
<1>1. PICK Z : Z = {}
  OBVIOUS
<1>2. Window(Worker)' \subseteq (Window(Worker) \ Z) \cup New(Worker) \cup Z
  BY <1>1
<1>3. PICK left : left = (RetryTries(s, e) \ (Z \X (1 .. retry_max_attempts)))
                           \cup (Z \X (1 .. retry_max_attempts))
  OBVIOUS
<1>4. /\ retry' = retry => RetryTries(s, e)' \subseteq left
      /\ \A rec \in RetryRecord : retry' = Append(retry, rec) =>
           /\ RetryTries(s, e)' \subseteq left \cup Tries(Len(retry), rec.attempt)
           /\ ~ (rec.event = e /\ rec.service = s) => RetryTries(s, e)' \subseteq left
  BY <1>2, <1>3, RetryTriesBound
<1>5. left = RetryTries(s, e)
  BY <1>1, <1>3
<1>6. QED BY <1>4, <1>5

\* What any step but a replay does to what service s may spend on an event, by who takes it.
\* Another service's step: nothing.
LEMMA OthersSpend ==
  ASSUME PathInv, Next, NEW s \in Services, NEW e \in Events,
         NEW t \in Services, t # s, Acts(t)
  PROVE  disruptions <= disruptions' /\ Spending(s, e)' <= Spending(s, e)
<1>0. /\ s \in Readers /\ t \in Readers /\ Worker \in Readers /\ t # Worker
      /\ TypeOK /\ runs \in [Services -> [Events -> Nat]]
  BY WorkerIsNoService DEF PathInv, TypeOK
<1>1. UNCHANGED Place(s) /\ UNCHANGED Place(Worker)
  BY <1>0, OthersStay
<1>2. /\ source' = source /\ disruptions <= disruptions'
      /\ \/ retry' = retry
         \/ \E rec \in RetryRecord : rec.service = t /\ retry' = Append(retry, rec)
  BY ServiceWrites
<1>3. SourceTries(s, e)' \subseteq SourceTries(s, e)
  BY <1>1, <1>2, SourceTriesBound
<1>4. Window(Worker)' \subseteq Window(Worker) \cup New(Worker)
  BY <1>0, <1>1, WindowStays
<1>5. RetryTries(s, e)' \subseteq RetryTries(s, e)
  <2>1. ASSUME NEW rec \in RetryRecord, rec.service = t, retry' = Append(retry, rec)
        PROVE  RetryTries(s, e)' \subseteq RetryTries(s, e)
    BY <1>4, <2>1, RetryTriesGrow
  <2>2. CASE retry' = retry
    BY <1>4, <2>2, RetryTriesGrow
  <2>3. QED BY <1>2, <2>1, <2>2
<1>6. runs'[s][e] = runs[s][e]
  <2>1. runs' = runs \/ \E d : runs' = Count(runs, t, d)
    BY <1>0 DEF Acts, ServiceStep, SkipOthers, HandleOk, HandleFails, Settle,
       PublishAcknowledged, PublishFails, Commit, CommitRejected, Restart, history
  <2>2. QED BY <1>0, <2>1, CountType
<1>7. /\ Cardinality(SourceTries(s, e)') <= Cardinality(SourceTries(s, e))
      /\ Cardinality(RetryTries(s, e)') <= Cardinality(RetryTries(s, e))
  BY <1>3, <1>5, TriesFinite, Fewer
<1>8. /\ runs[s][e] \in Nat
       /\ Cardinality(SourceTries(s, e)') \in Nat /\ Cardinality(RetryTries(s, e)') \in Nat
       /\ Cardinality(SourceTries(s, e)) \in Nat /\ Cardinality(RetryTries(s, e)) \in Nat
  BY SpendingType, TriesFinite
<1>9. QED BY <1>2, <1>6, <1>7, <1>8 DEF Spending

\* What is left of a try when the service itself moves on and the source topic does not.
LEMMA OwnTry ==
  ASSUME NEW s \in Services, NEW e \in Events, source' = source, NEW p \in SourceTries(s, e)'
  PROVE  /\ p = <<p[1], p[2]>> /\ p[1] \in Window(s)' /\ OnSource(s, e, p[1])
         /\ p[2] \in 1 .. retry_max_attempts /\ source[p[1] + 1].attempt <= p[2]
         /\ ~ Spent(s, p[1], p[2])'
         /\ p[1] \in Window(s) /\ ~ Spent(s, p[1], p[2]) => p \in SourceTries(s, e)
<1>1. /\ p = <<p[1], p[2]>> /\ p[1] \in SourceCopies(s, e)'
      /\ p[2] \in 1 .. retry_max_attempts
      /\ source'[p[1] + 1].attempt <= p[2] /\ ~ Spent(s, p[1], p[2])'
  BY DEF SourceTries
<1>2. p[1] \in Window(s)' /\ OnSource(s, e, p[1])
  BY <1>1 DEF SourceCopies, OnSource
<1>3. ASSUME p[1] \in Window(s), ~ Spent(s, p[1], p[2]) PROVE p \in SourceTries(s, e)
  BY <1>1, <1>2, <1>3 DEF SourceTries, SourceCopies
<1>4. QED BY <1>1, <1>2, <1>3

\* Reading a message spends the attempt it carries, if it is a copy of e.
LEMMA ReadingSpends ==
  ASSUME PathInv, AttemptsOK, NEW s \in Services, NEW e \in Events,
         pc[s] = "poll", position[s] < Len(source), source' = source,
         Window(s)' \subseteq Window(s),
         \/ position[s] \notin Window(s)'
         \/ pc'[s] = "publish" /\ hand'[s].offset = position[s]
  PROVE  LET o == position[s] IN
         /\ SourceTries(s, e)' \subseteq SourceTries(s, e)
         /\ OnSource(s, e, o) =>
              Cardinality(SourceTries(s, e)') + 1 <= Cardinality(SourceTries(s, e))
<1>o. PICK o : o = position[s]
  OBVIOUS
<1>a. PICK a : a = source[o + 1].attempt
  OBVIOUS
<1>1. /\ o \in Nat /\ Len(source) \in Nat /\ committed[s] \in Nat /\ Topic(s) = source
      /\ committed[s] <= o /\ source \in Seq(SourceRecord) /\ o < Len(source)
  <2>1. s \in Readers /\ TypeOK /\ ReaderOK(s) /\ Topic(s) = source
    BY WorkerIsNoService DEF PathInv, Topic
  <2>2. o \in Nat /\ committed[s] \in Nat /\ source \in Seq(SourceRecord) /\ Len(source) \in Nat
    BY <1>o, <2>1 DEF TypeOK
  <2>3. committed[s] <= o
    BY <1>o, <2>1 DEF ReaderOK, FrontOK, Front
  <2>4. QED BY <1>o, <2>1, <2>2, <2>3
<1>2. o \in Window(s)
  BY <1>1 DEF Window, Due
<1>3. SourceTries(s, e)' \subseteq SourceTries(s, e)
  BY OwnTry DEF Spent
<1>4. <<o, a>> \notin SourceTries(s, e)'
  <2>1. ASSUME <<o, a>> \in SourceTries(s, e)' PROVE FALSE
    <3>1. PICK p \in SourceTries(s, e)' : p = <<o, a>>
      BY <2>1
    <3>2. p[1] = o /\ p[2] = a
      BY <3>1
    <3>3. p[1] \in Window(s)' /\ ~ Spent(s, p[1], p[2])'
      BY <3>1, OwnTry
    <3>4. QED BY <1>o, <1>a, <3>2, <3>3 DEF Spent
  <2>2. QED BY <2>1
<1>5. ASSUME OnSource(s, e, o)
      PROVE  Cardinality(SourceTries(s, e)') + 1 <= Cardinality(SourceTries(s, e))
  <2>1. o + 1 \in DOMAIN source
    BY <1>1
  <2>2. a \in 1 .. retry_max_attempts
    BY <1>a, <1>5, <2>1 DEF AttemptsOK, OnSource
  <2>3. o \in SourceCopies(s, e)
    BY <1>2, <1>5 DEF SourceCopies
  <2>4. <<o, a>> \in SourceTries(s, e)
    BY <1>a, <2>2, <2>3, BudgetIsPositive DEF SourceTries, Spent
  <2>5. SourceTries(s, e)' \subseteq SourceTries(s, e) \ {<<o, a>>}
    BY <1>3, <1>4
  <2>6. QED BY <2>4, <2>5, TriesFinite, Sizes
<1>6. QED BY <1>o, <1>3, <1>5

\* What a failure record that lands may still be tried, against what is tried of its source.
LEMMA LandingSpends ==
  ASSUME PathInv, Next, NEW s \in Services, NEW e \in Events, AttemptsOK, HandedTry(s),
         pc[s] = "publish", Lands(s), UNCHANGED Place(Worker)
  PROVE  LET rec == source[hand[s].offset + 1] IN
         /\ rec.event # e =>
              Cardinality(RetryTries(s, e)') <= Cardinality(RetryTries(s, e))
         /\ rec.event = e =>
              /\ rec.attempt \in 1 .. retry_max_attempts
              /\ Cardinality(RetryTries(s, e)')
                   <= Cardinality(RetryTries(s, e)) + (retry_max_attempts - rec.attempt)
<1>0. s \in Readers /\ s # Worker /\ Worker \in Readers /\ TypeOK
  BY WorkerIsNoService DEF PathInv
<1>1. PICK rec : rec = source[hand[s].offset + 1]
  OBVIOUS
<1>2. rec.event = e => rec.attempt \in 1 .. retry_max_attempts
  <2>1. hand[s].offset + 1 \in DOMAIN source
    <3>1. hand[s].offset + 1 \in 1 .. Len(Topic(s)) /\ source \in Seq(SourceRecord)
      BY <1>0, RecordInHand DEF TypeOK
    <3>2. QED BY <1>0, <3>1 DEF Topic
  <2>2. QED BY <1>1, <2>1 DEF AttemptsOK
<1>3. Window(Worker)' \subseteq Window(Worker) \cup New(Worker)
  BY <1>0, WindowStays
<1>4. /\ IsFiniteSet(RetryTries(s, e)) /\ Cardinality(RetryTries(s, e)) \in Nat
  BY TriesFinite
<1>5. ASSUME RetryTries(s, e)' \subseteq RetryTries(s, e)
      PROVE  Cardinality(RetryTries(s, e)') <= Cardinality(RetryTries(s, e))
  BY <1>4, <1>5, Fewer
<1>6. ASSUME retry' = retry
      PROVE  Cardinality(RetryTries(s, e)') <= Cardinality(RetryTries(s, e))
  BY <1>3, <1>5, <1>6, RetryTriesGrow
<1>7. ASSUME NEW new \in RetryRecord, retry' = Append(retry, new),
             new.event = rec.event, new.attempt = rec.attempt + 1
      PROVE  /\ rec.event # e =>
                  Cardinality(RetryTries(s, e)') <= Cardinality(RetryTries(s, e))
             /\ rec.event = e =>
                  Cardinality(RetryTries(s, e)')
                    <= Cardinality(RetryTries(s, e)) + (retry_max_attempts - rec.attempt)
  <2>1. ASSUME rec.event # e
        PROVE  Cardinality(RetryTries(s, e)') <= Cardinality(RetryTries(s, e))
    BY <1>3, <1>5, <1>7, <2>1, RetryTriesGrow
  <2>2. ASSUME rec.event = e
        PROVE  Cardinality(RetryTries(s, e)')
                 <= Cardinality(RetryTries(s, e)) + (retry_max_attempts - rec.attempt)
    <3>1. RetryTries(s, e)' \subseteq RetryTries(s, e) \cup Tries(Len(retry), new.attempt)
      BY <1>3, <1>7, RetryTriesGrow
    <3>2. new.attempt \in Nat /\ new.attempt <= retry_max_attempts + 1
      BY <1>2, <1>7, <2>2, BudgetIsPositive
    <3>3. /\ IsFiniteSet(Tries(Len(retry), new.attempt))
          /\ Cardinality(Tries(Len(retry), new.attempt)) = retry_max_attempts + 1 - new.attempt
      BY <3>2, TriesCount
    <3>4. Cardinality(RetryTries(s, e)')
            <= Cardinality(RetryTries(s, e)) + Cardinality(Tries(Len(retry), new.attempt))
      BY <1>4, <3>1, <3>3, Added
    <3>5. retry_max_attempts + 1 - new.attempt = retry_max_attempts - rec.attempt
      BY <1>2, <1>7, <2>2, BudgetIsPositive
    <3>6. QED BY <3>3, <3>4, <3>5
  <2>3. QED BY <2>1, <2>2
<1>8. \/ retry' = retry
      \/ \E new \in RetryRecord :
           /\ new.event = rec.event /\ new.attempt = rec.attempt + 1
           /\ retry' = Append(retry, new)
  <2>1. ServiceLands(s)
    BY <1>0 DEF Lands
  <2>2. QED BY <1>1, <2>1, ServicePublishes
<1>9. CASE retry' = retry
  <2>1. ASSUME rec.event = e PROVE 0 <= retry_max_attempts - rec.attempt
    BY <1>2, <2>1, BudgetIsPositive
  <2>2. Cardinality(RetryTries(s, e)') <= Cardinality(RetryTries(s, e))
    BY <1>6, <1>9
  <2>3. Cardinality(RetryTries(s, e)') \in Nat
    BY SpendingType
  <2>4. ASSUME rec.event = e
        PROVE  Cardinality(RetryTries(s, e)')
                 <= Cardinality(RetryTries(s, e)) + (retry_max_attempts - rec.attempt)
    BY <1>2, <1>4, <2>1, <2>2, <2>3, <2>4, BudgetIsPositive
  <2>5. QED BY <1>1, <1>2, <2>2, <2>4
<1>10. CASE \E new \in RetryRecord :
              /\ new.event = rec.event /\ new.attempt = rec.attempt + 1
              /\ retry' = Append(retry, new)
  BY <1>1, <1>2, <1>7, <1>10
<1>11. QED BY <1>8, <1>9, <1>10

\* The service's own step: what it handles it pays for from what it had left, and a
\* disruption gives one message back, or leaves one on two topics.
LEMMA ServiceSpends ==
  ASSUME PathInv, Next, NEW s \in Services, NEW e \in Events, Acts(s),
         HandedOwn(s), AttemptsOK, HandedTry(s)
  PROVE  \/ disruptions <= disruptions' /\ Spending(s, e)' <= Spending(s, e)
         \/ /\ disruptions' = disruptions + 1
            /\ Spending(s, e)' <= Spending(s, e) + retry_max_attempts
<1>0. /\ s \in Readers /\ Worker \in Readers /\ s # Worker
      /\ TypeOK /\ runs \in [Services -> [Events -> Nat]]
  BY WorkerIsNoService DEF PathInv, TypeOK
<1>t. /\ runs[s][e] \in Nat /\ runs'[s][e] \in Nat /\ disruptions \in Nat /\ disruptions' \in Nat
      /\ Cardinality(SourceTries(s, e)') \in Nat /\ Cardinality(RetryTries(s, e)') \in Nat
  BY SpendingType
<1> DEFINE S == SourceTries(s, e)  R == RetryTries(s, e)
<1>1. /\ IsFiniteSet(S) /\ IsFiniteSet(R) /\ Cardinality(S) \in Nat /\ Cardinality(R) \in Nat
      /\ retry_max_attempts \in Nat /\ 1 <= retry_max_attempts
  BY TriesFinite, BudgetIsPositive
<1>2. source' = source /\ UNCHANGED Place(Worker)
  BY <1>0, ServiceWrites, OthersStay
<1>3. ASSUME retry' = retry PROVE Cardinality(R') <= Cardinality(R)
  <2>1. Window(Worker)' \subseteq Window(Worker) \cup New(Worker)
    BY <1>0, <1>2, WindowStays
  <2>2. R' \subseteq R
    BY <1>3, <2>1, RetryTriesGrow
  <2>3. QED BY <1>1, <2>2, Fewer
<1>4. New(s) = {}
  <2>1. Topic(s) = source /\ Topic(s)' = source' /\ Len(source) \in Nat
    BY <1>0 DEF Topic, TypeOK
  <2>2. QED BY <1>2, <2>1 DEF New
<1>5. \A c : Count(runs, s, c)[s][e] = IF c = e THEN runs[s][e] + 1 ELSE runs[s][e]
  BY <1>0, CountType
<1>6. PICK h : h = hand[s].offset
  OBVIOUS
<1>7. PICK rec : rec = source[h + 1]
  OBVIOUS
<1>8. ASSUME pc[s] = "publish" PROVE OnSource(s, e, h) <=> rec.event = e
  BY <1>0, <1>6, <1>7, <1>8 DEF HandedOwn, OnSource
<1>9. SUFFICES \/ /\ disruptions <= disruptions'
                  /\ runs'[s][e] + Cardinality(S') + Cardinality(R')
                       <= runs[s][e] + Cardinality(S) + Cardinality(R)
               \/ /\ disruptions' = disruptions + 1
                  /\ runs'[s][e] + Cardinality(S') + Cardinality(R')
                       <= runs[s][e] + Cardinality(S) + Cardinality(R) + retry_max_attempts
  BY DEF Spending
<1>10. ASSUME pc[s] = "poll", position[s] < Len(source), Window(s)' \subseteq Window(s),
              \/ position[s] \notin Window(s)'
              \/ pc'[s] = "publish" /\ hand'[s].offset = position[s],
              UNCHANGED <<retry, disruptions>>,
              \/ runs' = runs
              \/ /\ runs' = Count(runs, s, Upcoming(s).event)
                 /\ Upcoming(s).target \in {NoService, s}
       PROVE  runs'[s][e] + Cardinality(S') + Cardinality(R')
                <= runs[s][e] + Cardinality(S) + Cardinality(R)
  <2>1. /\ S' \subseteq S
        /\ OnSource(s, e, position[s]) => Cardinality(S') + 1 <= Cardinality(S)
    BY <1>2, <1>10, ReadingSpends
  <2>2. Cardinality(S') <= Cardinality(S) /\ Cardinality(R') <= Cardinality(R)
    BY <1>1, <1>3, <1>10, <2>1, Fewer
  <2>3. CASE runs' = runs
    <3>1. runs'[s][e] = runs[s][e]
      BY <2>3
    <3>2. QED BY <1>t, <1>1, <2>2, <3>1
  <2>4. CASE runs' = Count(runs, s, Upcoming(s).event) /\ Upcoming(s).target \in {NoService, s}
    <3>1. Upcoming(s).event = e => OnSource(s, e, position[s])
      BY <2>4 DEF OnSource, Upcoming
    <3>2. runs'[s][e] = IF Upcoming(s).event = e THEN runs[s][e] + 1 ELSE runs[s][e]
      BY <1>5, <2>4
    <3>3. QED BY <1>t, <1>1, <2>1, <2>2, <3>1, <3>2
  <2>5. QED BY <1>10, <2>3, <2>4
<1>11. CASE SkipOthers(s) \/ HandleOk(s)
  <2>1. /\ pc[s] = "poll" /\ position[s] < Len(source) /\ UNCHANGED <<retry, disruptions>>
        /\ \/ runs' = runs
           \/ /\ runs' = Count(runs, s, Upcoming(s).event)
              /\ Upcoming(s).target \in {NoService, s}
    BY <1>11 DEF SkipOthers, HandleOk, CanRead, topics, history, for_us
  <2>2. Window(s)' \subseteq Window(s) \ {position[s]}
    <3>1. pc'[s] = "commit" /\ hand'[s].offset = position[s] /\ committed' = committed
      BY <1>0, <1>11 DEF SkipOthers, HandleOk, Take, Goto, TypeOK
    <3>2. Topic(s) = source /\ Topic(s)' = source
      BY <1>0, <1>2 DEF Topic
    <3>3. QED BY <2>1, <3>1, <3>2 DEF Window, Due
  <2>3. runs'[s][e] + Cardinality(S') + Cardinality(R')
          <= runs[s][e] + Cardinality(S) + Cardinality(R)
    BY <1>10, <2>1, <2>2
  <2>4. QED BY <1>t, <2>1, <2>3
<1>12. CASE \E retryable \in BOOLEAN : HandleFails(s, retryable)
  <2>1. /\ pc[s] = "poll" /\ position[s] < Len(source) /\ UNCHANGED <<retry, disruptions>>
        /\ pc'[s] = "publish" /\ hand'[s].offset = position[s] /\ committed' = committed
        /\ \/ runs' = runs
           \/ /\ runs' = Count(runs, s, Upcoming(s).event)
              /\ Upcoming(s).target \in {NoService, s}
    BY <1>0, <1>12 DEF HandleFails, CanRead, topics, for_us, Take, Goto, TypeOK
  <2>2. Window(s)' \subseteq Window(s)
    <3>1. Topic(s) = source /\ Topic(s)' = source
      BY <1>0, <1>2 DEF Topic
    <3>2. QED BY <2>1, <3>1 DEF Window, Due
  <2>3. runs'[s][e] + Cardinality(S') + Cardinality(R')
          <= runs[s][e] + Cardinality(S) + Cardinality(R)
    BY <1>10, <2>1, <2>2
  <2>4. QED BY <1>t, <2>1, <2>3
<1>13. CASE /\ PublishAcknowledged(s) /\ pc[s] = "publish"
            /\ hand[s].offset \in Window(s)
            /\ Window(s)' \subseteq (Window(s) \ {hand[s].offset}) \cup New(s)
  <2>1. disruptions' = disruptions /\ runs' = runs /\ Lands(s)
    BY <1>13 DEF PublishAcknowledged
  <2>2. /\ rec.event # e => Cardinality(R') <= Cardinality(R)
        /\ rec.event = e =>
             /\ rec.attempt \in 1 .. retry_max_attempts
             /\ Cardinality(R') <= Cardinality(R) + (retry_max_attempts - rec.attempt)
    BY <1>2, <1>6, <1>7, <1>13, <2>1, LandingSpends
  <2>3. S' \subseteq S /\ \A p \in S' : p[1] # h
    BY <1>2, <1>4, <1>6, <1>13, OwnTry DEF Spent
  <2>4. CASE rec.event # e
    <3>1. Cardinality(S') <= Cardinality(S)
      BY <1>1, <2>3, Fewer
    <3>2. runs'[s][e] = runs[s][e]
      BY <2>1
    <3>3. QED BY <1>t, <1>1, <2>1, <2>2, <2>4, <3>1, <3>2
  <2>5. CASE rec.event = e
    <3>1. PICK b : b = rec.attempt + 1
      OBVIOUS
    <3>2. b \in Nat /\ b <= retry_max_attempts + 1 /\ 1 <= b
      BY <1>1, <2>2, <2>5, <3>1
    <3>3. Tries(h, b) \subseteq S
      <4>1. h \in SourceCopies(s, e)
        BY <1>6, <1>8, <1>13, <2>5 DEF SourceCopies
      <4>2. ASSUME NEW p \in Tries(h, b) PROVE p \in S
        <5>1. p = <<p[1], p[2]>> /\ p[1] = h /\ p[2] \in b .. retry_max_attempts
          BY <4>2 DEF Tries
        <5>2. /\ p[2] \in 1 .. retry_max_attempts /\ source[p[1] + 1].attempt <= p[2]
              /\ p[2] # source[p[1] + 1].attempt
          BY <1>1, <1>7, <2>2, <2>5, <3>1, <3>2, <5>1
        <5>3. QED BY <4>1, <5>1, <5>2 DEF SourceTries, Spent
      <4>3. QED BY <4>2
    <3>4. S' \subseteq S \ Tries(h, b)
      BY <2>3 DEF Tries
    <3>5. Cardinality(S') + Cardinality(Tries(h, b)) <= Cardinality(S)
      BY <1>1, <3>3, <3>4, Removed
    <3>6. Cardinality(Tries(h, b)) = retry_max_attempts - rec.attempt
      <4>1. Cardinality(Tries(h, b)) = retry_max_attempts + 1 - b
        BY <3>2, TriesCount
      <4>2. QED BY <1>1, <2>2, <2>5, <3>1, <4>1
    <3>7. runs'[s][e] = runs[s][e] /\ rec.attempt \in Nat
      BY <2>1, <2>2, <2>5
    <3>8. QED BY <1>t, <1>1, <2>1, <2>2, <2>5, <3>5, <3>6, <3>7
  <2>6. QED BY <2>4, <2>5
<1>14. CASE PublishFails(s) /\ pc[s] = "publish" /\ Window(s)' \subseteq Window(s) \cup New(s)
  <2>1. /\ disruptions' = disruptions + 1 /\ runs'[s][e] = runs[s][e]
        /\ Lands(s) \/ UNCHANGED <<source, retry, dlq, ends>>
    BY <1>14 DEF PublishFails, Disrupt
  <2>2. /\ S' \subseteq S \cup {<<h, rec.attempt>>}
        /\ rec.event # e => S' \subseteq S
    <3>1. ASSUME NEW p \in S'
          PROVE  p \in S \/ (p = <<h, rec.attempt>> /\ OnSource(s, e, h))
      <4>1. /\ p = <<p[1], p[2]>> /\ p[1] \in Window(s) /\ OnSource(s, e, p[1])
            /\ ~ Spent(s, p[1], p[2]) => p \in S
        BY <1>2, <1>4, <1>14, <3>1, OwnTry
      <4>2. CASE Spent(s, p[1], p[2])
        BY <1>6, <1>7, <4>1, <4>2 DEF Spent
      <4>3. QED BY <4>1, <4>2
    <3>2. QED BY <1>8, <1>14, <3>1
  <2>3. /\ Cardinality(S') <= Cardinality(S) + 1
        /\ rec.event # e => Cardinality(S') <= Cardinality(S)
    BY <1>1, <2>2, Sizes
  <2>4. CASE Lands(s)
    <3>1. /\ rec.event # e => Cardinality(R') <= Cardinality(R)
          /\ rec.event = e =>
               /\ rec.attempt \in 1 .. retry_max_attempts
               /\ Cardinality(R') <= Cardinality(R) + (retry_max_attempts - rec.attempt)
      BY <1>2, <1>6, <1>7, <1>14, <2>4, LandingSpends
    <3>2. Cardinality(S') + Cardinality(R')
            <= Cardinality(S) + Cardinality(R) + retry_max_attempts
      BY <1>t, <1>1, <2>3, <3>1
    <3>3. QED BY <1>t, <1>1, <2>1, <3>2
  <2>5. CASE UNCHANGED <<source, retry, dlq, ends>>
    <3>1. Cardinality(R') <= Cardinality(R)
      BY <1>3, <2>5
    <3>2. QED BY <1>t, <1>1, <2>1, <2>3, <3>1
  <2>6. QED BY <2>1, <2>4, <2>5
<1>15. CASE /\ CommitRejected(s) \/ Restart(s)
            /\ UNCHANGED <<source, retry, dlq, ends>> /\ Disrupt
            /\ Window(s)' \subseteq Window(s) \cup {hand[s].offset}
  <2>1. disruptions' = disruptions + 1 /\ runs'[s][e] = runs[s][e]
    BY <1>15 DEF Disrupt, CommitRejected, Restart, history
  <2>2. S' \subseteq S \cup Tries(h, 1)
    <3>1. ASSUME NEW p \in S' PROVE p \in S \/ p \in Tries(h, 1)
      <4>1. /\ p = <<p[1], p[2]>> /\ p[1] \in Window(s) \cup {h}
            /\ p[2] \in 1 .. retry_max_attempts
            /\ p[1] \in Window(s) /\ ~ Spent(s, p[1], p[2]) => p \in S
        BY <1>2, <1>6, <1>15, <3>1, OwnTry
      <4>2. p[1] = h => p \in Tries(h, 1)
        BY <4>1 DEF Tries
      <4>3. p[1] # h => p \in S
        BY <1>6, <4>1 DEF Spent
      <4>4. QED BY <4>2, <4>3
    <3>2. QED BY <3>1
  <2>3. IsFiniteSet(Tries(h, 1)) /\ Cardinality(Tries(h, 1)) = retry_max_attempts
    <3>1. /\ IsFiniteSet(Tries(h, 1))
          /\ Cardinality(Tries(h, 1)) = retry_max_attempts + 1 - 1
      BY <1>1, TriesCount
    <3>2. QED BY <1>1, <3>1
  <2>4. Cardinality(S') <= Cardinality(S) + retry_max_attempts
    BY <1>1, <2>2, <2>3, Added
  <2>5. Cardinality(R') <= Cardinality(R)
    BY <1>3, <1>15
  <2>6. QED BY <1>t, <1>1, <2>1, <2>4, <2>5
<1>16. CASE /\ Commit(s) /\ UNCHANGED <<source, retry, dlq, ends, disruptions>>
            /\ Window(s)' \subseteq Window(s)
  <2>1. pc[s] = "commit" /\ runs'[s][e] = runs[s][e] /\ disruptions' = disruptions
    BY <1>16 DEF Commit, history
  <2>2. S' \subseteq S
    BY <1>2, <1>16, <2>1, OwnTry DEF Spent
  <2>3. Cardinality(S') <= Cardinality(S) /\ Cardinality(R') <= Cardinality(R)
    BY <1>1, <1>3, <1>16, <2>2, Fewer
  <2>4. QED BY <1>t, <1>1, <2>1, <2>3
<1>17. QED BY <1>0, <1>11, <1>12, <1>13, <1>14, <1>15, <1>16, WindowMoves

\* The worker's step: a copy keeps its attempts where it goes, and a disruption gives one
\* message back, or leaves one on two topics.
LEMMA WorkerSpends ==
  ASSUME PathInv, Next, NEW s \in Services, NEW e \in Events, Acts(Worker),
         HandedOwn(Worker), AttemptsOK
  PROVE  \/ disruptions <= disruptions' /\ Spending(s, e)' <= Spending(s, e)
         \/ /\ disruptions' = disruptions + 1
            /\ Spending(s, e)' <= Spending(s, e) + retry_max_attempts
<1>0. /\ s \in Readers /\ Worker \in Readers /\ s # Worker /\ Worker \notin Services
      /\ TypeOK /\ NoService \notin Services
  BY WorkerIsNoService, PathAssumption DEF PathInv, Readers
<1>t. /\ runs[s][e] \in Nat /\ runs'[s][e] \in Nat /\ disruptions \in Nat /\ disruptions' \in Nat
      /\ Cardinality(SourceTries(s, e)') \in Nat /\ Cardinality(RetryTries(s, e)') \in Nat
  BY SpendingType
<1> DEFINE S == SourceTries(s, e)  R == RetryTries(s, e)
<1>1. /\ IsFiniteSet(S) /\ IsFiniteSet(R) /\ Cardinality(S) \in Nat /\ Cardinality(R) \in Nat
      /\ retry_max_attempts \in Nat /\ 1 <= retry_max_attempts
  BY TriesFinite, BudgetIsPositive
<1>2. UNCHANGED Place(s)
  BY <1>0, OthersStay
<1>3. runs'[s][e] = runs[s][e]
  BY <1>0 DEF Acts, WorkerStep, Defer, ResumeDue, WorkerTakes, Settle,
     PublishAcknowledged, PublishFails, Commit, CommitRejected, Restart, history
<1>4. PICK h : h = hand[Worker].offset
  OBVIOUS
<1>5. PICK old : old = retry[h + 1]
  OBVIOUS
<1>6. PICK mine \in BOOLEAN : mine <=> old.event = e /\ old.service = s
  OBVIOUS
<1>7. ASSUME pc[Worker] = "publish", mine PROVE old.attempt \in 1 .. retry_max_attempts
  <2>1. h + 1 \in DOMAIN retry
    <3>1. h + 1 \in 1 .. Len(Topic(Worker)) /\ retry \in Seq(RetryRecord)
      BY <1>0, <1>4, <1>7, RecordInHand DEF TypeOK
    <3>2. QED BY <3>1 DEF Topic
  <2>2. QED BY <1>5, <1>6, <1>7, <2>1 DEF AttemptsOK
<1>8. ASSUME source' = source PROVE Cardinality(S') <= Cardinality(S)
  <2>1. S' \subseteq S
    BY <1>2, <1>8, SourceTriesBound
  <2>2. QED BY <1>1, <2>1, Fewer
<1>9. ASSUME NEW new, new.event = old.event, new.attempt = old.attempt, NEW n,
             pc[Worker] = "publish", mine
      PROVE  /\ new.attempt \in Nat /\ IsFiniteSet(Tries(n, new.attempt))
             /\ Cardinality(Tries(n, new.attempt)) = retry_max_attempts + 1 - old.attempt
             /\ retry_max_attempts + 1 - old.attempt \in 0 .. retry_max_attempts
  <2>1. old.attempt \in 1 .. retry_max_attempts
    BY <1>7, <1>9
  <2>2. new.attempt \in Nat /\ new.attempt <= retry_max_attempts + 1
    BY <1>1, <1>9, <2>1
  <2>3. retry_max_attempts + 1 - old.attempt \in 0 .. retry_max_attempts
    BY <1>1, <2>1
  <2>4. QED BY <1>9, <2>2, <2>3, TriesCount
<1>10. ASSUME WorkerLands, pc[Worker] = "publish"
       PROVE  \/ /\ retry' = retry
                 /\ ~ mine => Cardinality(S') <= Cardinality(S)
                 /\ mine => Cardinality(S') <= Cardinality(S) + (retry_max_attempts + 1 - old.attempt)
              \/ /\ source' = source
                 /\ \E new \in RetryRecord :
                      /\ new.event = old.event /\ new.service = old.service
                      /\ new.attempt = old.attempt /\ retry' = Append(retry, new)
              \/ source' = source /\ retry' = retry
  <2>1. \/ /\ hand[Worker].route = "source"
           /\ \E new \in SourceRecord :
                /\ new.event = old.event /\ new.target = old.service
                /\ new.attempt = old.attempt /\ source' = Append(source, new)
           /\ retry' = retry
        \/ /\ source' = source
           /\ \E new \in RetryRecord :
                /\ new.event = old.event /\ new.service = old.service
                /\ new.attempt = old.attempt /\ retry' = Append(retry, new)
        \/ source' = source /\ retry' = retry
    BY <1>4, <1>5, <1>10, WorkerPublishes
  <2>2. ASSUME NEW new \in SourceRecord, hand[Worker].route = "source", retry' = retry,
               new.event = old.event, new.target = old.service,
               new.attempt = old.attempt, source' = Append(source, new)
        PROVE  /\ ~ mine => Cardinality(S') <= Cardinality(S)
               /\ mine => Cardinality(S') <= Cardinality(S) + (retry_max_attempts + 1 - old.attempt)
    <3>1. old.service \in Services
      BY <1>4, <1>5, <1>10, <2>2 DEF HandedOwn
    <3>2. ASSUME ~ mine PROVE Cardinality(S') <= Cardinality(S)
      <4>1. ~ (new.event = e /\ new.target \in {NoService, s})
        BY <1>0, <1>6, <2>2, <3>1, <3>2
      <4>2. S' \subseteq S
        BY <1>2, <2>2, <4>1, SourceTriesBound
      <4>3. QED BY <1>1, <4>2, Fewer
    <3>3. ASSUME mine
          PROVE  Cardinality(S') <= Cardinality(S) + (retry_max_attempts + 1 - old.attempt)
      <4>1. S' \subseteq S \cup Tries(Len(source), new.attempt)
        BY <1>2, <2>2, SourceTriesBound
      <4>2. /\ IsFiniteSet(Tries(Len(source), new.attempt))
            /\ Cardinality(Tries(Len(source), new.attempt)) = retry_max_attempts + 1 - old.attempt
        BY <1>9, <1>10, <2>2, <3>3
      <4>3. Cardinality(S') <= Cardinality(S) + Cardinality(Tries(Len(source), new.attempt))
        BY <1>1, <4>1, <4>2, Added
      <4>4. QED BY <4>2, <4>3
    <3>4. QED BY <3>2, <3>3
  <2>3. QED BY <2>1, <2>2
<1>11. SUFFICES \/ /\ disruptions <= disruptions'
                   /\ Cardinality(S') + Cardinality(R') <= Cardinality(S) + Cardinality(R)
                \/ /\ disruptions' = disruptions + 1
                   /\ Cardinality(S') + Cardinality(R')
                        <= Cardinality(S) + Cardinality(R) + retry_max_attempts
  BY <1>t, <1>1, <1>3 DEF Spending
<1>12. CASE /\ PublishAcknowledged(Worker) /\ pc[Worker] = "publish"
            /\ h \in Window(Worker)
            /\ Window(Worker)' \subseteq (Window(Worker) \ {h}) \cup New(Worker)
  <2>1. disruptions' = disruptions /\ WorkerLands
    BY <1>12 DEF PublishAcknowledged, Lands
  <2>2. PICK Y, Z, left : Y = {} /\ Z = {h}
                          /\ left = (R \ (Z \X (1 .. retry_max_attempts)))
                                      \cup (Y \X (1 .. retry_max_attempts))
    OBVIOUS
  <2>3. Window(Worker)' \subseteq (Window(Worker) \ Z) \cup New(Worker) \cup Y
    BY <1>12, <2>2
  <2>4. /\ retry' = retry => R' \subseteq left
        /\ \A rec \in RetryRecord : retry' = Append(retry, rec) =>
             /\ R' \subseteq left \cup Tries(Len(retry), rec.attempt)
             /\ ~ (rec.event = e /\ rec.service = s) => R' \subseteq left
    <3>1. /\ retry' = retry =>
               RetryTries(s, e)' \subseteq (RetryTries(s, e) \ (Z \X (1 .. retry_max_attempts)))
                                             \cup (Y \X (1 .. retry_max_attempts))
          /\ \A rec \in RetryRecord : retry' = Append(retry, rec) =>
               /\ RetryTries(s, e)' \subseteq
                    ((RetryTries(s, e) \ (Z \X (1 .. retry_max_attempts)))
                       \cup (Y \X (1 .. retry_max_attempts)))
                         \cup Tries(Len(retry), rec.attempt)
               /\ ~ (rec.event = e /\ rec.service = s) =>
                    RetryTries(s, e)' \subseteq
                      (RetryTries(s, e) \ (Z \X (1 .. retry_max_attempts)))
                        \cup (Y \X (1 .. retry_max_attempts))
      BY <1>0, <2>3, RetryTriesBound
    <3>2. (RetryTries(s, e) \ (Z \X (1 .. retry_max_attempts)))
            \cup (Y \X (1 .. retry_max_attempts)) = left
      BY <2>2
    <3>3. QED BY <3>1, <3>2
  <2>5. left \subseteq R /\ IsFiniteSet(left)
    <3>1. left \subseteq R
      BY <2>2
    <3>2. QED BY <1>1, <3>1, FS_Subset
  <2>6. Cardinality(left) <= Cardinality(R) /\ Cardinality(left) \in Nat
    BY <1>1, <2>5, Fewer, FS_CardinalityType
  <2>7. ASSUME mine
        PROVE  Cardinality(left) + (retry_max_attempts + 1 - old.attempt) <= Cardinality(R)
    <3>1. old.attempt \in 1 .. retry_max_attempts
      BY <1>7, <1>12, <2>7
    <3>2. h \in RetryCopies(s, e)
      BY <1>5, <1>6, <1>12, <2>7 DEF RetryCopies
    <3>3. ASSUME NEW p \in Tries(h, old.attempt)
          PROVE  p \in R /\ p \in Z \X (1 .. retry_max_attempts)
      <4>1. p = <<p[1], p[2]>> /\ p[1] = h /\ p[2] \in old.attempt .. retry_max_attempts
        BY <3>3 DEF Tries
      <4>2. p[2] \in 1 .. retry_max_attempts /\ retry[p[1] + 1].attempt <= p[2]
        BY <1>1, <1>5, <3>1, <4>1
      <4>3. QED BY <2>2, <3>2, <4>1, <4>2 DEF RetryTries
    <3>4. Tries(h, old.attempt) \in SUBSET R /\ left \subseteq R \ Tries(h, old.attempt)
      <4>1. Y \X (1 .. retry_max_attempts) = {}
        BY <2>2
      <4>2. QED BY <2>2, <3>3, <4>1
    <3>5. Cardinality(left) + Cardinality(Tries(h, old.attempt)) <= Cardinality(R)
      BY <1>1, <3>4, Removed
    <3>6. Cardinality(Tries(h, old.attempt)) = retry_max_attempts + 1 - old.attempt
      BY <1>9, <1>12, <2>7
    <3>7. QED BY <3>5, <3>6
  <2>8. ASSUME R' \subseteq left
        PROVE  Cardinality(R') <= Cardinality(left)
    BY <2>5, <2>8, Fewer
  <2>9. CASE source' = source /\ retry' = retry
    BY <1>t, <1>1, <1>8, <2>1, <2>4, <2>6, <2>8, <2>9
  <2>10. CASE /\ retry' = retry
              /\ ~ mine => Cardinality(S') <= Cardinality(S)
              /\ mine => Cardinality(S') <= Cardinality(S) + (retry_max_attempts + 1 - old.attempt)
    <3>1. Cardinality(R') <= Cardinality(left)
      BY <2>4, <2>8, <2>10
    <3>2. CASE ~ mine
      BY <1>t, <1>1, <2>1, <2>6, <2>10, <3>1, <3>2
    <3>3. CASE mine
      <4>1. old.attempt \in 1 .. retry_max_attempts
        BY <1>7, <1>12, <3>3
      <4>2. QED BY <1>t, <1>1, <2>1, <2>6, <2>7, <2>10, <3>1, <3>3, <4>1
    <3>4. QED BY <3>2, <3>3
  <2>11. ASSUME source' = source, NEW new \in RetryRecord,
                new.event = old.event, new.service = old.service,
                new.attempt = old.attempt, retry' = Append(retry, new)
         PROVE  Cardinality(S') + Cardinality(R') <= Cardinality(S) + Cardinality(R)
    <3>1. Cardinality(S') <= Cardinality(S)
      BY <1>8, <2>11
    <3>2. CASE ~ mine
      <4>1. R' \subseteq left
        BY <1>6, <2>4, <2>11, <3>2
      <4>2. QED BY <1>t, <1>1, <2>6, <2>8, <3>1, <4>1
    <3>3. CASE mine
      <4>1. R' \subseteq left \cup Tries(Len(retry), new.attempt)
        BY <2>4, <2>11
      <4>2. /\ IsFiniteSet(Tries(Len(retry), new.attempt))
            /\ Cardinality(Tries(Len(retry), new.attempt)) = retry_max_attempts + 1 - old.attempt
        BY <1>9, <1>12, <2>11, <3>3
      <4>3. Cardinality(R') <= Cardinality(left) + Cardinality(Tries(Len(retry), new.attempt))
        BY <2>5, <4>1, <4>2, Added
      <4>4. /\ Cardinality(R') <= Cardinality(left) + (retry_max_attempts + 1 - old.attempt)
            /\ Cardinality(left) + (retry_max_attempts + 1 - old.attempt) <= Cardinality(R)
            /\ retry_max_attempts + 1 - old.attempt \in Int
        <5>1. old.attempt \in 1 .. retry_max_attempts
          BY <1>7, <1>12, <3>3
        <5>2. retry_max_attempts + 1 - old.attempt \in Int
          BY <1>1, <5>1
        <5>3. QED BY <2>7, <3>3, <4>2, <4>3, <5>2
      <4>5. Cardinality(R') <= Cardinality(R)
        BY <1>t, <1>1, <2>6, <4>4
      <4>6. QED BY <1>t, <1>1, <3>1, <4>5
    <3>4. QED BY <3>2, <3>3
  <2>12. QED BY <1>t, <1>10, <1>12, <2>1, <2>9, <2>10, <2>11
<1>13. CASE /\ PublishFails(Worker) /\ pc[Worker] = "publish"
            /\ Window(Worker)' \subseteq Window(Worker) \cup New(Worker)
  <2>1. /\ disruptions' = disruptions + 1
        /\ WorkerLands \/ UNCHANGED <<source, retry, dlq, ends>>
    BY <1>13 DEF PublishFails, Disrupt, Lands
  <2>2. ASSUME retry' = retry PROVE Cardinality(R') <= Cardinality(R)
    <3>1. R' \subseteq R
      BY <1>13, <2>2, RetryTriesGrow
    <3>2. QED BY <1>1, <3>1, Fewer
  <2>3. CASE source' = source /\ retry' = retry
    BY <1>t, <1>1, <1>8, <2>1, <2>2, <2>3
  <2>4. CASE /\ retry' = retry
             /\ ~ mine => Cardinality(S') <= Cardinality(S)
             /\ mine => Cardinality(S') <= Cardinality(S) + (retry_max_attempts + 1 - old.attempt)
    <3>1. Cardinality(R') <= Cardinality(R)
      BY <2>2, <2>4
    <3>2. CASE ~ mine
      BY <1>t, <1>1, <2>1, <2>4, <3>1, <3>2
    <3>3. CASE mine
      <4>1. old.attempt \in 1 .. retry_max_attempts
        BY <1>7, <1>13, <3>3
      <4>2. QED BY <1>t, <1>1, <2>1, <2>4, <3>1, <3>3, <4>1
    <3>4. QED BY <3>2, <3>3
  <2>5. ASSUME source' = source, NEW new \in RetryRecord,
               new.event = old.event, new.service = old.service,
               new.attempt = old.attempt, retry' = Append(retry, new)
        PROVE  Cardinality(S') + Cardinality(R')
                 <= Cardinality(S) + Cardinality(R) + retry_max_attempts
    <3>1. Cardinality(S') <= Cardinality(S)
      BY <1>8, <2>5
    <3>2. CASE ~ mine
      <4>1. R' \subseteq R
        BY <1>6, <1>13, <2>5, <3>2, RetryTriesGrow
      <4>2. Cardinality(R') <= Cardinality(R)
        BY <1>1, <4>1, Fewer
      <4>3. QED BY <1>t, <1>1, <3>1, <4>2
    <3>3. CASE mine
      <4>1. R' \subseteq R \cup Tries(Len(retry), new.attempt)
        BY <1>13, <2>5, RetryTriesGrow
      <4>2. /\ IsFiniteSet(Tries(Len(retry), new.attempt))
            /\ Cardinality(Tries(Len(retry), new.attempt)) = retry_max_attempts + 1 - old.attempt
            /\ retry_max_attempts + 1 - old.attempt \in 0 .. retry_max_attempts
        BY <1>9, <1>13, <2>5, <3>3
      <4>3. Cardinality(R') <= Cardinality(R) + Cardinality(Tries(Len(retry), new.attempt))
        BY <1>1, <4>1, <4>2, Added
      <4>4. QED BY <1>t, <1>1, <3>1, <4>2, <4>3
    <3>4. QED BY <3>2, <3>3
  <2>6. QED BY <1>t, <1>10, <1>13, <2>1, <2>3, <2>4, <2>5
<1>14. CASE /\ UNCHANGED <<source, retry, dlq, ends>> /\ Disrupt
            /\ Window(Worker)' \subseteq Window(Worker) \cup {h}
  <2>1. disruptions' = disruptions + 1
    BY <1>14 DEF Disrupt
  <2>2. PICK Y, Z, left : Y = {h} /\ Z = {} /\ left = R \ (Z \X (1 .. retry_max_attempts))
    OBVIOUS
  <2>3. Window(Worker)' \subseteq (Window(Worker) \ Z) \cup New(Worker) \cup Y
    BY <1>14, <2>2
  <2>4. R' \subseteq left \cup (Y \X (1 .. retry_max_attempts))
    <3>1. RetryTries(s, e)' \subseteq (RetryTries(s, e) \ (Z \X (1 .. retry_max_attempts)))
                                         \cup (Y \X (1 .. retry_max_attempts))
      BY <1>14, <2>3, RetryTriesBound
    <3>2. QED BY <2>2, <3>1
  <2>5. left = R /\ Y \X (1 .. retry_max_attempts) = Tries(h, 1)
    BY <2>2 DEF Tries
  <2>6. R' \subseteq R \cup Tries(h, 1)
    BY <2>4, <2>5
  <2>7. IsFiniteSet(Tries(h, 1)) /\ Cardinality(Tries(h, 1)) = retry_max_attempts
    <3>1. IsFiniteSet(Tries(h, 1)) /\ Cardinality(Tries(h, 1)) = retry_max_attempts + 1 - 1
      BY <1>1, TriesCount
    <3>2. QED BY <1>1, <3>1
  <2>8. Cardinality(R') <= Cardinality(R) + retry_max_attempts
    BY <1>1, <2>6, <2>7, Added
  <2>9. Cardinality(S') <= Cardinality(S)
    BY <1>8, <1>14
  <2>10. QED BY <1>t, <1>1, <2>1, <2>8, <2>9
<1>15. CASE /\ UNCHANGED <<source, retry, dlq, ends, disruptions>>
            /\ Window(Worker)' \subseteq Window(Worker)
  <2>1. Window(Worker)' \subseteq Window(Worker) \cup New(Worker)
    BY <1>15
  <2>2. R' \subseteq R
    BY <1>15, <2>1, RetryTriesGrow
  <2>3. Cardinality(R') <= Cardinality(R) /\ Cardinality(S') <= Cardinality(S)
    BY <1>1, <1>8, <1>15, <2>2, Fewer
  <2>4. QED BY <1>t, <1>1, <1>15, <2>3
<1>16. \/ /\ PublishAcknowledged(Worker) /\ pc[Worker] = "publish"
          /\ h \in Window(Worker)
          /\ Window(Worker)' \subseteq (Window(Worker) \ {h}) \cup New(Worker)
       \/ /\ PublishFails(Worker) /\ pc[Worker] = "publish"
          /\ Window(Worker)' \subseteq Window(Worker) \cup New(Worker)
       \/ /\ UNCHANGED <<source, retry, dlq, ends>> /\ Disrupt
          /\ Window(Worker)' \subseteq Window(Worker) \cup {h}
       \/ /\ UNCHANGED <<source, retry, dlq, ends, disruptions>>
          /\ Window(Worker)' \subseteq Window(Worker)
  <2>1. PICK r \in Readers : r = Worker
    BY <1>0
  <2>2. r \notin Services /\ Acts(r) /\ h = hand[r].offset
    BY <1>0, <1>4, <2>1
  <2>3. \/ /\ PublishAcknowledged(r) /\ pc[r] = "publish"
           /\ h \in Window(r)
           /\ Window(r)' \subseteq (Window(r) \ {h}) \cup New(r)
        \/ PublishFails(r) /\ pc[r] = "publish" /\ Window(r)' \subseteq Window(r) \cup New(r)
        \/ /\ UNCHANGED <<source, retry, dlq, ends>> /\ Disrupt
           /\ Window(r)' \subseteq Window(r) \cup {h}
        \/ /\ UNCHANGED <<source, retry, dlq, ends, disruptions>>
           /\ Window(r)' \subseteq Window(r)
    BY <2>2, WindowMoves
  <2>4. QED BY <2>1, <2>3
<1>17. QED BY <1>12, <1>13, <1>14, <1>15, <1>16

\* What dlq_replay puts back brings a whole budget, on the operator's account.
LEMMA ReplaySpends ==
  ASSUME PathInv, Replay, NEW s \in Services, NEW e \in Events
  PROVE  \/ /\ replays[e] <= replays'[e] /\ disruptions <= disruptions'
            /\ Spending(s, e)' <= Spending(s, e)
         \/ /\ replays'[e] = replays[e] + 1 /\ disruptions' = disruptions
            /\ Spending(s, e)' <= Spending(s, e) + retry_max_attempts
<1>0. /\ s \in Readers /\ Worker \in Readers /\ Next /\ TypeOK /\ NoService \notin Services
  BY WorkerIsNoService, PathAssumption DEF PathInv, Next, Readers
<1>t. /\ runs[s][e] \in Nat /\ runs'[s][e] \in Nat /\ disruptions \in Nat /\ disruptions' \in Nat
      /\ replays[e] \in Nat /\ replays'[e] \in Nat
      /\ Cardinality(SourceTries(s, e)') \in Nat /\ Cardinality(RetryTries(s, e)') \in Nat
  BY <1>0, SpendingType
<1> DEFINE S == SourceTries(s, e)  R == RetryTries(s, e)
<1>1. /\ IsFiniteSet(S) /\ IsFiniteSet(R) /\ Cardinality(S) \in Nat /\ Cardinality(R) \in Nat
      /\ retry_max_attempts \in Nat /\ 1 <= retry_max_attempts
  BY TriesFinite, BudgetIsPositive
<1>2. UNCHANGED Place(s) /\ UNCHANGED Place(Worker) /\ runs'[s][e] = runs[s][e]
  BY ReplayGrows DEF Place, history
<1>3. Window(Worker)' \subseteq Window(Worker) \cup New(Worker)
  BY <1>0, <1>2, WindowStays
<1>4. ASSUME source' = source PROVE Cardinality(S') <= Cardinality(S)
  <2>1. S' \subseteq S
    BY <1>0, <1>2, <1>4, SourceTriesBound
  <2>2. QED BY <1>1, <2>1, Fewer
<1>5. ASSUME retry' = retry \/ \E rec \in RetryRecord :
                 rec.service = NoService /\ retry' = Append(retry, rec)
      PROVE  Cardinality(R') <= Cardinality(R)
  <2>1. R' \subseteq R
    BY <1>0, <1>3, <1>5, RetryTriesGrow
  <2>2. QED BY <1>1, <2>1, Fewer
<1>6. ASSUME NEW rec \in SourceRecord, rec.attempt = 1, source' = Append(source, rec)
      PROVE  /\ rec.event # e => Cardinality(S') <= Cardinality(S)
             /\ Cardinality(S') <= Cardinality(S) + retry_max_attempts
  <2>1. /\ S' \subseteq S \cup Tries(Len(source), rec.attempt)
        /\ rec.event # e => S' \subseteq S
    BY <1>0, <1>2, <1>6, SourceTriesBound
  <2>2. S' \subseteq S \cup Tries(Len(source), 1)
    BY <1>6, <2>1
  <2>3. /\ IsFiniteSet(Tries(Len(source), 1))
        /\ Cardinality(Tries(Len(source), 1)) = retry_max_attempts
    <3>1. /\ IsFiniteSet(Tries(Len(source), 1))
          /\ Cardinality(Tries(Len(source), 1)) = retry_max_attempts + 1 - 1
      BY <1>1, TriesCount
    <3>2. QED BY <1>1, <3>1
  <2>4. Cardinality(S') <= Cardinality(S) + retry_max_attempts
    BY <1>1, <2>2, <2>3, Added
  <2>5. QED BY <1>1, <2>1, <2>4, Fewer
<1>7. SUFFICES \/ /\ replays[e] <= replays'[e] /\ disruptions <= disruptions'
                  /\ Cardinality(S') + Cardinality(R') <= Cardinality(S) + Cardinality(R)
               \/ /\ replays'[e] = replays[e] + 1 /\ disruptions' = disruptions
                  /\ Cardinality(S') + Cardinality(R')
                       <= Cardinality(S) + Cardinality(R) + retry_max_attempts
  BY <1>t, <1>1, <1>2 DEF Spending
<1>8. CASE UNCHANGED <<source, retry, replays>> /\ disruptions' \in {disruptions, disruptions + 1}
  BY <1>t, <1>1, <1>4, <1>5, <1>8
<1>9. CASE ReplayPublishes
  <2>1. PICK old : old = dlq[replay.next + 1]
    OBVIOUS
  <2>2. old.event \in Nat /\ Len(retry) \in Nat
    <3>1. replay.next \in Nat /\ replay.next < Len(dlq) /\ dlq \in Seq(DeadLetter)
      BY <1>9 DEF ReplayPublishes, read_to, PathInv, TypeOK, ReplayOK
    <3>2. old \in DeadLetter
      BY <2>1, <3>1
    <3>3. QED BY <1>0, <3>2 DEF DeadLetter, TypeOK
  <2>3. CASE /\ source' = Append(source, [event |-> old.event, target |-> NoService, attempt |-> 1])
             /\ replays' = [replays EXCEPT ![old.event] = @ + 1]
             /\ UNCHANGED <<retry, disruptions>>
    <3>1. PICK rec \in SourceRecord :
             rec.event = old.event /\ rec.attempt = 1 /\ source' = Append(source, rec)
      <4>1. [event |-> old.event, target |-> NoService, attempt |-> 1] \in SourceRecord
        BY <2>2 DEF SourceRecord
      <4>2. QED BY <2>3, <4>1
    <3>2. replays'[e] = IF old.event = e THEN replays[e] + 1 ELSE replays[e]
      BY <1>0, <2>3 DEF TypeOK
    <3>3. /\ Cardinality(S') <= Cardinality(S) + retry_max_attempts
          /\ old.event # e => Cardinality(S') <= Cardinality(S)
      BY <1>6, <3>1
    <3>4. Cardinality(R') <= Cardinality(R) /\ disruptions' = disruptions
      BY <1>5, <2>3
    <3>5. QED BY <1>t, <1>1, <3>2, <3>3, <3>4
  <2>4. CASE /\ retry' = Append(retry,
                  [event |-> old.event, service |-> NoService, attempt |-> 2, timed |-> FALSE,
                   origin |-> [topic |-> "retry", offset |-> Len(retry)]])
             /\ replays' = [replays EXCEPT ![old.event] = @ + 1]
             /\ UNCHANGED <<source, disruptions>>
    <3>1. [event |-> old.event, service |-> NoService, attempt |-> 2, timed |-> FALSE,
           origin |-> [topic |-> "retry", offset |-> Len(retry)]] \in RetryRecord
      BY <2>2 DEF RetryRecord, Origin
    <3>2. \E rec \in RetryRecord : rec.service = NoService /\ retry' = Append(retry, rec)
      BY <2>4, <3>1
    <3>3. replays'[e] \in {replays[e], replays[e] + 1}
      BY <1>0, <2>4 DEF TypeOK
    <3>4. /\ Cardinality(R') <= Cardinality(R) /\ Cardinality(S') <= Cardinality(S)
          /\ disruptions' = disruptions
      BY <1>4, <1>5, <2>4, <3>2
    <3>5. QED BY <1>t, <1>1, <3>3, <3>4
  <2>5. CASE Disrupt /\ UNCHANGED <<source, retry, replays>>
    BY <1>8, <2>5 DEF Disrupt
  <2>6. QED BY <1>9, <2>1, <2>3, <2>4, <2>5 DEF ReplayPublishes
<1>10. CASE \/ \E only \in Services \cup {NoService}, include_poison \in BOOLEAN :
                 ReplayStarts(only, include_poison)
            \/ ReplayPasses \/ ReplayStops
  <2>1. UNCHANGED <<source, retry, replays, disruptions>>
    BY <1>10 DEF ReplayStarts, ReplayPasses, ReplayStops, topics
  <2>2. QED BY <1>8, <2>1
<1>11. QED BY <1>9, <1>10 DEF Replay

\* An attempt count stays within the budget from topic to topic.
LEMMA AttemptsAppend ==
  ASSUME PathInv, AttemptsOK,
         \/ source' = source
         \/ \E rec \in SourceRecord :
              /\ rec.event \in Events => rec.attempt \in 1 .. retry_max_attempts
              /\ source' = Append(source, rec),
         \/ retry' = retry
         \/ \E rec \in RetryRecord :
              /\ rec.event \in Events /\ rec.service \in Services =>
                   rec.attempt \in 1 .. retry_max_attempts
              /\ retry' = Append(retry, rec)
  PROVE  AttemptsOK'
<1>1. source \in Seq(SourceRecord) /\ retry \in Seq(RetryRecord)
  BY DEF PathInv, TypeOK
<1>2. ASSUME NEW i \in DOMAIN source'
      PROVE  source'[i].event \in Events => source'[i].attempt \in 1 .. retry_max_attempts
  <2>1. CASE source' = source
    BY <1>2, <2>1 DEF AttemptsOK
  <2>2. ASSUME NEW rec \in SourceRecord, source' = Append(source, rec),
               rec.event \in Events => rec.attempt \in 1 .. retry_max_attempts
        PROVE  source'[i].event \in Events => source'[i].attempt \in 1 .. retry_max_attempts
    <3>1. (i \in DOMAIN source /\ source'[i] = source[i]) \/ source'[i] = rec
      BY <1>1, <1>2, <2>2
    <3>2. QED BY <2>2, <3>1 DEF AttemptsOK
  <2>3. QED BY <2>1, <2>2
<1>3. ASSUME NEW i \in DOMAIN retry'
      PROVE  retry'[i].event \in Events /\ retry'[i].service \in Services =>
               retry'[i].attempt \in 1 .. retry_max_attempts
  <2>1. CASE retry' = retry
    BY <1>3, <2>1 DEF AttemptsOK
  <2>2. ASSUME NEW rec \in RetryRecord, retry' = Append(retry, rec),
               rec.event \in Events /\ rec.service \in Services =>
                 rec.attempt \in 1 .. retry_max_attempts
        PROVE  retry'[i].event \in Events /\ retry'[i].service \in Services =>
                 retry'[i].attempt \in 1 .. retry_max_attempts
    <3>1. (i \in DOMAIN retry /\ retry'[i] = retry[i]) \/ retry'[i] = rec
      BY <1>1, <1>3, <2>2
    <3>2. QED BY <2>2, <3>1 DEF AttemptsOK
  <2>3. QED BY <2>1, <2>2
<1>4. QED BY <1>2, <1>3 DEF AttemptsOK

\* No step puts a record on a topic whose attempt is out of the budget.
LEMMA AttemptsStep ==
  ASSUME PathInv, [Next]_vars, AttemptsOK, \A r \in Readers : HandedOwn(r),
         \A s \in Services : HandedTry(s)
  PROVE  AttemptsOK'
<1>0. TypeOK /\ NoService \notin Services
  BY PathAssumption DEF PathInv, Readers
<1>1. CASE source' = source /\ retry' = retry
  BY <1>1, AttemptsAppend
<1>2. ASSUME NEW s \in Services, Lands(s), pc[s] = "publish" PROVE AttemptsOK'
  <2>1. s \in Readers /\ ServiceLands(s) /\ Topic(s) = source
    BY <1>2, WorkerIsNoService DEF Lands, Topic
  <2>2. PICK old : old = source[hand[s].offset + 1]
    OBVIOUS
  <2>3. hand[s].offset + 1 \in DOMAIN source
    <3>1. hand[s].offset + 1 \in 1 .. Len(Topic(s)) /\ source \in Seq(SourceRecord)
      BY <1>0, <1>2, <2>1, RecordInHand DEF TypeOK
    <3>2. QED BY <2>1, <3>1
  <2>4. old.event \in Events => old.attempt \in 1 .. retry_max_attempts
    BY <2>2, <2>3 DEF AttemptsOK
  <2>5. hand[s].route = "retry" => old.attempt < retry_max_attempts
    BY <1>2, <2>2 DEF HandedTry
  <2>6. ASSUME NEW rec \in RetryRecord, rec.event = old.event, rec.attempt = old.attempt + 1,
               hand[s].route = "retry", retry' = Append(retry, rec), source' = source
        PROVE  AttemptsOK'
    <3>1. rec.event \in Events => rec.attempt \in 1 .. retry_max_attempts
      BY <2>4, <2>5, <2>6, BudgetIsPositive
    <3>2. QED BY <2>6, <3>1, AttemptsAppend
  <2>7. source' = source /\ (retry' = retry \/ \E rec \in RetryRecord :
          /\ rec.event = old.event /\ rec.attempt = old.attempt + 1
          /\ hand[s].route = "retry" /\ retry' = Append(retry, rec))
    BY <1>2, <2>1, <2>2, ServicePublishes
  <2>8. QED BY <1>1, <2>6, <2>7
<1>3. ASSUME WorkerLands, pc[Worker] = "publish" PROVE AttemptsOK'
  <2>1. PICK old : old = retry[hand[Worker].offset + 1]
    OBVIOUS
  <2>2. hand[Worker].offset + 1 \in DOMAIN retry
    <3>1. hand[Worker].offset + 1 \in 1 .. Len(Topic(Worker)) /\ retry \in Seq(RetryRecord)
      BY <1>0, <1>3, WorkerIsNoService, RecordInHand DEF TypeOK
    <3>2. QED BY <3>1 DEF Topic
  <2>3. old.event \in Events /\ old.service \in Services =>
          old.attempt \in 1 .. retry_max_attempts
    BY <2>1, <2>2 DEF AttemptsOK
  <2>4. \/ /\ hand[Worker].route = "source" /\ retry' = retry
           /\ \E rec \in SourceRecord :
                /\ rec.event = old.event /\ rec.attempt = old.attempt
                /\ source' = Append(source, rec)
        \/ /\ source' = source
           /\ \E rec \in RetryRecord :
                /\ rec.event = old.event /\ rec.service = old.service
                /\ rec.attempt = old.attempt /\ retry' = Append(retry, rec)
        \/ source' = source /\ retry' = retry
    BY <1>3, <2>1, WorkerPublishes
  <2>5. hand[Worker].route = "source" => old.service \in Services
    BY <1>3, <2>1, WorkerIsNoService DEF HandedOwn
  <2>6. ASSUME NEW rec \in SourceRecord, rec.event = old.event, rec.attempt = old.attempt,
               hand[Worker].route = "source", source' = Append(source, rec), retry' = retry
        PROVE  AttemptsOK'
    BY <2>3, <2>5, <2>6, AttemptsAppend
  <2>7. ASSUME NEW rec \in RetryRecord, rec.event = old.event, rec.service = old.service,
               rec.attempt = old.attempt, source' = source, retry' = Append(retry, rec)
        PROVE  AttemptsOK'
    BY <2>3, <2>7, AttemptsAppend
  <2>8. QED BY <1>1, <2>4, <2>6, <2>7
<1>4. CASE Replay
  <2>1. CASE ReplayPublishes
    <3>1. PICK old : old = dlq[replay.next + 1]
      OBVIOUS
    <3>2. old.event \in Nat /\ Len(retry) \in Nat
      <4>1. replay.next \in Nat /\ replay.next < Len(dlq) /\ dlq \in Seq(DeadLetter)
        BY <2>1 DEF ReplayPublishes, read_to, PathInv, TypeOK, ReplayOK
      <4>2. old \in DeadLetter
        BY <3>1, <4>1
      <4>3. QED BY <1>0, <4>2 DEF DeadLetter, TypeOK
    <3>3. PICK src, ret :
             /\ src = [event |-> old.event, target |-> NoService, attempt |-> 1]
             /\ ret = [event |-> old.event, service |-> NoService, attempt |-> 2,
                       timed |-> FALSE, origin |-> [topic |-> "retry", offset |-> Len(retry)]]
      OBVIOUS
    <3>4. /\ src \in SourceRecord /\ src.attempt \in 1 .. retry_max_attempts
          /\ ret \in RetryRecord /\ ret.service \notin Services
      BY <1>0, <3>2, <3>3, BudgetIsPositive DEF SourceRecord, RetryRecord, Origin
    <3>5. \/ source' = Append(source, src) /\ retry' = retry
          \/ source' = source /\ retry' = Append(retry, ret)
          \/ source' = source /\ retry' = retry
      BY <2>1, <3>1, <3>3 DEF ReplayPublishes
    <3>6. QED BY <3>4, <3>5, AttemptsAppend
  <2>2. CASE \/ \E only \in Services \cup {NoService}, include_poison \in BOOLEAN :
                  ReplayStarts(only, include_poison)
             \/ ReplayPasses \/ ReplayStops
    BY <1>1, <2>2 DEF ReplayStarts, ReplayPasses, ReplayStops, topics
  <2>3. QED BY <1>4, <2>1, <2>2 DEF Replay
<1>5. ASSUME NEW r \in Readers, Acts(r) PROVE AttemptsOK'
  <2>1. CASE PublishAcknowledged(r) \/ PublishFails(r)
    <3>1. pc[r] = "publish" /\ (Lands(r) \/ UNCHANGED <<source, retry>>)
      BY <2>1 DEF PublishAcknowledged, PublishFails
    <3>2. CASE r = Worker
      BY <1>1, <1>3, <3>1, <3>2 DEF Lands
    <3>3. CASE r \in Services
      BY <1>1, <1>2, <3>1, <3>3
    <3>4. QED BY <3>2, <3>3 DEF Readers
  <2>2. CASE \/ r \in Services /\ ServiceStep(r)
             \/ r = Worker /\ WorkerStep
             \/ Commit(r) \/ CommitRejected(r) \/ Restart(r)
    <3>1. UNCHANGED topics
      BY <1>0, <2>2, ServiceReads, WorkerMoves DEF Commit, CommitRejected, Restart
    <3>2. QED BY <1>1, <3>1 DEF topics
  <2>3. QED BY <1>5, <2>1, <2>2 DEF Acts, Settle
<1>6. CASE BackoffEnds \/ UNCHANGED vars
  BY <1>1, <1>6 DEF BackoffEnds, vars, topics
<1>7. QED BY <1>4, <1>5, <1>6, NextActs

\* A service takes the retry route only when an attempt is left.
LEMMA TryStep ==
  ASSUME PathInv, [Next]_vars, NEW s \in Services, HandedTry(s)
  PROVE  HandedTry(s)'
<1>0. TypeOK /\ s \in Readers /\ s # Worker
  BY WorkerIsNoService DEF PathInv
<1> SUFFICES ASSUME pc'[s] = "publish", hand'[s].route = "retry" PROVE HandedTry(s)'
  BY DEF HandedTry
<1>1. CASE UNCHANGED Place(s)
  <2>1. pc[s] = "publish" /\ hand'[s] = hand[s]
    BY <1>1 DEF Place
  <2>2. hand[s].offset + 1 \in 1 .. Len(source)
    BY <1>0, <2>1, RecordInHand DEF Topic
  <2>3. source'[hand[s].offset + 1] = source[hand[s].offset + 1]
    BY <2>2, TopicsGrow DEF Extends
  <2>4. QED BY <2>1, <2>3 DEF HandedTry
<1>2. CASE ServiceStep(s)
  <2>1. PICK retryable \in BOOLEAN : HandleFails(s, retryable)
    <3>1. ASSUME SkipOthers(s) \/ HandleOk(s) PROVE FALSE
      BY <1>0, <3>1 DEF SkipOthers, HandleOk, Goto, TypeOK
    <3>2. QED BY <1>2, <3>1 DEF ServiceStep
  <2>2. PICK a : a = Upcoming(s).attempt
    OBVIOUS
  <2>3. PICK route : /\ route = (CASE budget_left(retryable, a) -> "retry"
                                   [] ~ retryable -> "poison" [] OTHER -> "exhausted")
                     /\ Take(s, route)
    BY <2>1, <2>2 DEF HandleFails, attempt_of
  <2>4. hand'[s] = [offset |-> position[s], route |-> route] /\ source' = source
    BY <1>0, <2>1, <2>3 DEF HandleFails, Take, TypeOK, topics
  <2>5. budget_left(retryable, a)
    BY <2>3, <2>4
  <2>6. retry_max_attempts > a
    BY <2>5 DEF budget_left
  <2>7. QED BY <2>2, <2>4, <2>6 DEF HandedTry, Upcoming
<1>3. CASE Settle(s) \/ PublishFails(s) \/ CommitRejected(s) \/ Restart(s)
  <2>1. pc'[s] \in {"poll", "commit"}
    BY <1>0, <1>3, SettleMoves
  <2>2. QED BY <2>1
<1>4. CASE Replay \/ BackoffEnds \/ UNCHANGED vars
  <2>1. UNCHANGED <<committed, position, pc, hand>>
    BY <1>4, ReplayGrows DEF BackoffEnds, vars
  <2>2. QED BY <1>1, <2>1 DEF Place
<1>5. ASSUME NEW r \in Readers, Acts(r) PROVE HandedTry(s)'
  BY <1>0, <1>1, <1>2, <1>3, <1>5, OthersStay DEF Acts
<1>6. QED BY <1>4, <1>5, NextActs

\* A new event brings one budget, and the retry topic none.
LEMMA BudgetInit == NoFreeRetries /\ Init => BudgetInv
<1> SUFFICES ASSUME NoFreeRetries, Init PROVE BudgetInv
  OBVIOUS
<1>1. PathInv /\ EndsInv
  BY PathInit, EndsInit
<1>2. /\ Published \in Nat /\ Strays \in Seq(RetryRecord) /\ retry = Strays
      /\ source = [i \in 1 .. Published |-> [event |-> i, target |-> NoService, attempt |-> 1]]
  BY PathAssumption DEF Init, Events
<1>3. AttemptsOK
  BY <1>2, BudgetIsPositive DEF AttemptsOK, NoFreeRetries
<1>4. \A s \in Services : HandedTry(s)
  BY WorkerIsNoService DEF HandedTry, Init
<1>5. ASSUME NEW s \in Services, NEW e \in Events PROVE WithinBudget(s, e)
  <2>1. /\ IsFiniteSet(SourceTries(s, e)) /\ IsFiniteSet(RetryTries(s, e))
        /\ Cardinality(SourceTries(s, e)) \in Nat /\ Cardinality(RetryTries(s, e)) \in Nat
    BY <1>1, TriesFinite
  <2>2. s \in Readers /\ Worker \in Readers /\ s # Worker
    BY WorkerIsNoService
  <2>3. Len(source) = Published /\ Topic(s) = source /\ Topic(Worker) = Strays
    BY <1>2, <2>2 DEF Topic
  <2>4. committed[s] = 0 /\ committed[Worker] = 0
    BY <2>2 DEF Init
  <2>5. SourceTries(s, e) \subseteq {} \cup Tries(e - 1, 1)
    <3>1. ASSUME NEW p \in SourceTries(s, e) PROVE p \in Tries(e - 1, 1)
      <4>1. /\ p = <<p[1], p[2]>> /\ p[1] \in SourceCopies(s, e)
            /\ p[2] \in 1 .. retry_max_attempts
        BY DEF SourceTries
      <4>2. p[1] \in 0 .. Published - 1 /\ source[p[1] + 1].event = e
        BY <2>3, <2>4, <4>1 DEF SourceCopies, Window, OnSource
      <4>3. p[1] + 1 \in 1 .. Published /\ source[p[1] + 1].event = p[1] + 1
        BY <1>2, <4>2
      <4>4. p[1] = e - 1
        BY <1>2, <4>2, <4>3
      <4>5. QED BY <4>1, <4>4 DEF Tries
    <3>2. QED BY <3>1
  <2>6. RetryTries(s, e) = {}
    <3>1. ASSUME NEW p \in RetryTries(s, e) PROVE FALSE
      <4>1. p[1] \in RetryCopies(s, e)
        BY DEF RetryTries
      <4>2. /\ p[1] \in 0 .. Len(Strays) - 1
            /\ Strays[p[1] + 1].event = e /\ Strays[p[1] + 1].service = s
        BY <1>2, <2>3, <2>4, <4>1 DEF RetryCopies, Window
      <4>3. p[1] + 1 \in DOMAIN Strays
        BY <1>2, <4>2
      <4>4. QED BY <4>2, <4>3 DEF NoFreeRetries
    <3>2. QED BY <3>1
  <2>7. Cardinality({}) = 0 /\ IsFiniteSet({})
    BY FS_EmptySet
  <2>8. Cardinality(SourceTries(s, e)) <= retry_max_attempts
    <3>1. /\ IsFiniteSet(Tries(e - 1, 1))
          /\ Cardinality(Tries(e - 1, 1)) = retry_max_attempts + 1 - 1
      BY BudgetIsPositive, TriesCount
    <3>2. Cardinality(SourceTries(s, e)) <= 0 + Cardinality(Tries(e - 1, 1))
      BY <2>5, <2>7, <3>1, Added
    <3>3. QED BY <2>1, <3>1, <3>2, BudgetIsPositive
  <2>9. runs[s][e] = 0 /\ disruptions = 0 /\ replays[e] = 0
    BY DEF Init
  <2>10. Spending(s, e) <= retry_max_attempts
    BY <2>1, <2>6, <2>7, <2>8, <2>9 DEF Spending
  <2>11. retry_max_attempts * (1 + disruptions + replays[e]) = retry_max_attempts
    BY <2>9, BudgetIsPositive
  <2>12. QED BY <2>10, <2>11 DEF WithinBudget
<1>6. QED BY <1>1, <1>3, <1>4, <1>5 DEF BudgetInv, EndsInv

\* One more disruption or replay is one more budget.
LEMMA MoreBudget ==
  ASSUME NEW b \in Nat, NEW m \in Nat, NEW n \in Nat, m <= n
  PROVE  /\ b * m \in Nat /\ b * n \in Nat /\ b * m <= b * n
         /\ n = m + 1 => b * n = b * m + b
<1>1. PICK k \in Nat : n = m + k
  OBVIOUS
<1>2. b * m \in Nat /\ b * k \in Nat /\ b * (m + k) = b * m + b * k
  OBVIOUS
<1>3. k = 1 => b * k = b
  OBVIOUS
<1>4. n = m + 1 => k = 1
  BY <1>1
<1>5. b * n = b * m + b * k
  <2>1. b * n = b * (m + k)
    BY <1>1, Zenon
  <2>2. QED BY <1>2, <2>1, Zenon
<1>6. QED BY <1>2, <1>3, <1>4, <1>5

\* Whoever moves pays for what it runs, or a disruption or a replay does.
LEMMA BudgetStep == BudgetInv /\ [Next]_vars => BudgetInv'
<1> SUFFICES ASSUME BudgetInv, [Next]_vars PROVE BudgetInv'
  OBVIOUS
<1>0. /\ PathInv /\ TypeOK /\ PathInv' /\ AttemptsOK
      /\ \A r \in Readers : HandedOwn(r)
      /\ \A s \in Services : HandedTry(s)
  BY PathStep DEF BudgetInv, PathInv
<1>1. \A r \in Readers : HandedOwn(r)'
  BY <1>0, OwnStep
<1>2. AttemptsOK' /\ \A s \in Services : HandedTry(s)'
  BY <1>0, AttemptsStep, TryStep
<1>3. ASSUME NEW s \in Services, NEW e \in Events PROVE WithinBudget(s, e)'
  <2>1. /\ runs[s][e] \in Nat /\ runs'[s][e] \in Nat
        /\ disruptions \in Nat /\ disruptions' \in Nat
        /\ replays[e] \in Nat /\ replays'[e] \in Nat
        /\ Cardinality(SourceTries(s, e)') \in Nat /\ Cardinality(RetryTries(s, e)') \in Nat
    BY <1>0, SpendingType
  <2>2. Cardinality(SourceTries(s, e)) \in Nat /\ Cardinality(RetryTries(s, e)) \in Nat
    BY <1>0, TriesFinite
  <2>3. /\ Spending(s, e) \in Nat /\ Spending(s, e)' \in Nat
        /\ Spending(s, e) <= retry_max_attempts * (1 + disruptions + replays[e])
    BY <2>1, <2>2 DEF Spending, BudgetInv, WithinBudget
  <2>4. PICK m \in Nat, n \in Nat : /\ m = 1 + disruptions + replays[e]
                                    /\ n = 1 + disruptions' + replays'[e]
    BY <2>1
  <2>5. SUFFICES Spending(s, e)' <= retry_max_attempts * n
    BY <2>4 DEF WithinBudget
  <2>6. Spending(s, e) <= retry_max_attempts * m
    BY <2>3, <2>4
  <2>7. \/ m <= n /\ Spending(s, e)' <= Spending(s, e)
        \/ n = m + 1 /\ Spending(s, e)' <= Spending(s, e) + retry_max_attempts
    <3>1. CASE Replay
      BY <1>0, <2>1, <2>4, <3>1, ReplaySpends
    <3>2. CASE BackoffEnds \/ UNCHANGED vars
      <4>1. UNCHANGED <<source, retry, committed, pc, hand, runs, replays, disruptions>>
        BY <3>2 DEF BackoffEnds, vars, topics, tool, history
      <4>2. Spending(s, e)' = Spending(s, e)
        BY <4>1 DEF Spending, SourceTries, RetryTries, Spent, SourceCopies, RetryCopies,
           Window, Due, Topic, OnSource
      <4>3. QED BY <2>1, <2>3, <2>4, <4>1, <4>2
    <3>3. ASSUME NEW r \in Readers, Acts(r)
          PROVE  \/ m <= n /\ Spending(s, e)' <= Spending(s, e)
                 \/ n = m + 1 /\ Spending(s, e)' <= Spending(s, e) + retry_max_attempts
      <4>1. replays' = replays /\ Next
        BY <1>0, <3>3, ReaderTypes, NextActs
      <4>2. \/ disruptions <= disruptions' /\ Spending(s, e)' <= Spending(s, e)
            \/ /\ disruptions' = disruptions + 1
               /\ Spending(s, e)' <= Spending(s, e) + retry_max_attempts
        <5>1. CASE r = s
          BY <1>0, <3>3, <4>1, <5>1, ServiceSpends, WorkerIsNoService
        <5>2. CASE r = Worker
          BY <1>0, <3>3, <4>1, <5>2, WorkerSpends, WorkerIsNoService
        <5>3. CASE r # s /\ r # Worker
          <6>1. r \in Services
            BY <5>3 DEF Readers
          <6>2. QED BY <1>0, <3>3, <4>1, <5>3, <6>1, OthersSpend
        <5>4. QED BY <5>1, <5>2, <5>3
      <4>3. QED BY <2>1, <2>4, <4>1, <4>2
    <3>4. QED BY <3>1, <3>2, <3>3, NextActs
  <2>8. CASE m <= n /\ Spending(s, e)' <= Spending(s, e)
    <3>1. /\ retry_max_attempts * m \in Nat /\ retry_max_attempts * n \in Nat
          /\ retry_max_attempts * m <= retry_max_attempts * n
      BY <2>4, <2>8, MoreBudget, BudgetIsPositive
    <3>2. QED BY <2>3, <2>6, <2>8, <3>1
  <2>9. CASE n = m + 1 /\ Spending(s, e)' <= Spending(s, e) + retry_max_attempts
    <3>1. /\ retry_max_attempts * m \in Nat
          /\ retry_max_attempts * n = retry_max_attempts * m + retry_max_attempts
      BY <2>4, <2>9, MoreBudget, BudgetIsPositive
    <3>2. QED BY <2>3, <2>6, <2>9, <3>1, BudgetIsPositive
  <2>10. QED BY <2>7, <2>8, <2>9
<1>4. QED BY <1>0, <1>1, <1>2, <1>3 DEF BudgetInv

\* The attempt count survives the round trip through the retry topic, whatever fails: if no
\* record for a published event stood on the retry topic to begin with, a service runs its
\* handler on an event at most retry_max_attempts times, and the same again for each
\* disruption and each replay.
THEOREM BudgetIsKept ==
  ASSUME NoFreeRetries
  PROVE  Spec => []RunsWithinBudget
<1>1. BudgetInv => RunsWithinBudget
  <2> SUFFICES ASSUME BudgetInv, NEW s \in Services, NEW e \in Events
               PROVE  runs[s][e] <= retry_max_attempts * (1 + disruptions + replays[e])
    BY DEF RunsWithinBudget
  <2>1. Cardinality(SourceTries(s, e)) \in Nat /\ Cardinality(RetryTries(s, e)) \in Nat
    BY TriesFinite DEF BudgetInv
  <2>2. /\ runs[s][e] \in Nat /\ disruptions \in Nat /\ replays[e] \in Nat
        /\ retry_max_attempts \in Nat
    BY BudgetIsPositive DEF BudgetInv, PathInv, TypeOK
  <2>3. PICK n \in Nat : n = retry_max_attempts * (1 + disruptions + replays[e])
    <3>1. 1 + disruptions + replays[e] \in Nat
      BY <2>2
    <3>2. QED BY <2>2, <3>1, MoreBudget
  <2>4. runs[s][e] + Cardinality(SourceTries(s, e)) + Cardinality(RetryTries(s, e)) <= n
    BY <2>3 DEF BudgetInv, WithinBudget, Spending
  <2>5. runs[s][e] <= n
    BY <2>1, <2>2, <2>4
  <2>6. QED BY <2>3, <2>5
<1>2. QED BY <1>1, BudgetInit, BudgetStep, PTL DEF Spec
=============================================================================
