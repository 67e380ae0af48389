---------------------------- MODULE DeliveryProofs ----------------------------
(***************************************************************************)
(* What TLAPS proves of the deliveries in ConsumerGroup, on top of         *)
(* ChangelogProofs: none goes uncounted in the changelog, and what is      *)
(* logged as a violation is one of the topic, not of the store.            *)
(***************************************************************************)
EXTENDS ChangelogProofs, FiniteSetTheorems

\* How many deliveries of an order a table knows of.
Count(table, k) == IF table[k] = NoFold THEN 0 ELSE table[k].handled_count

\* The offsets below n that a service folds for order k, those in R having been routed.
Counted(R, n, k) ==
  {o \in 0 .. n - 1 : /\ EventLog[o + 1].order = k
                      /\ Folded("lifecycle", EventLog[o + 1]) /\ o \notin R}

\* The table knows of every delivery below n, but for the orders that are deleted.
Accounts(table, R, n) ==
  \A k \in Orders : ~ Tombstoned(k) => Cardinality(Counted(R, n, k)) <= Count(table, k)

-----------------------------------------------------------------------------
(* The invariant.                                                          *)

\* But for deletions, all a producer holds is the record the loop waits for.
QueueIsInHand(m) ==
  \A i \in DOMAIN queue[m] :
    \/ Tombstoned(queue[m][i].order)
    \/ /\ pc[m] = "flush" /\ queue[m][i].order = Current(m).order
       /\ queue[m][i].value = store[m][Current(m).order]

ConsumerCounts(m) ==
  held[m] # {} =>
    /\ committed["lifecycle"] <= Secured(m)
    /\ Accounts(changelog, routed, Secured(m))
    /\ pc[m] = "flush" => Accounts(store[m], routed, work[m].offset + 1)

Counter(m) == QueueIsInHand(m) /\ ConsumerCounts(m)

CountInv ==
  /\ CoverInv /\ \A m \in Members : Counter(m)
  /\ Accounts(changelog, routed, committed["lifecycle"])

-----------------------------------------------------------------------------
(* Counting.                                                               *)

LEMMA EventAt ==
  ASSUME NEW n \in Nat, n < Len(EventLog)
  PROVE  EventLog[n + 1] \in Message
  BY ConstantsAssumption

LEMMA CountedFinite ==
  ASSUME NEW R, NEW n \in Nat, NEW k
  PROVE  IsFiniteSet(Counted(R, n, k)) /\ Cardinality(Counted(R, n, k)) \in Nat
<1>1. Counted(R, n, k) \in SUBSET (0 .. n - 1) /\ 0 \in Int /\ n - 1 \in Int
  BY DEF Counted
<1>2. IsFiniteSet(0 .. n - 1)
  BY <1>1, FS_Interval
<1>3. IsFiniteSet(Counted(R, n, k))
  BY <1>1, <1>2, FS_Subset
<1>4. QED BY <1>3, FS_CardinalityType

\* Counting less far, or with more of it routed, counts no more.
LEMMA CountedLess ==
  ASSUME NEW R, NEW Q, R \subseteq Q, NEW n \in Nat, NEW p \in Nat, p <= n, NEW k
  PROVE  Cardinality(Counted(Q, p, k)) <= Cardinality(Counted(R, n, k))
<1>1. Counted(Q, p, k) \in SUBSET Counted(R, n, k)
  BY DEF Counted
<1>2. QED BY <1>1, CountedFinite, FS_Subset

\* One offset more counts at most once.
LEMMA CountedNext ==
  ASSUME NEW R, NEW n \in Nat, NEW k
  PROVE  /\ Cardinality(Counted(R, n + 1, k)) <= Cardinality(Counted(R, n, k)) + 1
         /\ (EventLog[n + 1].order # k \/ ~ Folded("lifecycle", EventLog[n + 1]) \/ n \in R)
              => Counted(R, n + 1, k) = Counted(R, n, k)
<1> DEFINE S == Counted(R, n, k)  T == Counted(R, n + 1, k)
<1>1. IsFiniteSet(S) /\ Cardinality(S) \in Nat
  BY CountedFinite
<1>2. T \in SUBSET (S \cup {n})
  BY DEF Counted
<1>3. (EventLog[n + 1].order # k \/ ~ Folded("lifecycle", EventLog[n + 1]) \/ n \in R) => T = S
  BY DEF Counted
<1>4. IsFiniteSet(T) /\ Cardinality(T) \in Nat
  BY CountedFinite
<1> HIDE DEF S, T
<1>5. IsFiniteSet(S \cup {n}) /\ Cardinality(S \cup {n}) \in {Cardinality(S), Cardinality(S) + 1}
  BY <1>1, FS_AddElement
<1>6. Cardinality(T) <= Cardinality(S \cup {n})
  BY <1>2, <1>5, FS_Subset
<1>7. Cardinality(T) <= Cardinality(S) + 1
  BY <1>1, <1>4, <1>5, <1>6
<1>8. QED BY <1>3, <1>7 DEF S, T

LEMMA CountType ==
  ASSUME NEW table \in [Orders -> Record \cup {NoFold}], NEW k \in Orders
  PROVE  Count(table, k) \in Nat
  BY DEF Count, Record

LEMMA AccountsLess ==
  ASSUME NEW table \in [Orders -> Record \cup {NoFold}], NEW R, NEW Q, R \subseteq Q,
         NEW n \in Nat, NEW p \in Nat, p <= n, Accounts(table, R, n)
  PROVE  Accounts(table, Q, p)
<1> SUFFICES ASSUME NEW k \in Orders, ~ Tombstoned(k)
             PROVE  Cardinality(Counted(Q, p, k)) <= Count(table, k)
  BY DEF Accounts
<1>1. Cardinality(Counted(Q, p, k)) <= Cardinality(Counted(R, n, k))
  BY CountedLess
<1>2. Cardinality(Counted(R, n, k)) <= Count(table, k)
  BY DEF Accounts
<1>3. QED BY <1>1, <1>2, CountedFinite, CountType

\* An offset that is not folded, or was routed, needs no counting.
LEMMA AccountsPassesBy ==
  ASSUME NEW table \in [Orders -> Record \cup {NoFold}], NEW R, NEW Q, R \subseteq Q,
         NEW n \in Nat, ~ Folded("lifecycle", EventLog[n + 1]) \/ n \in Q,
         Accounts(table, R, n)
  PROVE  Accounts(table, Q, n + 1)
<1>1. Accounts(table, Q, n)
  BY AccountsLess
<1>2. \A k : Counted(Q, n + 1, k) = Counted(Q, n, k)
  BY CountedNext
<1>3. QED BY <1>1, <1>2 DEF Accounts

\* save() counts the delivery, whatever its guard decides.
LEMMA AccountsSave ==
  ASSUME NEW table \in [Orders -> Record \cup {NoFold}], NEW R, NEW n \in Nat,
         Accounts(table, R, n), NEW msg \in Message, msg = EventLog[n + 1]
  PROVE  Accounts([table EXCEPT ![msg.order] = saved_record(table[msg.order], msg)], R, n + 1)
<1> DEFINE rec == saved_record(table[msg.order], msg)
           next == [table EXCEPT ![msg.order] = rec]
<1>0. msg.order \in Orders /\ table[msg.order] \in Record \cup {NoFold}
  BY DEF Message
<1>1. rec \in Record /\ rec # NoFold
  BY <1>0, SavedRecordType, NoFoldAssumption
<1>2. rec.handled_count = Count(table, msg.order) + 1
  BY <1>0 DEF Count, saved_record, Record
<1> HIDE DEF rec
<1> SUFFICES ASSUME NEW k \in Orders, ~ Tombstoned(k)
             PROVE  Cardinality(Counted(R, n + 1, k)) <= Count(next, k)
  BY DEF Accounts, rec
<1>3. Cardinality(Counted(R, n, k)) <= Count(table, k)
  BY DEF Accounts
<1>4. Cardinality(Counted(R, n, k)) \in Nat /\ Cardinality(Counted(R, n + 1, k)) \in Nat
      /\ Count(table, k) \in Nat
  BY CountedFinite, CountType
<1>5. CASE k = msg.order
  <2>1. Count(next, k) = Count(table, k) + 1
    BY <1>0, <1>1, <1>2, <1>5 DEF Count
  <2>2. Cardinality(Counted(R, n + 1, k)) <= Cardinality(Counted(R, n, k)) + 1
    BY CountedNext
  <2>3. QED BY <1>3, <1>4, <2>1, <2>2
<1>6. CASE k # msg.order
  <2>1. Count(next, k) = Count(table, k)
    BY <1>0, <1>6 DEF Count
  <2>2. Counted(R, n + 1, k) = Counted(R, n, k)
    BY <1>6, CountedNext
  <2>3. QED BY <1>3, <2>1, <2>2
<1>7. QED BY <1>5, <1>6

\* Accounts looks at the orders that no tombstone deletes.
LEMMA AccountsAgree ==
  ASSUME NEW table, NEW next, NEW R, NEW n, Accounts(table, R, n),
         \A k \in Orders : ~ Tombstoned(k) => next[k] = table[k]
  PROVE  Accounts(next, R, n)
  BY DEF Accounts, Count

-----------------------------------------------------------------------------
(* The steps of the loop.                                                  *)

\* Outside the wait for a flush, a consumer's store is the changelog, but for deletions.
LEMMA StoreIsSettled ==
  ASSUME CoverInv, NEW m \in Members, QueueIsInHand(m), held[m] # {}, pc[m] # "flush",
         NEW k \in Orders, ~ Tombstoned(k)
  PROVE  store[m][k] = changelog[k]
<1>1. queue[m] \in Seq(ChangelogRecord) /\ store[m] = Applied(changelog, queue[m])
  BY DEF CoverInv, WriterInv, AloInv, TypeInv, TypeOK, ChangelogRecord, Writer, StoreIsApplied
<1>2. \A i \in DOMAIN queue[m] : queue[m][i].order # k
  BY DEF QueueIsInHand
<1>3. QED BY <1>1, <1>2, AppliedAt

LEMMA QueueKept ==
  ASSUME NEW m \in Members, QueueIsInHand(m), pc[m] # "flush",
         queue'[m] \in {queue[m], << >>}
  PROVE  QueueIsInHand(m)'
  BY DEF QueueIsInHand

\* A step that counts nothing new.
LEMMA CountKept ==
  ASSUME NEW m \in Members, ConsumerCounts(m), held'[m] # {} => held[m] # {},
         UNCHANGED <<committed, changelog, routed>>, Secured(m)' = Secured(m),
         pc'[m] # "flush"
  PROVE  ConsumerCounts(m)'
  BY DEF ConsumerCounts

\* A step past an offset that is not folded or was routed.
LEMMA CountPassesBy ==
  ASSUME CoverInv, NEW m \in Members, ConsumerCounts(m), held[m] # {}, pc'[m] # "flush",
         UNCHANGED <<committed, changelog>>, routed \subseteq routed',
         NEW p, p = Secured(m), Secured(m)' = p + 1,
         ~ Folded("lifecycle", EventLog[p + 1]) \/ p \in routed'
  PROVE  ConsumerCounts(m)'
<1>1. /\ changelog \in [Orders -> Record \cup {NoFold}] /\ committed["lifecycle"] \in Nat
      /\ p \in Nat
  BY TopicsExist, SecuredBound DEF CoverInv, WriterInv, AloInv, TypeInv, TypeOK
<1>2. Accounts(changelog, routed, p) /\ committed["lifecycle"] <= p
  BY DEF ConsumerCounts
<1>3. Accounts(changelog, routed', p + 1)
  BY <1>1, <1>2, AccountsPassesBy
<1>4. QED BY <1>1, <1>2, <1>3 DEF ConsumerCounts

\* A message the loop commits without handling it.
LEMMA CountIgnores ==
  ASSUME CoverInv, NEW m \in Members, ConsumerCounts(m), NEW t \in Topics, Polls(m, t),
         Take(m, t), Goto(m, "commit"), ~ Folded(t, Polled(m, t)),
         UNCHANGED <<committed, changelog, routed, held>>
  PROVE  ConsumerCounts(m)'
<1>t. TypeOK
  BY DEF CoverInv, WriterInv, AloInv, TypeInv
<1>1. /\ pc[m] = "poll" /\ t \in held[m] /\ position'[m][t] = position[m][t] + 1
      /\ \A u \in Topics : u # t => position'[m][u] = position[m][u]
  BY <1>t, PollMoves
<1>2. pc'[m] = "commit"
  BY <1>t DEF Goto, TypeOK
<1>3. Secured(m) = position[m]["lifecycle"] /\ Secured(m)' = position'[m]["lifecycle"]
  BY <1>1, <1>2 DEF Secured
<1>4. CASE t = "lifecycle"
  <2>1. PICK p : p = Secured(m) /\ p = position[m][t]
    BY <1>3, <1>4
  <2>2. Secured(m)' = p + 1 /\ held[m] # {} /\ ~ Folded("lifecycle", EventLog[p + 1])
    BY <1>1, <1>3, <1>4, <2>1, LifecycleLog DEF Polled
  <2>3. QED BY <1>2, <2>1, <2>2, CountPassesBy
<1>5. CASE t # "lifecycle"
  BY <1>1, <1>2, <1>3, <1>5, TopicsExist, CountKept
<1>6. QED BY <1>4, <1>5

LEMMA CounterSave ==
  ASSUME SafeStateFirst, CoverInv, NEW m \in Members, Counter(m), Save(m)
  PROVE  Counter(m)'
<1>t. /\ TypeOK /\ SoleWriter(m) /\ LoopIsStateFirst(m) /\ QueueIsInHand(m) /\ ConsumerCounts(m)
      /\ state_write_order = "state_first"
  BY DEF CoverInv, Coverer, WriterInv, Writer, AloInv, TypeInv, Counter, SafeStateFirst
<1> DEFINE msg == Current(m)  rec == saved_record(store[m][msg.order], msg)  n == work[m].offset
<1>1. /\ pc[m] = "persist" /\ pc'[m] = "flush"
      /\ UNCHANGED <<committed, changelog, routed, held, position, work>>
      /\ store' = [store EXCEPT ![m][msg.order] = rec] /\ Produce(m, msg.order, rec)
  BY <1>t DEF Save, Goto, TypeOK, group
<1>2. /\ held[m] # {} /\ n \in Nat /\ n < Len(EventLog) /\ msg = EventLog[n + 1]
      /\ msg = Current(m)'
  BY <1>t, <1>1, LifecycleLog DEF SoleWriter, Busy, LoopIsStateFirst, Current, CoverInv,
       WriterInv, AloInv, TypeInv, InHandOK, TypeOK
<1> HIDE DEF msg, n
<1>3. msg \in Message /\ msg.order \in Orders
  <2>1. n \in Nat /\ n < Len(EventLog) /\ msg = EventLog[n + 1]
    BY <1>2
  <2>2. msg \in Message
    BY <2>1, EventAt
  <2>3. QED BY <2>2 DEF Message
<1>4. /\ store[m] \in [Orders -> Record \cup {NoFold}]
      /\ store'[m] = [store[m] EXCEPT ![msg.order] = rec]
  BY <1>t, <1>1 DEF TypeOK
<1>5. Secured(m) = n /\ Secured(m)' = n
  BY <1>1 DEF Secured, n
<1>6. Accounts(store[m], routed, n)
  <2>1. \A k \in Orders : ~ Tombstoned(k) => store[m][k] = changelog[k]
    BY <1>t, <1>1, <1>2, StoreIsSettled
  <2>2. Accounts(changelog, routed, n)
    BY <1>t, <1>2, <1>5 DEF ConsumerCounts
  <2>3. QED BY <2>1, <2>2, AccountsAgree
<1>7. Accounts(store'[m], routed, n + 1)
  <2>1. PICK table \in [Orders -> Record \cup {NoFold}] : table = store[m]
    BY <1>4
  <2>2. Accounts([table EXCEPT ![msg.order] = saved_record(table[msg.order], msg)],
                 routed, n + 1)
    BY <1>2, <1>3, <1>6, <2>1, AccountsSave
  <2>3. QED BY <1>4, <2>1, <2>2
<1>8. ConsumerCounts(m)'
  BY <1>t, <1>1, <1>2, <1>5, <1>7 DEF ConsumerCounts, n
<1>9. QueueIsInHand(m)'
  <2>1. /\ queue[m] \in Seq(ChangelogRecord)
        /\ queue'[m] = Append(queue[m], [order |-> msg.order, value |-> rec])
    BY <1>t, <1>1 DEF TypeOK, ChangelogRecord, Produce
  <2>2. store'[m][msg.order] = rec
    BY <1>3, <1>4
  <2> HIDE DEF rec
  <2>3. \A i \in DOMAIN queue'[m] :
          (i \in DOMAIN queue[m] /\ queue'[m][i] = queue[m][i])
            \/ queue'[m][i] = [order |-> msg.order, value |-> rec]
    BY <2>1
  <2>4. \A i \in DOMAIN queue[m] : Tombstoned(queue[m][i].order)
    BY <1>t, <1>1 DEF QueueIsInHand
  <2>5. QED BY <1>1, <1>2, <2>2, <2>3, <2>4 DEF QueueIsInHand
<1>10. QED BY <1>8, <1>9 DEF Counter

LEMMA CounterDelivers ==
  ASSUME CoverInv, NEW m \in Members, Counter(m), Deliver(m)
  PROVE  Counter(m)'
<1> DEFINE r == Head(queue[m])
<1>t. /\ TypeOK /\ SoleWriter(m) /\ LoopIsStateFirst(m) /\ QueueIsInHand(m) /\ ConsumerCounts(m)
  BY DEF CoverInv, Coverer, WriterInv, Writer, AloInv, TypeInv, Counter
<1>1. /\ queue[m] \in Seq(ChangelogRecord) /\ queue[m] # << >> /\ queue'[m] = Tail(queue[m])
      /\ changelog' = [changelog EXCEPT ![r.order] = r.value]
      /\ UNCHANGED <<committed, pc, held, position, store, work, routed>>
  BY <1>t DEF Deliver, TypeOK, ChangelogRecord, history
<1>2. /\ \A i \in DOMAIN queue'[m] : i + 1 \in DOMAIN queue[m] /\ queue'[m][i] = queue[m][i + 1]
      /\ 1 \in DOMAIN queue[m] /\ queue[m][1] = r
  BY <1>1, Shifted
<1>3. QueueIsInHand(m)'
  BY <1>t, <1>1, <1>2 DEF QueueIsInHand, Current
<1>4. held[m] # {}
  BY <1>t, <1>1 DEF SoleWriter
<1>5. Secured(m)' = Secured(m) /\ Secured(m) \in Nat
  BY <1>1, SecuredBound DEF Secured
<1>6. ASSUME NEW k \in Orders, ~ Tombstoned(k)
      PROVE  Cardinality(Counted(routed, Secured(m), k)) <= Count(changelog', k)
  <2>1. CASE k # r.order
    <3>1. Count(changelog', k) = Count(changelog, k)
      BY <1>t, <1>1, <2>1 DEF Count, TypeOK
    <3>2. QED BY <1>t, <1>4, <1>6, <3>1 DEF ConsumerCounts, Accounts
  <2>2. CASE k = r.order
    <3>1. pc[m] = "flush" /\ r.value = store[m][k]
      BY <1>t, <1>2, <1>6, <2>2 DEF QueueIsInHand
    <3>2. Count(changelog', k) = Count(store[m], k)
      BY <1>t, <1>1, <2>2, <3>1 DEF Count, TypeOK
    <3>3. PICK n \in Nat : n = Secured(m) /\ n = work[m].offset
      BY <1>5, <3>1 DEF Secured
    <3>4. Cardinality(Counted(routed, n + 1, k)) <= Count(store[m], k)
      BY <1>t, <1>4, <1>6, <3>1, <3>3 DEF ConsumerCounts, Accounts
    <3>5. Cardinality(Counted(routed, n, k)) <= Cardinality(Counted(routed, n + 1, k))
      BY <3>3, CountedLess
    <3>6. Count(store[m], k) \in Nat
      BY <1>t, CountType DEF TypeOK
    <3>7. QED BY <3>2, <3>3, <3>4, <3>5, <3>6, CountedFinite
  <2>3. QED BY <2>1, <2>2
<1>7. ConsumerCounts(m)'
  BY <1>t, <1>1, <1>4, <1>5, <1>6 DEF ConsumerCounts, Accounts
<1>8. QED BY <1>3, <1>7 DEF Counter

LEMMA CounterStep ==
  ASSUME SafeStateFirst, CountInv, NEW m \in Members, Acts(m)
  PROVE  Counter(m)'
<1> USE DEF group, history
<1>t. /\ TypeOK /\ SoleWriter(m) /\ StoreIsApplied(m) /\ LoopIsStateFirst(m)
      /\ Counter(m) /\ QueueIsInHand(m) /\ ConsumerCounts(m) /\ WriterInv /\ CoverInv
  BY DEF CountInv, CoverInv, Coverer, WriterInv, Writer, AloInv, TypeInv, Counter
<1>s. SafeDeployment /\ state_write_order = "state_first"
  BY DEF SafeStateFirst
<1>1. ASSUME NEW T \in SUBSET Topics, Assign(m, T) PROVE Counter(m)'
  <2>1. T = Topics /\ \A t \in Topics : owner[t] # m
    BY <1>1, <1>s, ConstantsAssumption DEF Assign, SafeDeployment
  <2>2. held[m] = {}
    BY <1>t, <2>1, TopicsExist DEF SoleWriter
  <2>3. pc[m] = "poll" /\ UNCHANGED <<held, queue>>
    BY <1>1 DEF Assign
  <2>4. QED BY <1>t, <2>2, <2>3, QueueKept DEF Counter, ConsumerCounts
<1>2. ASSUME NEW T \in SUBSET Topics, Revoke(m, T) PROVE Counter(m)'
  <2>1. T = Topics
    BY <1>2, <1>s DEF Revoke, SafeDeployment
  <2>2. held'[m] = {} /\ pc[m] = "poll" /\ queue' = queue
    BY <1>t, <1>2, <2>1 DEF Revoke, LetGo, TypeOK
  <2>3. QED BY <1>t, <2>2, QueueKept DEF Counter, ConsumerCounts
<1>3. CASE Restore(m)
  <2>1. joining[m] = Topics
    BY <1>t, <1>3 DEF Restore, SoleWriter
  <2>2. /\ pc[m] = "restore" /\ pc'[m] = "poll"
        /\ position'[m]["lifecycle"] = committed["lifecycle"]
        /\ UNCHANGED <<committed, changelog, queue, routed>>
    BY <1>t, <1>3, <2>1, TopicsExist DEF Restore, resume, Goto, TypeOK
  <2>3. Secured(m)' = committed["lifecycle"] /\ committed["lifecycle"] \in Nat
    BY <1>t, <2>2, TopicsExist DEF Secured, TypeOK
  <2>4. ConsumerCounts(m)'
    BY <2>2, <2>3 DEF ConsumerCounts, CountInv
  <2>5. QED BY <1>t, <2>2, <2>4, QueueKept DEF Counter
<1>4. ~ Lost(m)
  BY <1>t DEF Lost, SoleWriter, TypeOK
<1>5. ASSUME NEW t \in Topics, HandleTombstone(m, t) PROVE Counter(m)'
  <2>1. /\ Polls(m, t) /\ Take(m, t) /\ Goto(m, "commit")
        /\ Produce(m, Polled(m, t).order, NoFold) /\ ~ Folded(t, Polled(m, t))
        /\ Polled(m, t).kind = "tombstone" /\ pc[m] = "poll"
        /\ UNCHANGED <<committed, changelog, routed, held>>
    BY <1>5 DEF HandleTombstone, Folded, Polls
  <2>2. Tombstoned(Polled(m, t).order)
    <3>1. position[m][t] \in Nat /\ position[m][t] < Len(Log(t)) /\ Log(t) \in Seq(Message)
      BY <1>t, <2>1, LogType DEF Polls, TypeOK
    <3>2. position[m][t] + 1 \in DOMAIN Log(t)
      BY <3>1
    <3>3. QED BY <2>1, <3>2, TombstonedAt DEF Polled
  <2>3. ConsumerCounts(m)'
    BY <1>t, <2>1, CountIgnores
  <2>4. QueueIsInHand(m)'
    <3> DEFINE r == [order |-> Polled(m, t).order, value |-> NoFold]
    <3>1. queue[m] \in Seq(ChangelogRecord) /\ queue'[m] = Append(queue[m], r)
      BY <1>t, <2>1 DEF TypeOK, ChangelogRecord, Produce
    <3>2. \A i \in DOMAIN queue'[m] :
            (i \in DOMAIN queue[m] /\ queue'[m][i] = queue[m][i]) \/ queue'[m][i] = r
      BY <3>1
    <3>3. QED BY <1>t, <2>1, <2>2, <3>2 DEF QueueIsInHand
  <2>5. QED BY <2>3, <2>4 DEF Counter
<1>6. ASSUME NEW t \in Topics, Skip(m, t) PROVE Counter(m)'
  <2>1. /\ Polls(m, t) /\ Take(m, t) /\ Goto(m, "commit") /\ ~ Folded(t, Polled(m, t))
        /\ UNCHANGED <<committed, changelog, routed, held, queue>> /\ pc[m] = "poll"
    BY <1>6 DEF Skip, Polls
  <2>2. ConsumerCounts(m)'
    BY <1>t, <2>1, CountIgnores
  <2>3. QED BY <1>t, <2>1, <2>2, QueueKept DEF Counter
<1>7. ASSUME NEW t \in Topics, HandleEvent(m, t) \/ HandleFailure(m, t) PROVE Counter(m)'
  <2>1. PICK label \in {"persist", "route"} :
          /\ Polls(m, t) /\ Take(m, t) /\ Goto(m, label) /\ pc[m] = "poll" /\ t = "lifecycle"
          /\ UNCHANGED <<committed, changelog, routed, held, queue>>
    BY <1>7, <1>s DEF HandleEvent, HandleFailure, Polls, Folded
  <2>2. pc'[m] = label /\ work'[m] = [topic |-> t, offset |-> position[m][t]]
    BY <1>t, <2>1 DEF Take, Goto, TypeOK
  <2>3. Secured(m)' = Secured(m)
    BY <2>1, <2>2 DEF Secured
  <2>4. QED BY <1>t, <2>1, <2>2, <2>3, QueueKept, CountKept DEF Counter
<1>8. CASE RoutePublished(m)
  <2>1. /\ pc[m] = "route" /\ pc'[m] = "commit" /\ Busy(m)
        /\ routed' = routed \cup {work[m].offset}
        /\ UNCHANGED <<committed, changelog, held, queue, position, work>>
    BY <1>t, <1>8 DEF RoutePublished, Goto, Busy, TypeOK
  <2>2. /\ held[m] # {} /\ work[m].topic = "lifecycle"
        /\ position[m]["lifecycle"] = work[m].offset + 1
    BY <1>t, <2>1 DEF LoopIsStateFirst, WriterInv, AloInv, HandIsLastRead
  <2>3. PICK p : p = Secured(m) /\ p = work[m].offset
    BY <2>1 DEF Secured
  <2>4. Secured(m)' = p + 1 /\ p \in routed' /\ routed \subseteq routed'
    BY <2>1, <2>2, <2>3 DEF Secured
  <2>5. ConsumerCounts(m)'
    BY <1>t, <2>1, <2>2, <2>3, <2>4, CountPassesBy
  <2>6. QED BY <1>t, <2>1, <2>5, QueueKept DEF Counter
<1>9. CASE RouteFailed(m)
  <2>1. /\ pc[m] = "route" /\ pc'[m] = "poll"
        /\ position' = [position EXCEPT ![m][work[m].topic] = work[m].offset]
        /\ UNCHANGED <<committed, changelog, routed, held, queue>>
    BY <1>t, <1>9 DEF RouteFailed, rewind, Goto, TypeOK
  <2>2. work[m].topic = "lifecycle" /\ position'[m]["lifecycle"] = work[m].offset
    BY <1>t, <2>1, TopicsExist DEF LoopIsStateFirst, TypeOK
  <2>3. Secured(m)' = Secured(m)
    BY <2>1, <2>2 DEF Secured
  <2>4. QED BY <1>t, <2>1, <2>3, QueueKept, CountKept DEF Counter
<1>10. CASE Save(m)
  BY <1>t, <1>10, CounterSave
<1>11. CASE Flush(m)
  <2>1. /\ pc[m] = "flush" /\ pc'[m] = "commit" /\ Busy(m) /\ queue[m] = << >>
        /\ UNCHANGED <<committed, changelog, held, queue, position, work, routed>>
    BY <1>t, <1>11 DEF Flush, flushed, Goto, Busy, TypeOK
  <2>2. /\ held[m] # {} /\ work[m].topic = "lifecycle"
        /\ position[m]["lifecycle"] = work[m].offset + 1
    BY <1>t, <2>1 DEF LoopIsStateFirst, WriterInv, AloInv, HandIsLastRead
  <2>3. store[m] = changelog
    BY <1>t, <2>1, <2>2, AppliedEmpty DEF StoreIsApplied, TypeOK
  <2>4. Secured(m) = work[m].offset /\ Secured(m)' = work[m].offset + 1
    BY <2>1, <2>2 DEF Secured
  <2>5. committed["lifecycle"] \in Nat /\ work[m].offset \in Nat
    BY <1>t, TopicsExist DEF TypeOK
  <2>6. ConsumerCounts(m)'
    BY <1>t, <2>1, <2>2, <2>3, <2>4, <2>5 DEF ConsumerCounts
  <2>7. QueueIsInHand(m)'
    BY <2>1 DEF QueueIsInHand
  <2>8. QED BY <2>6, <2>7 DEF Counter
<1>12. CASE CommitAccepted(m) \/ CommitRejected(m)
  <2>1. /\ pc[m] = "commit" /\ pc'[m] = "poll" /\ Busy(m)
        /\ UNCHANGED <<changelog, held, queue, position, routed>>
    BY <1>t, <1>12 DEF CommitAccepted, CommitRejected, Goto, LoopIsStateFirst, Busy, TypeOK
  <2>2. Secured(m)' = Secured(m) /\ Secured(m) = position[m]["lifecycle"] /\ Secured(m) \in Nat
    BY <1>t, <2>1, SecuredBound DEF Secured
  <2>3. work[m].topic \in Topics /\ work[m].offset \in Nat
    BY <1>t DEF TypeOK
  <2>4. committed'["lifecycle"] \in {committed["lifecycle"], Secured(m)}
    <3>1. CASE committed' = committed
      BY <3>1
    <3>2. CASE CommitAccepted(m)
      <4>1. committed' = [committed EXCEPT ![work[m].topic] = work[m].offset + 1]
        BY <3>2 DEF CommitAccepted
      <4>2. work[m].topic = "lifecycle" => position[m]["lifecycle"] = work[m].offset + 1
        BY <1>t, <2>1 DEF WriterInv, AloInv, HandIsLastRead
      <4>3. QED BY <1>t, <2>2, <2>3, <4>1, <4>2, TopicsExist DEF TypeOK
    <3>3. QED BY <1>12, <3>1, <3>2 DEF CommitRejected
  <2>5. ConsumerCounts(m)'
    BY <1>t, <2>1, <2>2, <2>4 DEF ConsumerCounts
  <2>6. QED BY <1>t, <2>1, <2>5, QueueKept DEF Counter
<1>13. CASE Deliver(m)
  BY <1>t, <1>13, CounterDelivers
<1>14. ~ DeliveryFails(m)
  BY <1>s DEF DeliveryFails, SafeDeployment
<1>15. CASE Evict(m) \/ Start(m)
  <2>1. pc[m] = "down" /\ UNCHANGED <<held, queue>>
    BY <1>t, <1>s, <1>15 DEF Evict, Start, Running, SafeDeployment
  <2>2. held[m] = {}
    BY <1>t, <2>1 DEF SoleWriter
  <2>3. QED BY <1>t, <2>1, <2>2, QueueKept DEF Counter, ConsumerCounts
<1>16. CASE Crash(m) \/ Exit(m)
  <2>1. held'[m] = {} /\ queue'[m] = << >>
    BY <1>t, <1>16 DEF Crash, Exit, LetGo, TypeOK
  <2>2. QED BY <2>1 DEF Counter, ConsumerCounts, QueueIsInHand
<1>17. QED BY <1>1, <1>2, <1>3, <1>4, <1>5, <1>6, <1>7, <1>8, <1>9, <1>10, <1>11, <1>12,
              <1>13, <1>14, <1>15, <1>16 DEF Acts, Step, Handle

\* Who consumes does so alone: a step of another leaves its counting as it is.
LEMMA CounterFrame ==
  ASSUME CountInv, NEW m \in Members, Acts(m), Counter(m)'
  PROVE  \A n \in Members : Counter(n)'
<1> SUFFICES ASSUME NEW n \in Members, n # m PROVE Counter(n)'
  OBVIOUS
<1>t. /\ TypeOK /\ SoleWriter(m) /\ SoleWriter(n) /\ Counter(n) /\ CoverInv
  BY DEF CountInv, CoverInv, WriterInv, Writer, AloInv, TypeInv
<1>1. UNCHANGED Private(n)
  BY <1>t, OthersStay
<1>2. QueueIsInHand(n)'
  BY <1>t, <1>1 DEF Counter, QueueIsInHand, Private, Current
<1>3. ASSUME held'[n] # {} PROVE ConsumerCounts(n)'
  <2>1. held[n] # {}
    BY <1>1, <1>3 DEF Private
  <2>2. held[m] = {} /\ queue[m] = << >>
    BY <1>t, <2>1, OthersAreIdle
  <2>3. UNCHANGED changelog
    BY <2>2, ChangelogMoves DEF Deliver
  <2>4. UNCHANGED committed
    BY <1>t, <2>2, CommittedMoves DEF CommitAccepted, SoleWriter, Busy
  <2>5. routed \subseteq routed'
    BY RoutedGrows
  <2>6. Secured(n)' = Secured(n) /\ Secured(n) \in Nat
    BY <1>t, <1>1, SecuredBound DEF Secured, Private
  <2>7. Accounts(changelog, routed', Secured(n))
    <3>1. Accounts(changelog, routed, Secured(n))
      BY <1>t, <2>1 DEF Counter, ConsumerCounts
    <3>2. changelog \in [Orders -> Record \cup {NoFold}] /\ Secured(n) <= Secured(n)
      BY <1>t, <2>6 DEF TypeOK
    <3>3. QED BY <2>5, <2>6, <3>1, <3>2, AccountsLess
  <2>8. pc[n] = "flush" => Accounts(store[n], routed', work[n].offset + 1)
    <3>1. work[n].offset + 1 \in Nat /\ store[n] \in [Orders -> Record \cup {NoFold}]
      BY <1>t DEF TypeOK
    <3>2. pc[n] = "flush" => Accounts(store[n], routed, work[n].offset + 1)
      BY <1>t, <2>1 DEF Counter, ConsumerCounts
    <3>3. QED BY <2>5, <3>1, <3>2, AccountsLess
  <2>9. QED BY <1>t, <1>1, <2>1, <2>3, <2>4, <2>6, <2>7, <2>8
            DEF Counter, ConsumerCounts, Private
<1>4. QED BY <1>2, <1>3 DEF Counter, ConsumerCounts

LEMMA CountStep ==
  ASSUME SafeStateFirst, CountInv, [Next]_vars
  PROVE  CountInv'
<1>c. CoverInv'
  BY CoverStep DEF CountInv
<1>t. TypeOK /\ CoverInv
  BY DEF CountInv, CoverInv, WriterInv, AloInv, TypeInv
<1>u. TypeOK'
  BY <1>c DEF CoverInv, WriterInv, AloInv, TypeInv
<1>1. CASE UNCHANGED vars
  <2>1. UNCHANGED <<committed, changelog, pc, held, position, store, queue, work, routed>>
    BY <1>1 DEF vars, group, history
  <2>2. \A m \in Members : Counter(m)'
    BY <2>1 DEF CountInv, Counter, QueueIsInHand, ConsumerCounts, Secured, Current
  <2>3. QED BY <1>c, <2>1, <2>2 DEF CountInv
<1>2. CASE Next
  <2>1. PICK m \in Members : Acts(m)
    BY <1>2, NextActs
  <2>2. Counter(m)'
    BY <2>1, CounterStep
  <2>3. \A n \in Members : Counter(n)'
    BY <2>1, <2>2, CounterFrame
  <2>4. Accounts(changelog', routed', committed'["lifecycle"])
    <3>1. CASE held'[m] # {}
      <4>1. /\ committed'["lifecycle"] <= Secured(m)'
            /\ Accounts(changelog', routed', Secured(m)')
        BY <2>2, <3>1 DEF Counter, ConsumerCounts
      <4>2. PICK n \in Nat : n = Secured(m)'
        BY <1>u, TopicsExist DEF Secured, TypeOK
      <4>3. committed'["lifecycle"] \in Nat /\ changelog' \in [Orders -> Record \cup {NoFold}]
        BY <1>u, TopicsExist DEF TypeOK
      <4>4. QED BY <4>1, <4>2, <4>3, AccountsLess
    <3>2. CASE held'[m] = {}
      <4>1. SoleWriter(m)
        BY <1>t DEF CoverInv, WriterInv, Writer
      <4>2. UNCHANGED changelog
        <5>1. Deliver(m) => held'[m] # {}
          BY <4>1 DEF Deliver, SoleWriter
        <5>2. QED BY <2>1, <3>2, <5>1, ChangelogMoves
      <4>3. UNCHANGED committed
        <5>1. CommitAccepted(m) => held'[m] # {}
          BY <4>1 DEF CommitAccepted, SoleWriter, Busy
        <5>2. QED BY <2>1, <3>2, <5>1, CommittedMoves
      <4>4. committed["lifecycle"] \in Nat /\ changelog \in [Orders -> Record \cup {NoFold}]
        BY <1>t, TopicsExist DEF TypeOK
      <4>5. QED BY <2>1, <4>2, <4>3, <4>4, RoutedGrows, AccountsLess DEF CountInv
    <3>3. QED BY <3>1, <3>2
  <2>5. QED BY <1>c, <2>3, <2>4 DEF CountInv
<1>3. QED BY <1>1, <1>2

LEMMA CountInit == Init => CountInv
<1> SUFFICES ASSUME Init PROVE CountInv
  OBVIOUS
<1>1. CoverInv
  BY CoverInit
<1>2. /\ committed["lifecycle"] = 0 /\ changelog = Empty
      /\ \A m \in Members : held[m] = {} /\ queue[m] = << >>
  BY TopicsExist DEF Init
<1>3. \A k : Counted(routed, 0, k) = {}
  BY DEF Counted
<1>4. Accounts(changelog, routed, committed["lifecycle"])
  <2>1. Cardinality({}) = 0
    BY FS_EmptySet
  <2>2. \A k \in Orders : Count(changelog, k) = 0
    BY <1>2 DEF Count, Empty
  <2>3. \A k \in Orders : Cardinality(Counted(routed, 0, k)) <= Count(changelog, k)
    <3> SUFFICES ASSUME NEW k \in Orders
                 PROVE  Cardinality(Counted(routed, 0, k)) <= Count(changelog, k)
      OBVIOUS
    <3>1. Cardinality(Counted(routed, 0, k)) = 0 /\ Count(changelog, k) = 0
      BY <1>3, <2>1, <2>2
    <3>2. QED BY <3>1
  <2>4. QED BY <1>2, <2>3 DEF Accounts
<1>5. QED BY <1>1, <1>2, <1>4 DEF CountInv, Counter, QueueIsInHand, ConsumerCounts

\* In a safe deployment that writes the state first, the durable count of an order is
\* at least the number of its committed, folded messages: save() counts the deliveries
\* its guard absorbs, and no crash or rebuild forgets one.
THEOREM NoDeliveryUncounted ==
  ASSUME SafeStateFirst
  PROVE  Spec => []EveryDeliveryCounted
<1>1. Spec => []CountInv
  BY CountInit, CountStep, PTL DEF Spec
<1>2. ASSUME CountInv PROVE EveryDeliveryCounted
  <2> SUFFICES ASSUME NEW k \in Orders, ~ Tombstoned(k),
                      Counted(routed, committed["lifecycle"], k) # {}
               PROVE  /\ changelog[k] # NoFold
                      /\ changelog[k].handled_count
                           >= Cardinality(Counted(routed, committed["lifecycle"], k))
    BY DEF EveryDeliveryCounted, Counted
  <2>1. PICK n \in Nat : n = committed["lifecycle"]
    BY <1>2, TopicsExist DEF CountInv, CoverInv, WriterInv, AloInv, TypeInv, TypeOK
  <2>2. changelog \in [Orders -> Record \cup {NoFold}]
    BY <1>2 DEF CountInv, CoverInv, WriterInv, AloInv, TypeInv, TypeOK
  <2>3. Cardinality(Counted(routed, n, k)) <= Count(changelog, k)
    BY <1>2, <2>1 DEF CountInv, Accounts
  <2>4. IsFiniteSet(Counted(routed, n, k)) /\ Cardinality(Counted(routed, n, k)) \in Nat
    BY CountedFinite
  <2>5. Cardinality(Counted(routed, n, k)) # 0
    BY <2>1, <2>4, FS_EmptySet
  <2>6. QED BY <2>1, <2>2, <2>3, <2>4, <2>5, CountType DEF Count, Record
<1>3. QED BY <1>1, <1>2, PTL

-----------------------------------------------------------------------------
(* Violations.                                                             *)

\* What the producer and the retry worker make of the topic: sequences count from 1,
\* an order's sequence number belongs to one event however often it is put back, and
\* what the retry worker addresses to another service was on the topic before.
WellFormedTopic ==
  /\ \A i \in DOMAIN EventLog : EventLog[i].kind = "body" => EventLog[i].sequence >= 1
  /\ \A i, j \in DOMAIN EventLog :
       (/\ EventLog[i].kind = "body" /\ EventLog[j].kind = "body"
        /\ EventLog[i].order = EventLog[j].order
        /\ EventLog[i].sequence = EventLog[j].sequence)
       => EventLog[i].type = EventLog[j].type
  /\ \A i \in DOMAIN EventLog :
       EventLog[i].kind = "body" /\ EventLog[i].target = "other" =>
         \E j \in 1 .. i - 1 :
           /\ EventLog[j].kind = "body" /\ EventLog[j].target # "other"
           /\ EventLog[j].order = EventLog[i].order
           /\ EventLog[j].sequence = EventLog[i].sequence

\* The sequence and the state of a stored record are those of one event of its order.
HasOrigin(k, v) ==
  v # NoFold =>
    \E i \in DOMAIN EventLog :
      /\ EventLog[i].kind = "body" /\ EventLog[i].order = k
      /\ EventLog[i].sequence = v.last_sequence
      /\ RESULTING_STATE[EventLog[i].type] = v.state

QueueHasOrigin(m) ==
  \A i \in DOMAIN queue[m] : HasOrigin(queue[m][i].order, queue[m][i].value)

ReportInv ==
  /\ CountInv
  /\ \A k \in Orders : HasOrigin(k, changelog[k])
  /\ \A m \in Members : QueueHasOrigin(m)
  /\ ViolationsAreReal

\* A record of the table, or one of the queue, is what applying finds.
LEMMA AppliedFrom ==
  ASSUME NEW table, NEW q \in Seq(ChangelogRecord), NEW k \in Orders
  PROVE  \/ Applied(table, q)[k] = table[k]
         \/ \E i \in DOMAIN q : q[i].order = k /\ Applied(table, q)[k] = q[i].value
<1>1. CASE \A i \in DOMAIN q : q[i].order # k
  BY <1>1, AppliedAt
<1>2. ASSUME NEW l \in DOMAIN q, q[l].order = k
      PROVE  \E i \in DOMAIN q : q[i].order = k /\ Applied(table, q)[k] = q[i].value
  <2>1. PICK i \in DOMAIN q :
          q[i].order = k /\ \A j \in DOMAIN q : q[j].order = k => j <= i
    BY <1>2, LastRecord
  <2>2. QED BY <2>1, AppliedAt
<1>3. QED BY <1>1, <1>2

LEMMA StoreHasOrigin ==
  ASSUME ReportInv, NEW m \in Members, held[m] # {}, NEW k \in Orders
  PROVE  HasOrigin(k, store[m][k])
<1>1. queue[m] \in Seq(ChangelogRecord) /\ store[m] = Applied(changelog, queue[m])
  BY DEF ReportInv, CountInv, CoverInv, WriterInv, AloInv, TypeInv, TypeOK, ChangelogRecord,
       Writer, StoreIsApplied
<1>2. HasOrigin(k, changelog[k]) /\ QueueHasOrigin(m)
  BY DEF ReportInv
<1>3. \/ store[m][k] = changelog[k]
      \/ \E i \in DOMAIN queue[m] : queue[m][i].order = k /\ store[m][k] = queue[m][i].value
  BY <1>1, AppliedFrom
<1>4. QED BY <1>2, <1>3 DEF QueueHasOrigin

\* save() writes the event's fold, or keeps the stored one.
LEMMA SaveHasOrigin ==
  ASSUME NEW n \in Nat, n < Len(EventLog), NEW msg, msg = EventLog[n + 1],
         msg.kind = "body", NEW previous \in Record \cup {NoFold},
         HasOrigin(msg.order, previous)
  PROVE  HasOrigin(msg.order, saved_record(previous, msg))
<1> DEFINE rec == saved_record(previous, msg)
<1>1. \/ /\ rec.last_sequence = msg.sequence /\ rec.state = RESULTING_STATE[msg.type]
      \/ /\ previous # NoFold /\ rec.last_sequence = previous.last_sequence
         /\ rec.state = previous.state
  BY DEF saved_record, updated_fold
<1>2. n + 1 \in DOMAIN EventLog
  BY ConstantsAssumption
<1> HIDE DEF rec
<1>3. QED BY <1>1, <1>2 DEF HasOrigin, rec

\* How a queue changes.
LEMMA QueueMoves ==
  ASSUME TypeOK, NEW m \in Members, Acts(m), NEW i \in DOMAIN queue'[m]
  PROVE  \/ \E j \in DOMAIN queue[m] : queue'[m][i] = queue[m][j]
         \/ queue'[m][i].value = NoFold
         \/ /\ Save(m)
            /\ queue'[m][i] =
                 [order |-> Current(m).order,
                  value |-> saved_record(store[m][Current(m).order], Current(m))]
<1>t. queue[m] \in Seq(ChangelogRecord)
  BY DEF TypeOK, ChangelogRecord
<1>a. ASSUME NEW k, NEW v, Produce(m, k, v)
      PROVE  \/ \E j \in DOMAIN queue[m] : queue'[m][i] = queue[m][j]
             \/ queue'[m][i] = [order |-> k, value |-> v]
  <2>1. queue'[m] = Append(queue[m], [order |-> k, value |-> v])
    BY <1>a DEF Produce, TypeOK
  <2>2. QED BY <1>t, <2>1
<1>1. CASE queue'[m] = queue[m] \/ queue'[m] = << >>
  BY <1>1
<1>2. ASSUME NEW t \in Topics, HandleTombstone(m, t)
      PROVE  \/ \E j \in DOMAIN queue[m] : queue'[m][i] = queue[m][j]
             \/ queue'[m][i].value = NoFold
  <2>1. Produce(m, Polled(m, t).order, NoFold)
    BY <1>2 DEF HandleTombstone
  <2>2. \/ \E j \in DOMAIN queue[m] : queue'[m][i] = queue[m][j]
        \/ queue'[m][i] = [order |-> Polled(m, t).order, value |-> NoFold]
    BY <1>a, <2>1
  <2>3. QED BY <2>2
<1>3. CASE Save(m)
  <2>1. Produce(m, Current(m).order, saved_record(store[m][Current(m).order], Current(m)))
    BY <1>3 DEF Save
  <2>2. QED BY <1>3, <1>a, <2>1
<1>4. CASE queue[m] # << >> /\ queue'[m] = Tail(queue[m])
  BY <1>4, <1>t, Shifted
<1>5. CASE \E T \in SUBSET Topics : Assign(m, T) \/ Revoke(m, T)
  BY <1>1, <1>5 DEF Assign, Revoke
<1>6. CASE Restore(m) \/ Lost(m) \/ RoutePublished(m) \/ RouteFailed(m) \/ Flush(m)
  BY <1>1, <1>6 DEF Restore, Lost, RoutePublished, RouteFailed, Flush
<1>7. CASE \E t \in Topics : Skip(m, t) \/ HandleEvent(m, t) \/ HandleFailure(m, t)
  BY <1>1, <1>7 DEF Skip, HandleEvent, HandleFailure
<1>8. CASE CommitAccepted(m) \/ CommitRejected(m) \/ Evict(m) \/ Start(m)
  BY <1>1, <1>8 DEF CommitAccepted, CommitRejected, Evict, Start
<1>9. CASE Crash(m) \/ Exit(m)
  BY <1>1, <1>9 DEF Crash, Exit, TypeOK
<1>10. CASE Deliver(m) \/ DeliveryFails(m)
  BY <1>4, <1>10 DEF Deliver, DeliveryFails, TypeOK
<1>11. QED BY <1>2, <1>3, <1>5, <1>6, <1>7, <1>8, <1>9, <1>10 DEF Acts, Step, Handle

LEMMA OriginsStay ==
  ASSUME ReportInv, NEW m \in Members, Acts(m)
  PROVE  /\ \A k \in Orders : HasOrigin(k, changelog'[k])
         /\ \A n \in Members : QueueHasOrigin(n)'
<1>t. /\ TypeOK /\ SoleWriter(m) /\ LoopIsStateFirst(m) /\ QueueHasOrigin(m)
      /\ \A k \in Orders : HasOrigin(k, changelog[k])
  BY DEF ReportInv, CountInv, CoverInv, Coverer, WriterInv, Writer, AloInv, TypeInv
<1>1. ASSUME NEW k \in Orders PROVE HasOrigin(k, changelog'[k])
  <2>1. CASE UNCHANGED changelog
    BY <1>t, <2>1
  <2>2. CASE Deliver(m)
    <3> DEFINE r == Head(queue[m])
    <3>1. /\ queue[m] \in Seq(ChangelogRecord) /\ queue[m] # << >>
          /\ changelog' = [changelog EXCEPT ![r.order] = r.value]
      BY <1>t, <2>2 DEF Deliver, TypeOK, ChangelogRecord
    <3>2. 1 \in DOMAIN queue[m] /\ queue[m][1] = r
      BY <3>1, Shifted
    <3>3. HasOrigin(r.order, r.value)
      BY <1>t, <3>2 DEF QueueHasOrigin
    <3> HIDE DEF r
    <3>4. changelog'[k] = changelog[k] \/ (k = r.order /\ changelog'[k] = r.value)
      BY <1>t, <3>1 DEF TypeOK
    <3>5. QED BY <1>t, <3>3, <3>4
  <2>3. QED BY <2>1, <2>2, ChangelogMoves
<1>2. ASSUME NEW n \in Members, n # m PROVE QueueHasOrigin(n)'
  <2>1. UNCHANGED Private(n)
    BY <1>t, <1>2, OthersStay
  <2>2. QED BY <2>1 DEF ReportInv, QueueHasOrigin, Private
<1>3. QueueHasOrigin(m)'
  <2> SUFFICES ASSUME NEW i \in DOMAIN queue'[m]
               PROVE  HasOrigin(queue'[m][i].order, queue'[m][i].value)
    BY DEF QueueHasOrigin
  <2>1. CASE \E j \in DOMAIN queue[m] : queue'[m][i] = queue[m][j]
    BY <1>t, <2>1 DEF QueueHasOrigin
  <2>2. CASE queue'[m][i].value = NoFold
    BY <2>2 DEF HasOrigin
  <2>3. ASSUME Save(m),
               queue'[m][i] =
                 [order |-> Current(m).order,
                  value |-> saved_record(store[m][Current(m).order], Current(m))]
        PROVE  HasOrigin(queue'[m][i].order, queue'[m][i].value)
    <3> DEFINE msg == Current(m)  n == work[m].offset
    <3>1. /\ held[m] # {} /\ n \in Nat /\ n < Len(EventLog) /\ msg = EventLog[n + 1]
          /\ msg.kind = "body"
      BY <1>t, <2>3, LifecycleLog DEF Save, SoleWriter, Busy, LoopIsStateFirst, Current,
           ReportInv, CountInv, CoverInv, WriterInv, AloInv, TypeInv, InHandOK, TypeOK
    <3> HIDE DEF msg, n
    <3>2. msg.order \in Orders
      <4>1. n \in Nat /\ n < Len(EventLog) /\ msg = EventLog[n + 1]
        BY <3>1
      <4>2. msg \in Message
        BY <4>1, EventAt
      <4>3. QED BY <4>2 DEF Message
    <3>3. PICK v \in Record \cup {NoFold} : v = store[m][msg.order]
      BY <1>t, <3>2 DEF TypeOK
    <3>4. HasOrigin(msg.order, v)
      BY <3>1, <3>2, <3>3, StoreHasOrigin
    <3>5. HasOrigin(msg.order, saved_record(v, msg))
      BY <3>1, <3>4, SaveHasOrigin
    <3>6. queue'[m][i].order = msg.order /\ queue'[m][i].value = saved_record(v, msg)
      BY <2>3, <3>3 DEF msg
    <3>7. QED BY <3>5, <3>6
  <2>4. QED BY <1>t, <2>1, <2>2, <2>3, QueueMoves
<1>4. QED BY <1>1, <1>2, <1>3

\* No violation means the next sequence and the legal transition.
LEMMA NoViolation ==
  ASSUME NEW current, NEW event
  PROVE  violations_of(current, event) = {} <=>
           /\ event.sequence = last_sequence_of(current) + 1
           /\ LEGAL_PREDECESSOR[event.type] = state_of(current)
<1>1. "SEQUENCE_GAP" \in ViolationType /\ "ILLEGAL_TRANSITION" \in ViolationType
      /\ "SEQUENCE_GAP" # "ILLEGAL_TRANSITION"
  BY DEF ViolationType
<1>2. QED BY <1>1 DEF violations_of, is_legal_transition

LEMMA FoldOfEvent ==
  ASSUME NEW msg \in Message
  PROVE  /\ last_sequence_of(updated_fold(msg)) = msg.sequence
         /\ state_of(updated_fold(msg)) = RESULTING_STATE[msg.type]
<1>1. updated_fold(msg) \in OrderFold
  BY DEF updated_fold, OrderFold, RESULTING_STATE, OrderState, Message, EventType
<1>2. QED BY <1>1, NoneIsNoFold DEF last_sequence_of, state_of, updated_fold

LEMMA NotRepeated ==
  ASSUME NEW v \in Record \cup {NoFold}, NEW e \in Message, ~ redelivered(v, e)
  PROVE  v = NoFold \/ (v \in Record /\ v.last_sequence \in Nat /\ e.sequence > v.last_sequence)
<1>1. e.sequence \in Nat
  BY DEF Message
<1>2. v \in Record => v.last_sequence \in Nat
  BY DEF Record
<1>3. QED BY <1>1, <1>2 DEF redelivered

LEMMA FirstIsNotLater ==
  ASSUME NEW a, NEW b \in Nat, a = 1, b >= 1
  PROVE  ~ a > b
  OBVIOUS

\* The places of an order's events among the first p of the topic, and the last of some.
Earlier(k, p) == {j \in 1 .. p : EventLog[j].kind = "body" /\ EventLog[j].order = k}
Latest(S) == CHOOSE j \in S : \A l \in S : l <= j

LEMMA EarlierOfOrder ==
  ASSUME NEW p \in Nat, p < Len(EventLog), NEW k
  PROVE  /\ Earlier(k, p) \in SUBSET (1 .. p)
         /\ \A j \in Earlier(k, p) :
              /\ j \in Nat /\ j \in DOMAIN EventLog /\ EventLog[j] \in Message
              /\ EventLog[j].kind = "body" /\ EventLog[j].order = k
<1>1. EventLog \in Seq(Message) /\ Len(EventLog) \in Nat /\ DOMAIN EventLog = 1 .. Len(EventLog)
  BY ConstantsAssumption
<1>2. QED BY <1>1 DEF Earlier

LEMMA LatestIsOne ==
  ASSUME NEW p \in Nat, NEW S \in SUBSET (1 .. p), S # {}
  PROVE  Latest(S) \in S
<1>1. \E j \in S : \A l \in S : l <= j
  BY GreatestNumber
<1>2. QED BY <1>1 DEF Latest

LEMMA InOrder ==
  ASSUME NEW p \in Nat, ~ OutOfOrderOnTopic(p + 1)
  PROVE  LET e == EventLog[p + 1] before == Earlier(e.order, p) IN
           IF before = {} THEN violations_of(NoFold, e) = {}
           ELSE violations_of(updated_fold(EventLog[Latest(before)]), e) = {}
<1>1. 1 .. (p + 1) - 1 = 1 .. p
  OBVIOUS
<1>2. QED BY <1>1 DEF OutOfOrderOnTopic, Earlier, Latest

\* A later event of an order has the event before it on the topic, in some copy that all
\* services take.
LEMMA CopyForAll ==
  ASSUME WellFormedTopic, NEW p \in Nat, NEW i \in 1 .. p, i \in DOMAIN EventLog,
         EventLog[i].kind = "body"
  PROVE  \E c \in 1 .. p :
           /\ EventLog[c].kind = "body" /\ EventLog[c].target # "other"
           /\ EventLog[c].order = EventLog[i].order
           /\ EventLog[c].sequence = EventLog[i].sequence
<1>1. CASE EventLog[i].target # "other"
  BY <1>1
<1>2. CASE EventLog[i].target = "other"
  <2>1. PICK j \in 1 .. i - 1 :
          /\ EventLog[j].kind = "body" /\ EventLog[j].target # "other"
          /\ EventLog[j].order = EventLog[i].order
          /\ EventLog[j].sequence = EventLog[i].sequence
    BY <1>2 DEF WellFormedTopic
  <2>2. j \in 1 .. p
    OBVIOUS
  <2>3. QED BY <2>1, <2>2
<1>3. QED BY <1>1, <1>2

LEMMA OriginIsEvent ==
  ASSUME WellFormedTopic, NEW k, NEW v \in Record, HasOrigin(k, v)
  PROVE  \E i \in DOMAIN EventLog :
           /\ EventLog[i].kind = "body" /\ EventLog[i].order = k
           /\ EventLog[i].sequence = v.last_sequence /\ EventLog[i].sequence >= 1
           /\ RESULTING_STATE[EventLog[i].type] = v.state
<1>1. PICK i \in DOMAIN EventLog :
        /\ EventLog[i].kind = "body" /\ EventLog[i].order = k
        /\ EventLog[i].sequence = v.last_sequence
        /\ RESULTING_STATE[EventLog[i].type] = v.state
  BY NoFoldAssumption DEF HasOrigin
<1>2. EventLog[i].sequence >= 1
  BY <1>1 DEF WellFormedTopic
<1>3. QED BY <1>1, <1>2

LEMMA SameEvent ==
  ASSUME WellFormedTopic, NEW i \in DOMAIN EventLog, NEW j \in DOMAIN EventLog,
         EventLog[i].kind = "body", EventLog[j].kind = "body",
         EventLog[i].order = EventLog[j].order, EventLog[i].sequence = EventLog[j].sequence
  PROVE  EventLog[i].type = EventLog[j].type
  BY DEF WellFormedTopic

LEMMA Between ==
  ASSUME NEW a \in Nat, NEW b \in Nat, NEW c, c = a + 1, b >= a, c > b
  PROVE  b = a
  OBVIOUS

LEMMA OffsetOfPlace ==
  ASSUME NEW p \in Nat, NEW c \in 1 .. p
  PROVE  \E o \in 0 .. p - 1 : o + 1 = c /\ o + 1 < p + 1
<1>1. c - 1 \in 0 .. p - 1 /\ (c - 1) + 1 = c /\ c < p + 1
  OBVIOUS
<1>2. QED BY <1>1

\* A record that is the topic's, and reflects every event its order had for all services
\* before this one, finds nothing wrong with an event in its place.
LEMMA LegalAfter ==
  ASSUME WellFormedTopic, NEW p \in Nat, p < Len(EventLog), NEW e, e = EventLog[p + 1],
         ~ OutOfOrderOnTopic(p + 1),
         NEW v \in Record \cup {NoFold}, HasOrigin(e.order, v), ~ redelivered(v, e),
         \A c \in 1 .. p : EventLog[c].kind = "body" /\ EventLog[c].target # "other"
                            /\ EventLog[c].order = e.order
           => v # NoFold /\ v.last_sequence >= EventLog[c].sequence
  PROVE  violations_of(v, e) = {}
<1>1. e \in Message
  BY EventAt
<1>2. v = NoFold \/ (v \in Record /\ v.last_sequence \in Nat /\ e.sequence > v.last_sequence)
  BY <1>1, NotRepeated
<1>3. PICK before \in SUBSET (1 .. p) : before = Earlier(e.order, p)
  BY EarlierOfOrder
<1>4. CASE before = {}
  <2>1. violations_of(NoFold, e) = {}
    BY <1>3, <1>4, InOrder
  <2>2. e.sequence = last_sequence_of(NoFold) + 1
    BY <2>1, NoViolation
  <2>3. e.sequence = 1
    BY <2>2 DEF last_sequence_of
  <2>4. v = NoFold
    <3> SUFFICES ASSUME v # NoFold PROVE FALSE
      OBVIOUS
    <3>1. v \in Record /\ v.last_sequence \in Nat /\ e.sequence > v.last_sequence
      BY <1>2
    <3>2. v.last_sequence >= 1
      BY <3>1, OriginIsEvent
    <3>3. QED BY <2>3, <3>1, <3>2, FirstIsNotLater
  <2>5. QED BY <2>1, <2>4
<1>5. CASE before # {}
  <2>1. PICK last \in before : last = Latest(before)
    BY <1>5, LatestIsOne
  <2>2. /\ last \in 1 .. p /\ last \in Nat /\ last \in DOMAIN EventLog
        /\ EventLog[last] \in Message
        /\ EventLog[last].kind = "body" /\ EventLog[last].order = e.order
    BY <1>3, EarlierOfOrder
  <2>3. PICK msg \in Message : msg = EventLog[last]
    BY <2>2
  <2>4. violations_of(updated_fold(msg), e) = {}
    BY <1>3, <1>5, <2>1, <2>3, InOrder
  <2>5. e.sequence = msg.sequence + 1 /\ LEGAL_PREDECESSOR[e.type] = RESULTING_STATE[msg.type]
    <3>1. /\ e.sequence = last_sequence_of(updated_fold(msg)) + 1
          /\ LEGAL_PREDECESSOR[e.type] = state_of(updated_fold(msg))
      BY <2>4, NoViolation
    <3>2. QED BY <3>1, FoldOfEvent
  <2>6. v # NoFold /\ v.last_sequence >= msg.sequence
    <3>1. PICK c \in 1 .. p :
            /\ EventLog[c].kind = "body" /\ EventLog[c].target # "other"
            /\ EventLog[c].order = EventLog[last].order
            /\ EventLog[c].sequence = EventLog[last].sequence
      BY <2>2, CopyForAll
    <3>2. QED BY <2>2, <2>3, <3>1
  <2>7. v \in Record /\ v.last_sequence \in Nat /\ msg.sequence \in Nat
    <3>1. msg.sequence \in Nat
      BY <2>3 DEF Message
    <3>2. QED BY <1>2, <2>6, <3>1
  <2>8. v.last_sequence = msg.sequence
    BY <1>2, <2>5, <2>6, <2>7, Between
  <2>9. v.state = RESULTING_STATE[msg.type]
    <3>1. PICK i \in DOMAIN EventLog :
            /\ EventLog[i].kind = "body" /\ EventLog[i].order = e.order
            /\ EventLog[i].sequence = v.last_sequence /\ EventLog[i].sequence >= 1
            /\ RESULTING_STATE[EventLog[i].type] = v.state
      BY <2>7, OriginIsEvent
    <3>2. EventLog[i].type = EventLog[last].type
      BY <2>2, <2>3, <2>8, <3>1, SameEvent
    <3>3. QED BY <2>3, <3>1, <3>2
  <2>10. last_sequence_of(v) = msg.sequence /\ state_of(v) = RESULTING_STATE[msg.type]
    BY <2>6, <2>8, <2>9 DEF last_sequence_of, state_of
  <2>11. QED BY <2>5, <2>10, NoViolation
<1>6. QED BY <1>4, <1>5

\* An event handled in its place on the topic, with none of its order routed away before
\* it, violates nothing: the store is at the event before it, or further on.
LEMMA InPlaceIsLegal ==
  ASSUME WellFormedTopic, CountInv, NEW m \in Members, held[m] # {}, pc[m] = "poll",
         NEW p \in Nat, p = position[m]["lifecycle"], p < Len(EventLog),
         NEW e, e = EventLog[p + 1], ~ Tombstoned(e.order),
         HasOrigin(e.order, store[m][e.order]), ~ redelivered(store[m][e.order], e),
         ~ OutOfOrderOnTopic(p + 1),
         ~ \E o \in routed : o + 1 < p + 1 /\ EventLog[o + 1].order = e.order
  PROVE  violations_of(store[m][e.order], e) = {}
<1>1. TypeOK /\ CoverInv /\ QueueIsInHand(m) /\ ConsumerIsCovered(m)
  BY DEF CountInv, CoverInv, Coverer, WriterInv, AloInv, TypeInv, Counter
<1>2. e \in Message /\ e.order \in Orders
  <2>1. e \in Message
    BY EventAt
  <2>2. QED BY <2>1 DEF Message
<1>3. PICK v \in Record \cup {NoFold} : v = store[m][e.order] /\ v = changelog[e.order]
  <2>1. store[m][e.order] = changelog[e.order]
    BY <1>1, <1>2, StoreIsSettled
  <2>2. changelog[e.order] \in Record \cup {NoFold}
    BY <1>1, <1>2 DEF TypeOK
  <2>3. QED BY <2>1, <2>2
<1>4. ASSUME NEW c \in 1 .. p, EventLog[c].kind = "body", EventLog[c].target # "other",
             EventLog[c].order = e.order
      PROVE  v # NoFold /\ v.last_sequence >= EventLog[c].sequence
  <2>1. PICK o \in 0 .. p - 1 : o + 1 = c /\ o + 1 < p + 1
    BY OffsetOfPlace
  <2>2. CoveredBy(changelog, o)
    <3>1. Secured(m) = p
      BY DEF Secured
    <3>2. QED BY <1>1, <2>1, <3>1 DEF ConsumerIsCovered
  <2>3. o \notin routed
    <3>1. o + 1 < p + 1 /\ EventLog[o + 1].order = e.order
      BY <1>4, <2>1, Zenon
    <3>2. QED BY <3>1
  <2>4. Folded("lifecycle", EventLog[o + 1]) /\ ~ Tombstoned(EventLog[o + 1].order)
    BY <1>4, <2>1 DEF Folded
  <2>5. Reflects(changelog, EventLog[o + 1])
    BY <2>2, <2>3, <2>4 DEF CoveredBy
  <2>6. QED BY <1>3, <1>4, <2>1, <2>5 DEF Reflects
<1>5. HasOrigin(e.order, v) /\ ~ redelivered(v, e)
  BY <1>3
<1>6. violations_of(v, e) = {}
  BY <1>4, <1>5, LegalAfter
<1>7. QED BY <1>3, <1>6

\* Only handling an event reports anything, and only of that event.
LEMMA ReportedMoves ==
  ASSUME NEW m \in Members, Acts(m)
  PROVE  \/ UNCHANGED reported
         \/ /\ Polls(m, "lifecycle") /\ Report(m, Polled(m, "lifecycle"))
  BY DEF Acts, Step, Handle, Assign, Revoke, Restore, Lost, HandleTombstone, Skip, HandleEvent,
       HandleFailure, Folded, RoutePublished, RouteFailed, Save, Flush, CommitAccepted,
       CommitRejected, Deliver, DeliveryFails, Evict, Crash, Exit, Start, history

LEMMA ReportedIsReal ==
  ASSUME WellFormedTopic, ReportInv, NEW m \in Members, Acts(m)
  PROVE  ViolationsAreReal'
<1>t. TypeOK /\ CountInv /\ ViolationsAreReal
  BY DEF ReportInv, CountInv, CoverInv, WriterInv, AloInv, TypeInv
<1>g. routed \subseteq routed'
  BY RoutedGrows
<1> SUFFICES ASSUME NEW r \in reported',  ~ Tombstoned(r[1])
             PROVE  \E i \in DOMAIN EventLog :
                      /\ EventLog[i].order = r[1] /\ EventLog[i].sequence = r[2]
                      /\ \/ OutOfOrderOnTopic(i)
                         \/ \E o \in routed' : o + 1 < i /\ EventLog[o + 1].order = r[1]
  BY DEF ViolationsAreReal
<1>1. CASE r \in reported
  BY <1>1, <1>g, <1>t DEF ViolationsAreReal
<1>2. ASSUME r \notin reported, Polls(m, "lifecycle"), Report(m, Polled(m, "lifecycle"))
      PROVE  \E i \in DOMAIN EventLog :
               /\ EventLog[i].order = r[1] /\ EventLog[i].sequence = r[2]
               /\ \/ OutOfOrderOnTopic(i)
                  \/ \E o \in routed' : o + 1 < i /\ EventLog[o + 1].order = r[1]
  <2>1. PICK p \in Nat : p = position[m]["lifecycle"] /\ p < Len(EventLog)
    BY <1>2, <1>t, TopicsExist, LifecycleLog DEF Polls, TypeOK
  <2>2. PICK e : e = EventLog[p + 1] /\ e = Polled(m, "lifecycle")
    BY <2>1, LifecycleLog DEF Polled
  <2>3. pc[m] = "poll" /\ held[m] # {}
    BY <1>2 DEF Polls
  <2>4. /\ r = <<e.order, e.sequence>> /\ ~ redelivered(store[m][e.order], e)
        /\ violations_of(store[m][e.order], e) # {}
    BY <1>2, <2>2 DEF Report
  <2>5. r[1] = e.order /\ r[2] = e.sequence /\ ~ Tombstoned(e.order)
    BY <2>4
  <2>6. e.order \in Orders /\ p + 1 \in DOMAIN EventLog
    <3>1. e \in Message
      BY <2>1, <2>2, EventAt
    <3>2. p + 1 \in DOMAIN EventLog
      BY <2>1, ConstantsAssumption
    <3>3. QED BY <3>1, <3>2 DEF Message
  <2>7. HasOrigin(e.order, store[m][e.order])
    BY <2>3, <2>6, StoreHasOrigin
  <2>8. \/ OutOfOrderOnTopic(p + 1)
        \/ \E o \in routed : o + 1 < p + 1 /\ EventLog[o + 1].order = e.order
    BY <1>t, <2>1, <2>2, <2>3, <2>4, <2>5, <2>7, InPlaceIsLegal
  <2>9. QED BY <1>g, <2>2, <2>5, <2>6, <2>8
<1>3. QED BY <1>1, <1>2, ReportedMoves

LEMMA ReportStep ==
  ASSUME SafeStateFirst, WellFormedTopic, ReportInv, [Next]_vars
  PROVE  ReportInv'
<1>c. CountInv'
  BY CountStep DEF ReportInv
<1>1. CASE UNCHANGED vars
  <2>1. UNCHANGED <<changelog, queue, routed, reported>>
    BY <1>1 DEF vars, group, history
  <2>2. QED BY <1>c, <2>1 DEF ReportInv, QueueHasOrigin, ViolationsAreReal
<1>2. CASE Next
  <2>1. PICK m \in Members : Acts(m)
    BY <1>2, NextActs
  <2>2. QED BY <1>c, <2>1, OriginsStay, ReportedIsReal DEF ReportInv
<1>3. QED BY <1>1, <1>2

LEMMA ReportInit == Init => ReportInv
<1> SUFFICES ASSUME Init PROVE ReportInv
  OBVIOUS
<1>1. CountInv
  BY CountInit
<1>2. changelog = Empty /\ reported = {} /\ \A m \in Members : queue[m] = << >>
  BY DEF Init
<1>3. QED BY <1>1, <1>2 DEF ReportInv, HasOrigin, QueueHasOrigin, ViolationsAreReal, Empty

\* In a safe deployment that writes the state first, on any topic the producer and the
\* retry worker can have written, a VIOLATION that _handle_message logs is never an
\* artefact of a crash, a rebuild or a redelivery: the topic itself is out of order
\* there, an earlier event of the order was routed away, or the order was deleted.
THEOREM ViolationsAreOfTheTopic ==
  ASSUME SafeStateFirst, WellFormedTopic
  PROVE  Spec => []ViolationsAreReal
<1>1. Spec => []ReportInv
  BY ReportInit, ReportStep, PTL DEF Spec
<1>2. ReportInv => ViolationsAreReal
  BY DEF ReportInv
<1>3. QED BY <1>1, <1>2, PTL
=============================================================================
