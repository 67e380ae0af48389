------------------------- MODULE ConsumerGroupProofs -------------------------
(***************************************************************************)
(* What TLAPS proves of ConsumerGroup, for every set of members and        *)
(* orders, every contents of the topics and every bound.                   *)
(***************************************************************************)
EXTENDS ConsumerGroup, SequenceTheorems, TLAPS

\* The message in hand exists, from the moment it is polled until it is committed.
Busy(m) == pc[m] \in {"route", "persist", "flush", "commit", "commit_first"}

InHandOK ==
  \A m \in Members : Busy(m) => work[m].offset < Len(Log(work[m].topic))

TypeInv == TypeOK /\ InHandOK

ChangelogRecord == [order : Orders, value : Record \cup {NoFold}]

-----------------------------------------------------------------------------
LEMMA TopicsExist == "lifecycle" \in Topics /\ "snapshot" \in Topics
  BY DEF Topics

LEMMA LogType == \A t : Log(t) \in Seq(Message)
  BY ConstantsAssumption DEF Log

\* What a member polls, and what it has in hand, are messages.
LEMMA MessageAt ==
  ASSUME NEW t, NEW o \in Nat, o < Len(Log(t))
  PROVE  Log(t)[o + 1] \in Message
  BY LogType

\* The guarded write stores a record.
LEMMA SavedRecordType ==
  ASSUME NEW previous \in Record \cup {NoFold}, NEW msg \in Message
  PROVE  saved_record(previous, msg) \in Record
<1>1. RESULTING_STATE[msg.type] \in OrderState
  BY DEF RESULTING_STATE, OrderState, Message, EventType
<1>2. msg.sequence \in Nat
  BY DEF Message
<1>3. CASE previous = NoFold
  BY <1>1, <1>2, <1>3 DEF saved_record, updated_fold, last_sequence_of, Record
<1>4. CASE previous \in Record
  BY <1>1, <1>2, <1>4, NoFoldAssumption
  DEF saved_record, updated_fold, last_sequence_of, Record
<1>5. QED BY <1>3, <1>4

-----------------------------------------------------------------------------
(* Type correctness.                                                       *)

LEMMA LetGoType ==
  ASSUME TypeOK, NEW m \in Members, NEW T \in SUBSET Topics, LetGo(m, T)
  PROVE  /\ held' \in [Members -> SUBSET Topics]
         /\ joining' \in [Members -> SUBSET Topics]
         /\ position' \in [Members -> [Topics -> Nat]]
         /\ store' \in [Members -> [Orders -> Record \cup {NoFold}]]
<1>1. Empty \in [Orders -> Record \cup {NoFold}]
  BY DEF Empty
<1>2. QED BY <1>1 DEF LetGo, TypeOK

LEMMA TakeType ==
  ASSUME TypeOK, NEW m \in Members, NEW t \in Topics, Take(m, t)
  PROVE  /\ work' \in [Members -> [topic : Topics, offset : Nat]]
         /\ position' \in [Members -> [Topics -> Nat]]
  BY DEF Take, TypeOK

\* Queues of records under appending, delivering and dropping.
LEMMA QueueSteps ==
  ASSUME NEW S, NEW q \in [Members -> Seq(S)], NEW m \in Members
  PROVE  /\ \A r \in S : [q EXCEPT ![m] = Append(@, r)] \in [Members -> Seq(S)]
         /\ [q EXCEPT ![m] = << >>] \in [Members -> Seq(S)]
         /\ q[m] # << >> => /\ Head(q[m]) \in S
                           /\ [q EXCEPT ![m] = Tail(@)] \in [Members -> Seq(S)]
<1>1. q[m] \in Seq(S)
  OBVIOUS
<1>2. \A r \in S : Append(q[m], r) \in Seq(S)
  BY <1>1
<1>3. q[m] # << >> => Head(q[m]) \in S /\ Tail(q[m]) \in Seq(S)
  BY <1>1
<1>4. << >> \in Seq(S)
  OBVIOUS
<1>5. QED BY <1>2, <1>3, <1>4

LEMMA ProduceType ==
  ASSUME TypeOK, NEW m \in Members, NEW k \in Orders,
         NEW v \in Record \cup {NoFold}, Produce(m, k, v)
  PROVE  queue' \in [Members -> Seq([order : Orders, value : Record \cup {NoFold}])]
<1> DEFINE S == [order : Orders, value : Record \cup {NoFold}]
           r == [order |-> k, value |-> v]
<1>1. r \in S
  OBVIOUS
<1>2. queue \in [Members -> Seq(S)] /\ queue' = [queue EXCEPT ![m] = Append(@, r)]
  BY DEF TypeOK, Produce
<1> HIDE DEF S, r
<1>3. queue' \in [Members -> Seq(S)]
  BY <1>1, <1>2, QueueSteps
<1>4. QED BY <1>3 DEF S

LEMMA DequeueType ==
  ASSUME TypeOK, NEW m \in Members
  PROVE  /\ [queue EXCEPT ![m] = << >>] \in [Members -> Seq(ChangelogRecord)]
         /\ queue[m] # << >> =>
              /\ Head(queue[m]) \in ChangelogRecord
              /\ [queue EXCEPT ![m] = Tail(@)] \in [Members -> Seq(ChangelogRecord)]
<1>1. queue \in [Members -> Seq(ChangelogRecord)]
  BY DEF TypeOK, ChangelogRecord
<1>2. QED BY <1>1, QueueSteps

LEMMA DoneType ==
  ASSUME TypeOK, NEW m \in Members, NEW t \in Topics,
         done' = done \cup {<<t, position[m][t]>>}
  PROVE  done' \subseteq Topics \X Nat
  BY DEF TypeOK

LEMMA ReportType ==
  ASSUME TypeOK, NEW m \in Members, NEW msg \in Message, Report(m, msg)
  PROVE  reported' \subseteq Orders \X Nat
<1>1. reported' = reported \/ reported' = reported \cup {<<msg.order, msg.sequence>>}
  BY DEF Report
<1>2. QED BY <1>1 DEF TypeOK, Message

LEMMA DisruptType == TypeOK /\ Disrupt => disruptions' \in Nat
  BY DEF TypeOK, Disrupt

LEMMA ReleaseType ==
  ASSUME TypeOK, NEW m \in Members, Release(m)
  PROVE  owner' \in [Topics -> Members \cup {NoMember}]
  BY DEF TypeOK, Release

LEMMA GotoType ==
  ASSUME TypeOK, NEW m \in Members, 
         NEW label \in {"down", "poll", "restore", "route", "persist", "flush",
                        "commit", "commit_first"},
         Goto(m, label)
  PROVE  /\ pc' \in [Members -> {"down", "poll", "restore", "route", "persist",
                                 "flush", "commit", "commit_first"}]
         /\ pc'[m] = label
         /\ \A n \in Members \ {m} : pc'[n] = pc[n]
  BY DEF Goto, TypeOK

\* A step that polls nothing keeps the messages in hand.
LEMMA InHandKept ==
  ASSUME InHandOK, work' = work, \A n \in Members : Busy(n)' => Busy(n)
  PROVE  InHandOK'
  BY DEF InHandOK, Log

LEMMA InHandTaken ==
  ASSUME TypeOK, InHandOK, NEW m \in Members, NEW t \in Topics, NEW label,
         Polls(m, t), Take(m, t), Goto(m, label)
  PROVE  InHandOK'
<1> SUFFICES ASSUME NEW n \in Members, Busy(n)'
             PROVE  work'[n].offset < Len(Log(work'[n].topic))
  BY DEF InHandOK, Log
<1>1. CASE n = m
  BY <1>1 DEF Polls, Take, TypeOK
<1>2. CASE n # m
  BY <1>2 DEF InHandOK, Take, Goto, Busy, TypeOK
<1>3. QED BY <1>1, <1>2

LEMMA TypeInit == Init => TypeInv
  BY TopicsExist DEF Init, TypeInv, TypeOK, InHandOK, Busy, Empty

LEMMA TypeStep == TypeInv /\ [Next]_vars => TypeInv'
<1> SUFFICES ASSUME TypeInv, [Next]_vars PROVE TypeInv'
  OBVIOUS
<1> USE DEF group, history
<1>0. TypeOK /\ InHandOK
  BY DEF TypeInv
<1>1. ASSUME NEW m \in Members, NEW T \in SUBSET Topics, Assign(m, T) PROVE TypeInv'
  <2>1. TypeOK'
    BY <1>0, <1>1, GotoType DEF Assign, TypeOK
  <2>2. InHandOK'
    BY <1>0, <1>1, InHandKept DEF Assign, Goto, Busy, TypeOK
  <2>3. QED BY <2>1, <2>2 DEF TypeInv
<1>2. ASSUME NEW m \in Members, NEW T \in SUBSET Topics, Revoke(m, T) PROVE TypeInv'
  <2>1. TypeOK'
    BY <1>0, <1>2, LetGoType, DisruptType DEF Revoke, TypeOK
  <2>2. InHandOK'
    BY <1>0, <1>2, InHandKept DEF Revoke, Busy, TypeOK
  <2>3. QED BY <2>1, <2>2 DEF TypeInv
<1>3. ASSUME NEW m \in Members, Restore(m) PROVE TypeInv'
  <2>1. TypeOK'
    BY <1>0, <1>3, GotoType, ZenonT(40) DEF Restore, restored, resume, TypeOK
  <2>2. InHandOK'
    BY <1>0, <1>3, InHandKept DEF Restore, Goto, Busy, TypeOK
  <2>3. QED BY <2>1, <2>2 DEF TypeInv
<1>4. ASSUME NEW m \in Members, Lost(m) PROVE TypeInv'
  <2>1. TypeOK'
    BY <1>0, <1>4, LetGoType DEF Lost, TypeOK
  <2>2. InHandOK'
    BY <1>0, <1>4, InHandKept DEF Lost, Busy, TypeOK
  <2>3. QED BY <2>1, <2>2 DEF TypeInv
<1>5. ASSUME NEW m \in Members, NEW t \in Topics, HandleTombstone(m, t) PROVE TypeInv'
  <2> DEFINE label == "commit"
  <2>1. Polls(m, t) /\ Take(m, t) /\ Goto(m, label)
    BY <1>5 DEF HandleTombstone
  <2>2. Polled(m, t) \in Message
    BY <1>0, <2>1, MessageAt DEF Polls, Polled, TypeOK
  <2>3. TypeOK'
    <3>1. Polled(m, t).order \in Orders
      BY <2>2 DEF Message
    <3>2. queue' \in [Members -> Seq([order : Orders, value : Record \cup {NoFold}])]
      BY <1>0, <1>5, <3>1, ProduceType DEF HandleTombstone
    <3>3. store' \in [Members -> [Orders -> Record \cup {NoFold}]]
      BY <1>0, <1>5, <3>1 DEF HandleTombstone, TypeOK
    <3>4. done' \subseteq Topics \X Nat
      BY <1>0, <1>5, DoneType DEF HandleTombstone
    <3>5. QED
      BY <1>0, <1>5, <2>1, <3>2, <3>3, <3>4, TakeType, GotoType DEF HandleTombstone, TypeOK
  <2>4. InHandOK'
    BY <1>0, <2>1, InHandTaken
  <2>5. QED BY <2>3, <2>4 DEF TypeInv
<1>6. ASSUME NEW m \in Members, NEW t \in Topics, Skip(m, t) PROVE TypeInv'
  <2> DEFINE label == "commit"
  <2>1. Polls(m, t) /\ Take(m, t) /\ Goto(m, label)
    BY <1>6 DEF Skip
  <2>2. Polled(m, t) \in Message
    BY <1>0, <2>1, MessageAt DEF Polls, Polled, TypeOK
  <2>3. TypeOK'
    <3>1. done' \subseteq Topics \X Nat
      BY <1>0, <1>6, DoneType DEF Skip
    <3>2. QED BY <1>0, <1>6, <2>1, <3>1, TakeType, GotoType DEF Skip, TypeOK
  <2>4. InHandOK'
    BY <1>0, <2>1, InHandTaken
  <2>5. QED BY <2>3, <2>4 DEF TypeInv
<1>7. ASSUME NEW m \in Members, NEW t \in Topics, HandleEvent(m, t) PROVE TypeInv'
  <2> DEFINE label == IF state_write_order = "state_first" THEN "persist" ELSE "commit_first"
  <2>1. Polls(m, t) /\ Take(m, t) /\ Goto(m, label)
    BY <1>7 DEF HandleEvent
  <2>2. Polled(m, t) \in Message
    BY <1>0, <2>1, MessageAt DEF Polls, Polled, TypeOK
  <2>3. TypeOK'
    <3>1. done' \subseteq Topics \X Nat
      BY <1>0, <1>7, DoneType DEF HandleEvent
    <3>2. reported' \subseteq Orders \X Nat
      BY <1>0, <1>7, <2>2, ReportType DEF HandleEvent
    <3>3. QED
      BY <1>0, <1>7, <2>1, <3>1, <3>2, TakeType, GotoType DEF HandleEvent, TypeOK
  <2>4. InHandOK'
    BY <1>0, <2>1, InHandTaken
  <2>5. QED BY <2>3, <2>4 DEF TypeInv
<1>8. ASSUME NEW m \in Members, NEW t \in Topics, HandleFailure(m, t) PROVE TypeInv'
  <2> DEFINE label == "route"
  <2>1. Polls(m, t) /\ Take(m, t) /\ Goto(m, label)
    BY <1>8 DEF HandleFailure
  <2>2. Polled(m, t) \in Message
    BY <1>0, <2>1, MessageAt DEF Polls, Polled, TypeOK
  <2>3. TypeOK'
    <3>1. reported' \subseteq Orders \X Nat
      BY <1>0, <1>8, <2>2, ReportType DEF HandleFailure, TypeOK
    <3>2. QED
      BY <1>0, <1>8, <2>1, <3>1, TakeType, GotoType DEF HandleFailure, TypeOK
  <2>4. InHandOK'
    BY <1>0, <2>1, InHandTaken
  <2>5. QED BY <2>3, <2>4 DEF TypeInv
<1>9. ASSUME NEW m \in Members, RoutePublished(m) PROVE TypeInv'
  <2>1. TypeOK'
    <3>1. work[m].topic \in Topics /\ work[m].offset \in Nat
      BY <1>0 DEF TypeOK
    <3>2. routed' \subseteq Nat
      BY <1>0, <1>9, <3>1 DEF RoutePublished, TypeOK
    <3>3. done' \subseteq Topics \X Nat
      BY <1>0, <1>9, <3>1 DEF RoutePublished, TypeOK
    <3>4. QED BY <1>0, <1>9, <3>2, <3>3, GotoType DEF RoutePublished, TypeOK
  <2>2. InHandOK'
    BY <1>0, <1>9, InHandKept DEF RoutePublished, Goto, Busy, TypeOK
  <2>3. QED BY <2>1, <2>2 DEF TypeInv
<1>10. ASSUME NEW m \in Members, RouteFailed(m) PROVE TypeInv'
  <2>1. TypeOK'
    BY <1>0, <1>10, GotoType DEF RouteFailed, rewind, TypeOK
  <2>2. InHandOK'
    BY <1>0, <1>10, InHandKept DEF RouteFailed, Goto, Busy, TypeOK
  <2>3. QED BY <2>1, <2>2 DEF TypeInv
<1>11. ASSUME NEW m \in Members, Save(m) PROVE TypeInv'
  <2>1. Current(m) \in Message
    BY <1>0, <1>11, MessageAt DEF Save, Current, InHandOK, Busy, TypeOK
  <2>2. Current(m).order \in Orders /\ store[m][Current(m).order] \in Record \cup {NoFold}
    BY <1>0, <2>1 DEF Message, TypeOK
  <2>3. saved_record(store[m][Current(m).order], Current(m)) \in Record
    BY <2>1, <2>2, SavedRecordType
  <2>4. TypeOK'
    BY <1>0, <1>11, <2>2, <2>3, ProduceType, GotoType DEF Save, TypeOK
  <2>5. InHandOK'
    BY <1>0, <1>11, InHandKept DEF Save, Goto, Busy, TypeOK
  <2>6. QED BY <2>4, <2>5 DEF TypeInv
<1>12. ASSUME NEW m \in Members, Flush(m) PROVE TypeInv'
  <2>1. TypeOK'
    BY <1>0, <1>12, GotoType DEF Flush, TypeOK
  <2>2. InHandOK'
    BY <1>0, <1>12, InHandKept DEF Flush, Goto, Busy, TypeOK
  <2>3. QED BY <2>1, <2>2 DEF TypeInv
<1>13. ASSUME NEW m \in Members, CommitAccepted(m) PROVE TypeInv'
  <2>1. Current(m) \in Message
    BY <1>0, <1>13, MessageAt DEF CommitAccepted, Current, InHandOK, Busy, TypeOK
  <2>2. TypeOK'
    <3>1. erased' \subseteq Orders /\ committed' \in [Topics -> Nat]
      BY <1>0, <1>13, <2>1 DEF CommitAccepted, TypeOK, Message
    <3>2. \E label \in {"poll", "persist"} : Goto(m, label)
      BY <1>13 DEF CommitAccepted
    <3>3. QED BY <1>0, <1>13, <3>1, <3>2, GotoType DEF CommitAccepted, TypeOK
  <2>3. InHandOK'
    BY <1>0, <1>13, InHandKept DEF CommitAccepted, Goto, Busy, TypeOK
  <2>4. QED BY <2>2, <2>3 DEF TypeInv
<1>14. ASSUME NEW m \in Members, CommitRejected(m) PROVE TypeInv'
  <2>1. TypeOK'
    <3>1. disruptions' \in Nat
      BY <1>0, <1>14, DisruptType DEF CommitRejected, TypeOK
    <3>2. \E label \in {"poll", "persist"} : Goto(m, label)
      BY <1>14 DEF CommitRejected
    <3>3. QED BY <1>0, <1>14, <3>1, <3>2, GotoType DEF CommitRejected, TypeOK
  <2>2. InHandOK'
    BY <1>0, <1>14, InHandKept DEF CommitRejected, Goto, Busy, TypeOK
  <2>3. QED BY <2>1, <2>2 DEF TypeInv
<1>15. ASSUME NEW m \in Members, Deliver(m) PROVE TypeInv'
  <2>1. TypeOK'
    <3>1. Head(queue[m]) \in ChangelogRecord /\ queue' \in [Members -> Seq(ChangelogRecord)]
      BY <1>0, <1>15, DequeueType DEF Deliver
    <3>2. changelog' \in [Orders -> Record \cup {NoFold}]
      BY <1>0, <1>15, <3>1 DEF Deliver, TypeOK, ChangelogRecord
    <3>3. QED BY <1>0, <1>15, <3>1, <3>2 DEF Deliver, TypeOK, ChangelogRecord
  <2>2. InHandOK'
    BY <1>0, <1>15, InHandKept DEF Deliver, Busy, TypeOK
  <2>3. QED BY <2>1, <2>2 DEF TypeInv
<1>16. ASSUME NEW m \in Members, DeliveryFails(m) PROVE TypeInv'
  <2>1. TypeOK'
    <3>1. queue' \in [Members -> Seq(ChangelogRecord)]
      BY <1>0, <1>16, DequeueType DEF DeliveryFails
    <3>2. QED BY <1>0, <1>16, <3>1 DEF DeliveryFails, TypeOK, ChangelogRecord
  <2>2. InHandOK'
    BY <1>0, <1>16, InHandKept DEF DeliveryFails, Busy, TypeOK
  <2>3. QED BY <2>1, <2>2 DEF TypeInv
<1>17. ASSUME NEW m \in Members, Evict(m) PROVE TypeInv'
  <2>1. TypeOK'
    <3>1. disruptions' \in Nat
      BY <1>0, <1>17, DisruptType DEF Evict, TypeOK
    <3>2. QED BY <1>0, <1>17, <3>1, ReleaseType DEF Evict, TypeOK
  <2>2. InHandOK'
    BY <1>0, <1>17, InHandKept DEF Evict, Busy, TypeOK
  <2>3. QED BY <2>1, <2>2 DEF TypeInv
<1>18. ASSUME NEW m \in Members, Crash(m) PROVE TypeInv'
  <2>1. TypeOK'
    <3>1. queue' \in [Members -> Seq(ChangelogRecord)]
      BY <1>0, <1>18, DequeueType DEF Crash
    <3>2. QED
      BY <1>0, <1>18, <3>1, LetGoType, GotoType, DisruptType
      DEF Crash, TypeOK, ChangelogRecord
  <2>2. InHandOK'
    BY <1>0, <1>18, InHandKept DEF Crash, Goto, Busy, TypeOK
  <2>3. QED BY <2>1, <2>2 DEF TypeInv
<1>19. ASSUME NEW m \in Members, Exit(m) PROVE TypeInv'
  <2>1. TypeOK'
    <3>1. queue' \in [Members -> Seq(ChangelogRecord)]
      BY <1>0, <1>19, DequeueType DEF Exit
    <3>2. QED
      BY <1>0, <1>19, <3>1, LetGoType, GotoType, DisruptType, ReleaseType
      DEF Exit, TypeOK, ChangelogRecord
  <2>2. InHandOK'
    BY <1>0, <1>19, InHandKept DEF Exit, Goto, Busy, TypeOK
  <2>3. QED BY <2>1, <2>2 DEF TypeInv
<1>20. ASSUME NEW m \in Members, Start(m) PROVE TypeInv'
  <2>1. TypeOK'
    BY <1>0, <1>20, GotoType DEF Start, TypeOK
  <2>2. InHandOK'
    BY <1>0, <1>20, InHandKept DEF Start, Goto, Busy, TypeOK
  <2>3. QED BY <2>1, <2>2 DEF TypeInv
<1>21. CASE UNCHANGED vars
  BY <1>0, <1>21 DEF vars, TypeInv, TypeOK, InHandOK, Busy, Log
<1>22. QED
  BY <1>1, <1>2, <1>3, <1>4, <1>5, <1>6, <1>7, <1>8, <1>9, <1>10, <1>11, <1>12, <1>13, <1>14, <1>15, <1>16, <1>17, <1>18, <1>19, <1>20, <1>21 DEF Next, Step, Handle

\* The state keeps its types (TypeOK), whatever the members, the topics' contents
\* and the failures.
THEOREM TypeCorrect == Spec => []TypeOK
<1>1. TypeInv => TypeOK
  BY DEF TypeInv
<1>2. QED BY <1>1, TypeInit, TypeStep, PTL DEF Spec

-----------------------------------------------------------------------------
(* At-least-once.                                                          *)

\* The offset member m has dealt with everything below: its read position, or
\* the message in hand while that one is still being routed.
Frontier(m, t) ==
  IF pc[m] = "route" /\ work[m].topic = t THEN work[m].offset ELSE position[m][t]

\* What a member has read past is done.
ReadIsDone ==
  \A m \in Members : \A t \in held[m] : \A o \in 0 .. Frontier(m, t) - 1 :
    <<t, o>> \in done

\* An owner never reads behind what is committed, so it never commits backwards.
OwnerIsAhead ==
  \A m \in Members : \A t \in held[m] : owner[t] = m => committed[t] <= Frontier(m, t)

\* The message in hand is the last one read of a topic the member holds.
HandIsLastRead ==
  \A m \in Members : Busy(m) =>
    /\ work[m].topic \in held[m]
    /\ position[m][work[m].topic] = work[m].offset + 1

AloInv == TypeInv /\ CommittedIsDone /\ ReadIsDone /\ OwnerIsAhead /\ HandIsLastRead

\* A step that neither commits nor lets a held partition's frontier move.
LEMMA FrontierKept ==
  ASSUME CommittedIsDone, ReadIsDone, OwnerIsAhead,
         committed' = committed, done \subseteq done',
         \A n \in Members : \A t \in held'[n] :
           /\ t \in held[n]
           /\ Frontier(n, t)' = Frontier(n, t)
           /\ owner'[t] = n => owner[t] = n
  PROVE  CommittedIsDone' /\ ReadIsDone' /\ OwnerIsAhead'
<1>1. CommittedIsDone'
  BY DEF CommittedIsDone
<1>2. ReadIsDone'
  <2> SUFFICES ASSUME NEW n \in Members, NEW t \in held'[n],
                      NEW o \in 0 .. Frontier(n, t)' - 1
               PROVE  <<t, o>> \in done'
    BY DEF ReadIsDone
  <2>1. t \in held[n] /\ o \in 0 .. Frontier(n, t) - 1
    OBVIOUS
  <2>2. QED BY <2>1 DEF ReadIsDone
<1>3. OwnerIsAhead'
  <2> SUFFICES ASSUME NEW n \in Members, NEW t \in held'[n], owner'[t] = n
               PROVE  committed'[t] <= Frontier(n, t)'
    BY DEF OwnerIsAhead
  <2>1. t \in held[n] /\ owner[t] = n /\ Frontier(n, t)' = Frontier(n, t)
    OBVIOUS
  <2>2. QED BY <2>1 DEF OwnerIsAhead
<1>4. QED BY <1>1, <1>2, <1>3

\* A step in which member m deals with the message at its frontier.
LEMMA FrontierAdvances ==
  ASSUME TypeOK, CommittedIsDone, ReadIsDone, OwnerIsAhead,
         NEW m \in Members, NEW t \in Topics,
         committed' = committed, owner' = owner, held' = held,
         done' = done \cup {<<t, Frontier(m, t)>>},
         Frontier(m, t)' = Frontier(m, t) + 1,
         \A n \in Members : \A u \in held[n] :
           <<n, u>> # <<m, t>> => Frontier(n, u)' = Frontier(n, u)
  PROVE  CommittedIsDone' /\ ReadIsDone' /\ OwnerIsAhead'
<1>0. Frontier(m, t) \in Nat /\ committed[t] \in Nat
  BY DEF TypeOK, Frontier
<1>1. CommittedIsDone'
  BY DEF CommittedIsDone
<1>2. ReadIsDone'
  <2> SUFFICES ASSUME NEW n \in Members, NEW u \in held[n],
                      NEW o \in 0 .. Frontier(n, u)' - 1
               PROVE  <<u, o>> \in done'
    BY DEF ReadIsDone
  <2>1. CASE n = m /\ u = t
    <3>1. o \in 0 .. Frontier(m, t) - 1 \/ o = Frontier(m, t)
      BY <1>0, <2>1
    <3>2. QED BY <2>1, <3>1 DEF ReadIsDone
  <2>2. CASE ~ (n = m /\ u = t)
    BY <2>2 DEF ReadIsDone
  <2>3. QED BY <2>1, <2>2
<1>3. OwnerIsAhead'
  <2> SUFFICES ASSUME NEW n \in Members, NEW u \in held[n], owner[u] = n
               PROVE  committed[u] <= Frontier(n, u)'
    BY DEF OwnerIsAhead
  <2>1. CASE n = m /\ u = t
    BY <1>0, <2>1 DEF OwnerIsAhead
  <2>2. CASE ~ (n = m /\ u = t)
    BY <2>2 DEF OwnerIsAhead
  <2>3. QED BY <2>1, <2>2
<1>4. QED BY <1>1, <1>2, <1>3

\* A step that polls nothing and gives nothing back from under a message in hand.
LEMMA HandKept ==
  ASSUME HandIsLastRead, work' = work,
         \A n \in Members : Busy(n)' =>
           Busy(n) /\ held'[n] = held[n] /\ position'[n] = position[n]
  PROVE  HandIsLastRead'
  BY DEF HandIsLastRead

LEMMA HandTaken ==
  ASSUME TypeOK, HandIsLastRead, NEW m \in Members, NEW t \in Topics, NEW label,
         Polls(m, t), Take(m, t), Goto(m, label), held' = held
  PROVE  HandIsLastRead'
<1> SUFFICES ASSUME NEW n \in Members, Busy(n)'
             PROVE  /\ work'[n].topic \in held[n]
                    /\ position'[n][work'[n].topic] = work'[n].offset + 1
  BY DEF HandIsLastRead
<1>1. CASE n = m
  BY <1>1 DEF Polls, Take, TypeOK
<1>2. CASE n # m
  <2>1. Busy(n) /\ work'[n] = work[n] /\ position'[n] = position[n]
    BY <1>2 DEF Take, Goto, Busy, TypeOK
  <2>2. QED BY <2>1 DEF HandIsLastRead
<1>3. QED BY <1>1, <1>2

\* Letting go leaves the frontiers of what is still held where they were.
LEMMA LetGoFrontier ==
  ASSUME TypeOK, NEW m \in Members, NEW T \in SUBSET Topics, LetGo(m, T),
         work' = work, pc[m] = "poll" \/ T = Topics,
         \A n \in Members \ {m} : pc'[n] = pc[n],
         pc[m] = "poll" => pc'[m] # "route"
  PROVE  \A n \in Members : \A t \in held'[n] :
           t \in held[n] /\ Frontier(n, t)' = Frontier(n, t)
<1> SUFFICES ASSUME NEW n \in Members, NEW t \in held'[n]
             PROVE  t \in held[n] /\ Frontier(n, t)' = Frontier(n, t)
  OBVIOUS
<1>1. CASE n = m
  <2>1. t \in held[m] /\ t \notin T /\ t \in Topics
    BY <1>1 DEF LetGo, TypeOK
  <2>2. pc[m] = "poll"
    BY <2>1
  <2>3. position'[m][t] = position[m][t]
    BY <2>1 DEF LetGo, TypeOK
  <2>4. QED BY <1>1, <2>1, <2>2, <2>3 DEF Frontier
<1>2. CASE n # m
  <2>1. held'[n] = held[n] /\ position'[n] = position[n] /\ pc'[n] = pc[n]
    BY <1>2 DEF LetGo, TypeOK
  <2>2. QED BY <2>1 DEF Frontier
<1>3. QED BY <1>1, <1>2

LEMMA AloInit == Init => AloInv
<1> SUFFICES ASSUME Init PROVE AloInv
  OBVIOUS
<1>1. TypeInv
  BY TypeInit
<1>2. CommittedIsDone
  BY DEF Init, CommittedIsDone
<1>3. ReadIsDone /\ OwnerIsAhead /\ HandIsLastRead
  BY DEF Init, ReadIsDone, OwnerIsAhead, HandIsLastRead, Busy
<1>4. QED BY <1>1, <1>2, <1>3 DEF AloInv

\* Dealing with a message as it is polled.
LEMMA PolledIsDone ==
  ASSUME TypeOK, CommittedIsDone, ReadIsDone, OwnerIsAhead,
         NEW m \in Members, NEW t \in Topics, NEW label,
         Polls(m, t), Take(m, t), Goto(m, label), label # "route",
         committed' = committed, owner' = owner, held' = held,
         done' = done \cup {<<t, position[m][t]>>}
  PROVE  CommittedIsDone' /\ ReadIsDone' /\ OwnerIsAhead'
<1>1. Frontier(m, t) = position[m][t]
  BY DEF Polls, Frontier
<1>2. Frontier(m, t)' = Frontier(m, t) + 1
  BY <1>1 DEF Frontier, Take, Goto, TypeOK
<1>3. ASSUME NEW n \in Members, NEW u \in held[n], <<n, u>> # <<m, t>>
      PROVE  Frontier(n, u)' = Frontier(n, u)
  <2>1. CASE n = m
    <3>1. u # t /\ pc[n] = "poll" /\ pc'[n] # "route"
      BY <1>3, <2>1 DEF Polls, Goto, TypeOK
    <3>2. position'[n][u] = position[n][u]
      BY <2>1, <3>1 DEF Take, TypeOK
    <3>3. QED BY <3>1, <3>2 DEF Frontier
  <2>2. CASE n # m
    <3>1. pc'[n] = pc[n] /\ position'[n] = position[n] /\ work'[n] = work[n]
      BY <2>2 DEF Take, Goto, TypeOK
    <3>2. QED BY <3>1 DEF Frontier
  <2>3. QED BY <2>1, <2>2
<1>4. QED BY <1>1, <1>2, <1>3, FrontierAdvances

LEMMA AloStep == AloInv /\ [Next]_vars => AloInv'
<1> SUFFICES ASSUME AloInv, [Next]_vars PROVE AloInv'
  OBVIOUS
<1> USE DEF group, history
<1>0. /\ TypeInv /\ TypeOK /\ InHandOK /\ CommittedIsDone /\ ReadIsDone
      /\ OwnerIsAhead /\ HandIsLastRead /\ TypeInv'
  BY TypeStep DEF AloInv, TypeInv
<1>1. ASSUME NEW m \in Members, NEW T \in SUBSET Topics, Assign(m, T) PROVE AloInv'
  <2>1. \A n \in Members : \A t \in held'[n] :
          /\ t \in held[n] /\ Frontier(n, t)' = Frontier(n, t)
          /\ owner'[t] = n => owner[t] = n
    BY <1>0, <1>1, ConstantsAssumption DEF Assign, Goto, Frontier, TypeOK
  <2>2. CommittedIsDone' /\ ReadIsDone' /\ OwnerIsAhead'
    BY <1>0, <1>1, <2>1, FrontierKept DEF Assign
  <2>3. HandIsLastRead'
    BY <1>0, <1>1, HandKept DEF Assign, Goto, Frontier, Busy, TypeOK
  <2>4. QED BY <1>0, <2>2, <2>3 DEF AloInv
<1>2. ASSUME NEW m \in Members, NEW T \in SUBSET Topics, Revoke(m, T) PROVE AloInv'
  <2>1. \A n \in Members : \A t \in held'[n] :
          t \in held[n] /\ Frontier(n, t)' = Frontier(n, t)
    BY <1>0, <1>2, LetGoFrontier DEF Revoke, TypeOK
  <2>2. \A n \in Members : \A t \in Topics : owner'[t] = n => owner[t] = n
    BY <1>0, <1>2, ConstantsAssumption DEF Revoke, TypeOK
  <2>3. CommittedIsDone' /\ ReadIsDone' /\ OwnerIsAhead'
    <3>1. \A n \in Members : held'[n] \subseteq Topics
      BY <1>0 DEF TypeInv, TypeOK
    <3>2. QED BY <1>0, <1>2, <2>1, <2>2, <3>1, FrontierKept DEF Revoke
  <2>4. HandIsLastRead'
    BY <1>0, <1>2, HandKept DEF Revoke, LetGo, Busy, TypeOK
  <2>5. QED BY <1>0, <2>3, <2>4 DEF AloInv
<1>3. ASSUME NEW m \in Members, Restore(m) PROVE AloInv'
  <2>1. \A n \in Members \ {m} :
          held'[n] = held[n] /\ \A t \in held[n] : Frontier(n, t)' = Frontier(n, t)
    BY <1>0, <1>3 DEF Restore, Goto, Frontier, TypeOK
  <2>2. ASSUME NEW t \in held'[m]
        PROVE  \/ Frontier(m, t)' = committed[t] /\ t \in Topics
               \/ Frontier(m, t)' = Frontier(m, t) /\ t \in held[m]
    <3>1. t \in Topics /\ (t \in held[m] \/ t \in joining[m])
      BY <1>0, <1>3, <2>2 DEF Restore, TypeOK
    <3>2. pc[m] # "route" /\ pc'[m] # "route"
      BY <1>0, <1>3 DEF Restore, Goto, TypeOK
    <3>3. position'[m][t] = IF t \in joining[m] THEN committed[t] ELSE position[m][t]
      BY <1>0, <1>3, <3>1 DEF Restore, resume, TypeOK
    <3>4. QED BY <3>1, <3>2, <3>3 DEF Frontier
  <2>3. committed' = committed /\ done' = done /\ owner' = owner
    BY <1>3 DEF Restore
  <2>4. CommittedIsDone'
    BY <1>0, <2>3 DEF CommittedIsDone
  <2>5. ReadIsDone'
    BY <1>0, <2>1, <2>2, <2>3 DEF ReadIsDone, CommittedIsDone
  <2>6. OwnerIsAhead'
    <3> SUFFICES ASSUME NEW n \in Members, NEW t \in held'[n], owner[t] = n
                 PROVE  committed[t] <= Frontier(n, t)'
      BY <2>3 DEF OwnerIsAhead
    <3>1. CASE n = m
      <4>1. \A u \in Topics : committed[u] <= committed[u]
        BY <1>0 DEF TypeOK
      <4>2. QED BY <1>0, <2>2, <3>1, <4>1 DEF OwnerIsAhead
    <3>2. CASE n # m
      BY <1>0, <2>1, <3>2 DEF OwnerIsAhead
    <3>3. QED BY <3>1, <3>2
  <2>7. HandIsLastRead'
    BY <1>0, <1>3, HandKept DEF Restore, Goto, Busy, TypeOK
  <2>8. QED BY <1>0, <2>4, <2>5, <2>6, <2>7 DEF AloInv
<1>4. ASSUME NEW m \in Members, Lost(m) PROVE AloInv'
  <2>1. \A n \in Members : \A t \in held'[n] :
          t \in held[n] /\ Frontier(n, t)' = Frontier(n, t)
    BY <1>0, <1>4, LetGoFrontier DEF Lost, TypeOK
  <2>2. \A n \in Members : \A t \in Topics : owner'[t] = n => owner[t] = n
    BY <1>0, <1>4, ConstantsAssumption DEF Lost, TypeOK
  <2>3. CommittedIsDone' /\ ReadIsDone' /\ OwnerIsAhead'
    <3>1. \A n \in Members : held'[n] \subseteq Topics
      BY <1>0 DEF TypeInv, TypeOK
    <3>2. QED BY <1>0, <1>4, <2>1, <2>2, <3>1, FrontierKept DEF Lost
  <2>4. HandIsLastRead'
    BY <1>0, <1>4, HandKept DEF Lost, LetGo, Busy, TypeOK
  <2>5. QED BY <1>0, <2>3, <2>4 DEF AloInv
<1>5. ASSUME NEW m \in Members, NEW t \in Topics, HandleTombstone(m, t) PROVE AloInv'
  <2> DEFINE label == "commit"
  <2>1. Polls(m, t) /\ Take(m, t) /\ Goto(m, label) /\ label # "route"
    BY <1>5 DEF HandleTombstone
  <2>2. CommittedIsDone' /\ ReadIsDone' /\ OwnerIsAhead'
    BY <1>0, <1>5, <2>1, PolledIsDone DEF HandleTombstone, group
  <2>3. HandIsLastRead'
    BY <1>0, <1>5, <2>1, HandTaken DEF HandleTombstone
  <2>4. QED BY <1>0, <2>2, <2>3 DEF AloInv
<1>6. ASSUME NEW m \in Members, NEW t \in Topics, Skip(m, t) PROVE AloInv'
  <2> DEFINE label == "commit"
  <2>1. Polls(m, t) /\ Take(m, t) /\ Goto(m, label) /\ label # "route"
    BY <1>6 DEF Skip
  <2>2. CommittedIsDone' /\ ReadIsDone' /\ OwnerIsAhead'
    BY <1>0, <1>6, <2>1, PolledIsDone DEF Skip, group
  <2>3. HandIsLastRead'
    BY <1>0, <1>6, <2>1, HandTaken DEF Skip
  <2>4. QED BY <1>0, <2>2, <2>3 DEF AloInv
<1>7. ASSUME NEW m \in Members, NEW t \in Topics, HandleEvent(m, t) PROVE AloInv'
  <2> DEFINE label == IF state_write_order = "state_first" THEN "persist" ELSE "commit_first"
  <2>1. Polls(m, t) /\ Take(m, t) /\ Goto(m, label) /\ label # "route"
    BY <1>7 DEF HandleEvent
  <2>2. CommittedIsDone' /\ ReadIsDone' /\ OwnerIsAhead'
    BY <1>0, <1>7, <2>1, PolledIsDone DEF HandleEvent, group
  <2>3. HandIsLastRead'
    BY <1>0, <1>7, <2>1, HandTaken DEF HandleEvent
  <2>4. QED BY <1>0, <2>2, <2>3 DEF AloInv
<1>8. ASSUME NEW m \in Members, NEW t \in Topics, HandleFailure(m, t) PROVE AloInv'
  <2>1. Polls(m, t) /\ Take(m, t) /\ Goto(m, "route") /\ held' = held /\ owner' = owner
    BY <1>8 DEF HandleFailure
  <2>2. ASSUME NEW n \in Members, NEW u \in held[n]
        PROVE  Frontier(n, u)' = Frontier(n, u)
    <3>1. CASE n = m
      BY <1>0, <2>1, <3>1 DEF Frontier, Polls, Take, Goto, TypeOK
    <3>2. CASE n # m
      <4>1. pc'[n] = pc[n] /\ position'[n] = position[n] /\ work'[n] = work[n]
        BY <1>0, <2>1, <3>2 DEF Take, Goto, TypeOK
      <4>2. QED BY <4>1 DEF Frontier
    <3>3. QED BY <3>1, <3>2
  <2>3. CommittedIsDone' /\ ReadIsDone' /\ OwnerIsAhead'
    BY <1>0, <1>8, <2>1, <2>2, FrontierKept DEF HandleFailure
  <2>4. HandIsLastRead'
    BY <1>0, <2>1, HandTaken
  <2>5. QED BY <1>0, <2>3, <2>4 DEF AloInv
<1>9. ASSUME NEW m \in Members, RoutePublished(m) PROVE AloInv'
  <2> DEFINE t == work[m].topic
  <2>1. t \in Topics /\ work[m].offset \in Nat /\ position[m][t] = work[m].offset + 1
    BY <1>0, <1>9 DEF RoutePublished, HandIsLastRead, Busy, TypeOK
  <2>2. Frontier(m, t) = work[m].offset /\ Frontier(m, t)' = Frontier(m, t) + 1
    BY <1>0, <1>9, <2>1 DEF RoutePublished, Goto, Frontier, TypeOK
  <2>3. ASSUME NEW n \in Members, NEW u \in held[n], <<n, u>> # <<m, t>>
        PROVE  Frontier(n, u)' = Frontier(n, u)
    BY <1>0, <1>9, <2>3 DEF RoutePublished, Goto, Frontier, TypeOK
  <2>4. CommittedIsDone' /\ ReadIsDone' /\ OwnerIsAhead'
    BY <1>0, <1>9, <2>1, <2>2, <2>3, FrontierAdvances DEF RoutePublished
  <2>5. HandIsLastRead'
    BY <1>0, <1>9, HandKept DEF RoutePublished, Goto, Busy, TypeOK
  <2>6. QED BY <1>0, <2>4, <2>5 DEF AloInv
<1>10. ASSUME NEW m \in Members, RouteFailed(m) PROVE AloInv'
  <2>1. \A n \in Members : \A t \in held[n] : Frontier(n, t)' = Frontier(n, t)
    BY <1>0, <1>10 DEF RouteFailed, rewind, Goto, Frontier, TypeOK
  <2>2. CommittedIsDone' /\ ReadIsDone' /\ OwnerIsAhead'
    BY <1>0, <1>10, <2>1, FrontierKept DEF RouteFailed
  <2>3. HandIsLastRead'
    BY <1>0, <1>10, HandKept DEF RouteFailed, rewind, Goto, Busy, TypeOK
  <2>4. QED BY <1>0, <2>2, <2>3 DEF AloInv
<1>11. ASSUME NEW m \in Members, Save(m) PROVE AloInv'
  <2>1. \A n \in Members : \A t \in held'[n] :
          /\ t \in held[n] /\ Frontier(n, t)' = Frontier(n, t)
          /\ owner'[t] = n => owner[t] = n
    BY <1>0, <1>11 DEF Save, Goto, Frontier, TypeOK
  <2>2. CommittedIsDone' /\ ReadIsDone' /\ OwnerIsAhead'
    BY <1>0, <1>11, <2>1, FrontierKept DEF Save
  <2>3. HandIsLastRead'
    BY <1>0, <1>11, HandKept DEF Save, Goto, Frontier, Busy, TypeOK
  <2>4. QED BY <1>0, <2>2, <2>3 DEF AloInv
<1>12. ASSUME NEW m \in Members, Flush(m) PROVE AloInv'
  <2>1. \A n \in Members : \A t \in held'[n] :
          /\ t \in held[n] /\ Frontier(n, t)' = Frontier(n, t)
          /\ owner'[t] = n => owner[t] = n
    BY <1>0, <1>12 DEF Flush, Goto, Frontier, TypeOK
  <2>2. CommittedIsDone' /\ ReadIsDone' /\ OwnerIsAhead'
    BY <1>0, <1>12, <2>1, FrontierKept DEF Flush
  <2>3. HandIsLastRead'
    BY <1>0, <1>12, HandKept DEF Flush, Goto, Frontier, Busy, TypeOK
  <2>4. QED BY <1>0, <2>2, <2>3 DEF AloInv
<1>13. ASSUME NEW m \in Members, CommitAccepted(m) PROVE AloInv'
  <2> DEFINE t == work[m].topic
  <2>1. /\ t \in Topics /\ t \in held[m] /\ owner[t] = m
        /\ work[m].offset + 1 = Frontier(m, t) /\ Frontier(m, t) \in Nat
    BY <1>0, <1>13
    DEF CommitAccepted, commit_accepted, HandIsLastRead, Busy, Frontier, TypeOK
  <2>2. /\ committed' = [committed EXCEPT ![t] = Frontier(m, t)]
        /\ held' = held /\ owner' = owner /\ done' = done
    BY <1>13, <2>1 DEF CommitAccepted
  <2>3. \A n \in Members : \A u \in held[n] : Frontier(n, u)' = Frontier(n, u)
    BY <1>0, <1>13 DEF CommitAccepted, Goto, Frontier, TypeOK
  <2>4. CommittedIsDone'
    BY <1>0, <2>1, <2>2 DEF CommittedIsDone, ReadIsDone, TypeOK
  <2>5. ReadIsDone'
    BY <1>0, <2>2, <2>3 DEF ReadIsDone
  <2>6. OwnerIsAhead'
    BY <1>0, <2>1, <2>2, <2>3 DEF OwnerIsAhead, TypeOK
  <2>7. HandIsLastRead'
    BY <1>0, <1>13, HandKept DEF CommitAccepted, Goto, Busy, TypeOK
  <2>8. QED BY <1>0, <2>4, <2>5, <2>6, <2>7 DEF AloInv
<1>14. ASSUME NEW m \in Members, CommitRejected(m) PROVE AloInv'
  <2>1. \A n \in Members : \A t \in held'[n] :
          /\ t \in held[n] /\ Frontier(n, t)' = Frontier(n, t)
          /\ owner'[t] = n => owner[t] = n
    BY <1>0, <1>14 DEF CommitRejected, Goto, Frontier, TypeOK
  <2>2. CommittedIsDone' /\ ReadIsDone' /\ OwnerIsAhead'
    BY <1>0, <1>14, <2>1, FrontierKept DEF CommitRejected
  <2>3. HandIsLastRead'
    BY <1>0, <1>14, HandKept DEF CommitRejected, Goto, Frontier, Busy, TypeOK
  <2>4. QED BY <1>0, <2>2, <2>3 DEF AloInv
<1>15. ASSUME NEW m \in Members, Deliver(m) PROVE AloInv'
  <2>1. \A n \in Members : \A t \in held'[n] :
          /\ t \in held[n] /\ Frontier(n, t)' = Frontier(n, t)
          /\ owner'[t] = n => owner[t] = n
    BY <1>0, <1>15 DEF Deliver, Frontier, TypeOK
  <2>2. CommittedIsDone' /\ ReadIsDone' /\ OwnerIsAhead'
    BY <1>0, <1>15, <2>1, FrontierKept DEF Deliver
  <2>3. HandIsLastRead'
    BY <1>0, <1>15, HandKept DEF Deliver, Frontier, Busy, TypeOK
  <2>4. QED BY <1>0, <2>2, <2>3 DEF AloInv
<1>16. ASSUME NEW m \in Members, DeliveryFails(m) PROVE AloInv'
  <2>1. \A n \in Members : \A t \in held'[n] :
          /\ t \in held[n] /\ Frontier(n, t)' = Frontier(n, t)
          /\ owner'[t] = n => owner[t] = n
    BY <1>0, <1>16 DEF DeliveryFails, Frontier, TypeOK
  <2>2. CommittedIsDone' /\ ReadIsDone' /\ OwnerIsAhead'
    BY <1>0, <1>16, <2>1, FrontierKept DEF DeliveryFails
  <2>3. HandIsLastRead'
    BY <1>0, <1>16, HandKept DEF DeliveryFails, Frontier, Busy, TypeOK
  <2>4. QED BY <1>0, <2>2, <2>3 DEF AloInv
<1>17. ASSUME NEW m \in Members, Evict(m) PROVE AloInv'
  <2>1. \A n \in Members : \A t \in held'[n] :
          /\ t \in held[n] /\ Frontier(n, t)' = Frontier(n, t)
          /\ owner'[t] = n => owner[t] = n
    BY <1>0, <1>17, ConstantsAssumption DEF Evict, Release, Frontier, TypeOK
  <2>2. CommittedIsDone' /\ ReadIsDone' /\ OwnerIsAhead'
    BY <1>0, <1>17, <2>1, FrontierKept DEF Evict
  <2>3. HandIsLastRead'
    BY <1>0, <1>17, HandKept DEF Evict, Release, Frontier, Busy, TypeOK
  <2>4. QED BY <1>0, <2>2, <2>3 DEF AloInv
<1>18. ASSUME NEW m \in Members, Crash(m) PROVE AloInv'
  <2>1. \A n \in Members : \A t \in held'[n] :
          t \in held[n] /\ Frontier(n, t)' = Frontier(n, t)
    BY <1>0, <1>18, LetGoFrontier DEF Crash, Goto, TypeOK
  <2>2. \A n \in Members : \A t \in Topics : owner'[t] = n => owner[t] = n
    BY <1>0, <1>18, ConstantsAssumption DEF Crash, TypeOK
  <2>3. CommittedIsDone' /\ ReadIsDone' /\ OwnerIsAhead'
    <3>1. \A n \in Members : held'[n] \subseteq Topics
      BY <1>0 DEF TypeInv, TypeOK
    <3>2. QED BY <1>0, <1>18, <2>1, <2>2, <3>1, FrontierKept DEF Crash
  <2>4. HandIsLastRead'
    BY <1>0, <1>18, HandKept DEF Crash, LetGo, Goto, Busy, TypeOK
  <2>5. QED BY <1>0, <2>3, <2>4 DEF AloInv
<1>19. ASSUME NEW m \in Members, Exit(m) PROVE AloInv'
  <2>1. \A n \in Members : \A t \in held'[n] :
          t \in held[n] /\ Frontier(n, t)' = Frontier(n, t)
    BY <1>0, <1>19, LetGoFrontier DEF Exit, Goto, TypeOK
  <2>2. \A n \in Members : \A t \in Topics : owner'[t] = n => owner[t] = n
    BY <1>0, <1>19, ConstantsAssumption DEF Exit, Release, TypeOK
  <2>3. CommittedIsDone' /\ ReadIsDone' /\ OwnerIsAhead'
    <3>1. \A n \in Members : held'[n] \subseteq Topics
      BY <1>0 DEF TypeInv, TypeOK
    <3>2. QED BY <1>0, <1>19, <2>1, <2>2, <3>1, FrontierKept DEF Exit
  <2>4. HandIsLastRead'
    BY <1>0, <1>19, HandKept DEF Exit, LetGo, Goto, Busy, TypeOK
  <2>5. QED BY <1>0, <2>3, <2>4 DEF AloInv
<1>20. ASSUME NEW m \in Members, Start(m) PROVE AloInv'
  <2>1. \A n \in Members : \A t \in held'[n] :
          /\ t \in held[n] /\ Frontier(n, t)' = Frontier(n, t)
          /\ owner'[t] = n => owner[t] = n
    BY <1>0, <1>20 DEF Start, Goto, Running, Frontier, TypeOK
  <2>2. CommittedIsDone' /\ ReadIsDone' /\ OwnerIsAhead'
    BY <1>0, <1>20, <2>1, FrontierKept DEF Start
  <2>3. HandIsLastRead'
    BY <1>0, <1>20, HandKept DEF Start, Goto, Running, Frontier, Busy, TypeOK
  <2>4. QED BY <1>0, <2>2, <2>3 DEF AloInv
<1>21. CASE UNCHANGED vars
  BY <1>0, <1>21
  DEF vars, AloInv, CommittedIsDone, ReadIsDone, OwnerIsAhead, HandIsLastRead, Frontier, Busy
<1>22. QED
  BY <1>1, <1>2, <1>3, <1>4, <1>5, <1>6, <1>7, <1>8, <1>9, <1>10, <1>11, <1>12, <1>13,
     <1>14, <1>15, <1>16, <1>17, <1>18, <1>19, <1>20, <1>21
  DEF Next, Step, Handle

\* CommittedIsDone holds of every behaviour: no message below a committed offset
\* is left unhandled, unrouted and unskipped, whatever the members, the topics,
\* the write order, the rebalances and the failures.
THEOREM NothingLost == Spec => []CommittedIsDone
<1>1. AloInv => CommittedIsDone
  BY DEF AloInv
<1>2. QED BY <1>1, AloInit, AloStep, PTL DEF Spec

-----------------------------------------------------------------------------
(* The refinement.                                                         *)

\* Dealing with one more message of a topic is a Finish of the contract.
LEMMA FinishIsAllowed ==
  ASSUME NEW t \in Topics, NEW o \in Nat, o < Len(Log(t)),
         done' = done \cup {<<t, o>>}, committed' = committed
  PROVE  Promise!Next
<1>1. o \in 0 .. [u \in Topics |-> Len(Log(u))][t]
  BY LogType
<1>2. Promise!Finish(t, o)
  BY DEF Promise!Finish
<1>3. QED BY <1>1, <1>2 DEF Promise!Next

LEMMA ContractInit == Init => Promise!Init
  BY DEF Init, Promise!Init

LEMMA ContractStep == AloInv /\ [Next]_vars => [Promise!Next]_(Promise!vars)
<1> SUFFICES ASSUME AloInv, [Next]_vars PROVE [Promise!Next]_(Promise!vars)
  OBVIOUS
<1> USE DEF group, history
<1>0. /\ TypeOK /\ InHandOK /\ ReadIsDone /\ OwnerIsAhead /\ HandIsLastRead
  BY DEF AloInv, TypeInv
<1>1. ASSUME NEW m \in Members, NEW t \in Topics, Polls(m, t),
             done' = done \cup {<<t, position[m][t]>>}, committed' = committed
      PROVE  Promise!Next
  <2>1. position[m][t] \in Nat /\ position[m][t] < Len(Log(t))
    BY <1>0, <1>1 DEF Polls, TypeOK
  <2>2. QED BY <1>1, <2>1, FinishIsAllowed
<1>2. ASSUME NEW m \in Members, Handle(m)
      PROVE  Promise!Next \/ (done' = done /\ committed' = committed)
  BY <1>1, <1>2 DEF Handle, HandleTombstone, Skip, HandleEvent, HandleFailure
<1>3. ASSUME NEW m \in Members, RoutePublished(m) PROVE Promise!Next
  <2>1. work[m].topic \in Topics /\ work[m].offset \in Nat
    BY <1>0 DEF TypeOK
  <2>2. work[m].offset < Len(Log(work[m].topic))
    BY <1>0, <1>3 DEF RoutePublished, InHandOK, Busy
  <2>3. QED BY <1>3, <2>1, <2>2, FinishIsAllowed DEF RoutePublished
<1>4. ASSUME NEW m \in Members, CommitAccepted(m) PROVE Promise!Next
  <2> DEFINE t == work[m].topic
             n == work[m].offset + 1
  <2>1. /\ t \in Topics /\ t \in held[m] /\ owner[t] = m /\ work[m].offset \in Nat
        /\ n = Frontier(m, t) /\ work[m].offset < Len(Log(t))
    BY <1>0, <1>4
    DEF CommitAccepted, commit_accepted, HandIsLastRead, InHandOK, Busy, Frontier, TypeOK
  <2>2. n \in 0 .. [u \in Topics |-> Len(Log(u))][t]
    BY <2>1, LogType
  <2>3. n >= committed[t]
    BY <1>0, <2>1 DEF OwnerIsAhead, TypeOK
  <2>4. \A o \in 0 .. n - 1 : <<t, o>> \in done
    BY <1>0, <2>1 DEF ReadIsDone
  <2>5. committed' = [committed EXCEPT ![t] = n] /\ done' = done
    BY <1>4 DEF CommitAccepted
  <2>6. Promise!Advance(t, n)
    BY <2>3, <2>4, <2>5 DEF Promise!Advance
  <2>7. QED BY <2>1, <2>2, <2>6 DEF Promise!Next
<1>5. ASSUME NEW m \in Members,
             \/ \E T \in SUBSET Topics : Assign(m, T) \/ Revoke(m, T)
             \/ Restore(m) \/ Lost(m) \/ Save(m) \/ Flush(m) \/ CommitRejected(m)
             \/ RouteFailed(m) \/ Deliver(m) \/ DeliveryFails(m)
             \/ Evict(m) \/ Crash(m) \/ Exit(m) \/ Start(m)
      PROVE  done' = done /\ committed' = committed
  BY <1>5 DEF Assign, Revoke, Restore, Lost, Save, Flush, CommitRejected, RouteFailed,
              Deliver, DeliveryFails, Evict, Crash, Exit, Start
<1>6. CASE UNCHANGED vars
  BY <1>6 DEF vars, Promise!vars
<1>7. QED
  BY <1>2, <1>3, <1>4, <1>5, <1>6 DEF Next, Step, Promise!vars

\* ImplementsAtLeastOnce: the members' steps, interleaved with every rebalance
\* and failure, are steps of the abstract contract or leave it alone.
THEOREM GroupImplementsContract == Spec => ImplementsAtLeastOnce
<1>1. QED
  BY AloInit, AloStep, ContractInit, ContractStep, PTL
  DEF Spec, ImplementsAtLeastOnce, Promise!Spec
=============================================================================
