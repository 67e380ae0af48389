--------------------------- MODULE ChangelogProofs ---------------------------
(***************************************************************************)
(* What TLAPS proves of the local store and its changelog in               *)
(* ConsumerGroup: the single writer, the store as the changelog plus what  *)
(* its producer still holds, the guard of save(), and what a rebuild is    *)
(* sure to find.                                                           *)
(***************************************************************************)
EXTENDS ConsumerGroupProofs, WellFoundedInduction

\* The deployment under which the changelog promises hold: the range assignor gives
\* both topics to one member, which the coordinator evicts only once it is dead, and
\* the brokers do not give up on a produce.
SafeDeployment == CoAssigned /\ ~ LiveEvictions /\ ~ DeliveryMayFail

\* The same with STATE_WRITE_ORDER=state_first, which is the default.
SafeStateFirst == SafeDeployment /\ state_write_order = "state_first"

-----------------------------------------------------------------------------
(* Tables and queues of changelog records.                                 *)

\* A later value does not fall behind an earlier one; a null has no sequence.
NotBehind(u, v) == u # NoFold /\ v # NoFold => v.last_sequence >= u.last_sequence

\* The entry at i is the first for its order; the one at j the next after i.
Foremost(q, i) == \A l \in DOMAIN q : l < i => q[l].order # q[i].order

Successive(q, i, j) ==
  /\ i < j /\ q[i].order = q[j].order
  /\ \A l \in DOMAIN q : i < l /\ l < j => q[l].order # q[i].order

\* Applied one by one, the records of q never move the table back.
Advances(table, q) ==
  /\ \A i \in DOMAIN q : Foremost(q, i) => NotBehind(table[q[i].order], q[i].value)
  /\ \A i, j \in DOMAIN q : Successive(q, i, j) => NotBehind(q[i].value, q[j].value)

-----------------------------------------------------------------------------
(* The invariants.                                                         *)

\* Whoever consumes or restores owns both topics, and only a consumer has records to
\* deliver.
SoleWriter(m) ==
  /\ held[m] \in {{}, Topics}
  /\ held[m] # {} \/ pc[m] = "restore" => \A t \in Topics : owner[t] = m
  /\ queue[m] # << >> \/ Busy(m) => held[m] # {}
  /\ pc[m] \in {"down", "restore"} => held[m] = {}
  /\ pc[m] = "restore" => joining[m] = Topics

\* A consumer's store is the changelog with its undelivered records applied, and they
\* never move it back.
StoreIsApplied(m) ==
  /\ held[m] # {} => store[m] = Applied(changelog, queue[m])
  /\ Advances(changelog, queue[m])

Writer(m) == SoleWriter(m) /\ StoreIsApplied(m)

WriterInv == AloInv /\ \A m \in Members : Writer(m)

\* A null is on its way only to an order that some tombstone deletes.
NullsAreTombstones(m) ==
  \A i \in DOMAIN queue[m] : queue[m][i].value = NoFold => Tombstoned(queue[m][i].order)

\* What the steps between poll and commit have in hand, when the state is written first.
LoopIsStateFirst(m) ==
  /\ pc[m] # "commit_first"
  /\ pc[m] \in {"route", "persist", "flush"} =>
       work[m].topic = "lifecycle" /\ Folded("lifecycle", Current(m))
  /\ pc[m] \in {"persist", "flush"} => Current(m).kind = "body"
  /\ pc[m] = "flush" => Reflects(store[m], Current(m))

\* The lifecycle offset below which everything is in the changelog for good.
Secured(m) ==
  IF pc[m] \in {"route", "persist", "flush"} THEN work[m].offset
  ELSE position[m]["lifecycle"]

ConsumerIsCovered(m) ==
  /\ position[m]["lifecycle"] <= Len(EventLog)
  /\ held[m] # {} => \A o \in 0 .. Secured(m) - 1 : CoveredBy(changelog, o)

Coverer(m) == NullsAreTombstones(m) /\ LoopIsStateFirst(m) /\ ConsumerIsCovered(m)

CoverInv ==
  /\ WriterInv /\ \A m \in Members : Coverer(m)
  /\ committed["lifecycle"] <= Len(EventLog) /\ ChangelogCoversCommitted

-----------------------------------------------------------------------------
(* The least of a set of numbers, the greatest of a bounded one.           *)

\* A set of naturals that is not empty has a least element.
LEMMA LeastNumber ==
  ASSUME NEW T \in SUBSET Nat, T # {}
  PROVE  \E x \in T : \A y \in T : x <= y
<1> DEFINE R == OpToRel(<, Nat)
<1>1. IsWellFoundedOn(R, Nat)
  BY NatLessThanWellFounded
<1>2. R = {ss \in Nat \X Nat : ss[1] < ss[2]}
  BY DEF OpToRel
<1>3. PICK x \in T : \A y \in T : ~ (<<y, x>> \in R)
  <2> HIDE DEF R
  <2>1. QED BY <1>1, WFMin
<1>4. \A y \in T : ~ (y < x)
  <2>1. \A y \in T : <<y,x>> \in Nat \X Nat
    OBVIOUS
  <2> HIDE DEF R
  <2>2. QED BY <1>2, <1>3, <2>1
<1>5. QED BY <1>4

\* One that is bounded, too, has a greatest.
LEMMA GreatestNumber ==
  ASSUME NEW n \in Nat, NEW S \in SUBSET (1 .. n), S # {}
  PROVE  \E i \in S : \A j \in S : j <= i
<1> DEFINE T == {y \in Nat : \E i \in S : y = n - i}
<1>0. \A i \in S : i \in Nat /\ n - i \in Nat
  OBVIOUS
<1>1. T \in SUBSET Nat /\ T # {}
  <2>1. PICK i \in S : TRUE
    OBVIOUS
  <2>2. n - i \in T
    BY <1>0
  <2>3. QED BY <2>2
<1>2. PICK x \in T : \A y \in T : x <= y
  <2> HIDE DEF T
  <2> QED BY <1>1, LeastNumber
<1>3. PICK i \in S : x = n - i
  OBVIOUS
<1>4. \A j \in S : n - j \in T
  BY <1>0
<1>5. \A j \in S : n - i <= n - j
  BY <1>2, <1>3, <1>4
<1>6. \A j \in S : j <= i
  BY <1>0, <1>5
<1>7. QED BY <1>6

-----------------------------------------------------------------------------
(* Applying, appending and delivering.                                     *)

\* The value of an order is that of its last record, if there is one.
LEMMA AppliedAt ==
  ASSUME NEW table, NEW q \in Seq(ChangelogRecord), NEW k \in Orders
  PROVE  /\ (\A i \in DOMAIN q : q[i].order # k) => Applied(table, q)[k] = table[k]
         /\ \A i \in DOMAIN q :
              q[i].order = k /\ (\A j \in DOMAIN q : q[j].order = k => j <= i) =>
                Applied(table, q)[k] = q[i].value
<1> DEFINE of == {i \in DOMAIN q : q[i].order = k}
           last == CHOOSE i \in of : \A j \in of : j <= i
<1>1. Applied(table, q)[k] = IF of = {} THEN table[k] ELSE q[last].value
  BY DEF Applied
<1>2. ASSUME NEW i \in DOMAIN q, q[i].order = k, \A j \in DOMAIN q : q[j].order = k => j <= i
      PROVE  of # {} /\ last = i
  <2>1. i \in of /\ \A j \in of : j <= i
    BY <1>2
  <2>2. last \in of /\ \A j \in of : j <= last
    BY <2>1
  <2>3. \A j \in of : j \in Nat
    OBVIOUS
  <2>4. QED BY <2>1, <2>2, <2>3
<1>3. QED BY <1>1, <1>2

LEMMA LastRecord ==
  ASSUME NEW q \in Seq(ChangelogRecord), NEW k, NEW l \in DOMAIN q, q[l].order = k
  PROVE  \E i \in DOMAIN q : q[i].order = k /\ \A j \in DOMAIN q : q[j].order = k => j <= i
<1> DEFINE of == {i \in DOMAIN q : q[i].order = k}
<1>1. of \in SUBSET (1 .. Len(q)) /\ of # {} /\ Len(q) \in Nat
  OBVIOUS
<1>2. PICK i \in of : \A j \in of : j <= i
  <2> HIDE DEF of
  <2> QED BY <1>1, GreatestNumber
<1>3. QED BY <1>2

LEMMA AppliedType ==
  ASSUME NEW table, NEW q
  PROVE  /\ DOMAIN Applied(table, q) = Orders
         /\ Applied(table, q) = [k \in Orders |-> Applied(table, q)[k]]
  BY DEF Applied

LEMMA AppliedEmpty ==
  ASSUME NEW table \in [Orders -> Record \cup {NoFold}]
  PROVE  Applied(table, << >>) = table
<1>1. << >> \in Seq(ChangelogRecord) /\ DOMAIN << >> = {}
  OBVIOUS
<1>2. \A k \in Orders : Applied(table, << >>)[k] = table[k]
  BY <1>1 DEF Applied
<1>3. QED BY <1>2, AppliedType

LEMMA AppliedAppend ==
  ASSUME NEW table, NEW q \in Seq(ChangelogRecord), NEW r \in ChangelogRecord
  PROVE  Applied(table, Append(q, r)) = [Applied(table, q) EXCEPT ![r.order] = r.value]
<1> DEFINE p == Append(q, r)
<1>1. /\ p \in Seq(ChangelogRecord) /\ Len(q) \in Nat
      /\ \A i \in DOMAIN q : i \in DOMAIN p /\ p[i] = q[i] /\ i <= Len(q) /\ i \in Nat
      /\ Len(q) + 1 \in DOMAIN p /\ p[Len(q) + 1] = r
      /\ \A i \in DOMAIN p : i \in DOMAIN q \/ i = Len(q) + 1
  OBVIOUS
<1> HIDE DEF p
<1>2. r.order \in Orders
  BY DEF ChangelogRecord
<1>3. Applied(table, p)[r.order] = r.value
  <2>1. \A j \in DOMAIN p : j <= Len(q) + 1
    BY <1>1
  <2>2. QED BY <1>1, <1>2, <2>1, AppliedAt
<1>4. ASSUME NEW k \in Orders, k # r.order
      PROVE  Applied(table, p)[k] = Applied(table, q)[k]
  <2>1. CASE \A i \in DOMAIN q : q[i].order # k
    <3>1. \A i \in DOMAIN p : p[i].order # k
      BY <1>1, <1>4, <2>1
    <3>2. QED BY <1>1, <2>1, <3>1, AppliedAt
  <2>2. ASSUME NEW l \in DOMAIN q, q[l].order = k
        PROVE  Applied(table, p)[k] = Applied(table, q)[k]
    <3>1. PICK i \in DOMAIN q :
            q[i].order = k /\ \A j \in DOMAIN q : q[j].order = k => j <= i
      BY <2>2, LastRecord
    <3>2. i \in DOMAIN p /\ p[i].order = k /\ \A j \in DOMAIN p : p[j].order = k => j <= i
      BY <1>1, <1>4, <3>1
    <3>3. p[i].value = q[i].value
      BY <1>1
    <3>4. QED BY <1>1, <3>1, <3>2, <3>3, AppliedAt
  <2>3. QED BY <2>1, <2>2
<1>5. QED BY <1>2, <1>3, <1>4, AppliedType DEF p

\* The oldest record and the rest.
LEMMA Shifted ==
  ASSUME NEW q \in Seq(ChangelogRecord), q # << >>
  PROVE  /\ Head(q) \in ChangelogRecord /\ Tail(q) \in Seq(ChangelogRecord)
         /\ 1 \in DOMAIN q /\ q[1] = Head(q)
         /\ \A i \in DOMAIN Tail(q) :
              i \in Nat \ {0} /\ i + 1 \in DOMAIN q /\ Tail(q)[i] = q[i + 1]
         /\ \A i \in DOMAIN q : i \in Nat /\ (i = 1 \/ i - 1 \in DOMAIN Tail(q))
  OBVIOUS

LEMMA AppliedTail ==
  ASSUME NEW table \in [Orders -> Record \cup {NoFold}],
         NEW q \in Seq(ChangelogRecord), q # << >>
  PROVE  Applied([table EXCEPT ![Head(q).order] = Head(q).value], Tail(q)) = Applied(table, q)
<1> DEFINE p == Tail(q)  r == Head(q)  next == [table EXCEPT ![r.order] = r.value]
<1>1. /\ r \in ChangelogRecord /\ p \in Seq(ChangelogRecord)
      /\ 1 \in DOMAIN q /\ q[1] = r
      /\ \A i \in DOMAIN p : i \in Nat \ {0} /\ i + 1 \in DOMAIN q /\ p[i] = q[i + 1]
      /\ \A i \in DOMAIN q : i \in Nat /\ (i = 1 \/ i - 1 \in DOMAIN p)
  BY Shifted
<1>2. r.order \in Orders
  BY <1>1 DEF ChangelogRecord
<1>3. next[r.order] = r.value /\ \A k \in Orders : k # r.order => next[k] = table[k]
  BY <1>2
<1> HIDE DEF p, r, next
<1>4. ASSUME NEW k \in Orders
      PROVE  Applied(next, p)[k] = Applied(table, q)[k]
  <2>1. CASE \A i \in DOMAIN p : p[i].order # k
    <3>1. \A i \in DOMAIN q : q[i].order = k => i = 1
      <4> SUFFICES ASSUME NEW i \in DOMAIN q, i # 1 PROVE q[i].order # k
        OBVIOUS
      <4>1. i - 1 \in DOMAIN p /\ p[i - 1] = q[i - 1 + 1] /\ i - 1 + 1 = i
        BY <1>1
      <4>2. QED BY <2>1, <4>1
    <3>2. Applied(next, p)[k] = next[k]
      BY <1>1, <2>1, AppliedAt
    <3>3. CASE r.order = k
      <4>1. q[1].order = k /\ \A j \in DOMAIN q : q[j].order = k => j <= 1
        BY <1>1, <3>1, <3>3
      <4>2. 1 \in DOMAIN q
        BY <1>1
      <4>3. Applied(table, q)[k] = q[1].value
        BY <4>1, <4>2, AppliedAt
      <4>4. QED BY <1>1, <1>3, <3>2, <3>3, <4>3
    <3>4. CASE r.order # k
      <4>1. \A i \in DOMAIN q : q[i].order # k
        BY <1>1, <3>1, <3>4
      <4>2. Applied(table, q)[k] = table[k]
        BY <4>1, AppliedAt
      <4>3. QED BY <1>3, <3>2, <3>4, <4>2
    <3>5. QED BY <3>3, <3>4
  <2>2. ASSUME NEW l \in DOMAIN p, p[l].order = k
        PROVE  Applied(next, p)[k] = Applied(table, q)[k]
    <3>1. PICK i \in DOMAIN p :
            p[i].order = k /\ \A j \in DOMAIN p : p[j].order = k => j <= i
      BY <1>1, <2>2, LastRecord
    <3>2. i + 1 \in DOMAIN q /\ q[i + 1] = p[i] /\ i \in Nat
      BY <1>1
    <3>3. ASSUME NEW j \in DOMAIN q, q[j].order = k PROVE j <= i + 1
      <4>1. CASE j = 1
        BY <3>2, <4>1
      <4>2. CASE j - 1 \in DOMAIN p
        <5>1. p[j - 1] = q[j - 1 + 1] /\ j - 1 + 1 = j /\ j \in Nat
          BY <1>1, <4>2
        <5>2. j - 1 <= i
          BY <3>1, <3>3, <4>2, <5>1
        <5>3. QED BY <3>2, <5>1, <5>2
      <4>3. QED BY <1>1, <4>1, <4>2
    <3>4. Applied(next, p)[k] = p[i].value
      <4>1. p \in Seq(ChangelogRecord)
        BY <1>1
      <4>2. QED BY <3>1, <4>1, AppliedAt
    <3>5. Applied(table, q)[k] = q[i + 1].value
      BY <3>1, <3>2, <3>3, AppliedAt
    <3>6. QED BY <3>2, <3>4, <3>5
  <2>3. QED BY <2>1, <2>2
<1>5. Applied(next, p) = [k \in Orders |-> Applied(next, p)[k]]
      /\ Applied(table, q) = [k \in Orders |-> Applied(table, q)[k]]
  BY AppliedType
<1>6. Applied(next, p) = Applied(table, q)
  BY <1>4, <1>5
<1>7. QED BY <1>6 DEF p, r, next

LEMMA AdvancesEmpty == \A table : Advances(table, << >>)
  BY DEF Advances

\* A record joins that is not behind the value its order would have without it.
LEMMA AdvancesAppend ==
  ASSUME NEW table, NEW q \in Seq(ChangelogRecord), NEW r \in ChangelogRecord,
         Advances(table, q), NotBehind(Applied(table, q)[r.order], r.value)
  PROVE  Advances(table, Append(q, r))
<1> DEFINE p == Append(q, r)
<1>1. /\ Len(q) \in Nat
      /\ \A i \in DOMAIN q : i \in DOMAIN p /\ p[i] = q[i] /\ i <= Len(q) /\ i \in Nat
      /\ p[Len(q) + 1] = r
      /\ \A i \in DOMAIN p : i \in DOMAIN q \/ i = Len(q) + 1
  OBVIOUS
<1> HIDE DEF p
<1>2. r.order \in Orders
  BY DEF ChangelogRecord
<1>3. ASSUME NEW i \in DOMAIN p, Foremost(p, i)
      PROVE  NotBehind(table[p[i].order], p[i].value)
  <2>1. CASE i \in DOMAIN q
    <3>1. Foremost(q, i)
      BY <1>1, <1>3, <2>1 DEF Foremost
    <3>2. QED BY <1>1, <2>1, <3>1 DEF Advances
  <2>2. CASE i = Len(q) + 1
    <3>1. \A l \in DOMAIN q : q[l].order # r.order
      BY <1>1, <1>3, <2>2 DEF Foremost
    <3>2. Applied(table, q)[r.order] = table[r.order]
      BY <1>2, <3>1, AppliedAt
    <3>3. QED BY <1>1, <2>2, <3>2
  <2>3. QED BY <1>1, <2>1, <2>2
<1>4. ASSUME NEW i \in DOMAIN p, NEW j \in DOMAIN p, Successive(p, i, j)
      PROVE  NotBehind(p[i].value, p[j].value)
  <2>1. i \in DOMAIN q /\ i < j /\ p[i] = q[i]
    BY <1>1, <1>4 DEF Successive
  <2>2. CASE j \in DOMAIN q
    <3>1. Successive(q, i, j)
      BY <1>1, <1>4, <2>1, <2>2 DEF Successive
    <3>2. QED BY <1>1, <2>1, <2>2, <3>1 DEF Advances
  <2>3. CASE j = Len(q) + 1
    <3>1. q[i].order = r.order
      BY <1>1, <1>4, <2>1, <2>3 DEF Successive
    <3>2. \A l \in DOMAIN q : q[l].order = r.order => l <= i
      BY <1>1, <1>4, <2>1, <2>3 DEF Successive
    <3>3. Applied(table, q)[r.order] = q[i].value
      BY <1>2, <2>1, <3>1, <3>2, AppliedAt
    <3>4. QED BY <1>1, <2>1, <2>3, <3>3
  <2>4. QED BY <1>1, <2>2, <2>3
<1>5. QED BY <1>3, <1>4 DEF Advances, p

\* The oldest record moves into the table.
LEMMA AdvancesTail ==
  ASSUME NEW table \in [Orders -> Record \cup {NoFold}],
         NEW q \in Seq(ChangelogRecord), q # << >>, Advances(table, q)
  PROVE  /\ Advances([table EXCEPT ![Head(q).order] = Head(q).value], Tail(q))
         /\ NotBehind(table[Head(q).order], Head(q).value)
<1> DEFINE p == Tail(q)  r == Head(q)  next == [table EXCEPT ![r.order] = r.value]
<1>1. /\ r \in ChangelogRecord
      /\ 1 \in DOMAIN q /\ q[1] = r
      /\ \A i \in DOMAIN p : i \in Nat \ {0} /\ i + 1 \in DOMAIN q /\ p[i] = q[i + 1]
      /\ \A i \in DOMAIN q : i \in Nat /\ (i = 1 \/ i - 1 \in DOMAIN p)
  BY Shifted
<1>2. r.order \in Orders
  BY <1>1 DEF ChangelogRecord
<1>3. next[r.order] = r.value /\ \A k : k # r.order => next[k] = table[k]
  <2>1. \A k : k \in Orders /\ k # r.order => next[k] = table[k]
    OBVIOUS
  <2>2. next[r.order] = r.value
    BY <1>2
  <2>3. \A k : k \notin Orders => next[k] = table[k]
    OBVIOUS
  <2>4. QED BY <2>1, <2>2, <2>3
<1>4. \A l \in DOMAIN q : l > 1 => \E n \in DOMAIN p : l = n + 1 /\ p[n] = q[l]
  <2> SUFFICES ASSUME NEW l \in DOMAIN q, l > 1
               PROVE  \E n \in DOMAIN p : l = n + 1 /\ p[n] = q[l]
    OBVIOUS
  <2>1. l - 1 \in DOMAIN p /\ l \in Nat
    BY <1>1
  <2>2. p[l - 1] = q[l - 1 + 1] /\ l - 1 + 1 = l
    BY <1>1, <2>1
  <2>3. QED BY <2>1, <2>2
<1> HIDE DEF p, r, next
<1>5. ASSUME NEW i \in DOMAIN p, Foremost(p, i)
      PROVE  NotBehind(next[p[i].order], p[i].value)
  <2>1. i \in Nat \ {0} /\ i + 1 \in DOMAIN q /\ p[i] = q[i + 1]
    BY <1>1
  <2>2. ASSUME NEW l \in DOMAIN q, l > 1, l < i + 1
        PROVE  q[l].order # q[i + 1].order
    <3>1. PICK n \in DOMAIN p : l = n + 1 /\ p[n] = q[l]
      BY <1>4, <2>2
    <3>2. n < i
      BY <1>1, <2>1, <2>2, <3>1
    <3>3. QED BY <1>5, <2>1, <3>1, <3>2 DEF Foremost
  <2>3. CASE p[i].order = r.order
    <3>1. Successive(q, 1, i + 1)
      BY <1>1, <2>1, <2>2, <2>3 DEF Successive
    <3>2. QED BY <1>1, <1>3, <2>1, <2>3, <3>1 DEF Advances
  <2>4. CASE p[i].order # r.order
    <3>1. Foremost(q, i + 1)
      <4> SUFFICES ASSUME NEW l \in DOMAIN q, l < i + 1 PROVE q[l].order # q[i + 1].order
        BY DEF Foremost
      <4>1. CASE l = 1
        BY <1>1, <2>1, <2>4, <4>1
      <4>2. CASE l > 1
        BY <2>2, <4>2
      <4>3. l = 1 \/ l > 1
        OBVIOUS
      <4>4. QED BY <4>1, <4>2, <4>3
    <3>2. QED BY <1>3, <2>1, <2>4, <3>1 DEF Advances
  <2>5. QED BY <2>3, <2>4
<1>6. ASSUME NEW i \in DOMAIN p, NEW j \in DOMAIN p, Successive(p, i, j)
      PROVE  NotBehind(p[i].value, p[j].value)
  <2>1. /\ i \in Nat \ {0} /\ i + 1 \in DOMAIN q /\ p[i] = q[i + 1]
        /\ j \in Nat \ {0} /\ j + 1 \in DOMAIN q /\ p[j] = q[j + 1]
    BY <1>1
  <2>2. ASSUME NEW l \in DOMAIN q, i + 1 < l, l < j + 1
        PROVE  q[l].order # q[i + 1].order
    <3>0. l > 1
      BY <1>1, <2>1, <2>2
    <3>1. PICK n \in DOMAIN p : l = n + 1 /\ p[n] = q[l]
      BY <1>4, <3>0
    <3>2. i < n /\ n < j
      <4>1. n \in Nat /\ i \in Nat /\ j \in Nat
        BY <1>1, <2>1
      <4>2. i + 1 < n + 1 /\ n + 1 < j + 1
        BY <2>2, <3>1
      <4>3. QED BY <4>1, <4>2
    <3>3. QED BY <1>6, <2>1, <3>1, <3>2 DEF Successive
  <2>3. i < j /\ q[i + 1].order = q[j + 1].order
    BY <1>6, <2>1 DEF Successive
  <2>4. Successive(q, i + 1, j + 1)
    BY <2>1, <2>2, <2>3 DEF Successive
  <2>5. QED BY <2>1, <2>4 DEF Advances
<1>7. Foremost(q, 1)
  BY <1>1 DEF Foremost
<1>8. QED BY <1>1, <1>5, <1>6, <1>7 DEF Advances, p, r, next

\* The sequence guard of save(): the written record is behind neither the stored one
\* nor the event.
LEMMA SaveAdvances ==
  ASSUME NEW previous \in Record \cup {NoFold}, NEW msg \in Message
  PROVE  /\ saved_record(previous, msg) \in Record
         /\ NotBehind(previous, saved_record(previous, msg))
         /\ saved_record(previous, msg).last_sequence >= msg.sequence
<1>1. saved_record(previous, msg) \in Record
  BY SavedRecordType
<1>2. msg.sequence \in Nat
  BY DEF Message
<1>3. CASE previous = NoFold
  BY <1>1, <1>2, <1>3 DEF saved_record, updated_fold, NotBehind
<1>4. CASE previous \in Record /\ previous # NoFold
  <2>1. last_sequence_of(previous) = previous.last_sequence /\ previous.last_sequence \in Nat
    BY <1>4 DEF last_sequence_of, Record
  <2>2. saved_record(previous, msg).last_sequence
          = IF msg.sequence > previous.last_sequence THEN msg.sequence
            ELSE previous.last_sequence
    BY <1>4, <2>1 DEF saved_record, updated_fold
  <2>3. QED BY <1>1, <1>2, <2>1, <2>2 DEF NotBehind
<1>5. QED BY <1>3, <1>4

-----------------------------------------------------------------------------
(* The single writer.                                                      *)

\* What member m, the coordinator about it, or the broker for it may do.
Acts(m) ==
  \/ \E T \in SUBSET Topics : Assign(m, T) \/ Revoke(m, T)
  \/ Step(m) \/ RouteFailed(m)
  \/ Deliver(m) \/ DeliveryFails(m)
  \/ Evict(m) \/ Crash(m) \/ Exit(m) \/ Start(m)

LEMMA NextActs == Next <=> \E m \in Members : Acts(m)
  BY DEF Next, Acts

\* What a member has to itself.
Private(m) ==
  <<pc[m], joining[m], held[m], position[m], store[m], queue[m], work[m]>>

LEMMA OthersStay ==
  ASSUME TypeOK, NEW m \in Members, Acts(m)
  PROVE  \A n \in Members : n # m => UNCHANGED Private(n)
<1> USE DEF Private, TypeOK, Goto, LetGo, Take, Produce
<1>1. CASE \E T \in SUBSET Topics : Assign(m, T) \/ Revoke(m, T)
  BY <1>1 DEF Assign, Revoke
<1>2. CASE Restore(m) \/ Lost(m)
  BY <1>2 DEF Restore, Lost
<1>3. CASE \E t \in Topics : HandleTombstone(m, t) \/ Skip(m, t)
  BY <1>3, SMTT(30) DEF HandleTombstone, Skip
<1>4. CASE \E t \in Topics : HandleEvent(m, t) \/ HandleFailure(m, t)
  BY <1>4 DEF HandleEvent, HandleFailure
<1>5. CASE RoutePublished(m) \/ RouteFailed(m) \/ Save(m) \/ Flush(m)
  BY <1>5 DEF RoutePublished, RouteFailed, rewind, Save, Flush
<1>6. CASE CommitAccepted(m) \/ CommitRejected(m)
  BY <1>6 DEF CommitAccepted, CommitRejected
<1>7. CASE Deliver(m) \/ DeliveryFails(m)
  BY <1>7 DEF Deliver, DeliveryFails
<1>8. CASE Evict(m) \/ Crash(m) \/ Exit(m) \/ Start(m)
  BY <1>8 DEF Evict, Crash, Exit, Start
<1>9. QED BY <1>1, <1>2, <1>3, <1>4, <1>5, <1>6, <1>7, <1>8 DEF Acts, Step, Handle

\* Nobody takes from a member what it owns but that member's own step.
LEMMA OwnersStay ==
  ASSUME TypeOK, NEW m \in Members, Acts(m)
  PROVE  \A n \in Members, t \in Topics : n # m /\ owner[t] = n => owner'[t] = n
<1>0. NoMember \notin Members
  BY ConstantsAssumption
<1>1. CASE \E T \in SUBSET Topics : Assign(m, T) \/ Revoke(m, T)
  BY <1>0, <1>1 DEF Assign, Revoke, TypeOK
<1>2. CASE Release(m)
  BY <1>2 DEF Release
<1>3. CASE UNCHANGED owner
  BY <1>3
<1>4. Acts(m) => \/ \E T \in SUBSET Topics : Assign(m, T) \/ Revoke(m, T)
                 \/ Release(m) \/ UNCHANGED owner
  BY DEF Acts, Step, Handle, Restore, Lost, HandleTombstone, Skip, HandleEvent, HandleFailure,
       RoutePublished, RouteFailed, Save, Flush, CommitAccepted, CommitRejected, Deliver,
       DeliveryFails, Evict, Crash, Exit, Start, group
<1>5. QED BY <1>1, <1>2, <1>3, <1>4

\* While one member consumes or restores, no other does.
LEMMA OthersAreIdle ==
  ASSUME NEW m \in Members, NEW n \in Members, n # m, SoleWriter(m), SoleWriter(n),
         held[m] # {} \/ pc[m] = "restore"
  PROVE  held[n] = {} /\ queue[n] = << >> /\ pc[n] # "restore"
  BY TopicsExist DEF SoleWriter

\* So a step has only to keep its own member's part of the invariant.
LEMMA WriterFrame ==
  ASSUME WriterInv, NEW m \in Members, Acts(m), Writer(m)',
         changelog' # changelog => held[m] # {}
  PROVE  \A n \in Members : Writer(n)'
<1> SUFFICES ASSUME NEW n \in Members, n # m PROVE Writer(n)'
  OBVIOUS
<1>1. UNCHANGED Private(n) /\ \A t \in Topics : owner[t] = n => owner'[t] = n
  BY OthersStay, OwnersStay DEF WriterInv, AloInv, TypeInv
<1>2. SoleWriter(n) /\ SoleWriter(m) /\ StoreIsApplied(n)
  BY DEF WriterInv, Writer
<1>3. SoleWriter(n)'
  BY <1>1, <1>2 DEF SoleWriter, Private, Busy
<1>4. StoreIsApplied(n)'
  <2>1. CASE changelog' = changelog
    BY <1>1, <1>2, <2>1 DEF StoreIsApplied, Private
  <2>2. CASE held[m] # {}
    <3>1. held'[n] = {} /\ queue'[n] = << >>
      BY <1>1, <1>2, <2>2, OthersAreIdle DEF Private
    <3>2. QED BY <3>1, AdvancesEmpty DEF StoreIsApplied
  <2>3. QED BY <2>1, <2>2
<1>5. QED BY <1>3, <1>4 DEF Writer

\* A step of the loop that writes nothing.
LEMMA WriterKept ==
  ASSUME NEW m \in Members, Writer(m), held[m] # {}, UNCHANGED <<owner, changelog>>,
         held'[m] = held[m], store'[m] = store[m], queue'[m] = queue[m],
         pc'[m] \notin {"down", "restore"}
  PROVE  Writer(m)'
  BY DEF Writer, SoleWriter, StoreIsApplied

\* A member that has let go of everything.
LEMMA WriterRests ==
  ASSUME NEW m \in Members, held'[m] = {}, queue'[m] = << >>,
         pc'[m] \in {"poll", "down"} \/ (pc'[m] = "restore" /\ joining'[m] = Topics /\
                                          \A t \in Topics : owner'[t] = m)
  PROVE  Writer(m)'
<1>1. SoleWriter(m)'
  BY DEF SoleWriter, Busy
<1>2. StoreIsApplied(m)'
  BY AdvancesEmpty DEF StoreIsApplied
<1>3. QED BY <1>1, <1>2 DEF Writer

\* A write: the store and the end of the queue change together.
LEMMA WriterWrites ==
  ASSUME WriterInv, NEW m \in Members, held[m] # {}, UNCHANGED <<owner, changelog>>,
         NEW k \in Orders, NEW v \in Record \cup {NoFold}, NotBehind(store[m][k], v),
         held' = held, store' = [store EXCEPT ![m][k] = v], Produce(m, k, v),
         pc'[m] \notin {"down", "restore"}
  PROVE  Writer(m)'
<1> DEFINE r == [order |-> k, value |-> v]
<1>t. TypeOK
  BY DEF WriterInv, AloInv, TypeInv
<1>1. r \in ChangelogRecord /\ r.order = k /\ r.value = v
  BY DEF ChangelogRecord
<1>2. queue[m] \in Seq(ChangelogRecord) /\ queue'[m] = Append(queue[m], r)
  BY <1>t DEF TypeOK, ChangelogRecord, Produce
<1>3. SoleWriter(m) /\ store[m] = Applied(changelog, queue[m]) /\ Advances(changelog, queue[m])
  BY DEF WriterInv, Writer, StoreIsApplied
<1>4. store'[m] = [store[m] EXCEPT ![k] = v]
  BY <1>t DEF TypeOK
<1> HIDE DEF r
<1>5. store'[m] = Applied(changelog, queue'[m])
  BY <1>1, <1>2, <1>3, <1>4, AppliedAppend
<1>6. Advances(changelog, queue'[m])
  BY <1>1, <1>2, <1>3, AdvancesAppend
<1>7. SoleWriter(m)'
  BY <1>3 DEF SoleWriter
<1>8. QED BY <1>5, <1>6, <1>7 DEF Writer, StoreIsApplied

\* The oldest record of a queue reaches the changelog, which it does not move back.
LEMMA WriterDelivers ==
  ASSUME WriterInv, NEW m \in Members, Deliver(m)
  PROVE  /\ Writer(m)' /\ held[m] # {}
         /\ \A k \in Orders : NotBehind(changelog[k], changelog'[k])
<1>t. TypeOK
  BY DEF WriterInv, AloInv, TypeInv
<1> DEFINE q == queue[m]
<1>1. q \in Seq(ChangelogRecord) /\ q # << >> /\ queue'[m] = Tail(q)
  BY <1>t DEF TypeOK, ChangelogRecord, Deliver
<1>2. /\ changelog' = [changelog EXCEPT ![Head(q).order] = Head(q).value]
      /\ changelog \in [Orders -> Record \cup {NoFold}]
      /\ UNCHANGED <<owner, pc, joining, held, store>>
  BY <1>t DEF TypeOK, Deliver
<1>3. SoleWriter(m) /\ StoreIsApplied(m) /\ held[m] # {}
  BY <1>1 DEF WriterInv, Writer, SoleWriter
<1>4. Advances(changelog, q) /\ store[m] = Applied(changelog, q)
  BY <1>3 DEF StoreIsApplied
<1> HIDE DEF q
<1>5. Advances(changelog', Tail(q)) /\ NotBehind(changelog[Head(q).order], Head(q).value)
  BY <1>1, <1>2, <1>4, AdvancesTail
<1>6. Applied(changelog', Tail(q)) = store[m]
  BY <1>1, <1>2, <1>4, AppliedTail
<1>7. StoreIsApplied(m)'
  BY <1>1, <1>2, <1>5, <1>6 DEF StoreIsApplied
<1>8. SoleWriter(m)'
  BY <1>2, <1>3 DEF SoleWriter, Busy
<1>9. ASSUME NEW k \in Orders PROVE NotBehind(changelog[k], changelog'[k])
  <2>1. CASE k = Head(q).order
    BY <1>2, <1>5, <2>1
  <2>2. CASE k # Head(q).order
    <3>1. changelog'[k] = changelog[k] /\ changelog[k] \in Record \cup {NoFold}
      BY <1>2, <2>2
    <3>2. QED BY <3>1 DEF NotBehind, Record
  <2>3. QED BY <2>1, <2>2
<1>10. QED BY <1>3, <1>7, <1>8, <1>9 DEF Writer

LEMMA WriterStep ==
  ASSUME SafeDeployment, WriterInv, [Next]_vars
  PROVE  WriterInv'
<1> USE DEF group, history
<1>a. AloInv'
  BY AloStep DEF WriterInv
<1>t. TypeOK /\ \A m \in Members : Writer(m) /\ SoleWriter(m)
  BY DEF WriterInv, Writer, AloInv, TypeInv
<1>0. ASSUME NEW m \in Members, Acts(m)
      PROVE  Writer(m)' /\ (changelog' # changelog => held[m] # {})
  <2>1. ASSUME NEW T \in SUBSET Topics, Assign(m, T) PROVE Writer(m)' /\ UNCHANGED changelog
    <3>1. T = Topics /\ \A t \in Topics : owner[t] # m /\ owner'[t] = m
      BY <2>1, ConstantsAssumption DEF Assign, SafeDeployment
    <3>2. held[m] = {} /\ queue[m] = << >>
      BY <1>t, <3>1, TopicsExist DEF SoleWriter
    <3>3. /\ pc'[m] = "restore" /\ joining'[m] = Topics
          /\ UNCHANGED <<changelog, held, queue>>
      BY <1>t, <2>1, <3>1 DEF Assign, Goto, TypeOK
    <3>4. QED BY <3>1, <3>2, <3>3, WriterRests
  <2>2. ASSUME NEW T \in SUBSET Topics, Revoke(m, T) PROVE Writer(m)' /\ UNCHANGED changelog
    <3>1. T = Topics /\ queue[m] = << >>
      BY <2>2 DEF Revoke, SafeDeployment, flushed_or_gave_up, flushed
    <3>2. /\ held'[m] = {} /\ pc'[m] = "poll" /\ UNCHANGED <<changelog, queue>>
      BY <1>t, <2>2, <3>1 DEF Revoke, LetGo, TypeOK
    <3>3. QED BY <3>1, <3>2, WriterRests
  <2>3. CASE Restore(m)
    <3>1. /\ held[m] = {} /\ joining[m] = Topics /\ queue[m] = << >>
          /\ \A t \in Topics : owner[t] = m
      BY <1>t, <2>3 DEF Restore, SoleWriter
    <3>2. /\ held'[m] = Topics /\ store'[m] = changelog /\ pc'[m] = "poll"
          /\ UNCHANGED <<owner, changelog, queue>>
      BY <1>t, <2>3, <3>1 DEF Restore, restored, Goto, TypeOK
    <3>3. StoreIsApplied(m)'
      BY <1>t, <3>1, <3>2, AppliedEmpty, AdvancesEmpty DEF StoreIsApplied, TypeOK
    <3>4. SoleWriter(m)'
      BY <3>1, <3>2, TopicsExist DEF SoleWriter
    <3>5. QED BY <3>2, <3>3, <3>4 DEF Writer
  <2>4. ~ Lost(m)
    BY <1>t DEF Lost, SoleWriter, TypeOK
  <2>5. ASSUME NEW t \in Topics, HandleTombstone(m, t) PROVE Writer(m)' /\ UNCHANGED changelog
    <3>1. t \in held[m] /\ Polled(m, t) \in Message
      BY <1>t, <2>5, MessageAt DEF HandleTombstone, Polls, Polled, TypeOK
    <3>2. /\ store' = [store EXCEPT ![m][Polled(m, t).order] = NoFold]
          /\ Produce(m, Polled(m, t).order, NoFold) /\ pc'[m] = "commit"
          /\ UNCHANGED <<owner, changelog, held>>
      BY <1>t, <2>5 DEF HandleTombstone, Goto, TypeOK
    <3>3. NotBehind(store[m][Polled(m, t).order], NoFold) /\ Polled(m, t).order \in Orders
      BY <3>1 DEF NotBehind, Message
    <3>4. QED BY <3>1, <3>2, <3>3, WriterWrites
  <2>6. ASSUME NEW t \in Topics, Skip(m, t) \/ HandleEvent(m, t) \/ HandleFailure(m, t)
        PROVE  Writer(m)' /\ UNCHANGED changelog
    <3>1. /\ t \in held[m] /\ pc'[m] \in {"commit", "persist", "commit_first", "route"}
          /\ UNCHANGED <<owner, changelog, held, store, queue>>
      BY <1>t, <2>6 DEF Skip, HandleEvent, HandleFailure, Polls, Goto, TypeOK
    <3>2. QED BY <1>t, <3>1, WriterKept
  <2>7. CASE RoutePublished(m) \/ RouteFailed(m) \/ Flush(m) \/ CommitAccepted(m)
               \/ CommitRejected(m)
    <3>1. /\ Busy(m) /\ pc'[m] \in {"commit", "poll", "persist"}
          /\ UNCHANGED <<owner, changelog, held, store, queue>>
      BY <1>t, <2>7 DEF RoutePublished, RouteFailed, Flush, CommitAccepted, CommitRejected,
           Goto, Busy, TypeOK
    <3>2. held[m] # {}
      BY <1>t, <3>1 DEF SoleWriter
    <3>3. QED BY <1>t, <3>1, <3>2, WriterKept
  <2>8. CASE Save(m)
    <3> DEFINE msg == Current(m)  rec == saved_record(store[m][msg.order], msg)
    <3>1. pc[m] = "persist" /\ held[m] # {} /\ msg \in Message
      BY <1>t, <2>8, MessageAt
      DEF Save, Busy, SoleWriter, Current, WriterInv, AloInv, TypeInv, InHandOK, TypeOK
    <3>2. /\ store' = [store EXCEPT ![m][msg.order] = rec] /\ Produce(m, msg.order, rec)
          /\ pc'[m] \in {"flush", "poll"} /\ UNCHANGED <<owner, changelog, held>>
      BY <1>t, <2>8 DEF Save, Goto, TypeOK
    <3>3. msg.order \in Orders /\ store[m][msg.order] \in Record \cup {NoFold}
      BY <1>t, <3>1 DEF Message, TypeOK
    <3> HIDE DEF msg
    <3>4. rec \in Record /\ NotBehind(store[m][msg.order], rec)
      BY <3>1, <3>3, SaveAdvances
    <3> HIDE DEF rec
    <3>5. QED BY <3>1, <3>2, <3>3, <3>4, WriterWrites
  <2>9. CASE Deliver(m)
    BY <2>9, WriterDelivers
  <2>10. ~ DeliveryFails(m)
    BY DEF DeliveryFails, SafeDeployment
  <2>11. CASE Evict(m)
    <3>1. pc[m] = "down" /\ UNCHANGED <<changelog, pc, held, queue>>
      BY <2>11 DEF Evict, Running, SafeDeployment
    <3>2. held[m] = {} /\ queue[m] = << >>
      BY <1>t, <3>1 DEF SoleWriter
    <3>3. QED BY <3>1, <3>2, WriterRests
  <2>12. CASE Crash(m) \/ Exit(m)
    <3>1. held'[m] = {} /\ queue'[m] = << >> /\ pc'[m] = "down" /\ UNCHANGED changelog
      BY <1>t, <2>12 DEF Crash, Exit, LetGo, Goto, TypeOK
    <3>2. QED BY <3>1, WriterRests
  <2>13. CASE Start(m)
    <3>1. pc[m] = "down" /\ pc'[m] = "poll" /\ UNCHANGED <<changelog, held, queue>>
      BY <1>t, <2>13 DEF Start, Running, Goto, TypeOK
    <3>2. held[m] = {} /\ queue[m] = << >>
      BY <1>t, <3>1 DEF SoleWriter
    <3>3. QED BY <3>1, <3>2, WriterRests
  <2>14. QED BY <1>0, <2>1, <2>2, <2>3, <2>4, <2>5, <2>6, <2>7, <2>8, <2>9, <2>10, <2>11,
                <2>12, <2>13 DEF Acts, Step, Handle
<1>1. CASE UNCHANGED vars
  <2>1. UNCHANGED <<owner, changelog, pc, joining, held, store, queue>>
    BY <1>1 DEF vars
  <2>2. \A m \in Members : Writer(m)'
    BY <1>t, <2>1 DEF Writer, SoleWriter, StoreIsApplied, Busy
  <2>3. QED BY <1>a, <2>2 DEF WriterInv
<1>2. CASE Next
  <2>1. PICK m \in Members : Acts(m)
    BY <1>2, NextActs
  <2>2. QED BY <1>0, <1>a, <2>1, WriterFrame DEF WriterInv
<1>3. QED BY <1>1, <1>2

LEMMA WriterInit == Init => WriterInv
<1> SUFFICES ASSUME Init PROVE WriterInv
  OBVIOUS
<1>1. AloInv
  BY AloInit
<1>2. \A m \in Members : held[m] = {} /\ queue[m] = << >> /\ pc[m] = "poll"
  BY DEF Init
<1>3. \A m \in Members : Writer(m)
  BY <1>2, AdvancesEmpty DEF Writer, SoleWriter, StoreIsApplied, Busy
<1>4. QED BY <1>1, <1>3 DEF WriterInv

\* In a safe deployment, and for either write order, a consuming owner's store is its
\* changelog up to what its producer still has to deliver: a rebuild elsewhere would
\* reproduce it exactly (_save_fold and forget write both, _restore_one replays).
THEOREM StoreIsRebuildable ==
  ASSUME SafeDeployment
  PROVE  Spec => []StoreMirrorsChangelog
<1>1. Spec => []WriterInv
  BY WriterInit, WriterStep, PTL DEF Spec
<1>2. WriterInv => StoreMirrorsChangelog
  BY DEF WriterInv, Writer, StoreIsApplied, StoreMirrorsChangelog
<1>3. QED BY <1>1, <1>2, PTL

\* In a safe deployment the fold a rebuild would restore never moves back to an earlier
\* sequence: the guard of save() orders what one producer enqueues, and no second
\* producer can have records to deliver.
THEOREM GuardHoldsInChangelog ==
  ASSUME SafeDeployment
  PROVE  Spec => ChangelogNeverRegresses
<1>1. Spec => []WriterInv
  BY WriterInit, WriterStep, PTL DEF Spec
<1>2. ASSUME WriterInv, [Next]_vars
      PROVE  [\A k \in Orders : changelog[k] # NoFold /\ changelog'[k] # NoFold =>
                changelog'[k].last_sequence >= changelog[k].last_sequence]_vars
  <2>1. \A k \in Orders : NotBehind(changelog[k], changelog[k])
    <3>1. \A k \in Orders : changelog[k] \in Record \cup {NoFold}
      BY <1>2 DEF WriterInv, AloInv, TypeInv, TypeOK
    <3>2. QED BY <3>1 DEF NotBehind, Record
  <2>2. UNCHANGED changelog \/ \E m \in Members : Deliver(m)
    BY <1>2 DEF Next, Step, Handle, Assign, Revoke, Restore, Lost, HandleTombstone, Skip,
         HandleEvent, HandleFailure, RoutePublished, RouteFailed, Save, Flush, CommitAccepted,
         CommitRejected, DeliveryFails, Evict, Crash, Exit, Start, vars, group
  <2>3. \A k \in Orders : NotBehind(changelog[k], changelog'[k])
    BY <1>2, <2>1, <2>2, WriterDelivers
  <2>4. QED BY <2>3 DEF NotBehind
<1>3. QED BY <1>1, <1>2, PTL DEF Spec, ChangelogNeverRegresses

-----------------------------------------------------------------------------
(* What a rebuild is sure to find.                                         *)

LEMMA LifecycleLog == Log("lifecycle") = EventLog /\ EventLog \in Seq(Message)
  BY ConstantsAssumption DEF Log

LEMMA RoutedGrows ==
  ASSUME NEW m \in Members, Acts(m)
  PROVE  routed \subseteq routed'
  BY DEF Acts, Step, Handle, Assign, Revoke, Restore, Lost, HandleTombstone, Skip, HandleEvent,
       HandleFailure, RoutePublished, RouteFailed, Save, Flush, CommitAccepted, CommitRejected,
       Deliver, DeliveryFails, Evict, Crash, Exit, Start, history

LEMMA ChangelogMoves ==
  ASSUME NEW m \in Members, Acts(m)
  PROVE  UNCHANGED changelog \/ Deliver(m)
  BY DEF Acts, Step, Handle, Assign, Revoke, Restore, Lost, HandleTombstone, Skip, HandleEvent,
       HandleFailure, RoutePublished, RouteFailed, Save, Flush, CommitAccepted, CommitRejected,
       DeliveryFails, Evict, Crash, Exit, Start, group

\* What the changelog covers it goes on covering.
LEMMA CoverStays ==
  ASSUME WriterInv, NEW m \in Members, NullsAreTombstones(m), Acts(m),
         NEW o \in 0 .. Len(EventLog) - 1, CoveredBy(changelog, o)
  PROVE  CoveredBy(changelog, o)'
<1> DEFINE msg == EventLog[o + 1]
<1>t. TypeOK
  BY DEF WriterInv, AloInv, TypeInv
<1>1. msg \in Message /\ msg.order \in Orders /\ msg.sequence \in Nat
  <2>1. msg \in Message
    BY LifecycleLog
  <2>2. QED BY <2>1 DEF Message
<1>2. routed \subseteq routed'
  BY RoutedGrows
<1>3. CASE UNCHANGED changelog
  BY <1>2, <1>3 DEF CoveredBy
<1>4. CASE Deliver(m)
  <2>1. SUFFICES ASSUME ~ Tombstoned(msg.order), Reflects(changelog, msg)
                 PROVE  Reflects(changelog', msg)
    BY <1>2 DEF CoveredBy
  <2>2. NotBehind(changelog[msg.order], changelog'[msg.order])
    BY <1>1, <1>4, WriterDelivers
  <2>3. changelog'[msg.order] # NoFold
    <3>1. /\ queue[m] # << >> /\ queue[m] \in Seq(ChangelogRecord)
          /\ changelog' = [changelog EXCEPT ![Head(queue[m]).order] = Head(queue[m]).value]
      BY <1>t, <1>4 DEF Deliver, TypeOK, ChangelogRecord
    <3>2. 1 \in DOMAIN queue[m] /\ Head(queue[m]) = queue[m][1]
      BY <3>1, Shifted
    <3>3. Head(queue[m]).order = msg.order => Head(queue[m]).value # NoFold
      BY <2>1, <3>2 DEF NullsAreTombstones
    <3>4. QED BY <1>1, <1>t, <2>1, <3>1, <3>3 DEF Reflects, TypeOK
  <2>4. changelog[msg.order] \in Record /\ changelog'[msg.order] \in Record
    <3>1. changelog' \in [Orders -> Record \cup {NoFold}]
      BY <1>4, TypeStep, NextActs DEF WriterInv, AloInv, TypeInv, TypeOK
    <3>2. QED BY <1>1, <1>t, <2>1, <2>3, <3>1 DEF TypeOK, Reflects
  <2>5. QED BY <1>1, <2>1, <2>2, <2>3, <2>4 DEF NotBehind, Reflects, Record
<1>5. QED BY <1>3, <1>4, ChangelogMoves

LEMMA SecuredBound ==
  ASSUME CoverInv, NEW n \in Members
  PROVE  Secured(n) \in Nat /\ Secured(n) <= Len(EventLog)
<1>t. TypeOK
  BY DEF CoverInv, WriterInv, AloInv, TypeInv
<1>1. CASE pc[n] \in {"route", "persist", "flush"}
  <2>1. work[n].topic = "lifecycle" /\ work[n].offset < Len(Log(work[n].topic))
    BY <1>1 DEF Coverer, LoopIsStateFirst, CoverInv, WriterInv, AloInv, TypeInv, InHandOK, Busy
  <2>2. work[n].offset \in Nat /\ Len(EventLog) \in Nat
    BY <1>t, LifecycleLog DEF TypeOK
  <2>3. QED BY <1>1, <2>1, <2>2, LifecycleLog DEF Secured
<1>2. CASE pc[n] \notin {"route", "persist", "flush"}
  BY <1>t, <1>2, TopicsExist DEF Secured, CoverInv, Coverer, ConsumerIsCovered, TypeOK
<1>3. QED BY <1>1, <1>2

\* Again a step has only its own member's part to keep.
LEMMA CoverFrame ==
  ASSUME CoverInv, NEW m \in Members, Acts(m), Coverer(m)'
  PROVE  \A n \in Members : Coverer(n)'
<1> SUFFICES ASSUME NEW n \in Members, n # m PROVE Coverer(n)'
  OBVIOUS
<1>t. TypeOK
  BY DEF CoverInv, WriterInv, AloInv, TypeInv
<1>1. UNCHANGED Private(n)
  BY <1>t, OthersStay
<1>2. Coverer(n) /\ Coverer(m)
  BY DEF CoverInv
<1>3. NullsAreTombstones(n)' /\ LoopIsStateFirst(n)'
  BY <1>1, <1>2 DEF Coverer, NullsAreTombstones, LoopIsStateFirst, Private, Current, Reflects
<1>4. ConsumerIsCovered(n)'
  <2>1. /\ Secured(n)' = Secured(n) /\ held'[n] = held[n]
        /\ position'[n] = position[n]
    BY <1>1 DEF Private, Secured
  <2>2. Secured(n) \in Nat /\ Secured(n) <= Len(EventLog)
    BY SecuredBound
  <2>3. ASSUME held[n] # {}, NEW o \in 0 .. Secured(n) - 1 PROVE CoveredBy(changelog, o)'
    <3>1. o \in 0 .. Len(EventLog) - 1
      BY <2>2, LifecycleLog
    <3>2. CoveredBy(changelog, o)
      BY <1>2, <2>3 DEF Coverer, ConsumerIsCovered
    <3>3. QED BY <1>2, <3>1, <3>2, CoverStays DEF CoverInv, Coverer
  <2>4. position'[n]["lifecycle"] <= Len(EventLog)
    BY <1>2, <2>1 DEF Coverer, ConsumerIsCovered
  <2>5. QED BY <2>1, <2>3, <2>4 DEF ConsumerIsCovered
<1>5. QED BY <1>3, <1>4 DEF Coverer

\* A step that secures nothing new.
LEMMA CoverKept ==
  ASSUME CoverInv, NEW m \in Members, Acts(m), held'[m] # {} => held[m] # {},
         held'[m] # {} => Secured(m)' = Secured(m),
         position'[m]["lifecycle"] <= Len(EventLog)
  PROVE  ConsumerIsCovered(m)'
<1>1. ASSUME held'[m] # {}, NEW o \in 0 .. Secured(m)' - 1 PROVE CoveredBy(changelog, o)'
  <2>1. o \in 0 .. Len(EventLog) - 1
    BY <1>1, SecuredBound, LifecycleLog
  <2>2. CoveredBy(changelog, o)
    BY <1>1 DEF CoverInv, Coverer, ConsumerIsCovered
  <2>3. QED BY <2>1, <2>2, CoverStays DEF CoverInv, Coverer
<1>2. QED BY <1>1 DEF ConsumerIsCovered

\* A step that secures one more offset.
LEMMA CoverAdvances ==
  ASSUME CoverInv, NEW m \in Members, Acts(m), held[m] # {},
         NEW p, p = Secured(m), Secured(m)' = p + 1, CoveredBy(changelog, p)',
         position'[m]["lifecycle"] <= Len(EventLog)
  PROVE  ConsumerIsCovered(m)'
<1>1. ASSUME NEW o \in 0 .. Secured(m)' - 1 PROVE CoveredBy(changelog, o)'
  <2>1. p \in Nat /\ p <= Len(EventLog) /\ Len(EventLog) \in Nat
    BY SecuredBound, LifecycleLog
  <2>2. CASE o = p
    BY <2>2
  <2>3. CASE o # p
    <3>1. o \in 0 .. p - 1 /\ o \in 0 .. Len(EventLog) - 1
      BY <2>1, <2>3
    <3>2. CoveredBy(changelog, o)
      BY <3>1 DEF CoverInv, Coverer, ConsumerIsCovered
    <3>3. QED BY <3>1, <3>2, CoverStays DEF CoverInv, Coverer
  <2>4. QED BY <2>2, <2>3
<1>2. QED BY <1>1 DEF ConsumerIsCovered

\* What polling does to the member's place in the topics.
LEMMA PollMoves ==
  ASSUME TypeOK, NEW m \in Members, NEW t \in Topics, Polls(m, t), Take(m, t)
  PROVE  /\ pc[m] = "poll" /\ t \in held[m]
         /\ work'[m] = [topic |-> t, offset |-> position[m][t]]
         /\ \E msg \in Message : /\ msg = Polled(m, t) /\ msg = Current(m)'
                                 /\ position[m][t] + 1 \in DOMAIN Log(t)
                                 /\ msg = Log(t)[position[m][t] + 1]
         /\ position'[m][t] = position[m][t] + 1 /\ position'[m][t] <= Len(Log(t))
         /\ \A u \in Topics : u # t => position'[m][u] = position[m][u]
<1>1. Log(t) \in Seq(Message) /\ position[m][t] \in Nat /\ position[m][t] < Len(Log(t))
  BY LogType DEF TypeOK, Polls
<1>2. /\ work'[m] = [topic |-> t, offset |-> position[m][t]]
      /\ position'[m][t] = position[m][t] + 1
      /\ \A u \in Topics : u # t => position'[m][u] = position[m][u]
      /\ pc[m] = "poll" /\ t \in held[m]
  BY DEF Take, Polls, TypeOK
<1>3. position[m][t] + 1 \in DOMAIN Log(t) /\ Log(t)[position[m][t] + 1] \in Message
  BY <1>1
<1>4. Current(m)' = Log(t)[position[m][t] + 1]
  BY <1>2 DEF Current
<1>5. QED BY <1>1, <1>2, <1>3, <1>4 DEF Polled

LEMMA CommittedMoves ==
  ASSUME NEW m \in Members, Acts(m)
  PROVE  UNCHANGED committed \/ CommitAccepted(m)
  BY DEF Acts, Step, Handle, Assign, Revoke, Restore, Lost, HandleTombstone, Skip, HandleEvent,
       HandleFailure, RoutePublished, RouteFailed, Save, Flush, CommitRejected, Deliver,
       DeliveryFails, Evict, Crash, Exit, Start, group

LEMMA CommittedCovered ==
  ASSUME CoverInv, NEW m \in Members, Acts(m)
  PROVE  /\ committed'["lifecycle"] <= Len(EventLog)
         /\ ChangelogCoversCommitted'
<1>t. TypeOK
  BY DEF CoverInv, WriterInv, AloInv, TypeInv
<1>1. committed["lifecycle"] \in Nat /\ Len(EventLog) \in Nat
  BY <1>t, TopicsExist, LifecycleLog DEF TypeOK
<1>2. ASSUME NEW o \in 0 .. Len(EventLog) - 1, CoveredBy(changelog, o)
      PROVE  CoveredBy(changelog, o)'
  BY <1>2, CoverStays DEF CoverInv, Coverer
<1>3. CASE committed'["lifecycle"] = committed["lifecycle"]
  BY <1>1, <1>2, <1>3 DEF CoverInv, ChangelogCoversCommitted
<1>4. CASE CommitAccepted(m) /\ work[m].topic = "lifecycle"
  <2>1. pc[m] = "commit" /\ Busy(m) /\ committed'["lifecycle"] = work[m].offset + 1
    BY <1>t, <1>4, TopicsExist DEF CommitAccepted, Busy, CoverInv, Coverer, LoopIsStateFirst, TypeOK
  <2>2. position[m]["lifecycle"] = work[m].offset + 1 /\ held[m] # {}
    BY <1>4, <2>1 DEF CoverInv, WriterInv, AloInv, HandIsLastRead
  <2>3. Secured(m) = committed'["lifecycle"]
    BY <2>1, <2>2 DEF Secured
  <2>4. \A o \in 0 .. committed'["lifecycle"] - 1 : CoveredBy(changelog, o)
    BY <2>2, <2>3 DEF CoverInv, Coverer, ConsumerIsCovered
  <2>5. committed'["lifecycle"] <= Len(EventLog) /\ committed'["lifecycle"] \in Nat
    BY <2>3, SecuredBound
  <2>6. QED BY <1>1, <1>2, <2>4, <2>5 DEF ChangelogCoversCommitted
<1>5. CASE CommitAccepted(m) /\ work[m].topic # "lifecycle"
  BY <1>3, <1>5, <1>t, TopicsExist DEF CommitAccepted, TypeOK
<1>6. QED BY <1>3, <1>4, <1>5, CommittedMoves

\* A null joins the queue only with a tombstone's key.
LEMMA NullsAppend ==
  ASSUME TypeOK, NEW m \in Members, NullsAreTombstones(m), NEW k, NEW v, Produce(m, k, v),
         v = NoFold => Tombstoned(k)
  PROVE  NullsAreTombstones(m)'
<1> DEFINE q == queue[m]  r == [order |-> k, value |-> v]
<1>1. q \in Seq(ChangelogRecord) /\ queue'[m] = Append(q, r)
  BY DEF TypeOK, ChangelogRecord, Produce
<1>2. \A i \in DOMAIN queue'[m] :
        (i \in DOMAIN q /\ queue'[m][i] = q[i]) \/ queue'[m][i] = r
  BY <1>1
<1>3. QED BY <1>2 DEF NullsAreTombstones

LEMMA TombstonedAt ==
  ASSUME NEW t \in Topics, NEW i \in DOMAIN Log(t), Log(t)[i].kind = "tombstone"
  PROVE  Tombstoned(Log(t)[i].order)
  BY DEF Tombstoned

\* A step of a member that consumes nothing after it.
LEMMA CoverRests ==
  ASSUME NEW m \in Members, NullsAreTombstones(m), held'[m] = {},
         queue'[m] \in {queue[m], << >>}, pc'[m] \in {"down", "poll", "restore"},
         position'[m]["lifecycle"] <= Len(EventLog)
  PROVE  Coverer(m)'
<1>1. NullsAreTombstones(m)'
  BY DEF NullsAreTombstones
<1>2. QED BY <1>1 DEF Coverer, LoopIsStateFirst, ConsumerIsCovered

\* A message the loop commits without handling it.
LEMMA CoverPassesBy ==
  ASSUME CoverInv, NEW m \in Members, NEW t \in Topics, Acts(m), Polls(m, t), Take(m, t),
         Goto(m, "commit"), ~ Folded(t, Polled(m, t)), held' = held
  PROVE  ConsumerIsCovered(m)'
<1>t. TypeOK /\ Coverer(m)
  BY DEF CoverInv, WriterInv, AloInv, TypeInv
<1>1. /\ pc[m] = "poll" /\ t \in held[m]
      /\ position'[m][t] = position[m][t] + 1 /\ position'[m][t] <= Len(Log(t))
      /\ \A u \in Topics : u # t => position'[m][u] = position[m][u]
  BY <1>t, PollMoves
<1>0. pc'[m] = "commit"
  BY <1>t DEF Goto, TypeOK
<1>2. Secured(m) = position[m]["lifecycle"] /\ Secured(m)' = position'[m]["lifecycle"]
  BY <1>0, <1>1 DEF Secured
<1>3. CASE t = "lifecycle"
  <2>1. PICK p : p = Secured(m) /\ p = position[m][t]
    BY <1>2, <1>3
  <2>2. ~ Folded("lifecycle", EventLog[p + 1])
    BY <1>3, <2>1, LifecycleLog DEF Polled
  <2>3. CoveredBy(changelog, p)'
    BY <2>2 DEF CoveredBy
  <2>4. Secured(m)' = p + 1 /\ position'[m]["lifecycle"] <= Len(EventLog) /\ held[m] # {}
    BY <1>1, <1>2, <1>3, <2>1, LifecycleLog
  <2>5. QED BY <2>1, <2>3, <2>4, CoverAdvances
<1>4. CASE t # "lifecycle"
  <2>1. position'[m]["lifecycle"] = position[m]["lifecycle"]
    BY <1>1, <1>4, TopicsExist
  <2>2. QED BY <1>2, <1>t, <2>1, CoverKept DEF Coverer, ConsumerIsCovered
<1>5. QED BY <1>3, <1>4

LEMMA CovererStep ==
  ASSUME SafeStateFirst, CoverInv, NEW m \in Members, Acts(m)
  PROVE  Coverer(m)'
<1> USE DEF group, history
<1>t. /\ TypeOK /\ SoleWriter(m) /\ StoreIsApplied(m) /\ Coverer(m) /\ NullsAreTombstones(m)
      /\ LoopIsStateFirst(m) /\ ConsumerIsCovered(m) /\ WriterInv
  BY DEF CoverInv, Coverer, WriterInv, Writer, AloInv, TypeInv
<1>s. SafeDeployment /\ state_write_order = "state_first"
  BY DEF SafeStateFirst
<1>p. position[m]["lifecycle"] <= Len(EventLog) /\ 0 <= Len(EventLog)
  BY <1>t, LifecycleLog DEF ConsumerIsCovered
<1>1. ASSUME NEW T \in SUBSET Topics, Assign(m, T) PROVE Coverer(m)'
  <2>1. T = Topics /\ \A t \in Topics : owner[t] # m
    BY <1>1, <1>s, ConstantsAssumption DEF Assign, SafeDeployment
  <2>2. held[m] = {}
    BY <1>t, <2>1, TopicsExist DEF SoleWriter
  <2>3. pc'[m] = "restore" /\ UNCHANGED <<held, queue, position>>
    BY <1>t, <1>1 DEF Assign, Goto, TypeOK
  <2>4. QED BY <1>t, <1>p, <2>2, <2>3, CoverRests
<1>2. ASSUME NEW T \in SUBSET Topics, Revoke(m, T) PROVE Coverer(m)'
  <2>1. T = Topics
    BY <1>2, <1>s DEF Revoke, SafeDeployment
  <2>2. held'[m] = {} /\ pc'[m] = "poll" /\ queue' = queue /\ position'[m]["lifecycle"] = 0
    BY <1>t, <1>2, <2>1, TopicsExist DEF Revoke, LetGo, TypeOK
  <2>3. QED BY <1>t, <1>p, <2>2, CoverRests
<1>3. CASE Restore(m)
  <2>1. joining[m] = Topics
    BY <1>t, <1>3 DEF Restore, SoleWriter
  <2>2. /\ pc'[m] = "poll" /\ position'[m]["lifecycle"] = committed["lifecycle"]
        /\ UNCHANGED <<changelog, queue, routed>>
    BY <1>t, <1>3, <2>1, TopicsExist DEF Restore, resume, Goto, TypeOK
  <2>3. ConsumerIsCovered(m)'
    BY <2>2 DEF ConsumerIsCovered, Secured, CoverInv, ChangelogCoversCommitted, CoveredBy
  <2>4. QED BY <1>t, <2>2, <2>3 DEF Coverer, NullsAreTombstones, LoopIsStateFirst
<1>4. ~ Lost(m)
  BY <1>t DEF Lost, SoleWriter, TypeOK
<1>5. ASSUME NEW t \in Topics, HandleTombstone(m, t) PROVE Coverer(m)'
  <2>1. /\ Polls(m, t) /\ Take(m, t) /\ Goto(m, "commit") /\ held' = held
        /\ Produce(m, Polled(m, t).order, NoFold) /\ Polled(m, t).kind = "tombstone"
    BY <1>5 DEF HandleTombstone
  <2>2. pc'[m] = "commit" /\ Tombstoned(Polled(m, t).order)
    <3>1. PICK i \in DOMAIN Log(t) : Polled(m, t) = Log(t)[i]
      <4>1. position[m][t] \in Nat /\ position[m][t] < Len(Log(t)) /\ Log(t) \in Seq(Message)
        BY <1>t, <2>1, LogType DEF Polls, TypeOK
      <4>2. position[m][t] + 1 \in DOMAIN Log(t)
        BY <4>1
      <4>3. QED BY <4>2 DEF Polled
    <3>2. Tombstoned(Polled(m, t).order)
      BY <2>1, <3>1, TombstonedAt
    <3>3. QED BY <1>t, <2>1, <3>2 DEF Goto, TypeOK
  <2>3. NullsAreTombstones(m)'
    BY <1>t, <2>1, <2>2, NullsAppend
  <2>4. ConsumerIsCovered(m)'
    BY <2>1, CoverPassesBy DEF Folded
  <2>5. QED BY <2>2, <2>3, <2>4 DEF Coverer, LoopIsStateFirst
<1>6. ASSUME NEW t \in Topics, Skip(m, t) PROVE Coverer(m)'
  <2>1. /\ Polls(m, t) /\ Take(m, t) /\ Goto(m, "commit") /\ held' = held
        /\ queue' = queue /\ ~ Folded(t, Polled(m, t))
    BY <1>6 DEF Skip
  <2>2. pc'[m] = "commit"
    BY <1>t, <2>1 DEF Goto, TypeOK
  <2>3. ConsumerIsCovered(m)'
    BY <2>1, CoverPassesBy
  <2>4. QED BY <1>t, <2>1, <2>2, <2>3 DEF Coverer, NullsAreTombstones, LoopIsStateFirst
<1>7. ASSUME NEW t \in Topics, HandleEvent(m, t) \/ HandleFailure(m, t) PROVE Coverer(m)'
  <2>1. PICK label \in {"persist", "route"} :
          /\ Polls(m, t) /\ Take(m, t) /\ Goto(m, label) /\ held' = held /\ queue' = queue
          /\ Folded(t, Polled(m, t)) /\ (label = "persist" => Polled(m, t).kind = "body")
    BY <1>7, <1>s DEF HandleEvent, HandleFailure
  <2>2. /\ pc[m] = "poll" /\ pc'[m] = label /\ t \in held[m] /\ Current(m)' = Polled(m, t)
        /\ work'[m] = [topic |-> t, offset |-> position[m][t]]
        /\ position'[m][t] <= Len(Log(t)) /\ t = "lifecycle"
    <3>1. t = "lifecycle"
      BY <2>1 DEF Folded
    <3>2. pc'[m] = label
      BY <1>t, <2>1 DEF Goto, TypeOK
    <3>3. QED BY <1>t, <2>1, <3>1, <3>2, PollMoves
  <2>3. Secured(m)' = Secured(m) /\ position'[m]["lifecycle"] <= Len(EventLog)
    BY <2>1, <2>2, LifecycleLog DEF Secured
  <2>4. ConsumerIsCovered(m)'
    BY <2>1, <2>2, <2>3, CoverKept
  <2>5. LoopIsStateFirst(m)'
    BY <2>1, <2>2 DEF LoopIsStateFirst
  <2>6. QED BY <1>t, <2>1, <2>4, <2>5 DEF Coverer, NullsAreTombstones
<1>8. CASE RoutePublished(m)
  <2>1. /\ pc[m] = "route" /\ pc'[m] = "commit" /\ Busy(m) /\ routed' = routed \cup {work[m].offset}
        /\ UNCHANGED <<held, queue, position, work>>
    BY <1>t, <1>8 DEF RoutePublished, Goto, Busy, TypeOK
  <2>2. /\ held[m] # {} /\ work[m].topic = "lifecycle"
        /\ position[m]["lifecycle"] = work[m].offset + 1
    BY <1>t, <2>1 DEF LoopIsStateFirst, WriterInv, AloInv, HandIsLastRead
  <2>3. PICK p : p = Secured(m) /\ p = work[m].offset
    BY <2>1 DEF Secured
  <2>4. Secured(m)' = p + 1 /\ CoveredBy(changelog, p)'
    BY <2>1, <2>2, <2>3 DEF Secured, CoveredBy
  <2>5. ConsumerIsCovered(m)'
    BY <1>p, <2>1, <2>2, <2>3, <2>4, CoverAdvances
  <2>6. QED BY <1>t, <2>1, <2>5 DEF Coverer, NullsAreTombstones, LoopIsStateFirst
<1>9. CASE RouteFailed(m)
  <2>1. /\ pc[m] = "route" /\ pc'[m] = "poll" /\ Busy(m) /\ UNCHANGED <<held, queue>>
        /\ position' = [position EXCEPT ![m][work[m].topic] = work[m].offset]
    BY <1>t, <1>9 DEF RouteFailed, rewind, Goto, Busy, TypeOK
  <2>2. work[m].topic = "lifecycle" /\ position'[m]["lifecycle"] = work[m].offset
    BY <1>t, <2>1, TopicsExist DEF LoopIsStateFirst, TypeOK
  <2>3. Secured(m)' = Secured(m) /\ position'[m]["lifecycle"] <= Len(EventLog)
    BY <2>1, <2>2, SecuredBound DEF Secured
  <2>4. ConsumerIsCovered(m)'
    BY <2>1, <2>3, CoverKept
  <2>5. QED BY <1>t, <2>1, <2>4 DEF Coverer, NullsAreTombstones, LoopIsStateFirst
<1>10. CASE Save(m)
  <2> DEFINE msg == Current(m)  rec == saved_record(store[m][msg.order], msg)
  <2>1. /\ pc[m] = "persist" /\ pc'[m] = "flush" /\ UNCHANGED <<held, position, work>>
        /\ store' = [store EXCEPT ![m][msg.order] = rec] /\ Produce(m, msg.order, rec)
    BY <1>t, <1>s, <1>10 DEF Save, Goto, TypeOK
  <2>2. msg \in Message /\ msg.order \in Orders
    <3>1. msg \in Message
      BY <1>t, <2>1, MessageAt
      DEF Busy, Current, WriterInv, AloInv, TypeInv, InHandOK, TypeOK
    <3>2. QED BY <3>1 DEF Message
  <2>3. msg = Current(m)' /\ work'[m].topic = "lifecycle" /\ Folded("lifecycle", msg)
        /\ msg.kind = "body"
    BY <1>t, <2>1 DEF Current, LoopIsStateFirst
  <2> HIDE DEF msg
  <2>4. rec \in Record /\ rec.last_sequence >= msg.sequence
    <3>1. store[m][msg.order] \in Record \cup {NoFold}
      BY <1>t, <2>2 DEF TypeOK
    <3>2. QED BY <2>2, <3>1, SaveAdvances
  <2> HIDE DEF rec
  <2>5. store'[m][msg.order] = rec /\ rec # NoFold
    BY <1>t, <2>1, <2>2, <2>4, NoFoldAssumption DEF TypeOK
  <2>6. LoopIsStateFirst(m)'
    BY <2>1, <2>3, <2>4, <2>5 DEF LoopIsStateFirst, Reflects
  <2>7. NullsAreTombstones(m)'
    BY <1>t, <2>1, <2>5, NullsAppend
  <2>8. Secured(m)' = Secured(m)
    BY <2>1 DEF Secured
  <2>9. ConsumerIsCovered(m)'
    BY <1>p, <2>1, <2>8, CoverKept
  <2>10. QED BY <2>6, <2>7, <2>9 DEF Coverer
<1>11. CASE Flush(m)
  <2>1. /\ pc[m] = "flush" /\ pc'[m] = "commit" /\ Busy(m) /\ queue[m] = << >>
        /\ UNCHANGED <<changelog, held, queue, position, work, routed>>
    BY <1>t, <1>11 DEF Flush, flushed, Goto, Busy, TypeOK
  <2>2. /\ held[m] # {} /\ work[m].topic = "lifecycle"
        /\ position[m]["lifecycle"] = work[m].offset + 1
    BY <1>t, <2>1 DEF LoopIsStateFirst, WriterInv, AloInv, HandIsLastRead
  <2>3. store[m] = changelog
    BY <1>t, <2>1, <2>2, AppliedEmpty DEF StoreIsApplied, TypeOK
  <2>4. PICK p : p = Secured(m) /\ p = work[m].offset
    BY <2>1 DEF Secured
  <2>5. Reflects(changelog, EventLog[p + 1])
    BY <1>t, <2>1, <2>2, <2>3, <2>4, LifecycleLog DEF LoopIsStateFirst, Current
  <2>6. Secured(m)' = p + 1 /\ CoveredBy(changelog, p)'
    BY <2>1, <2>2, <2>4, <2>5 DEF Secured, CoveredBy
  <2>7. ConsumerIsCovered(m)'
    BY <1>p, <2>1, <2>2, <2>4, <2>6, CoverAdvances
  <2>8. QED BY <1>t, <2>1, <2>7 DEF Coverer, NullsAreTombstones, LoopIsStateFirst
<1>12. CASE CommitAccepted(m) \/ CommitRejected(m)
  <2>1. /\ pc[m] = "commit" /\ pc'[m] = "poll" /\ UNCHANGED <<held, queue, position>>
    BY <1>t, <1>12 DEF CommitAccepted, CommitRejected, Goto, LoopIsStateFirst, TypeOK
  <2>2. Secured(m)' = Secured(m)
    BY <2>1 DEF Secured
  <2>3. ConsumerIsCovered(m)'
    BY <1>p, <2>1, <2>2, CoverKept
  <2>4. QED BY <1>t, <2>1, <2>3 DEF Coverer, NullsAreTombstones, LoopIsStateFirst
<1>13. CASE Deliver(m)
  <2>1. /\ queue[m] \in Seq(ChangelogRecord) /\ queue[m] # << >> /\ queue'[m] = Tail(queue[m])
        /\ UNCHANGED <<pc, held, position, store, work>>
    BY <1>t, <1>13 DEF Deliver, TypeOK, ChangelogRecord
  <2>2. \A i \in DOMAIN queue'[m] : i + 1 \in DOMAIN queue[m] /\ queue'[m][i] = queue[m][i + 1]
    BY <2>1, Shifted
  <2>3. NullsAreTombstones(m)'
    BY <1>t, <2>2 DEF NullsAreTombstones
  <2>4. Secured(m)' = Secured(m)
    BY <2>1 DEF Secured
  <2>5. ConsumerIsCovered(m)'
    BY <1>p, <2>1, <2>4, CoverKept
  <2>6. LoopIsStateFirst(m)'
    BY <1>t, <2>1 DEF LoopIsStateFirst, Current, Reflects
  <2>7. QED BY <2>3, <2>5, <2>6 DEF Coverer
<1>14. ~ DeliveryFails(m)
  BY <1>s DEF DeliveryFails, SafeDeployment
<1>15. CASE Evict(m) \/ Start(m)
  <2>1. pc[m] = "down" /\ pc'[m] \in {"down", "poll"} /\ UNCHANGED <<held, queue, position>>
    BY <1>t, <1>s, <1>15 DEF Evict, Start, Running, SafeDeployment, Goto, TypeOK
  <2>2. held[m] = {}
    BY <1>t, <2>1 DEF SoleWriter
  <2>3. QED BY <1>t, <1>p, <2>1, <2>2, CoverRests
<1>16. CASE Crash(m) \/ Exit(m)
  <2>1. /\ held'[m] = {} /\ pc'[m] = "down" /\ queue'[m] = << >>
        /\ position'[m]["lifecycle"] = 0
    BY <1>t, <1>16, TopicsExist DEF Crash, Exit, LetGo, Goto, TypeOK
  <2>2. QED BY <1>t, <1>p, <2>1, CoverRests
<1>17. QED BY <1>1, <1>2, <1>3, <1>4, <1>5, <1>6, <1>7, <1>8, <1>9, <1>10, <1>11, <1>12,
              <1>13, <1>14, <1>15, <1>16 DEF Acts, Step, Handle

LEMMA CoverStep ==
  ASSUME SafeStateFirst, CoverInv, [Next]_vars
  PROVE  CoverInv'
<1>w. WriterInv'
  BY WriterStep DEF CoverInv, SafeStateFirst
<1>1. CASE UNCHANGED vars
  <2>1. UNCHANGED <<committed, changelog, pc, held, position, store, queue, work, routed>>
    BY <1>1 DEF vars, group, history
  <2>2. \A m \in Members : Coverer(m)'
    BY <2>1 DEF CoverInv, Coverer, NullsAreTombstones, LoopIsStateFirst, ConsumerIsCovered,
         Secured, Current, Reflects, CoveredBy
  <2>3. QED BY <1>w, <2>1, <2>2 DEF CoverInv, ChangelogCoversCommitted, CoveredBy
<1>2. CASE Next
  <2>1. PICK m \in Members : Acts(m)
    BY <1>2, NextActs
  <2>2. \A n \in Members : Coverer(n)'
    BY <2>1, CovererStep, CoverFrame
  <2>3. QED BY <1>w, <2>1, <2>2, CommittedCovered DEF CoverInv
<1>3. QED BY <1>1, <1>2

LEMMA CoverInit == Init => CoverInv
<1> SUFFICES ASSUME Init PROVE CoverInv
  OBVIOUS
<1>1. WriterInv
  BY WriterInit
<1>2. /\ committed["lifecycle"] = 0 /\ 0 <= Len(EventLog)
      /\ \A m \in Members : /\ held[m] = {} /\ queue[m] = << >> /\ pc[m] = "poll"
                            /\ position[m]["lifecycle"] = 0
  BY LifecycleLog, TopicsExist DEF Init
<1>3. \A m \in Members : Coverer(m)
  BY <1>2 DEF Coverer, NullsAreTombstones, LoopIsStateFirst, ConsumerIsCovered
<1>4. QED BY <1>1, <1>2, <1>3 DEF CoverInv, ChangelogCoversCommitted

\* In a safe deployment that writes the state first, whatever crashes, exits, is
\* revoked or fails to publish at whatever instant, the changelog holds the fold of
\* every committed event that was not routed away and whose order nothing deletes:
\* the flush before the commit is enough.
THEOREM ChangelogIsAhead ==
  ASSUME SafeStateFirst
  PROVE  Spec => []ChangelogCoversCommitted
<1>1. Spec => []CoverInv
  BY CoverInit, CoverStep, PTL DEF Spec
<1>2. CoverInv => ChangelogCoversCommitted
  BY DEF CoverInv
<1>3. QED BY <1>1, <1>2, PTL
=============================================================================
