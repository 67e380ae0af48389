---------------------------- MODULE RebuildProofs ----------------------------
(***************************************************************************)
(* What TLAPS proves of Rebuild: what a replay of the compacted changelog  *)
(* leaves in a directory, for every set of members, every set of orders    *)
(* and every number of writes and disruptions.                             *)
(***************************************************************************)
EXTENDS Rebuild, WellFoundedInduction, TLAPS

\* TableAt over a given changelog.
Table(cl, k, end) ==
  LET of == {i \in 1 .. end : cl[i].order = k} IN
    IF of = {} THEN Absent ELSE ContentOf(cl[CHOOSE i \in of : \A j \in of : j <= i])

\* Order k has a record after the first n.
Later(k, n) == \E i \in n + 1 .. Len(changelog) : changelog[i].order = k

\* The record at offset p was an order's last, and is gone: an expired null.
Expired(p) == p \in cleaned /\ ~ Later(changelog[p + 1].order, p + 1)

-----------------------------------------------------------------------------
(* The invariant of a full rebuild.                                        *)

\* What the cleaner removed is superseded, or was a null with nothing of its order left
\* before it.
CleanedOK ==
  \A p \in cleaned :
    /\ p < Len(changelog)
    /\ \/ Later(changelog[p + 1].order, p + 1)
       \/ /\ ~ changelog[p + 1].live
          /\ \A q \in 0 .. p - 1 : changelog[q + 1].order = changelog[p + 1].order => q \in cleaned

\* A directory built from nothing holds no order whose null it will no longer meet.
NoGhosts(m) == \A p \in cleaned : next[m] <= p /\ Expired(p) => ~ disk[m][changelog[p + 1].order].live

\* Up to where the replay is, each order is as the changelog left it, or is yet to come.
Replayed(m) ==
  \A k \in Orders : Same(disk[m][k], TableAt(k, next[m])) \/ Later(k, next[m])

FullInv ==
  /\ TypeOK /\ CleanedOK
  /\ \A m \in Members : pc[m] = "drain" /\ ~ resumes(m) => NoGhosts(m) /\ Replayed(m)

-----------------------------------------------------------------------------
(* The invariant of every rebuild, while the holder alone writes.          *)

\* The directory has an order as the changelog leaves it, or newer.
Settled(m, k) ==
  \/ Same(disk[m][k], TableAt(k, Len(changelog)))
  \/ disk[m][k].stamp > TableAt(k, Len(changelog)).stamp

\* A reader from offset n on is yet to meet the last record of the order.
Awaits(k, n) == \E o \in Remaining(n) : changelog[o + 1].order = k /\ ~ Later(k, o + 1)

\* The directory is good to go on from offset n.
Sound(m, n) == \A k \in Orders : Settled(m, k) \/ Awaits(k, n)

\* No record a member has under way is newer than what its directory holds.
WriterOK(m) ==
  /\ pc[m] # "work" => unsent[m] = << >>
  /\ pc[m] = "drain" /\ owner = m => high[m] = Len(changelog)
  /\ \A i \in 1 .. Len(unsent[m]) :
       LET r == unsent[m][i]  held == disk[m][r.order] IN
         /\ r.stamp \in 1 .. writes
         /\ held.stamp > r.stamp \/ held = ContentOf(r)

StampsOK == \A j \in 1 .. Len(changelog) : changelog[j].stamp \in 1 .. writes

\* During a rebuild the file speaks of the directory as it was: what a new process may go
\* on from is what the rebuild has come to.
CheckpointOK(m) ==
  checkpoint[m] # None =>
    IF pc[m] = "drain" THEN checkpoint[m] <= high[m] /\ (resumes(m) => checkpoint[m] <= next[m])
                       ELSE Sound(m, checkpoint[m])

DrainOK(m) == pc[m] = "drain" => Sound(m, next[m])

WorkOK(m) ==
  pc[m] = "work" =>
    /\ mark[m] # None /\ Sound(m, mark[m])
    /\ owner = m => \A k \in Orders : Settled(m, k)

\* Records under way, as long as none was left so when the partition was lost.
SentOK == ~ straggled => StampsOK /\ \A m \in Members : WriterOK(m)

\* A directory that no expired null has escaped, and of which no file says too much, is
\* good to resume from.
MemberOK(m) ==
  ~ straggled /\ m \notin outlived \cup overstated => CheckpointOK(m) /\ DrainOK(m) /\ WorkOK(m)

CurrentInv == FullInv /\ SentOK /\ \A m \in Members : MemberOK(m)

-----------------------------------------------------------------------------
(* What the first n records of a changelog say of an order.                *)

\* A set of natural numbers that is not empty has a least element ...
LEMMA LeastOf ==
  ASSUME NEW T \in SUBSET Nat, T # {}
  PROVE  \E x \in T : \A y \in T : x <= y
<1> DEFINE R == OpToRel(<, Nat)
<1>1. IsWellFoundedOn(R, Nat)
  BY NatLessThanWellFounded
<1>2. R = {pair \in Nat \X Nat : pair[1] < pair[2]}
  BY DEF OpToRel
<1> HIDE DEF R
<1>3. PICK x \in T : \A y \in T : ~ (<<y, x>> \in R)
  BY <1>1, WFMin
<1>4. \A y \in T : <<y, x>> \in Nat \X Nat
  OBVIOUS
<1>5. \A y \in T : ~ (y < x)
  BY <1>2, <1>3, <1>4
<1>6. QED BY <1>5

\* ... and, if it is bounded, a greatest.
LEMMA GreatestOf ==
  ASSUME NEW n \in Nat, NEW S \in SUBSET (1 .. n), S # {}
  PROVE  \E i \in S : \A j \in S : j <= i
<1> DEFINE T == {d \in Nat : \E i \in S : d = n - i}
<1>1. \A i \in S : i \in Nat /\ n - i \in Nat /\ n - i \in T
  OBVIOUS
<1>2. T \in SUBSET Nat /\ T # {}
  BY <1>1
<1>3. \A d \in T : \E i \in S : d = n - i
  OBVIOUS
<1> HIDE DEF T
<1>4. PICK d \in T : \A y \in T : d <= y
  BY <1>2, LeastOf
<1>5. PICK i \in S : d = n - i
  BY <1>3
<1>6. \A j \in S : n - i <= n - j
  BY <1>1, <1>4, <1>5
<1>7. \A j \in S : j <= i
  BY <1>1, <1>6
<1>8. QED BY <1>7

LEMMA TableIs ==
  ASSUME NEW cl, NEW k, NEW n \in Nat
  PROVE  \/ Table(cl, k, n) = Absent /\ \A i \in 1 .. n : cl[i].order # k
         \/ \E i \in 1 .. n :
              /\ cl[i].order = k /\ Table(cl, k, n) = ContentOf(cl[i])
              /\ \A j \in 1 .. n : cl[j].order = k => j <= i
<1> DEFINE of == {i \in 1 .. n : cl[i].order = k}
<1>1. CASE of = {}
  <2>1. Table(cl, k, n) = Absent
    BY <1>1 DEF Table
  <2>2. QED BY <1>1, <2>1
<1>2. CASE of # {}
  <2>1. \E i \in of : \A j \in of : j <= i
    <3>1. of \in SUBSET (1 .. n)
      OBVIOUS
    <3> HIDE DEF of
    <3>2. QED BY <1>2, <3>1, GreatestOf
  <2>2. PICK i : i = CHOOSE l \in of : \A j \in of : j <= l
    OBVIOUS
  <2>3. i \in of /\ \A j \in of : j <= i
    BY <2>1, <2>2
  <2>4. Table(cl, k, n) = ContentOf(cl[i])
    BY <1>2, <2>2 DEF Table
  <2>5. QED BY <2>3, <2>4
<1>3. QED BY <1>1, <1>2

\* The last record of an order tells what the changelog says of it.
LEMMA TableLast ==
  ASSUME NEW cl, NEW k, NEW n \in Nat, NEW i \in 1 .. n, cl[i].order = k,
         \A j \in i + 1 .. n : cl[j].order # k
  PROVE  Table(cl, k, n) = ContentOf(cl[i])
<1>1. PICK l \in 1 .. n : /\ cl[l].order = k /\ Table(cl, k, n) = ContentOf(cl[l])
                          /\ \A j \in 1 .. n : cl[j].order = k => j <= l
  BY TableIs
<1>2. i <= l
  BY <1>1
<1>3. l \notin i + 1 .. n
  BY <1>1
<1>4. l = i
  BY <1>2, <1>3
<1>5. QED BY <1>1, <1>4

\* Records of other orders change nothing, and nor do records after the first n.
LEMMA TableSame ==
  ASSUME NEW cl, NEW dl, NEW k, NEW n \in Nat, NEW l \in Nat, n <= l,
         \A i \in 1 .. n : dl[i] = cl[i], \A i \in n + 1 .. l : dl[i].order # k
  PROVE  Table(dl, k, l) = Table(cl, k, n)
<1>1. \A i \in 1 .. n : i \in 1 .. l
  OBVIOUS
<1>2. CASE Table(cl, k, n) = Absent /\ \A i \in 1 .. n : cl[i].order # k
  <2>1. \A i \in 1 .. l : dl[i].order # k
    <3>1. \A i \in 1 .. l : i \in 1 .. n \/ i \in n + 1 .. l
      OBVIOUS
    <3>2. QED BY <1>2, <3>1
  <2>2. Table(dl, k, l) = Absent
    BY <2>1, TableIs
  <2>3. QED BY <1>2, <2>2
<1>3. ASSUME NEW i \in 1 .. n, cl[i].order = k, Table(cl, k, n) = ContentOf(cl[i]),
             \A j \in 1 .. n : cl[j].order = k => j <= i
      PROVE  Table(dl, k, l) = Table(cl, k, n)
  <2>1. i \in 1 .. l /\ dl[i] = cl[i]
    BY <1>1
  <2>2. ASSUME NEW j \in i + 1 .. l PROVE dl[j].order # k
    <3>1. CASE j \in 1 .. n
      BY <1>3, <3>1
    <3>2. CASE j \notin 1 .. n
      <4>1. j \in n + 1 .. l
        BY <3>2
      <4>2. QED BY <4>1
    <3>3. QED BY <3>1, <3>2
  <2>3. Table(dl, k, l) = ContentOf(dl[i])
    BY <1>3, <2>1, <2>2, TableLast
  <2>4. QED BY <1>3, <2>1, <2>3
<1>4. QED BY <1>2, <1>3, TableIs

LEMMA TableIsTableAt ==
  \A k, n : TableAt(k, n) = Table(changelog, k, n)
  BY DEF Table, TableAt

-----------------------------------------------------------------------------
(* Type correctness.                                                       *)

\* What one member does, or has happen to it.
MemberStep(m) ==
  \/ \E setting \in Modes[m] : Start(m, setting)
  \/ Crash(m) \/ Evict(m) \/ GiveUp(m)
  \/ Assign(m) \/ Drain(m) \/ DrainFails(m) \/ Restored(m)
  \/ \E k \in Orders, live \in BOOLEAN : Write(m, k, live)
  \/ Deliver(m) \/ DeliveryFails(m)

CleanerStep == \E o \in 0 .. Len(changelog) : Compact(o) \/ Expire(o)

LEMMA NextSteps == Next <=> (\E m \in Members : MemberStep(m)) \/ CleanerStep
  BY DEF Next, MemberStep, CleanerStep

\* The record that goes out is a record, and the changelog takes it at its end.
LEMMA Landing ==
  ASSUME TypeOK, NEW m \in Members, Land(m)
  PROVE  /\ Head(unsent[m]) = unsent[m][1] /\ unsent[m][1] \in Record /\ Len(unsent[m]) \in Nat \ {0}
         /\ changelog' = Append(changelog, unsent[m][1]) /\ changelog' \in Seq(Record)
         /\ Len(changelog) \in Nat /\ Len(changelog') = Len(changelog) + 1
         /\ changelog'[Len(changelog) + 1] = unsent[m][1]
         /\ \A i \in 1 .. Len(changelog) : changelog'[i] = changelog[i]
         /\ Tail(unsent[m]) \in Seq(Record) /\ Len(Tail(unsent[m])) = Len(unsent[m]) - 1
         /\ \A i \in 1 .. Len(unsent[m]) - 1 : Tail(unsent[m])[i] = unsent[m][i + 1]
         /\ unsent' = [unsent EXCEPT ![m] = Tail(unsent[m])]
<1>1. unsent[m] \in Seq(Record) /\ unsent[m] # << >> /\ changelog \in Seq(Record)
  BY DEF TypeOK, Land
<1>2. changelog' = Append(changelog, Head(unsent[m])) /\ unsent' = [unsent EXCEPT ![m] = Tail(unsent[m])]
  BY DEF Land
<1>3. QED BY <1>1, <1>2

LEMMA TypeInit == Init => TypeOK
<1> SUFFICES ASSUME Init PROVE TypeOK
  OBVIOUS
<1>1. changelog \in Seq(Record) /\ Len(changelog) = 0
  BY DEF Init
<1>2. Empty \in [Orders -> Content]
  BY DEF Empty, Absent, Content
<1>3. 0 \in 0 .. Len(changelog) /\ 0 \in 0 .. MaxWrites /\ 0 \in 0 .. MaxDisruptions
  BY <1>1, RebuildAssumption
<1>4. disk \in [Members -> [Orders -> Content]]
  BY <1>2 DEF Init
<1>5. /\ next \in [Members -> 0 .. Len(changelog)] /\ high \in [Members -> 0 .. Len(changelog)]
      /\ writes \in 0 .. MaxWrites /\ disruptions \in 0 .. MaxDisruptions
  BY <1>3 DEF Init
<1>6. /\ checkpoint \in [Members -> (0 .. Len(changelog)) \cup {None}]
      /\ mark \in [Members -> (0 .. Len(changelog)) \cup {None}]
  BY DEF Init
<1>7. unsent \in [Members -> Seq(Record)]
  BY DEF Init
<1>8. /\ mode \in [Members -> {"full", "checkpoint"}]
      /\ pc \in [Members -> {"down", "idle", "drain", "work"}]
  BY DEF Init
<1>9. /\ owner \in Members \cup {NoMember} /\ cleaned \subseteq 0 .. Len(changelog)
      /\ straggled \in BOOLEAN /\ outlived \subseteq Members /\ overstated \subseteq Members
  BY DEF Init
<1>10. QED BY <1>1, <1>4, <1>5, <1>6, <1>7, <1>8, <1>9 DEF TypeOK

LEMMA TypeStep == TypeOK /\ [Next]_vars => TypeOK'
<1> SUFFICES ASSUME TypeOK, [Next]_vars PROVE TypeOK'
  OBVIOUS
<1>t. /\ Len(changelog) \in Nat /\ changelog \in Seq(Record) /\ owner \in Members \cup {NoMember}
      /\ cleaned \subseteq 0 .. Len(changelog)
      /\ straggled \in BOOLEAN /\ outlived \subseteq Members /\ overstated \subseteq Members
      /\ pc \in [Members -> {"down", "idle", "drain", "work"}]
      /\ mode \in [Members -> {"full", "checkpoint"}]
      /\ disk \in [Members -> [Orders -> Content]]
      /\ checkpoint \in [Members -> (0 .. Len(changelog)) \cup {None}]
      /\ mark \in [Members -> (0 .. Len(changelog)) \cup {None}]
      /\ next \in [Members -> 0 .. Len(changelog)]
      /\ high \in [Members -> 0 .. Len(changelog)]
      /\ unsent \in [Members -> Seq(Record)]
      /\ writes \in 0 .. MaxWrites /\ disruptions \in 0 .. MaxDisruptions
      /\ MaxWrites \in Nat /\ MaxDisruptions \in Nat
  BY RebuildAssumption DEF TypeOK
<1>e. Empty \in [Orders -> Content]
  BY DEF Empty, Absent, Content
<1>d. Disrupt => disruptions' \in 0 .. MaxDisruptions
  BY <1>t DEF Disrupt
<1>c. ASSUME NEW m \in Members, NEW file, CutShort(m, file) PROVE overstated' \subseteq Members
  BY <1>t, <1>c DEF CutShort
<1>o. ASSUME NEW m \in Members, NEW label, Forget(m, label)
      PROVE  /\ owner' \in Members \cup {NoMember} /\ straggled' \in BOOLEAN
             /\ pc' = [pc EXCEPT ![m] = label]
  BY <1>t, <1>o DEF Forget, Goto
<1>f. ASSUME NEW m \in Members, NEW file \in Files(m), checkpoint' = [checkpoint EXCEPT ![m] = file]
      PROVE  checkpoint' \in [Members -> (0 .. Len(changelog)) \cup {None}]
  <2>1. Files(m) \subseteq (0 .. Len(changelog)) \cup {None}
    BY <1>t DEF Files, checkpointed
  <2>2. QED BY <1>t, <1>f, <2>1
<1> USE DEF broker, Goto
<1>1. ASSUME NEW m \in Members, NEW setting \in Modes[m], Start(m, setting) PROVE TypeOK'
  <2>1. setting \in {"full", "checkpoint"}
    BY RebuildAssumption
  <2>2. QED BY <1>t, <1>1, <2>1 DEF Start, TypeOK
<1>2. ASSUME NEW m \in Members, Crash(m) PROVE TypeOK'
  <2>1. disruptions' \in 0 .. MaxDisruptions /\ overstated' \subseteq Members
    BY <1>d, <1>c, <1>2 DEF Crash
  <2>2. /\ pc' = [pc EXCEPT ![m] = "down"] /\ unsent' = [unsent EXCEPT ![m] = << >>]
        /\ mark' = [mark EXCEPT ![m] = None]
        /\ next' = [next EXCEPT ![m] = 0] /\ high' = [high EXCEPT ![m] = 0]
        /\ UNCHANGED <<owner, changelog, cleaned, straggled, outlived, mode, disk, checkpoint, writes>>
    BY <1>2 DEF Crash, Returned
  <2>3. QED BY <1>t, <2>1, <2>2 DEF TypeOK
<1>3. ASSUME NEW m \in Members, Evict(m) PROVE TypeOK'
  BY <1>t, <1>d, <1>3 DEF Evict, TypeOK
<1>4. ASSUME NEW m \in Members, GiveUp(m) PROVE TypeOK'
  <2>1. checkpoint' \in [Members -> (0 .. Len(changelog)) \cup {None}]
    <3>1. PICK file \in Files(m) : checkpoint' = [checkpoint EXCEPT ![m] = file]
      BY <1>4 DEF GiveUp, Files
    <3>2. QED BY <1>f, <3>1
  <2>2. /\ owner' \in Members \cup {NoMember} /\ straggled' \in BOOLEAN
        /\ pc' = [pc EXCEPT ![m] = "idle"]
    BY <1>o, <1>4 DEF GiveUp
  <2>3. disruptions' \in 0 .. MaxDisruptions
    BY <1>t, <1>d, <1>4 DEF GiveUp
  <2>4. UNCHANGED <<changelog, cleaned, outlived, overstated, mode, disk, mark, next, high, unsent,
                    writes>>
    BY <1>4 DEF GiveUp
  <2>5. QED BY <1>t, <2>1, <2>2, <2>3, <2>4 DEF TypeOK
<1>5. ASSUME NEW m \in Members, Assign(m) PROVE TypeOK'
  <2>1. kept(m) \in [Orders -> Content]
    BY <1>t, <1>e DEF kept
  <2>2. (IF resumes(m) THEN checkpoint[m] ELSE 0) \in 0 .. Len(changelog)
    BY <1>t DEF resumes
  <2>3. /\ high' = [high EXCEPT ![m] = Len(changelog)] /\ owner' = m
        /\ next' = [next EXCEPT ![m] = IF resumes(m) THEN checkpoint[m] ELSE 0]
        /\ disk' = [disk EXCEPT ![m] = kept(m)]
        /\ outlived' \subseteq outlived /\ overstated' \subseteq overstated
        /\ pc' = [pc EXCEPT ![m] = "drain"]
        /\ UNCHANGED <<changelog, cleaned, straggled, mode, checkpoint, mark, unsent, writes, disruptions>>
    BY <1>5 DEF Assign
  <2>4. high' \in [Members -> 0 .. Len(changelog)] /\ pc' \in [Members -> {"down", "idle", "drain", "work"}]
    BY <1>t, <2>3
  <2>5. disk' \in [Members -> [Orders -> Content]]
    BY <1>t, <2>1, <2>3
  <2>6. next' \in [Members -> 0 .. Len(changelog)]
    BY <1>t, <2>2, <2>3
  <2>7. QED BY <1>t, <2>3, <2>4, <2>5, <2>6 DEF TypeOK
<1>6. ASSUME NEW m \in Members, Drain(m) PROVE TypeOK'
  <2>1. PICK o \in Remaining(next[m]) :
          /\ disk' = [disk EXCEPT ![m] = replay(disk[m], changelog[o + 1])]
          /\ next' = [next EXCEPT ![m] = o + 1]
    BY <1>6 DEF Drain
  <2>2. o + 1 \in 0 .. Len(changelog) /\ changelog[o + 1] \in Record
    BY <1>t DEF Remaining
  <2>3. replay(disk[m], changelog[o + 1]) \in [Orders -> Content]
    BY <1>t, <2>2 DEF replay, ContentOf, Content, Record
  <2>4. disk' \in [Members -> [Orders -> Content]] /\ next' \in [Members -> 0 .. Len(changelog)]
    BY <1>t, <2>1, <2>2, <2>3
  <2>5. QED BY <1>t, <1>6, <2>4 DEF Drain, TypeOK
<1>7. ASSUME NEW m \in Members, Restored(m) PROVE TypeOK'
  <2>1. /\ mark' = [mark EXCEPT ![m] = high[m]] /\ pc' = [pc EXCEPT ![m] = "work"]
        /\ next' = [next EXCEPT ![m] = 0] /\ high' = [high EXCEPT ![m] = 0]
        /\ UNCHANGED <<owner, changelog, cleaned, straggled, outlived, overstated, mode, disk,
                       checkpoint, unsent, writes, disruptions>>
    BY <1>7 DEF Restored, Returned
  <2>2. mark' \in [Members -> (0 .. Len(changelog)) \cup {None}]
    BY <1>t, <2>1
  <2>3. QED BY <1>t, <2>1, <2>2 DEF TypeOK
<1>8. ASSUME NEW m \in Members, NEW k \in Orders, NEW live \in BOOLEAN, Write(m, k, live)
      PROVE  TypeOK'
  <2>w. PICK w \in Nat : w = writes + 1 /\ (writes < MaxWrites => w \in 0 .. MaxWrites)
    BY <1>t
  <2>1. PICK r \in Record : r = [order |-> k, stamp |-> w, live |-> live]
    BY DEF Record
  <2>2. /\ disk' = [disk EXCEPT ![m][k] = ContentOf(r)]
        /\ unsent' = [unsent EXCEPT ![m] = Append(unsent[m], r)]
        /\ writes' \in 0 .. MaxWrites
        /\ UNCHANGED <<owner, broker, pc, mode, checkpoint, mark, next, high, disruptions>>
    BY <1>8, <2>w, <2>1 DEF Write
  <2>3. ContentOf(r) \in Content
    BY DEF Record, Content, ContentOf
  <2>4. disk' \in [Members -> [Orders -> Content]]
    <3>1. PICK d : d = [disk[m] EXCEPT ![k] = ContentOf(r)]
      OBVIOUS
    <3>2. d \in [Orders -> Content]
      BY <1>t, <2>3, <3>1
    <3>3. disk' = [disk EXCEPT ![m] = d]
      BY <2>2, <3>1
    <3>4. QED BY <1>t, <3>2, <3>3
  <2>5. unsent' \in [Members -> Seq(Record)]
    BY <1>t, <2>2
  <2>6. QED BY <1>t, <2>2, <2>4, <2>5 DEF TypeOK
<1>9. ASSUME NEW m \in Members, Land(m), mark' \in [Members -> (0 .. Len(changelog')) \cup {None}],
             disruptions' \in 0 .. MaxDisruptions
      PROVE  TypeOK'
  <2>1. /\ changelog' \in Seq(Record) /\ Len(changelog') = Len(changelog) + 1
        /\ Tail(unsent[m]) \in Seq(Record) /\ unsent' = [unsent EXCEPT ![m] = Tail(unsent[m])]
    BY <1>9, Landing
  <2>2. unsent' \in [Members -> Seq(Record)]
    BY <1>t, <2>1
  <2>3. \A x \in 0 .. Len(changelog) : x \in 0 .. Len(changelog')
    BY <1>t, <2>1
  <2>4. /\ straggled' \in BOOLEAN
        /\ UNCHANGED <<owner, cleaned, outlived, overstated, pc, mode, disk, checkpoint, next, high,
                       writes>>
    BY <1>t, <1>9 DEF Land
  <2>5. /\ checkpoint \in [Members -> (0 .. Len(changelog')) \cup {None}]
        /\ next \in [Members -> 0 .. Len(changelog')] /\ high \in [Members -> 0 .. Len(changelog')]
        /\ cleaned \subseteq 0 .. Len(changelog')
    BY <1>t, <2>3
  <2>6. QED BY <1>t, <1>9, <2>1, <2>2, <2>4, <2>5 DEF TypeOK
<1>10. ASSUME NEW m \in Members, Deliver(m) PROVE TypeOK'
  <2>1. Land(m) /\ disruptions' = disruptions
    BY <1>10 DEF Deliver
  <2>2. Len(changelog') = Len(changelog) + 1
    BY <2>1, Landing
  <2>3. mark' = [mark EXCEPT ![m] = IF mark[m] = None \/ mark[m] <= Len(changelog)
                                    THEN Len(changelog) + 1 ELSE mark[m]]
    BY <1>10 DEF Deliver
  <2>4. mark' \in [Members -> (0 .. Len(changelog')) \cup {None}]
    BY <1>t, <2>2, <2>3
  <2>5. QED BY <1>t, <1>9, <2>1, <2>4
<1>11. ASSUME NEW m \in Members, DeliveryFails(m) PROVE TypeOK'
  <2>1. disruptions' \in 0 .. MaxDisruptions /\ mark' = mark
    BY <1>d, <1>11 DEF DeliveryFails
  <2>2. CASE Land(m)
    <3>1. Len(changelog') = Len(changelog) + 1
      BY <2>2, Landing
    <3>2. mark' \in [Members -> (0 .. Len(changelog')) \cup {None}]
      BY <1>t, <2>1, <3>1
    <3>3. QED BY <1>9, <2>1, <2>2, <3>2
  <2>3. CASE /\ unsent' = [unsent EXCEPT ![m] = Tail(unsent[m])]
             /\ UNCHANGED <<owner, broker, pc, mode, disk, checkpoint, next, high, writes>>
    <3>1. unsent[m] \in Seq(Record) /\ unsent[m] # << >>
      BY <1>t, <1>11 DEF DeliveryFails
    <3>2. unsent' \in [Members -> Seq(Record)]
      BY <1>t, <2>3, <3>1
    <3>3. QED BY <1>t, <2>1, <2>3, <3>2 DEF TypeOK
  <2>4. QED BY <1>11, <2>2, <2>3 DEF DeliveryFails
<1>12. ASSUME NEW o \in 0 .. Len(changelog), Compact(o) \/ Expire(o) PROVE TypeOK'
  <2>1. outlived' \subseteq Members /\ Compacted(o)
    BY <1>t, <1>12 DEF Compact, Expire, Behind
  <2>2. QED BY <1>t, <2>1 DEF Compacted, TypeOK
<1>13. ASSUME NEW m \in Members, DrainFails(m) PROVE TypeOK'
  <2>1. PICK file \in Files(m) : checkpoint' = [checkpoint EXCEPT ![m] = file] /\ CutShort(m, file)
    BY <1>13 DEF DrainFails
  <2>2. /\ checkpoint' \in [Members -> (0 .. Len(changelog)) \cup {None}]
        /\ overstated' \subseteq Members
    BY <1>c, <1>f, <2>1
  <2>3. /\ owner' \in Members \cup {NoMember} /\ straggled' \in BOOLEAN
        /\ pc' = [pc EXCEPT ![m] = "down"]
    BY <1>o, <1>13 DEF DrainFails
  <2>4. /\ disruptions' \in 0 .. MaxDisruptions
        /\ mark' = [mark EXCEPT ![m] = None]
        /\ next' = [next EXCEPT ![m] = 0] /\ high' = [high EXCEPT ![m] = 0]
        /\ UNCHANGED <<changelog, cleaned, outlived, mode, disk, unsent, writes>>
    BY <1>d, <1>13 DEF DrainFails, Returned
  <2>5. QED BY <1>t, <2>2, <2>3, <2>4 DEF TypeOK
<1>14. CASE UNCHANGED vars
  BY <1>t, <1>14 DEF vars, TypeOK
<1>15. QED BY <1>1, <1>2, <1>3, <1>4, <1>5, <1>6, <1>7, <1>8, <1>10, <1>11, <1>12, <1>13, <1>14 DEF Next

\* Every offset the store keeps, in memory or on disk, is an offset of the changelog.
THEOREM TypeCorrect == Spec => []TypeOK
  BY TypeInit, TypeStep, PTL DEF Spec

-----------------------------------------------------------------------------
(* What a step does to the changelog, and to the rebuild of one member.    *)

LEMMA TableAtNext ==
  \A k, n : TableAt(k, n)' = Table(changelog', k, n)
  BY DEF Table, TableAt

\* A record that lands leaves what the changelog said before as it was.
LEMMA Grown ==
  ASSUME TypeOK, NEW m \in Members, Land(m)
  PROVE  /\ \A k : \A n \in 0 .. Len(changelog) : TableAt(k, n)' = TableAt(k, n)
         /\ \A k : \A n \in 0 .. Len(changelog) : Later(k, n) => Later(k, n)'
<1>1. /\ Len(changelog) \in Nat /\ Len(changelog') = Len(changelog) + 1
      /\ \A i \in 1 .. Len(changelog) : changelog'[i] = changelog[i]
  BY Landing
<1>2. ASSUME NEW k, NEW n \in 0 .. Len(changelog) PROVE TableAt(k, n)' = TableAt(k, n)
  <2>1. n \in Nat /\ n <= n /\ \A i \in 1 .. n : changelog'[i] = changelog[i]
    BY <1>1
  <2>2. \A i \in n + 1 .. n : changelog'[i].order # k
    BY <2>1
  <2>3. PICK dl : dl = changelog'
    OBVIOUS
  <2>4. Table(dl, k, n) = Table(changelog, k, n)
    BY <2>1, <2>2, <2>3, TableSame
  <2>5. QED BY <2>3, <2>4, TableIsTableAt, TableAtNext
<1>3. ASSUME NEW k, NEW n \in 0 .. Len(changelog), Later(k, n) PROVE Later(k, n)'
  <2>1. PICK i \in n + 1 .. Len(changelog) : changelog[i].order = k
    BY <1>3 DEF Later
  <2>2. i \in n + 1 .. Len(changelog') /\ changelog'[i] = changelog[i]
    BY <1>1
  <2>3. QED BY <2>1, <2>2 DEF Later
<1>4. QED BY <1>2, <1>3

LEMMA StepFor ==
  ASSUME TypeOK, [Next]_vars, NEW m \in Members
  PROVE  \/ pc'[m] # "drain"
         \/ /\ changelog' = changelog /\ cleaned' = cleaned /\ pc'[m] = pc[m] /\ mode'[m] = mode[m]
            /\ disk'[m] = disk[m] /\ checkpoint'[m] = checkpoint[m] /\ next'[m] = next[m]
         \/ Assign(m) \/ Drain(m)
         \/ \E n \in Members : Land(n)
         \/ \E o \in 0 .. Len(changelog) : Compact(o) \/ Expire(o)
<1> DEFINE Frame == /\ changelog' = changelog /\ cleaned' = cleaned /\ pc'[m] = pc[m] /\ mode'[m] = mode[m]
                    /\ disk'[m] = disk[m] /\ checkpoint'[m] = checkpoint[m] /\ next'[m] = next[m]
<1>t. /\ pc \in [Members -> {"down", "idle", "drain", "work"}]
      /\ mode \in [Members -> {"full", "checkpoint"}]
      /\ disk \in [Members -> [Orders -> Content]]
      /\ DOMAIN checkpoint = Members /\ DOMAIN next = Members
  BY DEF TypeOK
<1> USE DEF broker, Goto
<1>1. ASSUME NEW n \in Members, NEW setting \in Modes[n], Start(n, setting)
      PROVE  Frame \/ pc'[m] # "drain"
  BY <1>t, <1>1 DEF Start
<1>2. ASSUME NEW n \in Members, Crash(n) PROVE Frame \/ pc'[m] # "drain"
  BY <1>t, <1>2 DEF Crash, Returned
<1>3. ASSUME NEW n \in Members, Evict(n) PROVE Frame
  BY <1>t, <1>3 DEF Evict
<1>4. ASSUME NEW n \in Members, GiveUp(n) PROVE Frame \/ pc'[m] # "drain"
  BY <1>t, <1>4 DEF GiveUp, Forget
<1>5. ASSUME NEW n \in Members, Assign(n) PROVE Frame \/ Assign(m)
  <2>1. CASE n = m
    BY <1>5, <2>1
  <2>2. CASE n # m
    BY <1>t, <1>5, <2>2 DEF Assign
  <2>3. QED BY <2>1, <2>2
<1>6. ASSUME NEW n \in Members, Drain(n) PROVE Frame \/ Drain(m)
  <2>1. CASE n = m
    BY <1>6, <2>1
  <2>2. CASE n # m
    BY <1>t, <1>6, <2>2 DEF Drain
  <2>3. QED BY <2>1, <2>2
<1>7. ASSUME NEW n \in Members, Restored(n) PROVE Frame \/ pc'[m] # "drain"
  BY <1>t, <1>7 DEF Restored, Returned
<1>8. ASSUME NEW n \in Members, NEW k \in Orders, NEW live \in BOOLEAN, Write(n, k, live)
      PROVE  Frame \/ pc'[m] # "drain"
  <2>1. CASE n = m
    BY <1>t, <1>8, <2>1 DEF Write
  <2>2. CASE n # m
    BY <1>t, <1>8, <2>2 DEF Write
  <2>3. QED BY <2>1, <2>2
<1>9. ASSUME NEW n \in Members, Deliver(n) \/ DeliveryFails(n) PROVE Frame \/ Land(n)
  BY <1>9 DEF Deliver, DeliveryFails
<1>10. ASSUME NEW n \in Members, DrainFails(n) PROVE Frame \/ pc'[m] # "drain"
  <2>1. CASE n = m
    BY <1>t, <1>10, <2>1 DEF DrainFails, Forget
  <2>2. CASE n # m
    BY <1>t, <1>10, <2>2 DEF DrainFails, Forget, Returned
  <2>3. QED BY <2>1, <2>2
<1>11. CASE UNCHANGED vars
  BY <1>11 DEF vars
<1> HIDE DEF Frame
<1>12. QED BY <1>1, <1>2, <1>3, <1>4, <1>5, <1>6, <1>7, <1>8, <1>9, <1>10, <1>11 DEF Next, Frame

\* A step leaves the changelog and what is removed of it alone, or appends, or removes.
LEMMA StepOnTopic ==
  ASSUME [Next]_vars
  PROVE  \/ changelog' = changelog /\ cleaned' = cleaned
         \/ \E n \in Members : Land(n)
         \/ \E o \in 0 .. Len(changelog) : Compact(o) \/ Expire(o)
  BY DEF Next, vars, broker, Start, Crash, Evict, GiveUp, Assign, Drain, DrainFails, Restored, Write,
         Deliver, DeliveryFails

-----------------------------------------------------------------------------
(* The cleaner.                                                            *)

LEMMA CleanedStep == TypeOK /\ CleanedOK /\ [Next]_vars => CleanedOK'
<1> SUFFICES ASSUME TypeOK, CleanedOK, [Next]_vars PROVE CleanedOK'
  OBVIOUS
<1>t. Len(changelog) \in Nat /\ cleaned \subseteq 0 .. Len(changelog)
  BY DEF TypeOK
<1>1. CASE changelog' = changelog /\ cleaned' = cleaned
  BY <1>1 DEF CleanedOK, Later
<1>2. ASSUME NEW n \in Members, Land(n) PROVE CleanedOK'
  <2>1. /\ Len(changelog') = Len(changelog) + 1 /\ cleaned' = cleaned
        /\ \A i \in 1 .. Len(changelog) : changelog'[i] = changelog[i]
    BY <1>2, Landing DEF Land
  <2>2. SUFFICES ASSUME NEW p \in cleaned
                 PROVE /\ p < Len(changelog')
                       /\ \/ \E i \in p + 1 + 1 .. Len(changelog') :
                               changelog'[i].order = changelog'[p + 1].order
                          \/ /\ ~ changelog'[p + 1].live
                             /\ \A q \in 0 .. p - 1 :
                                  changelog'[q + 1].order = changelog'[p + 1].order => q \in cleaned
    BY <2>1 DEF CleanedOK, Later
  <2>3. p \in Nat /\ p < Len(changelog) /\ p + 1 \in 1 .. Len(changelog)
    BY <1>t DEF CleanedOK
  <2>4. changelog'[p + 1] = changelog[p + 1] /\ p < Len(changelog')
    BY <1>t, <2>1, <2>3
  <2>5. CASE Later(changelog[p + 1].order, p + 1)
    <3>1. PICK i \in p + 1 + 1 .. Len(changelog) : changelog[i].order = changelog[p + 1].order
      BY <2>5 DEF Later
    <3>2. i \in 1 .. Len(changelog) /\ i \in p + 1 + 1 .. Len(changelog')
      BY <1>t, <2>1, <2>3
    <3>3. changelog'[i].order = changelog'[p + 1].order
      BY <2>1, <2>4, <3>1, <3>2
    <3>4. QED BY <2>4, <3>2, <3>3
  <2>6. CASE /\ ~ changelog[p + 1].live
             /\ \A q \in 0 .. p - 1 : changelog[q + 1].order = changelog[p + 1].order => q \in cleaned
    <3>1. \A q \in 0 .. p - 1 : changelog'[q + 1] = changelog[q + 1]
      <4>1. \A q \in 0 .. p - 1 : q + 1 \in 1 .. Len(changelog)
        BY <1>t, <2>3
      <4>2. QED BY <2>1, <4>1
    <3>2. QED BY <2>4, <2>6, <3>1
  <2>7. QED BY <2>5, <2>6 DEF CleanedOK
<1>3. ASSUME NEW o \in 0 .. Len(changelog), Compact(o) \/ Expire(o) PROVE CleanedOK'
  <2>1. /\ changelog' = changelog /\ cleaned' = cleaned \cup {o}
        /\ o < Len(changelog) /\ o \in Nat
    BY <1>t, <1>3 DEF Compact, Expire, Compacted, Remaining
  <2>2. \/ \E i \in o + 1 + 1 .. Len(changelog) : changelog[i].order = changelog[o + 1].order
        \/ /\ ~ changelog[o + 1].live
           /\ \A q \in 0 .. o - 1 : changelog[q + 1].order = changelog[o + 1].order => q \in cleaned
    <3>1. CASE Compact(o)
      <4>1. PICK p \in (o + 1) .. Len(changelog) - 1 : changelog[p + 1].order = changelog[o + 1].order
        BY <3>1 DEF Compact
      <4>2. p + 1 \in o + 1 + 1 .. Len(changelog)
        BY <1>t, <2>1
      <4>3. QED BY <4>1, <4>2
    <3>2. CASE Expire(o)
      <4>1. /\ ~ changelog[o + 1].live
            /\ \A p \in Remaining(0) : p < o => changelog[p + 1].order # changelog[o + 1].order
        BY <3>2 DEF Expire
      <4>2. \A q \in 0 .. o - 1 : q \in cleaned \/ (q \in Remaining(0) /\ q < o)
        BY <1>t, <2>1 DEF Remaining
      <4>3. QED BY <4>1, <4>2
    <3>3. QED BY <1>3, <3>1, <3>2
  <2>3. QED BY <2>1, <2>2 DEF CleanedOK, Later
<1>4. QED BY <1>1, <1>2, <1>3, StepOnTopic

\* What is gone for good stays so only while nothing of the order follows.
LEMMA ExpiredBefore ==
  ASSUME TypeOK, CleanedOK, NEW n \in Members, Land(n), NEW p \in cleaned, Expired(p)'
  PROVE  Expired(p) /\ changelog'[p + 1] = changelog[p + 1]
<1>1. /\ Len(changelog) \in Nat /\ \A i \in 1 .. Len(changelog) : changelog'[i] = changelog[i]
  BY Landing
<1>2. p \in Nat /\ p + 1 \in 1 .. Len(changelog) /\ p + 1 \in 0 .. Len(changelog)
  BY <1>1 DEF TypeOK, CleanedOK
<1>3. changelog'[p + 1] = changelog[p + 1]
  BY <1>1, <1>2
<1>4. PICK k : k = changelog[p + 1].order
  OBVIOUS
<1>5. ~ Later(k, p + 1)'
  BY <1>3, <1>4 DEF Expired, Later
<1>6. ~ Later(k, p + 1)
  BY <1>2, <1>5, Grown
<1>7. QED BY <1>3, <1>4, <1>6 DEF Expired

\* What the cleaner took of an order that the reader passed over: nothing, a record that a
\* later one supersedes, or the order's last null.
LEMMA PassedOver ==
  ASSUME TypeOK, CleanedOK, NEW start \in 0 .. Len(changelog), NEW o \in Remaining(start),
         \A p \in Remaining(start) : o <= p, NEW k, changelog[o + 1].order # k
  PROVE  \/ /\ TableAt(k, o + 1) = TableAt(k, start)
            /\ Later(k, start) => Later(k, o + 1)
         \/ Later(k, o + 1)
         \/ \E p \in cleaned :
              /\ start <= p /\ p < o /\ Expired(p) /\ changelog[p + 1].order = k
              /\ ~ changelog[p + 1].live /\ TableAt(k, o + 1) = ContentOf(changelog[p + 1])
<1>t. /\ Len(changelog) \in Nat /\ start \in Nat /\ o \in start .. Len(changelog) - 1 /\ o \notin cleaned
      /\ cleaned \subseteq 0 .. Len(changelog)
  BY DEF TypeOK, Remaining
<1> DEFINE S == {i \in start + 1 .. o + 1 : changelog[i].order = k}
<1>1. CASE S = {}
  <2>1. \A i \in start + 1 .. o + 1 : changelog[i].order # k
    BY <1>1
  <2>2. start \in Nat /\ o + 1 \in Nat /\ start <= o + 1
    BY <1>t
  <2>3. Table(changelog, k, o + 1) = Table(changelog, k, start)
    BY <2>1, <2>2, TableSame
  <2>4. ASSUME Later(k, start) PROVE Later(k, o + 1)
    <3>1. PICK i \in start + 1 .. Len(changelog) : changelog[i].order = k
      BY <2>4 DEF Later
    <3>2. i \notin start + 1 .. o + 1
      BY <2>1, <3>1
    <3>3. i \in o + 1 + 1 .. Len(changelog)
      BY <1>t, <3>2
    <3>4. QED BY <3>1, <3>3 DEF Later
  <2>5. QED BY <2>3, <2>4, TableIsTableAt
<1>2. CASE S # {}
  <2>1. S \in SUBSET (1 .. o + 1) /\ o + 1 \in Nat
    BY <1>t
  <2>2. PICK i \in S : \A j \in S : j <= i
    <3> HIDE DEF S
    <3>1. QED BY <1>2, <2>1, GreatestOf
  <2>3. PICK p \in Nat : i = p + 1 /\ start <= p /\ p <= o /\ p + 1 \in 1 .. o + 1
    <3>1. i - 1 \in Nat /\ i = (i - 1) + 1 /\ start <= i - 1 /\ i - 1 <= o /\ i \in 1 .. o + 1
      BY <1>t
    <3>2. QED BY <3>1
  <2>4. p < o
    BY <1>t, <2>3
  <2>5. p \in cleaned
    <3>1. p \notin Remaining(start)
      BY <1>t, <2>3, <2>4
    <3>2. p \in start .. Len(changelog) - 1
      BY <1>t, <2>3, <2>4
    <3>3. QED BY <3>1, <3>2 DEF Remaining
  <2>6. changelog[p + 1].order = k
    BY <2>3
  <2>7. CASE Later(k, p + 1)
    <3>1. PICK j \in p + 1 + 1 .. Len(changelog) : changelog[j].order = k
      BY <2>7 DEF Later
    <3>2. j \notin S
      BY <2>2, <2>3
    <3>3. j \notin start + 1 .. o + 1
      BY <3>1, <3>2
    <3>4. j \in o + 1 + 1 .. Len(changelog)
      BY <1>t, <2>3, <3>3
    <3>5. QED BY <3>1, <3>4 DEF Later
  <2>8. CASE ~ Later(k, p + 1)
    <3>1. Expired(p) /\ ~ changelog[p + 1].live
      BY <2>5, <2>6, <2>8 DEF Expired, CleanedOK
    <3>2. \A j \in p + 1 + 1 .. o + 1 : changelog[j].order # k
      <4>1. \A j \in p + 1 + 1 .. o + 1 : j \in p + 1 + 1 .. Len(changelog)
        BY <1>t, <2>3
      <4>2. QED BY <2>8, <4>1 DEF Later
    <3>3. Table(changelog, k, o + 1) = ContentOf(changelog[p + 1])
      <4>1. PICK l \in 1 .. o + 1 : l = p + 1
        BY <2>3
      <4>2. \A j \in l + 1 .. o + 1 : changelog[j].order # k
        BY <3>2, <4>1
      <4>3. Table(changelog, k, o + 1) = ContentOf(changelog[l])
        BY <2>1, <2>6, <4>1, <4>2, TableLast
      <4>4. QED BY <4>1, <4>3
    <3>4. QED BY <2>3, <2>4, <2>5, <2>6, <3>1, <3>3, TableIsTableAt
  <2>9. QED BY <2>7, <2>8
<1>3. QED BY <1>1, <1>2

\* One record of the replay.
LEMMA DrainReads ==
  ASSUME TypeOK, CleanedOK, NEW m \in Members, Drain(m)
  PROVE  \E o \in Remaining(next[m]) :
           /\ \A p \in Remaining(next[m]) : o <= p
           /\ o \in Nat /\ o + 1 \in 1 .. Len(changelog) /\ o \notin cleaned /\ next[m] <= o
           /\ changelog[o + 1] \in Record
           /\ TableAt(changelog[o + 1].order, o + 1) = ContentOf(changelog[o + 1])
           /\ next'[m] = o + 1 /\ changelog' = changelog /\ cleaned' = cleaned
           /\ disk'[m] = [disk[m] EXCEPT ![changelog[o + 1].order] = ContentOf(changelog[o + 1])]
<1>1. PICK o \in Remaining(next[m]) :
        /\ \A p \in Remaining(next[m]) : o <= p
        /\ disk' = [disk EXCEPT ![m] = replay(disk[m], changelog[o + 1])]
        /\ next' = [next EXCEPT ![m] = o + 1]
  BY DEF Drain
<1>2. /\ next[m] \in 0 .. Len(changelog) /\ Len(changelog) \in Nat /\ changelog \in Seq(Record)
      /\ m \in DOMAIN disk /\ m \in DOMAIN next
  BY DEF TypeOK
<1>3. o \in Nat /\ o + 1 \in 1 .. Len(changelog) /\ o \notin cleaned /\ next[m] <= o
  BY <1>2 DEF Remaining
<1>4. changelog[o + 1] \in Record
  BY <1>2, <1>3
<1>5. changelog' = changelog /\ cleaned' = cleaned
  BY DEF Drain, broker
<1>6. TableAt(changelog[o + 1].order, o + 1) = ContentOf(changelog[o + 1])
  <2>1. PICK l \in Nat : l = o + 1 /\ l \in 1 .. l
    BY <1>3
  <2>2. PICK k : k = changelog[l].order
    OBVIOUS
  <2>3. \A j \in l + 1 .. l : changelog[j].order # k
    BY <2>1
  <2>4. Table(changelog, k, l) = ContentOf(changelog[l])
    BY <2>1, <2>2, <2>3, TableLast
  <2>5. QED BY <2>1, <2>2, <2>4, TableIsTableAt
<1>7. next'[m] = o + 1 /\ disk'[m] = replay(disk[m], changelog[o + 1])
  BY <1>1, <1>2
<1>8. QED BY <1>1, <1>3, <1>4, <1>5, <1>6, <1>7 DEF replay

-----------------------------------------------------------------------------
(* A full rebuild.                                                         *)

LEMMA FullInit == Init => FullInv
<1> SUFFICES ASSUME Init PROVE FullInv
  OBVIOUS
<1>1. CleanedOK
  BY DEF Init, CleanedOK
<1>2. \A m \in Members : pc[m] # "drain"
  BY DEF Init
<1>3. QED BY <1>1, <1>2, TypeInit DEF FullInv

LEMMA FullDrain ==
  ASSUME FullInv, NEW m \in Members, Drain(m), ~ resumes(m)
  PROVE  NoGhosts(m)' /\ Replayed(m)'
<1>t. TypeOK /\ CleanedOK /\ NoGhosts(m) /\ Replayed(m) /\ next[m] \in 0 .. Len(changelog)
      /\ disk[m] \in [Orders -> Content]
  BY DEF FullInv, Drain, TypeOK
<1>1. PICK o \in Remaining(next[m]) :
        /\ \A p \in Remaining(next[m]) : o <= p
        /\ o \in Nat /\ o + 1 \in 1 .. Len(changelog) /\ o \notin cleaned /\ next[m] <= o
        /\ changelog[o + 1] \in Record
        /\ TableAt(changelog[o + 1].order, o + 1) = ContentOf(changelog[o + 1])
        /\ next'[m] = o + 1 /\ changelog' = changelog /\ cleaned' = cleaned
        /\ disk'[m] = [disk[m] EXCEPT ![changelog[o + 1].order] = ContentOf(changelog[o + 1])]
  BY <1>t, DrainReads
<1>2. PICK r \in Record : r = changelog[o + 1]
  BY <1>1
<1>r. r.order \in Orders /\ disk'[m] = [disk[m] EXCEPT ![r.order] = ContentOf(r)]
  BY <1>1, <1>2 DEF Record
<1>3. \A k \in Orders : k # r.order => disk'[m][k] = disk[m][k]
  BY <1>t, <1>r
<1>4. disk'[m][r.order] = ContentOf(r)
  BY <1>t, <1>r
<1>5. ASSUME NEW p \in cleaned, o + 1 <= p, Expired(p)
      PROVE  ~ disk'[m][changelog[p + 1].order].live
  <2>1. p \in Nat /\ Len(changelog) \in Nat /\ next[m] \in Nat
    BY <1>t DEF TypeOK
  <2>2. changelog[p + 1].order # r.order
    <3>1. SUFFICES ASSUME changelog[p + 1].order = r.order PROVE FALSE
      OBVIOUS
    <3>2. \A q \in 0 .. p - 1 : changelog[q + 1].order = changelog[p + 1].order => q \in cleaned
      BY <1>t, <1>5 DEF CleanedOK, Expired
    <3>3. o \in 0 .. p - 1
      BY <1>1, <1>5, <2>1
    <3>4. QED BY <1>1, <1>2, <3>1, <3>2, <3>3
  <2>3. next[m] <= p
    BY <1>1, <1>5, <2>1
  <2>4. ~ disk[m][changelog[p + 1].order].live
    BY <1>t, <1>5, <2>3 DEF NoGhosts
  <2>5. changelog[p + 1].order \in Orders
    <3>1. p + 1 \in 1 .. Len(changelog) /\ changelog \in Seq(Record)
      BY <1>t, <2>1 DEF CleanedOK, TypeOK
    <3>2. changelog[p + 1] \in Record
      BY <3>1
    <3>3. QED BY <3>2 DEF Record
  <2>6. QED BY <1>3, <2>2, <2>4, <2>5
<1>6. NoGhosts(m)'
  BY <1>1, <1>5 DEF NoGhosts, Expired, Later
<1>7. ASSUME NEW k \in Orders PROVE Same(disk'[m][k], TableAt(k, o + 1)) \/ Later(k, o + 1)
  <2>1. CASE k = r.order
    BY <1>1, <1>2, <1>4, <2>1 DEF Same
  <2>2. CASE k # r.order
    <3>1. disk'[m][k] = disk[m][k] /\ changelog[o + 1].order # k
      BY <1>2, <1>3, <2>2
    <3>2. Same(disk[m][k], TableAt(k, next[m])) \/ Later(k, next[m])
      BY <1>t DEF Replayed
    <3>3. PICK start \in 0 .. Len(changelog) : start = next[m]
      BY <1>t
    <3>4. \/ TableAt(k, o + 1) = TableAt(k, start) /\ (Later(k, start) => Later(k, o + 1))
          \/ Later(k, o + 1)
          \/ \E p \in cleaned :
               /\ start <= p /\ p < o /\ Expired(p) /\ changelog[p + 1].order = k
               /\ ~ changelog[p + 1].live /\ TableAt(k, o + 1) = ContentOf(changelog[p + 1])
      BY <1>t, <1>1, <3>1, <3>3, PassedOver
    <3>5. ASSUME NEW p \in cleaned, start <= p, Expired(p), changelog[p + 1].order = k,
                 ~ changelog[p + 1].live, TableAt(k, o + 1) = ContentOf(changelog[p + 1])
          PROVE  Same(disk'[m][k], TableAt(k, o + 1))
      <4>1. ~ disk[m][k].live
        BY <1>t, <3>3, <3>5 DEF NoGhosts
      <4>2. TableAt(k, o + 1).live = changelog[p + 1].live
        BY <3>5 DEF ContentOf
      <4>3. disk[m][k] \in Content /\ changelog[p + 1] \in Record
        <5>1. p \in Nat /\ p + 1 \in 1 .. Len(changelog) /\ changelog \in Seq(Record)
          BY <1>t DEF CleanedOK, TypeOK
        <5>2. changelog[p + 1] \in Record
          BY <5>1
        <5>3. QED BY <1>t, <5>2
      <4>4. QED BY <3>1, <3>5, <4>1, <4>2, <4>3 DEF Same, Content, Record
    <3>6. QED BY <3>1, <3>2, <3>3, <3>4, <3>5
  <2>3. QED BY <2>1, <2>2
<1>8. Replayed(m)'
  <2>1. \A k : TableAt(k, next[m])' = TableAt(k, o + 1)
    BY <1>1 DEF TableAt
  <2>2. \A k : Later(k, next[m])' = Later(k, o + 1)
    BY <1>1 DEF Later
  <2>3. QED BY <1>7, <2>1, <2>2 DEF Replayed
<1>9. QED BY <1>6, <1>8

LEMMA FullStep == FullInv /\ [Next]_vars => FullInv'
<1> SUFFICES ASSUME FullInv, [Next]_vars PROVE FullInv'
  OBVIOUS
<1>t. TypeOK /\ CleanedOK /\ TypeOK' /\ CleanedOK'
  BY TypeStep, CleanedStep DEF FullInv
<1>1. ASSUME NEW m \in Members, pc'[m] = "drain", ~ resumes(m)'
      PROVE  NoGhosts(m)' /\ Replayed(m)'
  <2>t. /\ Len(changelog) \in Nat /\ next[m] \in 0 .. Len(changelog) /\ DOMAIN next = Members
        /\ DOMAIN disk = Members /\ cleaned \subseteq 0 .. Len(changelog) /\ changelog \in Seq(Record)
    BY DEF FullInv, TypeOK
  <2>1. CASE /\ changelog' = changelog /\ cleaned' = cleaned /\ pc'[m] = pc[m] /\ mode'[m] = mode[m]
             /\ disk'[m] = disk[m] /\ checkpoint'[m] = checkpoint[m] /\ next'[m] = next[m]
    <3>1. pc[m] = "drain" /\ ~ resumes(m)
      BY <1>1, <2>1 DEF resumes
    <3>2. NoGhosts(m) /\ Replayed(m)
      BY <3>1 DEF FullInv
    <3>3. QED BY <2>1, <3>2 DEF NoGhosts, Replayed, Expired, Later, TableAt
  <2>2. CASE Assign(m)
    <3>1. ~ resumes(m) /\ changelog' = changelog
      BY <1>1, <2>2 DEF resumes, Assign
    <3>2. next'[m] = 0 /\ disk'[m] = Empty
      BY <2>t, <2>2, <3>1 DEF Assign, kept
    <3>3. NoGhosts(m)'
      <4>1. ASSUME NEW p \in cleaned' PROVE ~ disk'[m][changelog'[p + 1].order].live
        <5>1. p \in Nat /\ p + 1 \in 1 .. Len(changelog) /\ cleaned' = cleaned
          BY <2>t, <2>2, <1>t DEF Assign, CleanedOK
        <5>2. changelog[p + 1] \in Record
          BY <2>t, <5>1
        <5>3. changelog'[p + 1].order \in Orders
          BY <3>1, <5>2 DEF Record
        <5>4. QED BY <3>2, <5>3 DEF Empty, Absent
      <4>2. QED BY <4>1 DEF NoGhosts
    <3>4. \A k : TableAt(k, next[m])' = Absent
      <4>1. \A k : {i \in 1 .. 0 : changelog'[i].order = k} = {}
        OBVIOUS
      <4>2. QED BY <3>2, <4>1 DEF TableAt
    <3>5. \A k \in Orders : Same(disk[m][k], TableAt(k, next[m]))'
      BY <3>2, <3>4 DEF Same, Empty, Absent
    <3>6. QED BY <3>3, <3>5 DEF Replayed
  <2>3. CASE Drain(m)
    <3>1. ~ resumes(m)
      BY <1>1, <2>3 DEF resumes, Drain
    <3>2. QED BY <2>3, <3>1, FullDrain
  <2>4. ASSUME NEW n \in Members, Land(n) PROVE NoGhosts(m)' /\ Replayed(m)'
    <3>1. /\ pc' = pc /\ next' = next /\ disk' = disk /\ cleaned' = cleaned
          /\ mode' = mode /\ checkpoint' = checkpoint
      BY <2>4 DEF Land
    <3>2. NoGhosts(m) /\ Replayed(m)
      BY <1>1, <3>1 DEF FullInv, resumes
    <3>3. ASSUME NEW p \in cleaned, next[m] <= p, Expired(p)'
          PROVE  ~ disk[m][changelog'[p + 1].order].live
      <4>1. Expired(p) /\ changelog'[p + 1] = changelog[p + 1]
        BY <1>t, <2>4, <3>3, ExpiredBefore
      <4>2. QED BY <3>2, <3>3, <4>1 DEF NoGhosts
    <3>4. NoGhosts(m)'
      BY <3>1, <3>3 DEF NoGhosts
    <3>5. PICK e \in 0 .. Len(changelog) : e = next[m]
      BY <2>t
    <3>6. ASSUME NEW k \in Orders PROVE Same(disk[m][k], TableAt(k, e)') \/ Later(k, e)'
      <4>1. TableAt(k, e)' = TableAt(k, e) /\ (Later(k, e) => Later(k, e)')
        BY <1>t, <2>4, Grown
      <4>2. QED BY <3>2, <3>5, <4>1 DEF Replayed
    <3>7. Replayed(m)'
      <4>1. \A k : TableAt(k, next[m])' = TableAt(k, e)'
        BY <3>1, <3>5 DEF TableAt
      <4>2. \A k : Later(k, next[m])' = Later(k, e)'
        BY <3>1, <3>5 DEF Later
      <4>3. QED BY <3>1, <3>6, <4>1, <4>2 DEF Replayed, Same
    <3>8. QED BY <3>4, <3>7
  <2>5. ASSUME NEW o \in 0 .. Len(changelog), Compact(o) \/ Expire(o)
        PROVE  NoGhosts(m)' /\ Replayed(m)'
    <3>1. /\ pc' = pc /\ next' = next /\ disk' = disk /\ changelog' = changelog
          /\ mode' = mode /\ checkpoint' = checkpoint /\ cleaned' = cleaned \cup {o}
      BY <2>5 DEF Compact, Expire, Compacted
    <3>2. NoGhosts(m) /\ Replayed(m)
      BY <1>1, <3>1 DEF FullInv, resumes
    <3>3. Replayed(m)'
      BY <3>1, <3>2 DEF Replayed, Later, TableAt
    <3>4. \A p \in cleaned : Expired(p)' => Expired(p)
      BY <3>1 DEF Expired, Later
    <3>5. ASSUME next[m] <= o, Expired(o)' PROVE FALSE
      <4>1. CASE Compact(o)
        <5>1. PICK p \in (o + 1) .. Len(changelog) - 1 : changelog[p + 1].order = changelog[o + 1].order
          BY <4>1 DEF Compact
        <5>2. p + 1 \in o + 1 + 1 .. Len(changelog)
          BY <2>t
        <5>3. QED BY <3>1, <3>5, <5>1, <5>2 DEF Expired, Later
      <4>2. CASE Expire(o)
        BY <1>1, <3>1, <3>5, <4>2 DEF Expire, Awaited
      <4>3. QED BY <2>5, <4>1, <4>2
    <3>6. NoGhosts(m)'
      BY <3>1, <3>2, <3>4, <3>5 DEF NoGhosts
    <3>7. QED BY <3>3, <3>6
  <2>6. QED BY <1>t, <1>1, <2>1, <2>2, <2>3, <2>4, <2>5, StepFor
<1>2. QED BY <1>t, <1>1 DEF FullInv

\* R7.9 for every set of members, orders and writes: a rebuild from the beginning ends with
\* exactly what the changelog says, although the cleaner removes records under it.
THEOREM FullRebuildEndsExact == Spec => []FullRebuildIsExact
<1>1. Spec => []FullInv
  BY FullInit, FullStep, PTL DEF Spec
<1>2. FullInv => FullRebuildIsExact
  <2>1. SUFFICES ASSUME FullInv, NEW m \in Members, Drained(m), ~ resumes(m)
                 PROVE  \A k \in Orders : \/ Same(disk[m][k], TableAt(k, next[m]))
                                          \/ \E i \in next[m] + 1 .. Len(changelog) : changelog[i].order = k
    BY DEF FullRebuildIsExact
  <2>2. Replayed(m)
    BY <2>1 DEF FullInv, Drained
  <2>3. QED BY <2>2 DEF Replayed, Later
<1>3. QED BY <1>1, <1>2, PTL

-----------------------------------------------------------------------------
(* Every rebuild, while the holder alone writes: what a step is to one     *)
(* member.                                                                 *)

\* The step leaves the member, and the changelog it reads, as they are.
Aside(m) ==
  /\ changelog' = changelog /\ cleaned' = cleaned
  /\ pc'[m] = pc[m] /\ mode'[m] = mode[m] /\ disk'[m] = disk[m] /\ checkpoint'[m] = checkpoint[m]
  /\ mark'[m] = mark[m] /\ next'[m] = next[m] /\ high'[m] = high[m]
  /\ owner' = m => owner = m
  /\ writes <= writes'
  /\ m \in outlived => m \in outlived'
  /\ m \in overstated => m \in overstated'

LEMMA StepAmong ==
  ASSUME TypeOK, [Next]_vars, NEW m \in Members
  PROVE  \/ Aside(m) /\ unsent'[m] = unsent[m]
         \/ Aside(m) /\ unsent[m] # << >> /\ unsent'[m] = Tail(unsent[m]) /\ writes' = writes
         \/ (\E setting \in Modes[m] : Start(m, setting)) \/ Crash(m) \/ GiveUp(m)
         \/ Assign(m) \/ Drain(m) \/ DrainFails(m) \/ Restored(m)
         \/ \E k \in Orders, live \in BOOLEAN : Write(m, k, live)
         \/ \E n \in Members : Land(n) /\ (mark'[m] = mark[m] \/ (n = m /\ mark'[m] = Len(changelog) + 1))
         \/ \E o \in 0 .. Len(changelog) : Compact(o) \/ Expire(o)
<1> DEFINE Still == Aside(m) /\ unsent'[m] = unsent[m]
<1>t. /\ DOMAIN pc = Members /\ DOMAIN mode = Members /\ DOMAIN disk = Members
      /\ DOMAIN checkpoint = Members /\ DOMAIN next = Members /\ DOMAIN high = Members
      /\ DOMAIN mark = Members /\ DOMAIN unsent = Members
      /\ writes \in Nat /\ Len(changelog) \in Nat /\ mark[m] \in (0 .. Len(changelog)) \cup {None}
      /\ NoMember \notin Members
  BY RebuildAssumption DEF TypeOK
<1> USE DEF broker, Goto
<1>1. ASSUME NEW n \in Members, n # m, NEW setting \in Modes[n], Start(n, setting) PROVE Still
  BY <1>t, <1>1 DEF Start, Aside
<1>2. ASSUME NEW n \in Members, n # m, Crash(n) PROVE Still
  BY <1>t, <1>2 DEF Crash, Returned, CutShort, Aside
<1>3. ASSUME NEW n \in Members, Evict(n) PROVE Still
  BY <1>t, <1>3 DEF Evict, Aside
<1>4. ASSUME NEW n \in Members, n # m, GiveUp(n) PROVE Still
  BY <1>t, <1>4 DEF GiveUp, Forget, Aside
<1>5. ASSUME NEW n \in Members, n # m, Assign(n) PROVE Still
  BY <1>t, <1>5 DEF Assign, Aside
<1>6. ASSUME NEW n \in Members, n # m, Drain(n) PROVE Still
  BY <1>t, <1>6 DEF Drain, Aside
<1>7. ASSUME NEW n \in Members, n # m, Restored(n) PROVE Still
  BY <1>t, <1>7 DEF Restored, Returned, Aside
<1>8. ASSUME NEW n \in Members, n # m, NEW k \in Orders, NEW live \in BOOLEAN, Write(n, k, live)
      PROVE  Still
  BY <1>t, <1>8 DEF Write, Aside
<1>9. ASSUME NEW n \in Members, Deliver(n)
      PROVE  Land(n) /\ (mark'[m] = mark[m] \/ (n = m /\ mark'[m] = Len(changelog) + 1))
  <2>1. Land(n)
    BY <1>9 DEF Deliver
  <2>2. CASE n # m
    BY <1>t, <1>9, <2>1, <2>2 DEF Deliver
  <2>3. CASE n = m
    <3>1. mark[m] = None \/ mark[m] <= Len(changelog)
      BY <1>t
    <3>2. QED BY <1>t, <1>9, <2>1, <2>3, <3>1 DEF Deliver
  <2>4. QED BY <2>2, <2>3
<1>10. ASSUME NEW n \in Members, DeliveryFails(n)
       PROVE  \/ Still
              \/ Land(n) /\ mark'[m] = mark[m]
              \/ Aside(m) /\ unsent[m] # << >> /\ unsent'[m] = Tail(unsent[m]) /\ writes' = writes
  <2>1. mark' = mark /\ unsent[n] # << >>
    BY <1>10 DEF DeliveryFails
  <2>2. CASE Land(n)
    BY <2>1, <2>2
  <2>3. CASE /\ unsent' = [unsent EXCEPT ![n] = Tail(unsent[n])]
             /\ UNCHANGED <<owner, broker, pc, mode, disk, checkpoint, next, high, writes>>
    <3>1. Aside(m)
      BY <1>t, <2>1, <2>3 DEF Aside
    <3>2. CASE n = m
      BY <1>t, <2>1, <2>3, <3>1, <3>2
    <3>3. CASE n # m
      BY <1>t, <2>1, <2>3, <3>1, <3>3
    <3>4. QED BY <3>2, <3>3
  <2>4. QED BY <1>10, <2>2, <2>3 DEF DeliveryFails
<1>11. ASSUME NEW n \in Members, n # m, DrainFails(n) PROVE Still
  <2>1. PICK file : checkpoint' = [checkpoint EXCEPT ![n] = file] /\ CutShort(n, file)
    BY <1>11 DEF DrainFails
  <2>2. m \in overstated => m \in overstated'
    BY <2>1 DEF CutShort
  <2>3. checkpoint'[m] = checkpoint[m]
    BY <1>t, <1>11, <2>1
  <2>4. QED BY <1>t, <1>11, <2>2, <2>3 DEF DrainFails, Forget, Returned, Aside
<1>12. CASE UNCHANGED vars
  BY <1>t, <1>12 DEF vars, Aside
<1> HIDE DEF Still
<1>13. ASSUME NEW n \in Members, n # m, MemberStep(n)
       PROVE  \/ Still
              \/ Aside(m) /\ unsent[m] # << >> /\ unsent'[m] = Tail(unsent[m]) /\ writes' = writes
              \/ Land(n) /\ (mark'[m] = mark[m] \/ (n = m /\ mark'[m] = Len(changelog) + 1))
  BY <1>1, <1>2, <1>3, <1>4, <1>5, <1>6, <1>7, <1>8, <1>9, <1>10, <1>11, <1>13 DEF MemberStep
<1>14. CASE \E n \in Members : n # m /\ MemberStep(n)
  BY <1>13, <1>14 DEF Still
<1>15. CASE MemberStep(m)
  BY <1>3, <1>9, <1>10, <1>15 DEF MemberStep, Still
<1>16. QED BY <1>12, <1>14, <1>15, NextSteps DEF Still, CleanerStep

\* Once records were left under way, they were; and only the owner appends before that.
LEMMA StraggledStays ==
  ASSUME TypeOK, [Next]_vars, ~ straggled'
  PROVE  ~ straggled
<1>1. ASSUME NEW m \in Members, Land(m) PROVE ~ straggled
  BY <1>1 DEF Land
<1>2. ASSUME NEW m \in Members, GiveUp(m) \/ DrainFails(m) PROVE ~ straggled
  BY <1>2 DEF GiveUp, DrainFails, Forget
<1>3. ASSUME NEW m \in Members, MemberStep(m) PROVE ~ straggled
  BY <1>1, <1>2, <1>3 DEF MemberStep, broker, Start, Crash, Evict, Assign, Drain, Restored, Write, Deliver,
     DeliveryFails
<1>4. CASE CleanerStep
  BY <1>4 DEF CleanerStep, Compact, Expire, Compacted
<1>5. QED BY <1>3, <1>4, NextSteps DEF vars, broker

\* What the changelog says of an order at its end is no newer than what was written.
LEMMA TableStamp ==
  ASSUME TypeOK, StampsOK, NEW k
  PROVE  TableAt(k, Len(changelog)).stamp \in Nat /\ TableAt(k, Len(changelog)).stamp <= writes
<1>t. writes \in Nat
  BY DEF TypeOK
<1>1. PICK n \in Nat : n = Len(changelog)
  BY DEF TypeOK
<1>2. CASE Table(changelog, k, n) = Absent
  BY <1>t, <1>1, <1>2, TableIsTableAt DEF Absent
<1>3. ASSUME NEW i \in 1 .. n, Table(changelog, k, n) = ContentOf(changelog[i])
      PROVE  TableAt(k, n).stamp \in Nat /\ TableAt(k, n).stamp <= writes
  <2>1. changelog[i].stamp \in 1 .. writes
    BY <1>1 DEF StampsOK
  <2>2. TableAt(k, n).stamp = changelog[i].stamp
    BY <1>3, TableIsTableAt DEF ContentOf
  <2>3. QED BY <1>t, <2>1, <2>2
<1>4. QED BY <1>1, <1>2, <1>3, TableIs

\* While nothing straggles, it is the owner at work that appends.
LEMMA OwnerLands ==
  ASSUME TypeOK, SentOK, NEW n \in Members, Land(n), ~ straggled'
  PROVE  owner = n /\ pc[n] = "work" /\ ~ straggled
<1>1. ~ straggled /\ owner = n
  BY DEF Land
<1>2. unsent[n] # << >>
  BY DEF Land
<1>3. QED BY <1>1, <1>2 DEF SentOK, WriterOK

LEMMA StampsStep ==
  ASSUME TypeOK, SentOK, [Next]_vars, ~ straggled'
  PROVE  StampsOK'
<1>1. ~ straggled /\ StampsOK
  BY StraggledStays DEF SentOK
<1>t. writes \in Nat /\ Len(changelog) \in Nat
  BY DEF TypeOK
<1>2. CASE changelog' = changelog
  <2>1. writes' = writes \/ writes' = writes + 1
    BY DEF Next, vars, broker, Start, Crash, Evict, GiveUp, Assign, Drain, DrainFails, Restored, Write,
           Deliver, DeliveryFails, Land, Compact, Expire, Compacted
  <2>2. \A s \in 1 .. writes : s \in 1 .. writes'
    BY <1>t, <2>1
  <2>3. QED BY <1>1, <1>2, <2>2 DEF StampsOK
<1>3. ASSUME NEW n \in Members, Land(n) PROVE StampsOK'
  <2>1. /\ Len(changelog') = Len(changelog) + 1 /\ changelog'[Len(changelog) + 1] = unsent[n][1]
        /\ \A i \in 1 .. Len(changelog) : changelog'[i] = changelog[i]
        /\ 1 \in 1 .. Len(unsent[n])
    BY <1>3, Landing
  <2>2. unsent[n][1].stamp \in 1 .. writes /\ writes' = writes
    BY <1>1, <1>3, <2>1 DEF SentOK, WriterOK, Land
  <2>3. \A i \in 1 .. Len(changelog') : i \in 1 .. Len(changelog) \/ i = Len(changelog) + 1
    BY <1>t, <2>1
  <2>4. QED BY <1>1, <2>1, <2>2, <2>3 DEF StampsOK
<1>4. ASSUME NEW o \in 0 .. Len(changelog), Compact(o) \/ Expire(o) PROVE changelog' = changelog
  BY <1>4 DEF Compact, Expire, Compacted
<1>5. QED BY <1>2, <1>3, <1>4, StepOnTopic

\* The records of q are newer than nothing the directory d has of their orders.
Fits(q, d, w) ==
  \A i \in 1 .. Len(q) :
    /\ q[i].stamp \in 1 .. w
    /\ d[q[i].order].stamp > q[i].stamp \/ d[q[i].order] = ContentOf(q[i])

\* So are what is left of them, and one more that is stored as it is enqueued.
LEMMA FitsTail ==
  ASSUME NEW q \in Seq(Record), q # << >>, NEW d, NEW w, Fits(q, d, w)
  PROVE  Fits(Tail(q), d, w)
<1>1. /\ Len(q) \in Nat /\ Len(Tail(q)) = Len(q) - 1
      /\ \A i \in 1 .. Len(q) - 1 : Tail(q)[i] = q[i + 1]
  OBVIOUS
<1>2. \A i \in 1 .. Len(Tail(q)) : i + 1 \in 1 .. Len(q) /\ Tail(q)[i] = q[i + 1]
  BY <1>1
<1>3. QED BY <1>2 DEF Fits

LEMMA FitsWritten ==
  ASSUME NEW q \in Seq(Record), NEW d \in [Orders -> Content], NEW w \in Nat, Fits(q, d, w),
         NEW r \in Record, r.stamp = w + 1
  PROVE  Fits(Append(q, r), [d EXCEPT ![r.order] = ContentOf(r)], w + 1)
<1> DEFINE p == Append(q, r)
           e == [d EXCEPT ![r.order] = ContentOf(r)]
<1>1. /\ Len(q) \in Nat /\ Len(p) = Len(q) + 1 /\ p[Len(q) + 1] = r
      /\ \A i \in 1 .. Len(q) : p[i] = q[i]
  OBVIOUS
<1>2. r.order \in Orders /\ e[r.order] = ContentOf(r) /\ \A k \in Orders : k # r.order => e[k] = d[k]
  BY DEF Record
<1> HIDE DEF p, e
<1>3. ASSUME NEW i \in 1 .. Len(p)
      PROVE  /\ p[i].stamp \in 1 .. w + 1
             /\ e[p[i].order].stamp > p[i].stamp \/ e[p[i].order] = ContentOf(p[i])
  <2>1. CASE i = Len(q) + 1
    BY <1>1, <1>2, <2>1
  <2>2. CASE i \in 1 .. Len(q)
    <3>1. PICK s \in Record : s = q[i] /\ p[i] = s
      BY <1>1, <2>2
    <3>2. /\ s.stamp \in 1 .. w /\ s.order \in Orders
          /\ d[s.order].stamp > s.stamp \/ d[s.order] = ContentOf(s)
      BY <2>2, <3>1 DEF Fits, Record
    <3>3. CASE s.order = r.order
      <4>1. e[s.order].stamp = w + 1
        BY <1>2, <3>3 DEF ContentOf
      <4>2. QED BY <3>1, <3>2, <4>1
    <3>4. CASE s.order # r.order
      <4>1. e[s.order] = d[s.order]
        BY <1>2, <3>2, <3>4
      <4>2. s.stamp \in 1 .. w + 1
        BY <3>2
      <4>3. QED BY <3>1, <3>2, <4>1, <4>2
    <3>5. QED BY <3>3, <3>4
  <2>3. QED BY <1>1, <2>1, <2>2
<1>4. Fits(p, e, w + 1)
  BY <1>3 DEF Fits
<1>5. QED BY <1>4 DEF p, e

LEMMA WriterIs ==
  ASSUME NEW m
  PROVE  WriterOK(m) <=> /\ pc[m] # "work" => unsent[m] = << >>
                         /\ pc[m] = "drain" /\ owner = m => high[m] = Len(changelog)
                         /\ Fits(unsent[m], disk[m], writes)
  BY DEF WriterOK, Fits

LEMMA WriterNext ==
  ASSUME NEW m
  PROVE  WriterOK(m)' <=> /\ pc'[m] # "work" => unsent'[m] = << >>
                          /\ pc'[m] = "drain" /\ owner' = m => high'[m] = Len(changelog')
                          /\ Fits(unsent'[m], disk'[m], writes')
  BY DEF WriterOK, Fits

LEMMA WriterStep ==
  ASSUME TypeOK, SentOK, [Next]_vars, ~ straggled', NEW m \in Members
  PROVE  WriterOK(m)'
<1>1. ~ straggled /\ StampsOK /\ WriterOK(m)
  BY StraggledStays DEF SentOK
<1>t. /\ writes \in Nat /\ Len(changelog) \in Nat /\ unsent[m] \in Seq(Record)
      /\ DOMAIN pc = Members /\ DOMAIN unsent = Members /\ DOMAIN disk = Members /\ DOMAIN high = Members
      /\ disk[m] \in [Orders -> Content]
  BY DEF TypeOK
<1>n. writes' \in Nat
  <2>1. TypeOK'
    BY TypeStep
  <2>2. QED BY <2>1 DEF TypeOK
<1>f. /\ Fits(unsent[m], disk[m], writes)
      /\ pc[m] # "work" => unsent[m] = << >>
      /\ pc[m] = "drain" /\ owner = m => high[m] = Len(changelog)
  BY <1>1, WriterIs
<1>2. CASE Aside(m) /\ unsent'[m] = unsent[m]
  <2>1. /\ changelog' = changelog /\ pc'[m] = pc[m] /\ disk'[m] = disk[m] /\ high'[m] = high[m]
        /\ (owner' = m => owner = m) /\ writes <= writes' /\ unsent'[m] = unsent[m]
    BY <1>2 DEF Aside
  <2>2. \A s \in 1 .. writes : s \in 1 .. writes'
    BY <1>t, <1>n, <2>1
  <2>3. Fits(unsent'[m], disk'[m], writes')
    BY <1>f, <2>1, <2>2 DEF Fits
  <2>4. QED BY <1>f, <2>1, <2>3, WriterNext
<1>3. CASE Aside(m) /\ unsent[m] # << >> /\ unsent'[m] = Tail(unsent[m]) /\ writes' = writes
  <2>1. /\ changelog' = changelog /\ pc'[m] = pc[m] /\ disk'[m] = disk[m] /\ high'[m] = high[m]
        /\ (owner' = m => owner = m)
    BY <1>3 DEF Aside
  <2>2. Fits(unsent'[m], disk'[m], writes')
    <3>1. Fits(Tail(unsent[m]), disk[m], writes)
      BY <1>t, <1>f, <1>3, FitsTail
    <3>2. QED BY <1>3, <2>1, <3>1
  <2>3. pc'[m] = "work"
    BY <1>f, <1>3, <2>1
  <2>4. QED BY <2>2, <2>3, WriterNext
<1>4. ASSUME unsent'[m] = << >>, pc'[m] = "drain" /\ owner' = m => high'[m] = Len(changelog')
      PROVE  WriterOK(m)'
  <2>1. Fits(unsent'[m], disk'[m], writes')
    BY <1>4 DEF Fits
  <2>2. QED BY <1>4, <2>1, WriterNext
<1> USE DEF broker, Goto
<1>5. ASSUME NEW setting \in Modes[m], Start(m, setting) PROVE WriterOK(m)'
  <2>1. unsent'[m] = << >> /\ pc'[m] = "idle"
    BY <1>t, <1>5 DEF Start
  <2>2. QED BY <1>4, <2>1
<1>6. CASE Crash(m)
  <2>1. unsent'[m] = << >> /\ pc'[m] = "down"
    BY <1>t, <1>6 DEF Crash
  <2>2. QED BY <1>4, <2>1
<1>7. CASE GiveUp(m) \/ DrainFails(m)
  <2>1. unsent[m] = << >> /\ pc'[m] # "drain"
    BY <1>t, <1>f, <1>7 DEF GiveUp, DrainFails, Forget
  <2>2. unsent' = unsent
    BY <1>7 DEF GiveUp, DrainFails
  <2>3. QED BY <1>4, <2>1, <2>2
<1>8. CASE Assign(m)
  <2>1. unsent'[m] = << >> /\ high'[m] = Len(changelog')
    BY <1>t, <1>f, <1>8 DEF Assign
  <2>2. QED BY <1>4, <2>1
<1>9. CASE Drain(m) \/ Restored(m)
  <2>1. unsent'[m] = << >> /\ (pc'[m] = "drain" /\ owner' = m => high'[m] = Len(changelog'))
    BY <1>t, <1>f, <1>9 DEF Drain, Restored, Drained
  <2>2. QED BY <1>4, <2>1
<1>10. ASSUME NEW k \in Orders, NEW live \in BOOLEAN, Write(m, k, live) PROVE WriterOK(m)'
  <2>1. PICK w \in Nat : w = writes
    BY <1>t
  <2>2. PICK r \in Record : r = [order |-> k, stamp |-> w + 1, live |-> live]
    <3>1. PICK s \in Nat : s = w + 1
      OBVIOUS
    <3>2. [order |-> k, stamp |-> s, live |-> live] \in Record
      BY DEF Record
    <3>3. QED BY <3>1, <3>2
  <2>3. /\ unsent'[m] = Append(unsent[m], r) /\ disk'[m] = [disk[m] EXCEPT ![r.order] = ContentOf(r)]
        /\ writes' = w + 1 /\ pc'[m] = "work"
    BY <1>t, <1>10, <2>1, <2>2 DEF Write
  <2>4. r.stamp = w + 1
    BY <2>2
  <2>5. Fits(Append(unsent[m], r), [disk[m] EXCEPT ![r.order] = ContentOf(r)], w + 1)
    BY <1>t, <1>f, <2>1, <2>4, FitsWritten
  <2>6. QED BY <2>3, <2>5, WriterNext
<1>11. ASSUME NEW n \in Members, Land(n) PROVE WriterOK(m)'
  <2>1. owner = n /\ pc[n] = "work"
    BY <1>11, OwnerLands
  <2>2. /\ owner' = owner /\ pc' = pc /\ disk' = disk /\ high' = high /\ writes' = writes
        /\ unsent' = [unsent EXCEPT ![n] = Tail(unsent[n])] /\ unsent[n] # << >>
    BY <1>11 DEF Land
  <2>3. ~ (pc'[m] = "drain" /\ owner' = m)
    BY <2>1, <2>2
  <2>4. CASE m # n
    <3>1. unsent'[m] = unsent[m]
      BY <1>t, <2>2, <2>4
    <3>2. QED BY <1>f, <2>2, <2>3, <3>1, WriterNext
  <2>5. CASE m = n
    <3>1. Fits(Tail(unsent[m]), disk[m], writes)
      BY <1>t, <1>f, <2>2, <2>5, FitsTail
    <3>2. unsent'[m] = Tail(unsent[m])
      BY <1>t, <2>2, <2>5
    <3>3. QED BY <2>1, <2>2, <2>3, <2>5, <3>1, <3>2, WriterNext
  <2>6. QED BY <2>4, <2>5
<1>12. ASSUME NEW o \in 0 .. Len(changelog), Compact(o) \/ Expire(o) PROVE WriterOK(m)'
  <2>1. /\ owner' = owner /\ pc' = pc /\ disk' = disk /\ high' = high /\ writes' = writes
        /\ unsent' = unsent /\ changelog' = changelog
    BY <1>12 DEF Compact, Expire, Compacted
  <2>2. QED BY <1>f, <2>1, WriterNext
<1>13. QED BY <1>2, <1>3, <1>5, <1>6, <1>7, <1>8, <1>9, <1>10, <1>11, <1>12, StepAmong

LEMMA SentStep == TypeOK /\ SentOK /\ [Next]_vars => SentOK'
  BY StampsStep, WriterStep DEF SentOK

-----------------------------------------------------------------------------
(* What a directory is good for.                                           *)

\* From an earlier offset it is, too.
LEMMA SoundEarlier ==
  ASSUME TypeOK, NEW m, NEW n \in 0 .. Len(changelog), NEW c \in 0 .. Len(changelog), c <= n, Sound(m, n)
  PROVE  Sound(m, c)
<1>1. Remaining(n) \subseteq Remaining(c)
  BY DEF Remaining, TypeOK
<1>2. QED BY <1>1 DEF Sound, Awaits

\* At its end the changelog has nothing more to say.
LEMMA SoundAtEnd ==
  ASSUME TypeOK, NEW m
  PROVE  Sound(m, Len(changelog)) <=> \A k \in Orders : Settled(m, k)
<1>1. Remaining(Len(changelog)) = {}
  BY DEF Remaining, TypeOK
<1>2. QED BY <1>1 DEF Sound, Awaits

\* A step that leaves directory and changelog alone leaves it as good.
LEMMA SoundStays ==
  ASSUME NEW m, NEW c, disk'[m] = disk[m], changelog' = changelog, cleaned' = cleaned
  PROVE  /\ Sound(m, c) => Sound(m, c)'
         /\ \A k \in Orders : Settled(m, k) => Settled(m, k)'
<1>1. ASSUME NEW k \in Orders PROVE Settled(m, k) => Settled(m, k)'
  BY DEF Settled, TableAt
<1>2. \A k : Awaits(k, c) => Awaits(k, c)'
  BY DEF Awaits, Remaining, Later
<1>3. QED BY <1>1, <1>2 DEF Sound

\* The offset itself read in the next state.
LEMMA SoundNext ==
  ASSUME NEW m, NEW c, Sound(m, c)'
  PROVE  /\ checkpoint'[m] = c => Sound(m, checkpoint[m])'
         /\ mark'[m] = c => Sound(m, mark[m])'
         /\ next'[m] = c => Sound(m, next[m])'
<1>1. ASSUME checkpoint'[m] = c PROVE Sound(m, checkpoint[m])'
  BY <1>1 DEF Sound, Awaits, Remaining
<1>2. ASSUME mark'[m] = c PROVE Sound(m, mark[m])'
  BY <1>2 DEF Sound, Awaits, Remaining
<1>3. ASSUME next'[m] = c PROVE Sound(m, next[m])'
  BY <1>3 DEF Sound, Awaits, Remaining
<1>4. QED BY <1>1, <1>2, <1>3

\* A reading from the beginning meets the last record of an order that is not deleted.
LEMMA FromNothing ==
  ASSUME TypeOK, CleanedOK, NEW k
  PROVE  TableAt(k, Len(changelog)).live = FALSE \/ Awaits(k, 0)
<1>1. PICK n \in Nat : n = Len(changelog)
  BY DEF TypeOK
<1>2. CASE Table(changelog, k, n) = Absent
  BY <1>1, <1>2, TableIsTableAt DEF Absent
<1>3. ASSUME NEW i \in 1 .. n, changelog[i].order = k, Table(changelog, k, n) = ContentOf(changelog[i]),
             \A j \in 1 .. n : changelog[j].order = k => j <= i
      PROVE  TableAt(k, Len(changelog)).live = FALSE \/ Awaits(k, 0)
  <2>1. PICK o \in 0 .. Len(changelog) - 1 : i = o + 1
    <3>1. i - 1 \in 0 .. Len(changelog) - 1 /\ i = (i - 1) + 1
      BY <1>1
    <3>2. QED BY <3>1
  <2>2. ~ Later(k, o + 1)
    <3>1. \A j \in o + 1 + 1 .. Len(changelog) : j \in 1 .. n /\ ~ (j <= i)
      BY <1>1, <2>1
    <3>2. QED BY <1>3, <3>1 DEF Later
  <2>3. CASE o \notin cleaned
    <3>1. o \in Remaining(0)
      BY <2>1, <2>3 DEF Remaining
    <3>2. QED BY <1>3, <2>1, <2>2, <3>1 DEF Awaits
  <2>4. CASE o \in cleaned
    <3>1. ~ changelog[o + 1].live
      BY <1>3, <2>1, <2>2, <2>4 DEF CleanedOK
    <3>2. TableAt(k, Len(changelog)).live = changelog[o + 1].live
      BY <1>1, <1>3, <2>1, TableIsTableAt DEF ContentOf
    <3>3. changelog[o + 1] \in Record
      BY <1>1, <2>1 DEF TypeOK
    <3>4. QED BY <3>1, <3>2, <3>3 DEF Record
  <2>5. QED BY <2>3, <2>4
<1>4. \/ Table(changelog, k, n) = Absent
      \/ \E i \in 1 .. n :
           /\ changelog[i].order = k /\ Table(changelog, k, n) = ContentOf(changelog[i])
           /\ \A j \in 1 .. n : changelog[j].order = k => j <= i
  BY TableIs
<1> DEFINE Said == TableAt(k, Len(changelog)).live = FALSE
<1>5. Said \/ Awaits(k, 0)
  <2>1. CASE Table(changelog, k, n) = Absent
    BY <1>2, <2>1
  <2>2. CASE Table(changelog, k, n) # Absent
    <3> HIDE DEF Said
    <3>1. QED BY <1>3, <1>4, <2>2 DEF Said
  <2>3. QED BY <2>1, <2>2
<1>6. QED BY <1>5

\* A record that lands is the last of its order, and there.
LEMMA SoundGrown ==
  ASSUME TypeOK, CleanedOK, NEW n \in Members, Land(n), NEW m, NEW c \in 0 .. Len(changelog), Sound(m, c)
  PROVE  Sound(m, c)'
<1>1. PICK e \in Nat : e = Len(changelog)
  BY DEF TypeOK
<1>2. PICK r : r = unsent[n][1]
  OBVIOUS
<1>3. /\ Len(changelog') = e + 1 /\ changelog'[e + 1] = r
      /\ \A i \in 1 .. e : changelog'[i] = changelog[i]
  BY <1>1, <1>2, Landing
<1>4. disk' = disk /\ cleaned' = cleaned
  BY DEF Land
<1>5. e \notin cleaned
  BY <1>1 DEF CleanedOK
<1>6. ASSUME NEW k \in Orders PROVE Settled(m, k)' \/ Awaits(k, c)'
  <2>1. CASE r.order = k
    <3>1. e \in Remaining(c)'
      BY <1>1, <1>3, <1>4, <1>5 DEF Remaining
    <3>2. ~ Later(k, e + 1)'
      BY <1>3 DEF Later
    <3>3. QED BY <1>3, <2>1, <3>1, <3>2 DEF Awaits
  <2>2. CASE r.order # k
    <3>1. TableAt(k, Len(changelog))' = TableAt(k, Len(changelog))
      <4>1. PICK l \in Nat : l = e + 1 /\ e <= l /\ \A j \in e + 1 .. l : j = l
        BY <1>1
      <4>2. PICK dl : dl = changelog'
        OBVIOUS
      <4>3. \A j \in e + 1 .. l : dl[j].order # k
        BY <1>3, <2>2, <4>1, <4>2
      <4>4. Table(dl, k, l) = Table(changelog, k, e)
        BY <1>3, <4>1, <4>2, <4>3, TableSame
      <4>5. TableAt(k, l)' = TableAt(k, e)
        BY <4>2, <4>4, TableIsTableAt, TableAtNext
      <4>6. TableAt(k, Len(changelog))' = TableAt(k, l)'
        BY <1>3, <4>1 DEF TableAt
      <4>7. QED BY <1>1, <4>5, <4>6
    <3>2. CASE Settled(m, k)
      BY <1>4, <3>1, <3>2 DEF Settled, Same
    <3>3. CASE Awaits(k, c)
      <4>1. PICK o \in Remaining(c) : changelog[o + 1].order = k /\ ~ Later(k, o + 1)
        BY <3>3 DEF Awaits
      <4>2. o \in Nat /\ o + 1 \in 1 .. e /\ o \in Remaining(c)'
        BY <1>1, <1>3, <1>4 DEF Remaining
      <4>3. ASSUME NEW i \in o + 1 + 1 .. e + 1 PROVE changelog'[i].order # k
        <5>1. CASE i = e + 1
          BY <1>3, <2>2, <5>1
        <5>2. CASE i \in o + 1 + 1 .. e
          <6>1. changelog'[i] = changelog[i]
            BY <1>3, <4>2, <5>2
          <6>2. QED BY <1>1, <4>1, <5>2, <6>1 DEF Later
        <5>3. QED BY <1>1, <4>2, <5>1, <5>2
      <4>4. ~ Later(k, o + 1)'
        BY <1>3, <4>3 DEF Later
      <4>5. changelog'[o + 1].order = k
        BY <1>3, <4>1, <4>2
      <4>6. QED BY <4>2, <4>4, <4>5 DEF Awaits
    <3>4. QED BY <3>2, <3>3 DEF Sound
  <2>3. QED BY <2>1, <2>2
<1>7. QED BY <1>6 DEF Sound

\* The cleaner leaves an order's last record alone, but for a null before offset c.
LEMMA SoundCleaned ==
  ASSUME TypeOK, NEW o \in 0 .. Len(changelog), Compact(o) \/ Expire(o), NEW m,
         NEW c \in 0 .. Len(changelog), Sound(m, c), Expire(o) => o < c
  PROVE  Sound(m, c)'
<1>1. disk' = disk /\ changelog' = changelog /\ cleaned' = cleaned \cup {o}
  BY DEF Compact, Expire, Compacted
<1>2. \A k \in Orders : Settled(m, k) => Settled(m, k)'
  BY <1>1 DEF Settled, TableAt
<1>3. ASSUME NEW k, NEW q \in Remaining(c), changelog[q + 1].order = k, ~ Later(k, q + 1)
      PROVE  q # o
  <2>1. CASE Compact(o)
    <3>1. PICK p \in (o + 1) .. Len(changelog) - 1 : changelog[p + 1].order = changelog[o + 1].order
      BY <2>1 DEF Compact
    <3>2. p + 1 \in o + 1 + 1 .. Len(changelog)
      BY DEF TypeOK
    <3>3. QED BY <1>3, <3>1, <3>2 DEF Later
  <2>2. CASE Expire(o)
    BY <2>2 DEF Remaining
  <2>3. QED BY <2>1, <2>2
<1>4. ASSUME NEW k, Awaits(k, c) PROVE Awaits(k, c)'
  <2>1. PICK q \in Remaining(c) : changelog[q + 1].order = k /\ ~ Later(k, q + 1)
    BY <1>4 DEF Awaits
  <2>2. q \in Remaining(c)'
    BY <1>1, <1>3, <2>1 DEF Remaining
  <2>3. changelog'[q + 1].order = k /\ ~ Later(k, q + 1)'
    BY <1>1, <2>1 DEF Later
  <2>4. QED BY <2>2, <2>3 DEF Awaits
<1>5. QED BY <1>2, <1>4 DEF Sound

\* What a member stores itself is newer than all of the changelog.
LEMMA SoundWritten ==
  ASSUME TypeOK, StampsOK, NEW m \in Members, NEW k \in Orders, NEW live \in BOOLEAN, Write(m, k, live)
  PROVE  /\ \A c : Sound(m, c) => Sound(m, c)'
         /\ \A l \in Orders : Settled(m, l) => Settled(m, l)'
<1>t. disk[m] \in [Orders -> Content] /\ DOMAIN disk = Members /\ writes \in Nat
  BY DEF TypeOK
<1>1. PICK new : new = [stamp |-> writes + 1, live |-> live]
  OBVIOUS
<1>2. disk'[m] = [disk[m] EXCEPT ![k] = new] /\ changelog' = changelog /\ cleaned' = cleaned
  BY <1>t, <1>1 DEF Write, broker, ContentOf
<1>3. \A l : TableAt(l, Len(changelog))' = TableAt(l, Len(changelog))
  BY <1>2 DEF TableAt
<1>4. Settled(m, k)'
  <2>1. TableAt(k, Len(changelog)).stamp \in Nat /\ TableAt(k, Len(changelog)).stamp <= writes
    BY TableStamp
  <2>2. disk'[m][k] = new /\ new.stamp > TableAt(k, Len(changelog)).stamp
    BY <1>t, <1>1, <1>2, <2>1
  <2>3. QED BY <1>3, <2>2 DEF Settled
<1>5. ASSUME NEW l \in Orders, Settled(m, l) PROVE Settled(m, l)'
  <2>1. CASE l = k
    BY <1>4, <2>1
  <2>2. CASE l # k
    <3>1. disk'[m][l] = disk[m][l]
      BY <1>t, <1>2, <2>2
    <3>2. QED BY <1>3, <1>5, <3>1 DEF Settled
  <2>3. QED BY <2>1, <2>2
<1>6. \A l, c : Awaits(l, c) => Awaits(l, c)'
  BY <1>2 DEF Awaits, Remaining, Later
<1>7. QED BY <1>5, <1>6 DEF Sound

\* The reader's next record: the order's last, or the last is still there.
LEMMA SoundDrained ==
  ASSUME TypeOK, CleanedOK, NEW m \in Members, Drain(m), Sound(m, next[m])
  PROVE  Sound(m, next[m])'
<1>t. /\ next[m] \in 0 .. Len(changelog) /\ disk[m] \in [Orders -> Content] /\ Len(changelog) \in Nat
      /\ cleaned \subseteq 0 .. Len(changelog)
  BY DEF TypeOK
<1>1. PICK o \in Remaining(next[m]) :
        /\ \A p \in Remaining(next[m]) : o <= p
        /\ o \in Nat /\ o + 1 \in 1 .. Len(changelog) /\ o \notin cleaned /\ next[m] <= o
        /\ changelog[o + 1] \in Record
        /\ TableAt(changelog[o + 1].order, o + 1) = ContentOf(changelog[o + 1])
        /\ next'[m] = o + 1 /\ changelog' = changelog /\ cleaned' = cleaned
        /\ disk'[m] = [disk[m] EXCEPT ![changelog[o + 1].order] = ContentOf(changelog[o + 1])]
  BY DrainReads
<1>2. PICK r \in Record : r = changelog[o + 1]
  BY <1>1
<1>3. r.order \in Orders /\ disk'[m] = [disk[m] EXCEPT ![r.order] = ContentOf(r)]
  BY <1>1, <1>2 DEF Record
<1>4. \A k : TableAt(k, Len(changelog))' = TableAt(k, Len(changelog))
  BY <1>1 DEF TableAt
<1>5. \A k, c : Awaits(k, c) => Awaits(k, c)'
  BY <1>1 DEF Awaits, Remaining, Later
<1>6. ASSUME NEW k, Awaits(k, next[m]), k # r.order \/ Later(k, o + 1) PROVE Awaits(k, o + 1)
  <2>1. PICK q \in Remaining(next[m]) : changelog[q + 1].order = k /\ ~ Later(k, q + 1)
    BY <1>6 DEF Awaits
  <2>2. q # o
    BY <1>2, <1>6, <2>1
  <2>3. o <= q
    BY <1>1
  <2>4. q \in Remaining(o + 1)
    BY <1>t, <1>1, <2>2, <2>3 DEF Remaining
  <2>5. QED BY <2>1, <2>4 DEF Awaits
<1>7. ASSUME NEW k \in Orders PROVE Settled(m, k)' \/ Awaits(k, o + 1)
  <2>1. CASE k # r.order
    <3>1. disk'[m][k] = disk[m][k]
      BY <1>t, <1>3, <2>1
    <3>2. Settled(m, k) => Settled(m, k)'
      BY <1>4, <3>1 DEF Settled
    <3>3. QED BY <1>6, <2>1, <3>2 DEF Sound
  <2>2. CASE k = r.order /\ ~ Later(k, o + 1)
    <3>1. PICK l \in Nat : l = o + 1 /\ l <= Len(changelog)
      BY <1>1
    <3>2. \A i \in l + 1 .. Len(changelog) : changelog[i].order # k
      BY <2>2, <3>1 DEF Later
    <3>3. Table(changelog, k, Len(changelog)) = Table(changelog, k, l)
      BY <1>t, <3>1, <3>2, TableSame
    <3>4. TableAt(k, Len(changelog)) = ContentOf(r)
      BY <1>1, <1>2, <2>2, <3>1, <3>3, TableIsTableAt
    <3>5. disk'[m][k] = ContentOf(r)
      BY <1>t, <1>3, <2>2
    <3>6. QED BY <1>4, <3>4, <3>5 DEF Settled, Same
  <2>3. CASE k = r.order /\ Later(k, o + 1)
    <3>1. PICK n \in Nat : n = Len(changelog)
      BY <1>t
    <3>2. PICK j \in o + 1 + 1 .. n : changelog[j].order = k
      BY <2>3, <3>1 DEF Later
    <3>3. j \in 1 .. n
      BY <1>1, <3>2
    <3>4. PICK i \in 1 .. n : changelog[i].order = k /\ \A h \in 1 .. n : changelog[h].order = k => h <= i
      <4>1. DEFINE S == {i \in 1 .. n : changelog[i].order = k}
      <4>2. S \in SUBSET (1 .. n) /\ S # {}
        BY <3>2, <3>3
      <4>3. \E i \in S : \A h \in S : h <= i
        <5> HIDE DEF S
        <5>1. QED BY <4>2, GreatestOf
      <4>4. QED BY <4>3
    <3>5. j <= i
      BY <3>2, <3>3, <3>4
    <3>6. PICK p \in Nat : i = p + 1 /\ o + 1 <= p /\ p <= n - 1
      <4>1. i - 1 \in Nat /\ i = (i - 1) + 1 /\ o + 1 <= i - 1 /\ i - 1 <= n - 1
        BY <1>1, <3>2, <3>4, <3>5
      <4>2. QED BY <4>1
    <3>7. ~ Later(k, p + 1)
      <4>1. \A h \in p + 1 + 1 .. Len(changelog) : h \in 1 .. n /\ ~ (h <= i)
        BY <3>1, <3>6
      <4>2. QED BY <3>4, <4>1 DEF Later
    <3>8. p \notin cleaned
      <4>1. SUFFICES ASSUME p \in cleaned PROVE FALSE
        OBVIOUS
      <4>2. \A q \in 0 .. p - 1 : changelog[q + 1].order = k => q \in cleaned
        BY <3>4, <3>6, <3>7, <4>1 DEF CleanedOK
      <4>3. o \in 0 .. p - 1 /\ changelog[o + 1].order = k
        BY <1>1, <1>2, <2>3, <3>6
      <4>4. QED BY <1>1, <4>2, <4>3
    <3>9. p \in Remaining(o + 1)
      BY <1>1, <3>1, <3>6, <3>8 DEF Remaining
    <3>10. QED BY <3>4, <3>6, <3>7, <3>9 DEF Awaits
  <2>4. QED BY <2>1, <2>2, <2>3
<1>8. PICK c : c = o + 1
  OBVIOUS
<1>9. Sound(m, c)'
  BY <1>5, <1>7, <1>8 DEF Sound
<1>10. QED BY <1>1, <1>8, <1>9, SoundNext

-----------------------------------------------------------------------------
(* What a step leaves of a member.                                         *)

MemberGood(m) == CheckpointOK(m) /\ DrainOK(m) /\ WorkOK(m)

\* A member that neither rebuilds nor works has only its checkpoint file.
LEMMA GoodAtRest ==
  ASSUME NEW m, pc'[m] \notin {"drain", "work"}, NEW c,
         checkpoint'[m] = c, c # None => Sound(m, c)'
  PROVE  MemberGood(m)'
<1>1. CheckpointOK(m)'
  <2>1. CASE c = None
    BY <2>1 DEF CheckpointOK
  <2>2. CASE c # None
    <3>1. Sound(m, checkpoint[m])'
      BY <2>2, SoundNext
    <3>2. QED BY <3>1 DEF CheckpointOK
  <2>3. QED BY <2>1, <2>2
<1>2. QED BY <1>1 DEF MemberGood, DrainOK, WorkOK

\* The offsets a member goes by.
Held(m) == IF pc[m] = "drain" THEN {next[m]} ELSE {checkpoint[m], mark[m]} \ {None}

LEMMA HeldIs == TypeOK => \A m \in Members : Held(m) \subseteq 0 .. Len(changelog)
  BY DEF TypeOK, Held

\* What keeps every such offset good, and what the owner has settled, keeps the member good.
LEMMA GoodKept ==
  ASSUME NEW m, MemberGood(m),
         pc'[m] = pc[m], mode'[m] = mode[m], checkpoint'[m] = checkpoint[m],
         next'[m] = next[m], high'[m] = high[m], owner' = m => owner = m,
         mark'[m] = mark[m] \/ (mark'[m] # None /\ Sound(m, mark[m])'),
         \A c \in Held(m) : Sound(m, c) => Sound(m, c)',
         owner = m /\ pc[m] = "work" =>
           ((\A k \in Orders : Settled(m, k)) => \A k \in Orders : Settled(m, k)')
  PROVE  MemberGood(m)'
<1>1. CheckpointOK(m)'
  <2>1. CASE pc[m] = "drain" \/ checkpoint[m] = None
    BY <2>1 DEF MemberGood, CheckpointOK, resumes
  <2>2. CASE pc[m] # "drain" /\ checkpoint[m] # None
    <3>1. PICK c : c = checkpoint[m]
      OBVIOUS
    <3>2. c \in Held(m) /\ Sound(m, c)
      BY <2>2, <3>1 DEF MemberGood, CheckpointOK, Held
    <3>3. Sound(m, checkpoint[m])'
      BY <3>1, <3>2, SoundNext
    <3>4. QED BY <2>2, <3>3 DEF CheckpointOK
  <2>3. QED BY <2>1, <2>2
<1>2. DrainOK(m)'
  <2>1. SUFFICES ASSUME pc[m] = "drain" PROVE Sound(m, next[m])'
    BY DEF DrainOK
  <2>2. PICK c : c = next[m]
    OBVIOUS
  <2>3. c \in Held(m) /\ Sound(m, c)
    BY <2>1, <2>2 DEF MemberGood, DrainOK, Held
  <2>4. QED BY <2>2, <2>3, SoundNext
<1>3. WorkOK(m)'
  <2>1. SUFFICES ASSUME pc[m] = "work"
                 PROVE  /\ mark'[m] # None /\ Sound(m, mark[m])'
                        /\ owner' = m => \A k \in Orders : Settled(m, k)'
    BY DEF WorkOK
  <2>2. PICK c : c = mark[m]
    OBVIOUS
  <2>3. c # None /\ Sound(m, c) /\ (owner = m => \A k \in Orders : Settled(m, k))
    BY <2>1, <2>2 DEF MemberGood, WorkOK
  <2>4. Sound(m, c)'
    BY <2>1, <2>2, <2>3 DEF Held
  <2>5. mark'[m] # None /\ Sound(m, mark[m])'
    BY <2>2, <2>3, <2>4, SoundNext
  <2>6. QED BY <2>1, <2>3, <2>5
<1>4. QED BY <1>1, <1>2, <1>3 DEF MemberGood

LEMMA MemberAside ==
  ASSUME NEW m \in Members, MemberGood(m), Aside(m)
  PROVE  MemberGood(m)'
<1>1. /\ changelog' = changelog /\ cleaned' = cleaned
      /\ pc'[m] = pc[m] /\ mode'[m] = mode[m] /\ disk'[m] = disk[m] /\ checkpoint'[m] = checkpoint[m]
      /\ mark'[m] = mark[m] /\ next'[m] = next[m] /\ high'[m] = high[m]
      /\ owner' = m => owner = m
  BY DEF Aside
<1>2. \A c : Sound(m, c) => Sound(m, c)'
  BY <1>1, SoundStays
<1>3. \A k \in Orders : Settled(m, k) => Settled(m, k)'
  BY <1>1, SoundStays
<1>4. QED BY <1>1, <1>2, <1>3, GoodKept

LEMMA MemberWrites ==
  ASSUME TypeOK, StampsOK, NEW m \in Members, NEW k \in Orders, NEW live \in BOOLEAN, Write(m, k, live),
         MemberGood(m)
  PROVE  MemberGood(m)'
<1>1. /\ pc'[m] = pc[m] /\ mode'[m] = mode[m] /\ checkpoint'[m] = checkpoint[m]
      /\ mark'[m] = mark[m] /\ next'[m] = next[m] /\ high'[m] = high[m] /\ owner' = owner
  BY DEF Write
<1>2. /\ \A c : Sound(m, c) => Sound(m, c)'
      /\ \A l \in Orders : Settled(m, l) => Settled(m, l)'
  BY SoundWritten
<1>3. QED BY <1>1, <1>2, GoodKept

\* The cleaner takes no null that a member not outlived has yet to meet.
LEMMA MemberCleaned ==
  ASSUME TypeOK, NEW o \in 0 .. Len(changelog), Compact(o) \/ Expire(o), NEW m \in Members,
         m \notin outlived', MemberGood(m)
  PROVE  MemberGood(m)'
<1>t. Len(changelog) \in Nat /\ Held(m) \subseteq 0 .. Len(changelog)
  BY HeldIs DEF TypeOK
<1>1. /\ owner' = owner /\ pc' = pc /\ disk' = disk /\ mode' = mode /\ checkpoint' = checkpoint
      /\ next' = next /\ high' = high /\ changelog' = changelog /\ mark' = mark
  BY DEF Compact, Expire, Compacted
<1>2. ASSUME Expire(o), NEW c \in Held(m) PROVE o < c
  <2>1. m \notin Behind(o) /\ ~ Awaited(o)
    BY <1>2 DEF Expire
  <2>2. ~ (c <= o)
    <3>1. CASE pc[m] = "drain"
      BY <1>2, <2>1, <3>1 DEF Awaited, Held
    <3>2. CASE pc[m] # "drain"
      BY <1>2, <2>1, <3>2 DEF Behind, Held
    <3>3. QED BY <3>1, <3>2
  <2>3. QED BY <1>t, <2>2
<1>3. \A c \in Held(m) : Sound(m, c) => Sound(m, c)'
  BY <1>t, <1>2, SoundCleaned
<1>4. \A k \in Orders : Settled(m, k) => Settled(m, k)'
  BY <1>1 DEF Settled, TableAt
<1>5. QED BY <1>1, <1>3, <1>4, GoodKept

\* The owner's record lands: its directory has that record, or one newer.
LEMMA OwnerSettled ==
  ASSUME TypeOK, NEW m \in Members, Land(m), WriterOK(m), \A k \in Orders : Settled(m, k)
  PROVE  \A k \in Orders : Settled(m, k)'
<1>1. PICK e \in Nat : e = Len(changelog)
  BY DEF TypeOK
<1>2. PICK r \in Record : r = unsent[m][1]
  BY Landing
<1>3. /\ Len(changelog') = e + 1 /\ changelog'[e + 1] = r
      /\ \A i \in 1 .. e : changelog'[i] = changelog[i]
      /\ 1 \in 1 .. Len(unsent[m])
  BY <1>1, <1>2, Landing
<1>4. disk[m][r.order].stamp > r.stamp \/ disk[m][r.order] = ContentOf(r)
  BY <1>2, <1>3 DEF WriterOK
<1>5. disk' = disk
  BY DEF Land
<1>6. PICK l \in Nat : l = e + 1 /\ l \in 1 .. l /\ e <= l /\ \A j \in e + 1 .. l : j = l
  BY <1>1
<1>7. PICK dl : dl = changelog'
  OBVIOUS
<1>8. \A k : TableAt(k, Len(changelog))' = Table(dl, k, l)
  BY <1>3, <1>6, <1>7 DEF TableAt, Table
<1>9. ASSUME NEW k \in Orders PROVE Settled(m, k)'
  <2>1. CASE k = r.order
    <3>1. dl[l].order = k /\ \A j \in l + 1 .. l : dl[j].order # k
      BY <1>3, <1>6, <1>7, <2>1
    <3>2. Table(dl, k, l) = ContentOf(dl[l])
      BY <1>6, <3>1, TableLast
    <3>3. TableAt(k, Len(changelog))' = ContentOf(r) /\ ContentOf(r).stamp = r.stamp
      BY <1>3, <1>6, <1>7, <1>8, <3>2 DEF ContentOf
    <3>4. QED BY <1>4, <1>5, <2>1, <3>3 DEF Settled, Same
  <2>2. CASE k # r.order
    <3>1. \A j \in e + 1 .. l : dl[j].order # k
      BY <1>3, <1>6, <1>7, <2>2
    <3>2. Table(dl, k, l) = Table(changelog, k, e)
      BY <1>3, <1>6, <1>7, <3>1, TableSame
    <3>3. TableAt(k, Len(changelog))' = TableAt(k, Len(changelog))
      BY <1>1, <1>8, <3>2, TableIsTableAt
    <3>4. QED BY <1>5, <3>3 DEF Settled, Same
  <2>3. QED BY <2>1, <2>2
<1>10. QED BY <1>9

LEMMA MemberLands ==
  ASSUME TypeOK, CleanedOK, SentOK, ~ straggled', NEW n \in Members, Land(n), NEW m \in Members,
         mark'[m] = mark[m] \/ (n = m /\ mark'[m] = Len(changelog) + 1), MemberGood(m)
  PROVE  MemberGood(m)'
<1>t. Len(changelog) \in Nat /\ Held(m) \subseteq 0 .. Len(changelog)
  BY HeldIs DEF TypeOK
<1>1. owner = n /\ pc[n] = "work" /\ WriterOK(n)
  BY OwnerLands DEF SentOK
<1>2. /\ owner' = owner /\ pc' = pc /\ mode' = mode /\ checkpoint' = checkpoint
      /\ next' = next /\ high' = high
  BY DEF Land
<1>3. \A c \in Held(m) : Sound(m, c) => Sound(m, c)'
  BY <1>t, SoundGrown
<1>4. ASSUME owner = m PROVE \A k \in Orders : Settled(m, k)'
  <2>1. m = n /\ \A k \in Orders : Settled(m, k)
    BY <1>1, <1>4 DEF MemberGood, WorkOK
  <2>2. QED BY <1>1, <2>1, OwnerSettled
<1>5. ASSUME n = m, mark'[m] = Len(changelog) + 1 PROVE mark'[m] # None /\ Sound(m, mark[m])'
  <2>1. PICK l \in Nat : l = Len(changelog) + 1
    BY <1>t
  <2>2. Len(changelog') = l
    BY <2>1, Landing
  <2>3. \A k \in Orders : Settled(m, k)'
    BY <1>1, <1>4, <1>5
  <2>4. Sound(m, l)'
    BY <2>3 DEF Sound
  <2>5. mark'[m] = l
    BY <1>5, <2>1
  <2>6. mark'[m] # None
    BY <2>5, RebuildAssumption
  <2>7. QED BY <2>4, <2>5, <2>6, SoundNext
<1>6. QED BY <1>2, <1>3, <1>4, <1>5, GoodKept

\* The watermark is no further than the reader came, and the owner's is the end.
LEMMA MemberRestored ==
  ASSUME TypeOK, NEW m \in Members, Restored(m), WriterOK(m), MemberGood(m)
  PROVE  MemberGood(m)'
<1>t. /\ next[m] \in 0 .. Len(changelog) /\ high[m] \in 0 .. Len(changelog) /\ Len(changelog) \in Nat
      /\ checkpoint[m] \in (0 .. Len(changelog)) \cup {None}
      /\ DOMAIN mark = Members /\ DOMAIN pc = Members
  BY DEF TypeOK
<1>1. /\ pc[m] = "drain" /\ next[m] >= high[m]
      /\ mark'[m] = high[m] /\ pc'[m] = "work"
      /\ changelog' = changelog /\ cleaned' = cleaned /\ disk' = disk
      /\ checkpoint' = checkpoint /\ owner' = owner
  BY <1>t DEF Restored, Drained, Goto, broker
<1>2. Sound(m, next[m])
  BY <1>1 DEF MemberGood, DrainOK
<1>3. \A c \in 0 .. Len(changelog) : c <= high[m] => Sound(m, c)'
  <2>1. ASSUME NEW c \in 0 .. Len(changelog), c <= high[m] PROVE Sound(m, c)
    <3>1. c <= next[m]
      BY <1>t, <1>1, <2>1
    <3>2. QED BY <1>t, <1>2, <3>1, SoundEarlier
  <2>2. QED BY <1>1, <2>1, SoundStays
<1>4. CheckpointOK(m)'
  <2>1. CASE checkpoint[m] = None
    BY <1>1, <2>1 DEF CheckpointOK
  <2>2. CASE checkpoint[m] # None
    <3>1. PICK c \in 0 .. Len(changelog) : c = checkpoint[m]
      BY <1>t, <2>2
    <3>2. c <= high[m]
      BY <1>1, <2>2, <3>1 DEF MemberGood, CheckpointOK
    <3>3. Sound(m, checkpoint[m])'
      BY <1>1, <1>3, <3>1, <3>2, SoundNext
    <3>4. QED BY <1>1, <3>3 DEF CheckpointOK
  <2>3. QED BY <2>1, <2>2
<1>5. mark'[m] # None /\ Sound(m, mark[m])'
  <2>1. PICK c \in 0 .. Len(changelog) : c = high[m] /\ c <= high[m]
    BY <1>t
  <2>2. Sound(m, mark[m])'
    BY <1>1, <1>3, <2>1, SoundNext
  <2>3. QED BY <1>t, <1>1, <2>2, RebuildAssumption
<1>6. ASSUME owner = m PROVE \A k \in Orders : Settled(m, k)'
  <2>1. next[m] = Len(changelog)
    BY <1>t, <1>1, <1>6 DEF WriterOK
  <2>2. \A k \in Orders : Settled(m, k)
    BY <1>2, <2>1, SoundAtEnd
  <2>3. QED BY <1>1, <2>2, SoundStays
<1>7. QED BY <1>1, <1>4, <1>5, <1>6 DEF MemberGood, DrainOK, WorkOK

\* A rebuild that ends early leaves a directory that is good from where it came to, and a
\* file that says no more than that, or the member is overstated.
LEMMA MemberCutShort ==
  ASSUME TypeOK, NEW m \in Members, Sound(m, next[m]),
         NEW file \in (0 .. Len(changelog)) \cup {None}, file # None => file <= next[m],
         disk'[m] = disk[m], changelog' = changelog, cleaned' = cleaned,
         checkpoint'[m] = file, pc'[m] = "down"
  PROVE  MemberGood(m)'
<1>1. next[m] \in 0 .. Len(changelog)
  BY DEF TypeOK
<1>2. file # None => Sound(m, file)'
  BY <1>1, SoundEarlier, SoundStays
<1>3. QED BY <1>2, GoodAtRest

LEMMA MemberAssigned ==
  ASSUME TypeOK, CleanedOK, NEW m \in Members, Assign(m), resumes(m) => MemberGood(m)
  PROVE  MemberGood(m)'
<1>t. /\ DOMAIN pc = Members /\ DOMAIN disk = Members /\ DOMAIN next = Members /\ DOMAIN high = Members
      /\ checkpoint[m] \in (0 .. Len(changelog)) \cup {None} /\ Len(changelog) \in Nat
  BY DEF TypeOK
<1>1. /\ changelog' = changelog /\ cleaned' = cleaned /\ checkpoint' = checkpoint /\ mode' = mode
      /\ pc[m] = "idle" /\ pc'[m] = "drain" /\ high'[m] = Len(changelog)
      /\ next'[m] = IF resumes(m) THEN checkpoint[m] ELSE 0
      /\ disk'[m] = kept(m)
  BY <1>t DEF Assign, Goto
<1>2. CheckpointOK(m)'
  <2>1. checkpoint'[m] # None => checkpoint'[m] <= high'[m]
    BY <1>t, <1>1
  <2>2. resumes(m)' => checkpoint'[m] <= next'[m]
    BY <1>t, <1>1 DEF resumes
  <2>3. QED BY <1>1, <2>1, <2>2 DEF CheckpointOK
<1>3. Sound(m, next[m])'
  <2>1. CASE resumes(m)
    <3>1. disk'[m] = disk[m]
      BY <1>1, <2>1 DEF kept
    <3>2. PICK c : c = checkpoint[m] /\ c # None /\ next'[m] = c
      BY <1>1, <2>1 DEF resumes
    <3>3. Sound(m, c)
      BY <1>1, <2>1, <3>2 DEF MemberGood, CheckpointOK
    <3>4. Sound(m, c)'
      BY <1>1, <3>1, <3>3, SoundStays
    <3>5. QED BY <3>2, <3>4, SoundNext
  <2>2. CASE ~ resumes(m)
    <3>1. next'[m] = 0 /\ disk'[m] = Empty
      BY <1>1, <2>2 DEF kept
    <3>2. PICK c : c = 0
      OBVIOUS
    <3>3. \A k : TableAt(k, Len(changelog))' = TableAt(k, Len(changelog)) /\ (Awaits(k, c) => Awaits(k, c)')
      BY <1>1 DEF TableAt, Awaits, Remaining, Later
    <3>4. \A k \in Orders : disk'[m][k].live = FALSE
      BY <3>1 DEF Empty, Absent
    <3>5. \A k \in Orders : TableAt(k, Len(changelog)).live = FALSE \/ Awaits(k, c)
      BY <3>2, FromNothing
    <3>6. Sound(m, c)'
      BY <3>3, <3>4, <3>5 DEF Sound, Settled, Same
    <3>7. QED BY <3>1, <3>2, <3>6, SoundNext
  <2>3. QED BY <2>1, <2>2
<1>4. QED BY <1>1, <1>2, <1>3 DEF MemberGood, DrainOK, WorkOK

LEMMA MemberOKStep ==
  ASSUME CurrentInv, [Next]_vars, NEW m \in Members, ~ straggled', m \notin outlived', m \notin overstated'
  PROVE  MemberGood(m)'
<1>i. TypeOK /\ CleanedOK /\ SentOK
  BY DEF CurrentInv, FullInv
<1>s. ~ straggled
  BY <1>i, StraggledStays
<1>w. StampsOK /\ WriterOK(m)
  BY <1>i, <1>s DEF SentOK
<1>k. m \notin outlived /\ m \notin overstated => MemberGood(m)
  BY <1>s DEF CurrentInv, MemberOK, MemberGood
<1>t. /\ DOMAIN pc = Members /\ DOMAIN checkpoint = Members /\ Len(changelog) \in Nat
      /\ checkpoint[m] \in (0 .. Len(changelog)) \cup {None} /\ next[m] \in 0 .. Len(changelog)
  BY <1>i DEF TypeOK
<1>r. ASSUME NEW file, CutShort(m, file), pc[m] = "drain"
      PROVE  /\ m \notin overstated
             /\ file \in (0 .. Len(changelog)) \cup {None} => (file # None => file <= next[m])
  BY <1>t, <1>r DEF CutShort
<1> USE DEF broker, Goto
<1>1. CASE Aside(m)
  <2>1. m \notin outlived /\ m \notin overstated
    BY <1>1 DEF Aside
  <2>2. QED BY <1>1, <1>k, <2>1, MemberAside
<1>2. ASSUME NEW setting \in Modes[m], Start(m, setting) PROVE MemberGood(m)'
  <2>1. /\ changelog' = changelog /\ cleaned' = cleaned /\ disk' = disk /\ checkpoint' = checkpoint
        /\ pc[m] # "drain" /\ pc'[m] = "idle" /\ outlived' = outlived /\ overstated' = overstated
    BY <1>t, <1>2 DEF Start
  <2>2. PICK c : c = checkpoint[m]
    OBVIOUS
  <2>3. c # None => Sound(m, c)'
    BY <1>k, <2>1, <2>2, SoundStays DEF MemberGood, CheckpointOK
  <2>4. QED BY <2>1, <2>2, <2>3, GoodAtRest
<1>3. CASE Crash(m)
  <2>1. /\ changelog' = changelog /\ cleaned' = cleaned /\ disk' = disk /\ checkpoint' = checkpoint
        /\ pc'[m] = "down" /\ outlived' = outlived /\ CutShort(m, checkpoint[m])
    BY <1>t, <1>3 DEF Crash
  <2>2. PICK c \in (0 .. Len(changelog)) \cup {None} : c = checkpoint[m]
    BY <1>t
  <2>3. CASE pc[m] = "drain"
    <3>1. m \notin overstated /\ (c # None => c <= next[m])
      BY <1>r, <2>1, <2>2, <2>3
    <3>2. Sound(m, next[m])
      BY <1>k, <2>1, <2>3, <3>1 DEF MemberGood, DrainOK
    <3>3. QED BY <1>i, <2>1, <2>2, <3>1, <3>2, MemberCutShort
  <2>4. CASE pc[m] # "drain"
    <3>1. m \notin overstated
      BY <2>1, <2>4 DEF CutShort
    <3>2. c # None => Sound(m, c)'
      BY <1>k, <2>1, <2>2, <2>4, <3>1, SoundStays DEF MemberGood, CheckpointOK
    <3>3. QED BY <2>1, <2>2, <3>2, GoodAtRest
  <2>5. QED BY <2>3, <2>4
<1>4. CASE GiveUp(m)
  <2>1. /\ changelog' = changelog /\ cleaned' = cleaned /\ disk' = disk /\ pc[m] = "work"
        /\ outlived' = outlived /\ overstated' = overstated
    BY <1>4 DEF GiveUp
  <2>2. pc'[m] = "idle"
    BY <1>t, <1>4 DEF GiveUp, Forget
  <2>3. PICK c \in Files(m) : checkpoint' = [checkpoint EXCEPT ![m] = c]
    BY <1>4 DEF GiveUp, Files
  <2>4. MemberGood(m)
    BY <1>k, <2>1
  <2>5. c # None => Sound(m, c)
    BY <2>1, <2>4 DEF Files, checkpointed, MemberGood, CheckpointOK, WorkOK
  <2>6. c # None => Sound(m, c)'
    BY <2>1, <2>5, SoundStays
  <2>7. checkpoint'[m] = c
    BY <1>t, <2>3
  <2>8. QED BY <2>2, <2>6, <2>7, GoodAtRest
<1>5. CASE DrainFails(m)
  <2>1. PICK file \in Files(m) : checkpoint' = [checkpoint EXCEPT ![m] = file] /\ CutShort(m, file)
    BY <1>5 DEF DrainFails
  <2>2. /\ changelog' = changelog /\ cleaned' = cleaned /\ disk' = disk /\ pc[m] = "drain"
        /\ outlived' = outlived
    BY <1>5 DEF DrainFails
  <2>3. pc'[m] = "down"
    BY <1>t, <1>5 DEF DrainFails, Forget
  <2>4. PICK c \in (0 .. Len(changelog)) \cup {None} : c = file
    <3>1. mark[m] \in (0 .. Len(changelog)) \cup {None}
      BY <1>i DEF TypeOK
    <3>2. QED BY <1>t, <2>1, <3>1 DEF Files, checkpointed
  <2>5. m \notin overstated /\ (c # None => c <= next[m])
    BY <1>r, <2>1, <2>2, <2>4
  <2>6. Sound(m, next[m])
    BY <1>k, <2>2, <2>5 DEF MemberGood, DrainOK
  <2>7. checkpoint'[m] = c
    BY <1>t, <2>1, <2>4
  <2>8. QED BY <1>i, <2>2, <2>3, <2>5, <2>6, <2>7, MemberCutShort
<1>6. CASE Assign(m)
  <2>1. resumes(m) => MemberGood(m)
    BY <1>k, <1>6 DEF Assign
  <2>2. QED BY <1>6, <1>i, <2>1, MemberAssigned
<1>7. CASE Drain(m)
  <2>1. /\ m \notin outlived /\ m \notin overstated /\ checkpoint' = checkpoint /\ mode' = mode
        /\ high' = high /\ pc' = pc /\ pc[m] = "drain"
    BY <1>7 DEF Drain
  <2>2. MemberGood(m)
    BY <1>k, <2>1
  <2>3. Sound(m, next[m])'
    BY <1>7, <1>i, <2>1, <2>2, SoundDrained DEF MemberGood, DrainOK
  <2>4. next[m] <= next'[m] /\ next'[m] \in Nat
    <3>1. PICK o \in Nat : next[m] <= o /\ next'[m] = o + 1
      BY <1>7, <1>i, DrainReads
    <3>2. QED BY <1>t, <3>1
  <2>5. CheckpointOK(m)'
    <3>1. checkpoint[m] # None => checkpoint[m] <= high[m] /\ (resumes(m) => checkpoint[m] <= next[m])
      BY <2>1, <2>2 DEF MemberGood, CheckpointOK
    <3>2. checkpoint[m] # None /\ resumes(m) => checkpoint[m] <= next'[m]
      BY <1>t, <2>4, <3>1
    <3>3. resumes(m)' => resumes(m)
      BY <2>1 DEF resumes
    <3>4. QED BY <2>1, <3>1, <3>2, <3>3 DEF CheckpointOK
  <2>6. QED BY <2>1, <2>3, <2>5 DEF MemberGood, DrainOK, WorkOK
<1>8. CASE Restored(m)
  <2>1. m \notin outlived /\ m \notin overstated
    BY <1>8 DEF Restored
  <2>2. QED BY <1>8, <1>i, <1>k, <1>w, <2>1, MemberRestored
<1>9. ASSUME NEW k \in Orders, NEW live \in BOOLEAN, Write(m, k, live) PROVE MemberGood(m)'
  <2>1. m \notin outlived /\ m \notin overstated
    BY <1>9 DEF Write
  <2>2. QED BY <1>9, <1>i, <1>k, <1>w, <2>1, MemberWrites
<1>10. ASSUME NEW n \in Members, Land(n), mark'[m] = mark[m] \/ (n = m /\ mark'[m] = Len(changelog) + 1)
       PROVE  MemberGood(m)'
  <2>1. m \notin outlived /\ m \notin overstated
    BY <1>10 DEF Land
  <2>2. QED BY <1>10, <1>i, <1>k, <2>1, MemberLands
<1>11. ASSUME NEW o \in 0 .. Len(changelog), Compact(o) \/ Expire(o) PROVE MemberGood(m)'
  <2>1. m \notin outlived /\ m \notin overstated
    BY <1>11 DEF Compact, Expire, Compacted
  <2>2. QED BY <1>11, <1>i, <1>k, <2>1, MemberCleaned
<1>12. QED BY <1>i, <1>1, <1>2, <1>3, <1>4, <1>5, <1>6, <1>7, <1>8, <1>9, <1>10, <1>11, StepAmong

LEMMA CurrentInit == Init => CurrentInv
<1> SUFFICES ASSUME Init PROVE CurrentInv
  OBVIOUS
<1>1. changelog = << >> /\ \A m \in Members : unsent[m] = << >> /\ pc[m] = "idle" /\ checkpoint[m] = None
  BY DEF Init
<1>2. SentOK
  BY <1>1 DEF SentOK, StampsOK, WriterOK
<1>3. \A m \in Members : MemberOK(m)
  BY <1>1 DEF MemberOK, CheckpointOK, DrainOK, WorkOK
<1>4. QED BY <1>2, <1>3, FullInit DEF CurrentInv

LEMMA CurrentStep == CurrentInv /\ [Next]_vars => CurrentInv'
<1> SUFFICES ASSUME CurrentInv, [Next]_vars PROVE CurrentInv'
  OBVIOUS
<1>1. FullInv /\ TypeOK /\ SentOK
  BY DEF CurrentInv, FullInv
<1>2. FullInv'
  BY <1>1, FullStep
<1>3. SentOK'
  BY <1>1, SentStep
<1>4. \A m \in Members : MemberOK(m)'
  BY MemberOKStep DEF MemberOK, MemberGood
<1>5. QED BY <1>2, <1>3, <1>4 DEF CurrentInv

\* R7.7 for every set of members, orders and writes, and whatever STATE_REBUILD says from
\* start to start: no rebuild, full or from a checkpoint, ends behind the changelog, while
\* the holder alone writes, the directory was not away longer than delete.retention.ms and
\* no earlier rebuild ended short of what its checkpoint file then said.
THEOREM RebuildEndsCurrent == Spec => []RebuildIsCurrent
<1>1. Spec => []CurrentInv
  BY CurrentInit, CurrentStep, PTL DEF Spec
<1>2. CurrentInv => RebuildIsCurrent
  <2>1. SUFFICES ASSUME CurrentInv, NEW m \in Members, Drained(m), ~ straggled,
                        m \notin outlived \cup overstated, NEW k \in Orders, ~ Later(k, next[m])
                 PROVE  \/ Same(disk[m][k], TableAt(k, next[m]))
                        \/ disk[m][k].stamp > TableAt(k, next[m]).stamp
    BY DEF RebuildIsCurrent, Later
  <2>2. Sound(m, next[m]) /\ TypeOK
    BY <2>1 DEF CurrentInv, FullInv, MemberOK, DrainOK, Drained
  <2>3. PICK n \in Nat : n = next[m] /\ n <= Len(changelog) /\ Len(changelog) \in Nat
    BY <2>2 DEF TypeOK
  <2>4. ~ Awaits(k, n)
    <3>1. SUFFICES ASSUME NEW o \in Remaining(n), changelog[o + 1].order = k PROVE FALSE
      BY DEF Awaits
    <3>2. o + 1 \in n + 1 .. Len(changelog)
      BY <2>3 DEF Remaining
    <3>3. QED BY <2>1, <2>3, <3>1, <3>2 DEF Later
  <2>5. Table(changelog, k, Len(changelog)) = Table(changelog, k, n)
    <3>1. \A i \in n + 1 .. Len(changelog) : changelog[i].order # k
      BY <2>1, <2>3 DEF Later
    <3>2. QED BY <2>3, <3>1, TableSame
  <2>6. TableAt(k, Len(changelog)) = TableAt(k, next[m])
    BY <2>3, <2>5, TableIsTableAt
  <2>7. Settled(m, k)
    BY <2>2, <2>3, <2>4 DEF Sound
  <2>8. QED BY <2>6, <2>7 DEF Settled
<1>3. QED BY <1>1, <1>2, PTL
=============================================================================
