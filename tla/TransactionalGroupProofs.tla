---------------------- MODULE TransactionalGroupProofs -----------------------
(***************************************************************************)
(* What TLAPS proves of TransactionalGroup, for every set of members,      *)
(* partition numbers and orders, all contents of the topics, every         *)
(* transactional.id and all faults: its types, and that a group with the   *)
(* eager rebalance implements ExactlyOnce.                                 *)
(***************************************************************************)
EXTENDS TransactionalGroup, FiniteSetTheorems, WellFoundedInduction, TLAPS

LEMMA ConstantTypes ==
  /\ \A k \in Orders : Home[k] \in Numbers
  /\ \A s \in Sources : Log[s] \in Seq(Message) /\ Len(Log[s]) \in Nat /\ s[2] \in Numbers
  /\ \A s \in Sources : \A i \in Nat : i < Len(Log[s]) =>
       Log[s][i + 1] \in Message /\ Home[Log[s][i + 1].order] = s[2]
  /\ NoMember \notin Members
  /\ \A k \in Numbers, t \in Topics : <<t, k>> \in Sources
<1>1. \A s \in Sources : Log[s] \in Seq(Message) /\ s[2] \in Numbers
  BY TransactionalAssumption DEF Sources
<1>2. ASSUME NEW s \in Sources, NEW i \in Nat, i < Len(Log[s])
      PROVE  Log[s][i + 1] \in Message /\ Home[Log[s][i + 1].order] = s[2]
  <2>1. i + 1 \in DOMAIN Log[s]
    BY <1>1, <1>2
  <2>2. Log[s][i + 1] \in Message
    BY <1>1, <2>1
  <2>3. QED BY <2>1, <2>2, TransactionalAssumption
<1>3. \A k \in Numbers, t \in Topics : <<t, k>> \in Sources
  BY DEF Sources
<1>4. \A s \in Sources : Len(Log[s]) \in Nat
  BY <1>1
<1>5. QED BY <1>1, <1>2, <1>3, <1>4, TransactionalAssumption

-----------------------------------------------------------------------------
(* What resolving does to a changelog partition.                           *)

\* An entry after the transactions of M are resolved.
Flipped(entry, M, outcome) ==
  IF entry.status = "open" /\ entry.by \in M THEN [entry EXCEPT !.status = outcome] ELSE entry

LEMMA MarkerIsClosed == Marker.status = "marker"
  BY DEF Marker

LEMMA FlippedType ==
  ASSUME NEW entry \in Entry \cup {Marker}, NEW M, NEW outcome \in {"committed", "aborted"}
  PROVE  Flipped(entry, M, outcome) \in Entry \cup {Marker}
<1>1. CASE entry.status = "open" /\ entry.by \in M
  <2>1. entry \in Entry
    BY <1>1, MarkerIsClosed
  <2>2. [entry EXCEPT !.status = outcome] \in Entry
    BY <2>1 DEF Entry
  <2>3. QED BY <1>1, <2>2 DEF Flipped
<1>2. QED BY <1>1 DEF Flipped

LEMMA ResolvedEntries ==
  ASSUME NEW n, changelog[n] \in Seq(Entry \cup {Marker}),
         NEW M, NEW outcome \in {"committed", "aborted"}
  PROVE  LET new == Resolved(n, M, outcome) IN
           /\ new \in Seq(Entry \cup {Marker})
           /\ \A i \in DOMAIN changelog[n] :
                i \in DOMAIN new /\ new[i] = Flipped(changelog[n][i], M, outcome)
           /\ \A i \in DOMAIN new : i \in DOMAIN changelog[n] \/ new[i] = Marker
<1> DEFINE old == changelog[n]
           flip == [i \in DOMAIN old |-> Flipped(old[i], M, outcome)]
<1>1. old \in Seq(Entry \cup {Marker}) /\ DOMAIN old = 1 .. Len(old) /\ Len(old) \in Nat
  OBVIOUS
<1>2. flip = [i \in DOMAIN old |->
                IF old[i].status = "open" /\ old[i].by \in M
                THEN [old[i] EXCEPT !.status = outcome] ELSE old[i]]
  BY DEF Flipped
<1>3. Resolved(n, M, outcome) = IF flip = old THEN flip ELSE Append(flip, Marker)
  BY <1>2 DEF Resolved
<1>4. \A i \in DOMAIN old : flip[i] \in Entry \cup {Marker}
  <2>1. \A i \in DOMAIN old : old[i] \in Entry \cup {Marker}
    BY <1>1
  <2>2. QED BY <2>1, FlippedType
<1>5. \A i \in DOMAIN old : flip[i] = Flipped(old[i], M, outcome)
  OBVIOUS
<1>6. DOMAIN flip = DOMAIN old
  OBVIOUS
<1>7. flip = [i \in 1 .. Len(old) |-> flip[i]]
  BY <1>1
<1> HIDE DEF flip, old
<1>8. flip \in Seq(Entry \cup {Marker}) /\ Len(flip) = Len(old)
  BY <1>1, <1>4, <1>7
<1>9. CASE flip = old
  BY <1>1, <1>3, <1>5, <1>9 DEF old
<1>10. CASE flip # old
  <2>1. /\ Append(flip, Marker) \in Seq(Entry \cup {Marker})
        /\ \A i \in DOMAIN flip : i \in DOMAIN Append(flip, Marker) /\ Append(flip, Marker)[i] = flip[i]
        /\ \A i \in DOMAIN Append(flip, Marker) : i \in DOMAIN flip \/ Append(flip, Marker)[i] = Marker
    BY <1>8
  <2>2. Resolved(n, M, outcome) = Append(flip, Marker)
    BY <1>3, <1>10
  <2>3. QED BY <1>5, <1>6, <2>1, <2>2 DEF old
<1>11. QED BY <1>9, <1>10

\* A fold's record is appended.
LEMMA AppendedEntries ==
  ASSUME NEW old \in Seq(Entry \cup {Marker}), NEW entry \in Entry
  PROVE  /\ Append(old, entry) \in Seq(Entry \cup {Marker})
         /\ Len(old) \in Nat /\ DOMAIN old = 1 .. Len(old)
         /\ DOMAIN Append(old, entry) = DOMAIN old \cup {Len(old) + 1}
         /\ \A i \in DOMAIN old : Append(old, entry)[i] = old[i]
         /\ Append(old, entry)[Len(old) + 1] = entry
  OBVIOUS

-----------------------------------------------------------------------------
(* Type correctness.                                                       *)

\* What member m, the coordinator about it, or the broker for it may do.
Acts(m) ==
  \/ Start(m) \/ Step(m) \/ CommitFails(m)
  \/ \E N \in SUBSET Numbers : Assign(m, N) \/ Revoke(m, N)
  \/ Evict(m) \/ Crash(m) \/ Exit(m) \/ TimeOut(m)

LEMMA NextActs == Next <=> \E m \in Members : Acts(m)
  BY DEF Next, Acts

LEMMA ActsCases ==
  ASSUME NEW m, Acts(m)
  PROVE  \/ Start(m) \/ (\E N \in SUBSET Numbers : Assign(m, N)) \/ Restore(m) \/ RestoreStalls(m)
         \/ Fetch(m) \/ (\E N \in SUBSET Numbers : Revoke(m, N)) \/ Lost(m) \/ Evict(m) \/ Crash(m)
         \/ Exit(m) \/ TimeOut(m) \/ FencedOut(m) \/ Close(m) \/ CloseFenced(m)
         \/ (\E s \in Sources : Fold(m, s))
         \/ (\E s \in Sources : FoldRefused(m, s) \/ Fail(m, s) \/ Skip(m, s))
         \/ Route(m) \/ RouteRefused(m) \/ Note(m) \/ NoteRefused(m) \/ NotYet(m)
         \/ SendOffsets(m) \/ SendOffsetsFails(m) \/ Commit(m) \/ CommitFails(m)
  BY DEF Acts, Step, Handle

\* The types of what the broker and the coordinator keep, and of what a member keeps.
BrokerType ==
  /\ committed \in [Sources -> Nat] /\ accepted \in [Members -> [Sources -> Nat]]
  /\ changelog \in [Numbers -> Seq(Entry \cup {Marker})]
  /\ routing \in [Members -> Seq(Place)] /\ routed \in Seq(Place)

LoopType ==
  /\ owner \in [Numbers -> Members \cup {NoMember}] /\ fenced \subseteq Members
  /\ pc \in [Members -> {"down", "restore", "fetch", "poll", "route", "note", "settle",
                         "commit", "closing"}]
  /\ joining \in [Members -> SUBSET Numbers] /\ held \in [Members -> SUBSET Numbers]
  /\ position \in [Members -> [Sources -> Nat]] /\ work \in [Members -> Place]
  /\ client \in [Members -> {"ready", "open", "failed"}]
  /\ offsets \in [Members -> [Sources -> Nat]]

CountType == messages \in [Members -> Nat] /\ disruptions \in Nat
StoreType == store \in [Members -> [Orders -> SUBSET Place]]

LEMMA TypeParts == TypeOK <=> BrokerType /\ LoopType /\ CountType /\ StoreType
  BY DEF TypeOK, BrokerType, LoopType, CountType, StoreType

LEMMA NoOffsetsType == NoOffsets \in [Sources -> Nat]
  BY DEF NoOffsets

LEMMA ResolvedType ==
  ASSUME BrokerType, NEW M, NEW outcome \in {"committed", "aborted"}
  PROVE  [n \in Numbers |-> Resolved(n, M, outcome)] \in [Numbers -> Seq(Entry \cup {Marker})]
<1>1. ASSUME NEW n \in Numbers PROVE Resolved(n, M, outcome) \in Seq(Entry \cup {Marker})
  <2>1. changelog[n] \in Seq(Entry \cup {Marker})
    BY DEF BrokerType
  <2>2. QED BY <2>1, ResolvedEntries
<1>2. QED BY <1>1

LEMMA DiscardType ==
  ASSUME BrokerType, NEW M, Discard(M)
  PROVE  BrokerType'
<1>1. changelog' \in [Numbers -> Seq(Entry \cup {Marker})]
  BY ResolvedType DEF Discard
<1>2. routing' \in [Members -> Seq(Place)]
  BY DEF Discard, BrokerType
<1>3. accepted' \in [Members -> [Sources -> Nat]]
  BY NoOffsetsType DEF Discard, BrokerType
<1>4. QED BY <1>1, <1>2, <1>3 DEF Discard, BrokerType

LEMMA PublishType ==
  ASSUME BrokerType, NEW m \in Members, Publish(m)
  PROVE  BrokerType'
<1>1. changelog' \in [Numbers -> Seq(Entry \cup {Marker})]
  BY ResolvedType DEF Publish
<1>2. routing' \in [Members -> Seq(Place)]
  BY DEF Publish, BrokerType
<1>3. accepted' \in [Members -> [Sources -> Nat]]
  BY NoOffsetsType DEF Publish, BrokerType
<1>4. committed' \in [Sources -> Nat]
  BY DEF Publish, BrokerType
<1>5. routed' \in Seq(Place)
  <2>1. routing[m] \in Seq(Place) /\ routed \in Seq(Place)
    BY DEF BrokerType
  <2>2. QED BY <2>1 DEF Publish
<1>6. QED BY <1>1, <1>2, <1>3, <1>4, <1>5 DEF BrokerType

LEMMA AbortType ==
  ASSUME BrokerType, NEW m \in Members, NEW c, Abort(m, c)
  PROVE  BrokerType'
<1>1. CASE Discard({m})
  BY <1>1, DiscardType
<1>2. CASE UNCHANGED <<committed, accepted, changelog, routing, routed>>
  BY <1>2 DEF BrokerType
<1>3. QED BY <1>1, <1>2 DEF Abort

\* A set of naturals that is not empty has a least element.
LEMMA LeastNumber ==
  ASSUME NEW T \in SUBSET Nat, T # {}
  PROVE  \E x \in T : \A y \in T : x <= y
<1> DEFINE R == OpToRel(<, Nat)
<1>1. IsWellFoundedOn(R, Nat)
  BY NatLessThanWellFounded
<1>2. R = {ss \in Nat \X Nat : ss[1] < ss[2]}
  BY DEF OpToRel
<1>3. PICK x \in T : \A y \in T : ~ (<<y, x>> \in R)
  <2> HIDE DEF R
  <2>1. QED BY <1>1, WFMin
<1>4. \A y \in T : ~ (y < x)
  <2>1. \A y \in T : <<y,x>> \in Nat \X Nat
    OBVIOUS
  <2> HIDE DEF R
  <2>2. QED BY <1>2, <1>3, <2>1
<1>5. QED BY <1>4

\* One that is bounded, too, has a greatest.
LEMMA GreatestNumber ==
  ASSUME NEW n \in Nat, NEW S \in SUBSET (1 .. n), S # {}
  PROVE  \E i \in S : \A j \in S : j <= i
<1> DEFINE T == {y \in Nat : \E i \in S : y = n - i}
<1>0. \A i \in S : i \in Nat /\ n - i \in Nat
  OBVIOUS
<1>1. T \in SUBSET Nat /\ T # {}
  <2>1. PICK i \in S : TRUE
    OBVIOUS
  <2>2. n - i \in T
    BY <1>0
  <2>3. QED BY <2>2
<1>2. PICK x \in T : \A y \in T : x <= y
  <2> HIDE DEF T
  <2> QED BY <1>1, LeastNumber
<1>3. PICK i \in S : x = n - i
  OBVIOUS
<1>4. \A j \in S : n - j \in T
  BY <1>0
<1>5. \A j \in S : n - i <= n - j
  BY <1>2, <1>3, <1>4
<1>6. \A j \in S : j <= i
  BY <1>0, <1>5
<1>7. QED BY <1>6

\* Everything but the broker's part moves by updates of one member's own functions.
LEMMA ResetType ==
  ASSUME NEW m \in Members, NEW c \in {"ready", "open", "failed"}, Reset(m, c),
         client \in [Members -> {"ready", "open", "failed"}],
         offsets \in [Members -> [Sources -> Nat]], messages \in [Members -> Nat]
  PROVE  /\ client' \in [Members -> {"ready", "open", "failed"}]
         /\ offsets' \in [Members -> [Sources -> Nat]] /\ messages' \in [Members -> Nat]
  BY NoOffsetsType DEF Reset

LEMMA LetGoType ==
  ASSUME NEW m \in Members, NEW N \in SUBSET Numbers, LetGo(m, N),
         held \in [Members -> SUBSET Numbers], joining \in [Members -> SUBSET Numbers],
         position \in [Members -> [Sources -> Nat]], store \in [Members -> [Orders -> SUBSET Place]]
  PROVE  /\ held' \in [Members -> SUBSET Numbers] /\ joining' \in [Members -> SUBSET Numbers]
         /\ position' \in [Members -> [Sources -> Nat]]
         /\ store' \in [Members -> [Orders -> SUBSET Place]]
<1>1. [s \in Sources |-> IF s[2] \in N THEN 0 ELSE position[m][s]] \in [Sources -> Nat]
  OBVIOUS
<1>2. [k \in Orders |-> IF Home[k] \in N THEN {} ELSE store[m][k]] \in [Orders -> SUBSET Place]
  OBVIOUS
<1>3. QED BY <1>1, <1>2 DEF LetGo

LEMMA ReleaseType ==
  ASSUME NEW m \in Members, Release(m), owner \in [Numbers -> Members \cup {NoMember}]
  PROVE  owner' \in [Numbers -> Members \cup {NoMember}]
  BY DEF Release

LEMMA TakeType ==
  ASSUME LoopType, NEW m \in Members, NEW s \in Sources, Take(m, s)
  PROVE  work' \in [Members -> Place] /\ position' \in [Members -> [Sources -> Nat]]
<1>1. position[m][s] \in Nat
  BY DEF LoopType
<1>2. <<s, position[m][s]>> \in Place
  BY <1>1 DEF Place
<1>3. QED BY <1>1, <1>2 DEF LoopType, Take

LEMMA DisruptType ==
  ASSUME CountType, Disrupt \/ UNCHANGED disruptions
  PROVE  disruptions' \in Nat
  BY DEF CountType, Disrupt

\* A changelog value is a set of places: what a reader finds last.
LEMMA ValueType ==
  ASSUME BrokerType, NEW k \in Orders
  PROVE  ValueAt(k, LastStable(Home[k])) \subseteq Place
<1>1. Home[k] \in Numbers
  BY ConstantTypes
<1> DEFINE n == Home[k]  of == Records(k, LastStable(n))  i == CHOOSE i \in of : \A j \in of : j <= i
<1>2. changelog[n] \in Seq(Entry \cup {Marker}) /\ Len(changelog[n]) \in Nat
  BY <1>1 DEF BrokerType
<1>3. LastStable(n) \in Nat /\ LastStable(n) <= Len(changelog[n])
  <2> DEFINE open == {j \in DOMAIN changelog[n] : changelog[n][j].status = "open"}
             first == CHOOSE j \in open : \A l \in open : j <= l
  <2>1. CASE open = {}
    BY <1>2, <2>1 DEF LastStable
  <2>2. CASE open # {}
    <3>1. PICK x : x \in open
      BY <2>2
    <3>2. open \in SUBSET (1 .. Len(changelog[n]))
      BY <1>2
    <3>3. \E j \in open : \A l \in open : j <= l
      <4> HIDE DEF open
      <4>1. QED BY <1>2, <2>2, <3>2, LeastNumber
    <3>4. first \in open
      BY <3>3
    <3>5. LastStable(n) = first - 1
      BY <2>2 DEF LastStable
    <3> HIDE DEF first
    <3>6. QED BY <1>2, <3>4, <3>5
  <2>3. QED BY <2>1, <2>2
<1>4. CASE of = {}
  BY <1>4 DEF ValueAt
<1>5. CASE of # {}
  <2>1. of \in SUBSET (1 .. Len(changelog[n]))
    BY <1>2, <1>3 DEF Records
  <2>2. \E j \in of : \A l \in of : l <= j
    <3> HIDE DEF of
    <3>1. QED BY <1>2, <1>5, <2>1, GreatestNumber
  <2>3. i \in of
    BY <2>2
  <2>4. ValueAt(k, LastStable(n)) = changelog[n][i].value
    BY <1>5 DEF ValueAt
  <2> HIDE DEF i
  <2>5. i \in DOMAIN changelog[n] /\ changelog[n][i].status = "committed"
    BY <1>2, <2>1, <2>3 DEF Records
  <2>6. changelog[n][i] \in Entry
    BY <1>2, <2>5, MarkerIsClosed
  <2>7. QED BY <2>4, <2>6 DEF Entry
<1>6. QED BY <1>4, <1>5

LEMMA BrokerTypes ==
  ASSUME TypeOK, NEW m \in Members, Acts(m)
  PROVE  BrokerType'
<1>0. BrokerType /\ LoopType /\ StoreType
  BY TypeParts
<1>1. CASE \E c \in {"ready", "failed"} : Abort(m, c)
  BY <1>0, <1>1, AbortType
<1>2. CASE \E M \in SUBSET Members : Discard(M)
  BY <1>0, <1>2, DiscardType
<1>3. CASE Publish(m)
  BY <1>0, <1>3, PublishType
<1>4. CASE UNCHANGED <<committed, accepted, changelog, routing, routed>>
  BY <1>0, <1>4 DEF BrokerType
<1>5. CASE \E s \in Sources : Fold(m, s)
  <2>1. PICK s \in Sources : Fold(m, s)
    BY <1>5
  <2> DEFINE k == Polled(m, s).order  here == <<s, position[m][s]>>
             entry == [status |-> "open", by |-> m, order |-> k, cause |-> here,
                       value |-> store[m][k] \cup {here}]
  <2>2. UNCHANGED <<committed, accepted, routing, routed>>
    BY <2>1 DEF Fold, coordinator
  <2>3. position[m][s] \in Nat /\ position[m][s] < Len(Log[s])
    BY <1>0, <2>1 DEF LoopType, Fold, Polls
  <2>4. Polled(m, s) \in Message
    BY <2>3, ConstantTypes DEF Polled
  <2>5. k \in Orders /\ Home[k] \in Numbers
    BY <2>4, ConstantTypes DEF Message
  <2>6. here \in Place /\ store[m][k] \in SUBSET Place
    BY <1>0, <2>3, <2>5 DEF Place, StoreType
  <2>7. entry \in Entry
    <3> HIDE DEF k, here
    <3>1. QED BY <2>5, <2>6 DEF Entry
  <2>8. changelog' = IF m \in fenced THEN changelog ELSE
                     [changelog EXCEPT ![Home[k]] = Append(@, entry)]
    BY <2>1 DEF Fold
  <2> HIDE DEF entry, k, here
  <2>9. Append(changelog[Home[k]], entry) \in Seq(Entry \cup {Marker})
    BY <1>0, <2>5, <2>7, AppendedEntries DEF BrokerType
  <2>10. changelog' \in [Numbers -> Seq(Entry \cup {Marker})]
    BY <1>0, <2>8, <2>9 DEF BrokerType
  <2>11. QED BY <1>0, <2>2, <2>10 DEF BrokerType
<1>6. CASE Route(m)
  <2>1. work[m] \in Place /\ routing[m] \in Seq(Place)
    BY <1>0 DEF BrokerType, LoopType
  <2>2. Append(routing[m], work[m]) \in Seq(Place)
    BY <2>1
  <2>3. routing' \in [Members -> Seq(Place)]
    BY <1>0, <1>6, <2>2 DEF BrokerType, Route
  <2>4. QED BY <1>0, <1>6, <2>3 DEF BrokerType, Route, coordinator
<1>7. CASE SendOffsets(m)
  <2>1. accepted' \in [Members -> [Sources -> Nat]]
    BY <1>0, <1>7 DEF BrokerType, LoopType, SendOffsets
  <2>2. QED BY <1>0, <1>7, <2>1 DEF BrokerType, SendOffsets, broker
<1>8. CASE Start(m) \/ TimeOut(m)
  BY <1>2, <1>8 DEF Start, TimeOut
<1>9. CASE Close(m) \/ \E N \in SUBSET Numbers : Revoke(m, N)
  BY <1>1, <1>9 DEF Close, Revoke, GiveUp, aborted_first
<1>10. CASE Lost(m)
  BY <1>1, <1>10 DEF Lost, GiveUp, aborted_first
<1>11. CASE Commit(m) \/ CommitFails(m)
  BY <1>3, <1>4, <1>11 DEF Commit, CommitFails
<1>12. CASE \E s \in Sources : FoldRefused(m, s) \/ Fail(m, s) \/ Skip(m, s)
  BY <1>4, <1>12 DEF FoldRefused, Fail, Skip, coordinator, broker
<1>13. CASE RouteRefused(m) \/ Note(m) \/ NoteRefused(m) \/ NotYet(m) \/ SendOffsetsFails(m)
            \/ FencedOut(m) \/ CloseFenced(m)
  BY <1>4, <1>13 DEF RouteRefused, Note, NoteRefused, NotYet, SendOffsetsFails, FencedOut,
       CloseFenced, coordinator, broker
<1>14. CASE Restore(m) \/ RestoreStalls(m) \/ Fetch(m) \/ (\E N \in SUBSET Numbers : Assign(m, N))
            \/ Evict(m) \/ Crash(m) \/ Exit(m)
  BY <1>4, <1>14 DEF Restore, RestoreStalls, Fetch, Assign, Evict, Crash, Exit, coordinator, broker
<1>15. QED BY <1>5, <1>6, <1>7, <1>8, <1>9, <1>10, <1>11, <1>12, <1>13, <1>14, ActsCases

LEMMA LoopTypes ==
  ASSUME TypeOK, NEW m \in Members, Acts(m)
  PROVE  LoopType' /\ CountType' /\ StoreType'
<1>0. BrokerType /\ LoopType /\ CountType /\ StoreType
  BY TypeParts
<1>p. /\ client \in [Members -> {"ready", "open", "failed"}]
      /\ offsets \in [Members -> [Sources -> Nat]] /\ messages \in [Members -> Nat]
      /\ held \in [Members -> SUBSET Numbers] /\ joining \in [Members -> SUBSET Numbers]
      /\ position \in [Members -> [Sources -> Nat]] /\ store \in [Members -> [Orders -> SUBSET Place]]
      /\ owner \in [Numbers -> Members \cup {NoMember}] /\ Numbers \in SUBSET Numbers
      /\ fenced \subseteq Members /\ work \in [Members -> Place]
      /\ pc \in [Members -> {"down", "restore", "fetch", "poll", "route", "note", "settle",
                             "commit", "closing"}]
  BY <1>0 DEF LoopType, CountType, StoreType
<1> DEFINE Labels == {"down", "restore", "fetch", "poll", "route", "note", "settle", "commit",
                      "closing"}
<1>g. \A label \in Labels : Goto(m, label) => pc' \in [Members -> Labels]
  BY <1>p DEF Goto
<1>q. Release(m) => owner' \in [Numbers -> Members \cup {NoMember}]
  BY <1>p, ReleaseType
<1>r. \A c \in {"ready", "open", "failed"} : Reset(m, c) =>
        /\ client' \in [Members -> {"ready", "open", "failed"}]
        /\ offsets' \in [Members -> [Sources -> Nat]] /\ messages' \in [Members -> Nat]
  BY <1>p, ResetType
<1>l. \A N \in SUBSET Numbers : LetGo(m, N) =>
        /\ held' \in [Members -> SUBSET Numbers] /\ joining' \in [Members -> SUBSET Numbers]
        /\ position' \in [Members -> [Sources -> Nat]]
        /\ store' \in [Members -> [Orders -> SUBSET Place]]
  BY <1>p, LetGoType
<1>d. Disrupt \/ UNCHANGED disruptions => disruptions' \in Nat
  BY <1>0, DisruptType
<1> DEFINE Goal == /\ owner' \in [Numbers -> Members \cup {NoMember}] /\ fenced' \subseteq Members
                   /\ pc' \in [Members -> Labels]
                   /\ joining' \in [Members -> SUBSET Numbers] /\ held' \in [Members -> SUBSET Numbers]
                   /\ position' \in [Members -> [Sources -> Nat]] /\ work' \in [Members -> Place]
                   /\ client' \in [Members -> {"ready", "open", "failed"}]
                   /\ offsets' \in [Members -> [Sources -> Nat]]
                   /\ messages' \in [Members -> Nat] /\ disruptions' \in Nat
                   /\ store' \in [Members -> [Orders -> SUBSET Place]]
<1>z. Goal => LoopType' /\ CountType' /\ StoreType'
  BY DEF LoopType, CountType, StoreType
<1> SUFFICES Goal
  BY <1>z
<1> HIDE DEF Labels
<1>k. "down" \in Labels /\ "restore" \in Labels /\ "fetch" \in Labels /\ "poll" \in Labels
      /\ "route" \in Labels /\ "note" \in Labels /\ "settle" \in Labels /\ "commit" \in Labels
      /\ "closing" \in Labels /\ pc \in [Members -> Labels]
  BY <1>p DEF Labels
<1>1. CASE Close(m) \/ CloseFenced(m)
  <2>1. /\ Reset(m, "ready") /\ Goto(m, "down") /\ LetGo(m, Numbers)
        /\ fenced' = fenced /\ work' = work /\ disruptions' = disruptions
        /\ Release(m) \/ owner' = owner
    BY <1>1 DEF Close, CloseFenced, coordinator, broker
  <2>2. QED BY <1>p, <1>k, <1>g, <1>q, <1>r, <1>l, <1>d, <2>1
<1>2. CASE Start(m)
  BY <1>p, <1>k, <1>g, <1>d, <1>2 DEF Start, committer
<1>3. CASE \E N \in SUBSET Numbers : Assign(m, N)
  <2>1. PICK N \in SUBSET Numbers : Assign(m, N)
    BY <1>3
  <2>2. joining' \in [Members -> SUBSET Numbers] /\ owner' \in [Numbers -> Members \cup {NoMember}]
    BY <1>p, <2>1 DEF Assign
  <2>3. QED BY <1>p, <1>k, <1>g, <1>d, <2>1, <2>2 DEF Assign, broker, committer
<1>4. CASE Restore(m)
  <2>1. restored(m, joining[m]) \in [Orders -> SUBSET Place]
    <3>1. \A k \in Orders : ValueAt(k, LastStable(Home[k])) \subseteq Place
      BY <1>0, ValueType
    <3>2. \A k \in Orders : store[m][k] \in SUBSET Place
      BY <1>p
    <3>3. QED BY <3>1, <3>2 DEF restored
  <2>2. store' \in [Members -> [Orders -> SUBSET Place]]
    BY <1>p, <1>4, <2>1 DEF Restore
  <2>3. QED BY <1>p, <1>k, <1>g, <1>d, <1>4, <2>2 DEF Restore, coordinator, broker, committer
<1>5. CASE Fetch(m)
  <2>1. position' \in [Members -> [Sources -> Nat]]
    <3>1. committed \in [Sources -> Nat]
      BY <1>0 DEF BrokerType
    <3>2. QED BY <1>p, <1>5, <3>1 DEF Fetch
  <2>2. held' \in [Members -> SUBSET Numbers] /\ joining' \in [Members -> SUBSET Numbers]
    BY <1>p, <1>5 DEF Fetch
  <2>3. QED BY <1>p, <1>k, <1>g, <1>d, <1>5, <2>1, <2>2 DEF Fetch, coordinator, broker, committer
<1>6. CASE \E N \in SUBSET Numbers : Revoke(m, N)
  <2>1. PICK N \in SUBSET Numbers : Revoke(m, N)
    BY <1>6
  <2>2. PICK c \in {"ready", "failed"} : Reset(m, c) /\ LetGo(m, N)
    BY <2>1 DEF Revoke, GiveUp
  <2>3. owner' \in [Numbers -> Members \cup {NoMember}]
    BY <1>p, <2>1 DEF Revoke
  <2>4. Disrupt /\ fenced' = fenced /\ pc' = pc /\ work' = work
    BY <2>1 DEF Revoke
  <2>5. QED BY <1>p, <1>k, <1>r, <1>l, <1>d, <2>2, <2>3, <2>4
<1>7. CASE Lost(m)
  <2>1. PICK c \in {"ready", "failed"} : Reset(m, c) /\ LetGo(m, Numbers)
    BY <1>7 DEF Lost, GiveUp
  <2>2. UNCHANGED <<owner, fenced, pc, work, disruptions>>
    BY <1>7 DEF Lost
  <2>3. QED BY <1>p, <1>k, <1>r, <1>l, <1>d, <2>1, <2>2
<1>8. CASE Evict(m)
  <2>1. Release(m) /\ (Disrupt \/ UNCHANGED disruptions) /\ UNCHANGED <<broker, committer, loop>>
    BY <1>8 DEF Evict
  <2>2. QED BY <1>p, <1>k, <1>q, <1>d, <2>1 DEF broker, committer, loop
<1>9. CASE Crash(m)
  BY <1>p, <1>k, <1>g, <1>r, <1>l, <1>d, <1>9 DEF Crash, coordinator, broker
<1>10. CASE FencedOut(m)
  BY <1>p, <1>k, <1>g, <1>r, <1>d, <1>10 DEF FencedOut, coordinator, broker
<1>11. CASE TimeOut(m)
  BY <1>p, <1>k, <1>d, <1>11 DEF TimeOut, committer, loop
<1>12. CASE \E s \in Sources : Fold(m, s) \/ FoldRefused(m, s)
  <2>1. PICK s \in Sources : Fold(m, s) \/ FoldRefused(m, s)
    BY <1>12
  <2>2. work' \in [Members -> Place] /\ position' \in [Members -> [Sources -> Nat]]
    BY <1>0, <2>1, TakeType DEF Fold, FoldRefused
  <2>3. <<s, position[m][s]>> \in Place
    BY <1>p DEF Place
  <2>4. PICK here \in Place : here = <<s, position[m][s]>>
    BY <2>3
  <2>5. store' = [store EXCEPT ![m][Polled(m, s).order] = @ \cup {here}]
    BY <2>1, <2>4 DEF Fold, FoldRefused
  <2>6. store' \in [Members -> [Orders -> SUBSET Place]]
    <3>1. PICK k : k = Polled(m, s).order
      OBVIOUS
    <3>2. store' = [store EXCEPT ![m][k] = @ \cup {here}]
      BY <2>5, <3>1
    <3>3. PICK row \in [Orders -> SUBSET Place] : row = store[m]
      BY <1>p
    <3>4. store' = [store EXCEPT ![m] = [row EXCEPT ![k] = @ \cup {here}]]
      BY <3>2, <3>3
    <3>5. [row EXCEPT ![k] = @ \cup {here}] \in [Orders -> SUBSET Place]
      BY <2>4
    <3>6. QED BY <1>p, <3>4, <3>5
  <2>7. /\ Goto(m, "note") \/ Goto(m, "closing")
        /\ UNCHANGED <<owner, fenced, committer, joining, held, disruptions>>
    BY <2>1 DEF Fold, FoldRefused, coordinator, broker
  <2>8. QED BY <1>p, <1>k, <1>g, <1>d, <2>2, <2>6, <2>7 DEF committer
<1>13. CASE \E s \in Sources : Fail(m, s) \/ Skip(m, s)
  <2>1. PICK s \in Sources : Fail(m, s) \/ Skip(m, s)
    BY <1>13
  <2>2. work' \in [Members -> Place] /\ position' \in [Members -> [Sources -> Nat]]
    BY <1>0, <2>1, TakeType DEF Fail, Skip
  <2>3. /\ Goto(m, "note") \/ Goto(m, "route")
        /\ UNCHANGED <<owner, fenced, committer, joining, held, store, disruptions>>
    BY <2>1 DEF Fail, Skip, coordinator, broker
  <2>4. QED BY <1>p, <1>k, <1>g, <1>d, <2>2, <2>3 DEF committer
<1>14. CASE RouteRefused(m)
  <2>1. work[m][2] \in Nat
    BY <1>p DEF Place
  <2>2. position' \in [Members -> [Sources -> Nat]]
    BY <1>p, <1>14, <2>1 DEF RouteRefused, rewind
  <2>3. QED BY <1>p, <1>k, <1>g, <1>d, <1>14, <2>2 DEF RouteRefused, coordinator, broker, committer
<1>15. CASE Note(m)
  <2>1. work[m][1] \in Sources /\ work[m][2] \in Nat /\ work[m][2] + 1 \in Nat
    BY <1>p DEF Place
  <2>2. offsets' \in [Members -> [Sources -> Nat]]
    BY <1>p, <1>15, <2>1 DEF Note
  <2>3. client' \in [Members -> {"ready", "open", "failed"}] /\ messages' \in [Members -> Nat]
    BY <1>p, <1>15 DEF Note
  <2>4. QED BY <1>p, <1>k, <1>g, <1>d, <1>15, <2>2, <2>3 DEF Note, coordinator, broker
<1>16. CASE SendOffsetsFails(m) \/ Commit(m) \/ CommitFails(m)
  <2>1. /\ Reset(m, "failed") \/ Reset(m, "ready")
        /\ Goto(m, "poll") /\ (Disrupt \/ UNCHANGED disruptions)
        /\ UNCHANGED <<owner, fenced, joining, held, position, work, store>>
    BY <1>16 DEF SendOffsetsFails, Commit, CommitFails, CommitFailed, coordinator, broker
  <2>2. QED BY <1>p, <1>k, <1>g, <1>r, <1>d, <2>1
<1>17. CASE RestoreStalls(m) \/ Exit(m) \/ Route(m) \/ NoteRefused(m) \/ NotYet(m) \/ SendOffsets(m)
  <2>1. /\ \E label \in {"closing", "note", "poll", "commit"} : Goto(m, label)
        /\ Disrupt \/ UNCHANGED disruptions
        /\ UNCHANGED <<owner, fenced, joining, held, position, work, store, committer>>
    BY <1>17 DEF RestoreStalls, Exit, Route, NoteRefused, NotYet, SendOffsets, coordinator, broker
  <2>2. QED BY <1>p, <1>k, <1>g, <1>d, <2>1 DEF committer
<1>18. QED BY <1>1, <1>2, <1>3, <1>4, <1>5, <1>6, <1>7, <1>8, <1>9, <1>10, <1>11, <1>12, <1>13,
            <1>14, <1>15, <1>16, <1>17, ActsCases

LEMMA TypeInit == Init => TypeOK
<1> SUFFICES ASSUME Init PROVE TypeOK
  OBVIOUS
<1>1. <<CHOOSE s \in Sources : TRUE, 0>> \in Place
  <2>1. \E s \in Sources : TRUE
    BY TransactionalAssumption, ConstantTypes DEF Topics
  <2>2. (CHOOSE s \in Sources : TRUE) \in Sources
    BY <2>1
  <2>3. QED BY <2>2 DEF Place
<1>2. PICK first \in Place : first = <<CHOOSE s \in Sources : TRUE, 0>>
  BY <1>1
<1>3. work = [m \in Members |-> first]
  BY <1>2 DEF Init
<1>4. BrokerType
  BY NoOffsetsType DEF Init, BrokerType
<1>5. LoopType
  BY <1>3, NoOffsetsType DEF Init, LoopType
<1>6. CountType /\ StoreType
  BY DEF Init, CountType, StoreType, Nothing
<1>7. QED BY <1>4, <1>5, <1>6, TypeParts

LEMMA TypeStep == TypeOK /\ [Next]_vars => TypeOK'
<1> SUFFICES ASSUME TypeOK, [Next]_vars PROVE TypeOK'
  OBVIOUS
<1>1. CASE UNCHANGED vars
  BY <1>1 DEF TypeOK, vars, coordinator, broker, committer, loop
<1>2. CASE Next
  <2>1. PICK m \in Members : Acts(m)
    BY <1>2, NextActs
  <2>2. BrokerType' /\ LoopType' /\ CountType' /\ StoreType'
    BY <2>1, BrokerTypes, LoopTypes
  <2>3. QED BY <2>2 DEF TypeOK, BrokerType, LoopType, CountType, StoreType
<1>3. QED BY <1>1, <1>2

\* Type correctness of the group, its transactions and the broker's part in them.
THEOREM TypeCorrect ==
  Spec => []TypeOK
<1>1. QED BY TypeInit, TypeStep, PTL DEF Spec

-----------------------------------------------------------------------------
(* What a transaction carries.                                             *)

\* The changelog entries a transaction of m has open, and those of them that message p
\* caused; the records of p among those it has for the failure topics.
OpenedBy(m) ==
  {e \in Numbers \X Nat : /\ e[2] \in DOMAIN changelog[e[1]]
                          /\ changelog[e[1]][e[2]].status = "open"
                          /\ changelog[e[1]][e[2]].by = m}
FoldsOf(m, p) == {e \in OpenedBy(m) : changelog[e[1]][e[2]].cause = p}
HopsOf(m, p) == {i \in DOMAIN routing[m] : routing[m][i] = p}

\* Message p has no effect in the open transaction of m, or exactly one.
Never(m, p) == FoldsOf(m, p) = {} /\ HopsOf(m, p) = {}
Once(m, p) ==
  \/ (\E e : FoldsOf(m, p) = {e}) /\ HopsOf(m, p) = {}
  \/ FoldsOf(m, p) = {} /\ \E i : HopsOf(m, p) = {i}

\* The broker has nothing of m to resolve.
Clean(m) == OpenedBy(m) = {} /\ routing[m] = << >> /\ accepted[m] = NoOffsets

\* The effects of p a read_committed reader sees.
Shown(p) == {e \in Numbers \X Nat : /\ e[2] \in DOMAIN changelog[e[1]]
                                    /\ changelog[e[1]][e[2]].status = "committed"
                                    /\ changelog[e[1]][e[2]].cause = p}
Lodged(p) == {i \in DOMAIN routed : routed[i] = p}

\* A record lies on the partition its cause's key hashes to.
PlacedOK ==
  \A n \in Numbers : \A i \in DOMAIN changelog[n] :
    changelog[n][i].status # "marker" => changelog[n][i].cause[1][2] = n

\* Nothing of the transaction of m at the broker has moved, but what it was sent for offsets.
SameEffects(m) ==
  /\ OpenedBy(m)' = OpenedBy(m) /\ (\A p : FoldsOf(m, p)' = FoldsOf(m, p))
  /\ routing'[m] = routing[m]

LEMMA CleanIsNever ==
  ASSUME NEW m, Clean(m), NEW p
  PROVE  Never(m, p)
  BY DEF Clean, Never, FoldsOf, HopsOf

LEMMA SameIsSame ==
  ASSUME NEW m, SameEffects(m)
  PROVE  /\ \A p : Never(m, p)' <=> Never(m, p)
         /\ \A p : Once(m, p)' <=> Once(m, p)
         /\ accepted'[m] = accepted[m] => (Clean(m)' <=> Clean(m))
<1>1. ASSUME NEW p PROVE FoldsOf(m, p)' = FoldsOf(m, p) /\ HopsOf(m, p)' = HopsOf(m, p)
  BY DEF SameEffects, HopsOf
<1>2. QED BY <1>1 DEF SameEffects, Never, Once, Clean

LEMMA UntouchedIsSame ==
  ASSUME NEW m, changelog' = changelog, routing'[m] = routing[m]
  PROVE  SameEffects(m)
  BY DEF SameEffects, OpenedBy, FoldsOf

\* An entry, before and after the transactions of M are resolved.
LEMMA FlippedEntry ==
  ASSUME NEW entry \in Entry \cup {Marker}, NEW M, NEW outcome \in {"committed", "aborted"}
  PROVE  LET new == Flipped(entry, M, outcome) IN
           IF entry.status = "open" /\ entry.by \in M
           THEN new.status = outcome /\ new.cause = entry.cause
           ELSE new = entry
<1>1. CASE entry.status = "open" /\ entry.by \in M
  <2>1. entry \in Entry
    BY <1>1, MarkerIsClosed
  <2>2. QED BY <1>1, <2>1 DEF Flipped, Entry
<1>2. QED BY <1>1 DEF Flipped

\* Entry i of the changelog of n, when the transactions of M are resolved.
ResolvedAt(M, outcome, n, i) ==
  /\ i \in DOMAIN changelog[n] =>
       /\ i \in DOMAIN changelog'[n]
       /\ IF changelog[n][i].status = "open" /\ changelog[n][i].by \in M
          THEN /\ changelog'[n][i].status = outcome
               /\ changelog'[n][i].cause = changelog[n][i].cause
          ELSE changelog'[n][i] = changelog[n][i]
  /\ i \in DOMAIN changelog'[n] =>
       i \in DOMAIN changelog[n] \/ changelog'[n][i].status = "marker"

LEMMA ResolvedPlaces ==
  ASSUME BrokerType, NEW M, NEW outcome \in {"committed", "aborted"},
         changelog' = [n \in Numbers |-> Resolved(n, M, outcome)]
  PROVE  \A n \in Numbers : \A i : ResolvedAt(M, outcome, n, i)
<1> SUFFICES ASSUME NEW n \in Numbers, NEW i PROVE ResolvedAt(M, outcome, n, i)
  OBVIOUS
<1>1. PICK log \in Seq(Entry \cup {Marker}) : log = changelog[n]
  BY DEF BrokerType
<1>2. changelog'[n] = Resolved(n, M, outcome)
  OBVIOUS
<1>3. /\ \A j \in DOMAIN log :
           j \in DOMAIN changelog'[n] /\ changelog'[n][j] = Flipped(log[j], M, outcome)
      /\ \A j \in DOMAIN changelog'[n] : j \in DOMAIN log \/ changelog'[n][j] = Marker
  BY <1>1, <1>2, ResolvedEntries
<1>4. i \in DOMAIN log => log[i] \in Entry \cup {Marker}
  OBVIOUS
<1>5. ASSUME i \in DOMAIN log
      PROVE  /\ i \in DOMAIN changelog'[n]
             /\ IF log[i].status = "open" /\ log[i].by \in M
                THEN changelog'[n][i].status = outcome /\ changelog'[n][i].cause = log[i].cause
                ELSE changelog'[n][i] = log[i]
  <2>1. PICK entry \in Entry \cup {Marker} : entry = log[i]
    BY <1>4, <1>5
  <2>2. i \in DOMAIN changelog'[n] /\ changelog'[n][i] = Flipped(entry, M, outcome)
    BY <1>3, <1>5, <2>1
  <2>3. QED BY <2>1, <2>2, FlippedEntry
<1>6. i \in DOMAIN changelog'[n] => i \in DOMAIN log \/ changelog'[n][i].status = "marker"
  BY <1>3, MarkerIsClosed
<1>7. QED BY <1>1, <1>5, <1>6 DEF ResolvedAt

LEMMA ResolvedOpen ==
  ASSUME NEW M, NEW outcome \in {"committed", "aborted"},
         \A n \in Numbers : \A i : ResolvedAt(M, outcome, n, i), NEW m
  PROVE  /\ m \in M => OpenedBy(m)' = {}
         /\ m \notin M =>
              OpenedBy(m)' = OpenedBy(m) /\ \A p : FoldsOf(m, p)' = FoldsOf(m, p)
<1>1. \A e \in Numbers \X Nat : ResolvedAt(M, outcome, e[1], e[2])
  OBVIOUS
<1>2. CASE m \in M
  BY <1>1, <1>2 DEF OpenedBy, ResolvedAt
<1>3. CASE m \notin M
  <2>1. OpenedBy(m)' = OpenedBy(m)
    BY <1>1, <1>3 DEF OpenedBy, ResolvedAt
  <2>2. ASSUME NEW p PROVE FoldsOf(m, p)' = FoldsOf(m, p)
    <3>1. \A e \in OpenedBy(m) : changelog'[e[1]][e[2]].cause = changelog[e[1]][e[2]].cause
      BY <1>1, <1>3 DEF OpenedBy, ResolvedAt
    <3>2. QED BY <2>1, <3>1 DEF FoldsOf
  <2>3. QED BY <1>3, <2>1, <2>2
<1>4. QED BY <1>2, <1>3

LEMMA AbortedShown ==
  ASSUME NEW M, \A n \in Numbers : \A i : ResolvedAt(M, "aborted", n, i), NEW p
  PROVE  Shown(p)' = Shown(p)
<1>1. \A e \in Numbers \X Nat : ResolvedAt(M, "aborted", e[1], e[2])
  OBVIOUS
<1>2. QED BY <1>1 DEF Shown, ResolvedAt

LEMMA CommittedShown ==
  ASSUME NEW m, \A n \in Numbers : \A i : ResolvedAt({m}, "committed", n, i), NEW p
  PROVE  Shown(p)' = Shown(p) \cup FoldsOf(m, p)
<1>1. \A e \in Numbers \X Nat : ResolvedAt({m}, "committed", e[1], e[2])
  OBVIOUS
<1>2. \A e \in Numbers \X Nat : e \in Shown(p)' <=> e \in Shown(p) \/ e \in FoldsOf(m, p)
  BY <1>1 DEF Shown, FoldsOf, OpenedBy, ResolvedAt
<1>3. QED BY <1>2 DEF Shown, FoldsOf, OpenedBy

LEMMA ResolvedPlaced ==
  ASSUME PlacedOK, NEW M, NEW outcome \in {"committed", "aborted"},
         \A n \in Numbers : \A i : ResolvedAt(M, outcome, n, i)
  PROVE  PlacedOK'
<1> SUFFICES ASSUME NEW n \in Numbers, NEW i \in DOMAIN changelog'[n],
                    changelog'[n][i].status # "marker"
             PROVE  changelog'[n][i].cause[1][2] = n
  BY DEF PlacedOK
<1>1. ResolvedAt(M, outcome, n, i)
  OBVIOUS
<1>2. i \in DOMAIN changelog[n] /\ changelog[n][i].status # "marker"
      /\ changelog'[n][i].cause = changelog[n][i].cause
  BY <1>1 DEF ResolvedAt
<1>3. QED BY <1>2 DEF PlacedOK

-----------------------------------------------------------------------------
(* What a step does to the transactions.                                   *)

\* At the broker nothing of m's transaction has moved.
Quiet(m) == SameEffects(m) /\ accepted'[m] = accepted[m]

\* What the transaction of m carries has grown by the one effect of q.
Gains(m, q) ==
  /\ \A p : p # q => (Never(m, p)' <=> Never(m, p)) /\ (Once(m, p)' <=> Once(m, p))
  /\ Never(m, q) => Once(m, q)'

LEMMA DiscardMoves ==
  ASSUME BrokerType, NEW M, Discard(M)
  PROVE  /\ \A n \in Members : IF n \in M THEN Clean(n)' ELSE Quiet(n)
         /\ committed' = committed /\ routed' = routed /\ \A p : Shown(p)' = Shown(p)
         /\ PlacedOK => PlacedOK'
<1>1. \A n \in Numbers : \A i : ResolvedAt(M, "aborted", n, i)
  BY ResolvedPlaces DEF Discard
<1>2. ASSUME NEW n \in Members PROVE IF n \in M THEN Clean(n)' ELSE Quiet(n)
  <2>1. /\ routing'[n] = IF n \in M THEN << >> ELSE routing[n]
        /\ accepted'[n] = IF n \in M THEN NoOffsets ELSE accepted[n]
    BY DEF Discard
  <2>2. CASE n \in M
    BY <1>1, <2>1, <2>2, ResolvedOpen DEF Clean
  <2>3. CASE n \notin M
    BY <1>1, <2>1, <2>3, ResolvedOpen DEF Quiet, SameEffects
  <2>4. QED BY <2>2, <2>3
<1>3. \A p : Shown(p)' = Shown(p)
  BY <1>1, AbortedShown
<1>4. PlacedOK => PlacedOK'
  BY <1>1, ResolvedPlaced
<1>5. QED BY <1>2, <1>3, <1>4 DEF Discard

LEMMA PublishMoves ==
  ASSUME BrokerType, NEW m \in Members, Publish(m)
  PROVE  /\ Clean(m)' /\ \A n \in Members : n # m => Quiet(n)
         /\ committed' = [s \in Sources |->
              IF accepted[m][s] = 0 THEN committed[s] ELSE accepted[m][s]]
         /\ routed' = routed \o routing[m] /\ \A p : Shown(p)' = Shown(p) \cup FoldsOf(m, p)
         /\ PlacedOK => PlacedOK'
<1>1. \A n \in Numbers : \A i : ResolvedAt({m}, "committed", n, i)
  BY ResolvedPlaces DEF Publish
<1>2. Clean(m)'
  <2>1. routing'[m] = << >> /\ accepted'[m] = NoOffsets
    BY DEF Publish, BrokerType
  <2>2. QED BY <1>1, <2>1, ResolvedOpen DEF Clean
<1>3. ASSUME NEW n \in Members, n # m PROVE Quiet(n)
  <2>1. routing'[n] = routing[n] /\ accepted'[n] = accepted[n]
    BY <1>3 DEF Publish, BrokerType
  <2>2. n \notin {m}
    BY <1>3
  <2>3. QED BY <1>1, <2>1, <2>2, ResolvedOpen DEF Quiet, SameEffects
<1>4. \A p : Shown(p)' = Shown(p) \cup FoldsOf(m, p)
  BY <1>1, CommittedShown
<1>5. PlacedOK => PlacedOK'
  BY <1>1, ResolvedPlaced
<1>6. QED BY <1>2, <1>3, <1>4, <1>5 DEF Publish

\* An open record of m joins a changelog partition.
LEMMA AppendMoves ==
  ASSUME BrokerType, NEW m \in Members, NEW h \in Numbers, NEW entry \in Entry,
         entry.status = "open", entry.by = m, entry.cause[1][2] = h,
         changelog' = [changelog EXCEPT ![h] = Append(@, entry)]
  PROVE  /\ \E e : \A p : FoldsOf(m, p)' =
                        IF p = entry.cause THEN FoldsOf(m, p) \cup {e} ELSE FoldsOf(m, p)
         /\ \A n : n # m =>
              OpenedBy(n)' = OpenedBy(n) /\ \A p : FoldsOf(n, p)' = FoldsOf(n, p)
         /\ \A p : Shown(p)' = Shown(p)
         /\ PlacedOK => PlacedOK'
<1>1. PICK log \in Seq(Entry \cup {Marker}) : log = changelog[h]
  BY DEF BrokerType
<1>2. PICK last \in Nat : last = Len(log) + 1
  BY AppendedEntries
<1>3. /\ changelog'[h] = Append(log, entry)
      /\ \A n \in Numbers : n # h => changelog'[n] = changelog[n]
  BY <1>1 DEF BrokerType
<1>4. /\ last \notin DOMAIN log /\ DOMAIN changelog'[h] = DOMAIN log \cup {last}
      /\ \A i \in DOMAIN log : changelog'[h][i] = log[i]
      /\ changelog'[h][last] = entry
  <2>1. /\ Len(log) \in Nat /\ DOMAIN log = 1 .. Len(log)
        /\ DOMAIN Append(log, entry) = DOMAIN log \cup {last}
        /\ \A i \in DOMAIN log : Append(log, entry)[i] = log[i]
        /\ Append(log, entry)[last] = entry
    BY <1>2, AppendedEntries
  <2>2. last \notin DOMAIN log
    BY <1>2, <2>1
  <2>3. QED BY <1>3, <2>1, <2>2
<1>5. ASSUME NEW e \in Numbers \X Nat
      PROVE  /\ e[2] \in DOMAIN changelog[e[1]] =>
                  /\ e # <<h, last>>
                  /\ e[2] \in DOMAIN changelog'[e[1]]
                  /\ changelog'[e[1]][e[2]] = changelog[e[1]][e[2]]
             /\ e[2] \in DOMAIN changelog'[e[1]] =>
                  e[2] \in DOMAIN changelog[e[1]] \/ e = <<h, last>>
  <2>1. PICK n \in Numbers, i \in Nat : e = <<n, i>>
    OBVIOUS
  <2>2. CASE n = h
    BY <1>1, <1>4, <2>1, <2>2
  <2>3. CASE n # h
    BY <1>3, <2>1, <2>3
  <2>4. QED BY <2>2, <2>3
<1>6. PICK new \in Numbers \X Nat :
        /\ new = <<h, last>> /\ new[2] \in DOMAIN changelog'[new[1]]
        /\ changelog'[new[1]][new[2]] = entry
  <2>1. PICK new \in Numbers \X Nat : new = <<h, last>>
    OBVIOUS
  <2>2. new[1] = h /\ new[2] = last
    BY <2>1
  <2>3. last \in DOMAIN changelog'[h] /\ changelog'[h][last] = entry
    BY <1>4
  <2>4. QED BY <2>1, <2>2, <2>3
<1>7. ASSUME NEW n
      PROVE  OpenedBy(n)' = IF n = m THEN OpenedBy(n) \cup {new} ELSE OpenedBy(n)
  BY <1>5, <1>6 DEF OpenedBy
<1>9. ASSUME NEW n, NEW p
      PROVE  FoldsOf(n, p)' = IF n = m /\ p = entry.cause THEN FoldsOf(n, p) \cup {new}
                                                         ELSE FoldsOf(n, p)
  <2>1. \A e \in OpenedBy(n) : changelog'[e[1]][e[2]].cause = changelog[e[1]][e[2]].cause
    BY <1>5 DEF OpenedBy
  <2>2. changelog'[new[1]][new[2]].cause = entry.cause
    BY <1>6
  <2>3. QED BY <1>7, <2>1, <2>2 DEF FoldsOf
<1>10. ASSUME NEW p PROVE Shown(p)' = Shown(p)
  <2>1. entry.status # "committed"
    OBVIOUS
  <2>2. QED BY <1>5, <1>6, <2>1 DEF Shown
<1>11. PlacedOK => PlacedOK'
  <2> SUFFICES ASSUME PlacedOK, NEW n \in Numbers, NEW i \in DOMAIN changelog'[n],
                      changelog'[n][i].status # "marker"
               PROVE  changelog'[n][i].cause[1][2] = n
    BY DEF PlacedOK
  <2>1. CASE n = h
    <3>1. CASE i = last
      BY <1>4, <2>1, <3>1
    <3>2. CASE i # last
      BY <1>1, <1>4, <2>1, <3>2 DEF PlacedOK
    <3>3. QED BY <3>1, <3>2
  <2>2. CASE n # h
    BY <1>3, <2>2 DEF PlacedOK
  <2>3. QED BY <2>1, <2>2
<1>12. QED BY <1>7, <1>9, <1>10, <1>11

LEMMA FoldMoves ==
  ASSUME TypeOK, NEW m \in Members, NEW s \in Sources, Fold(m, s),
         NEW here, here = <<s, position[m][s]>>
  PROVE  /\ m \in fenced => \A n \in Members : Quiet(n)
         /\ m \notin fenced => Gains(m, here)
         /\ \A n \in Members : n # m => Quiet(n)
         /\ UNCHANGED <<committed, accepted, routed, fenced>> /\ \A p : Shown(p)' = Shown(p)
         /\ PlacedOK => PlacedOK'
<1>0. BrokerType /\ LoopType /\ StoreType
  BY TypeParts
<1> DEFINE k == Polled(m, s).order
           entry == [status |-> "open", by |-> m, order |-> k, cause |-> here,
                     value |-> store[m][k] \cup {here}]
<1>1. UNCHANGED <<committed, accepted, routing, routed, fenced>>
  BY DEF Fold, coordinator
<1>2. position[m][s] \in Nat /\ position[m][s] < Len(Log[s])
  BY <1>0 DEF LoopType, Fold, Polls
<1>3. Polled(m, s) \in Message /\ Home[k] = s[2]
  BY <1>2, ConstantTypes DEF Polled
<1>4. k \in Orders /\ Home[k] \in Numbers
  BY <1>3, ConstantTypes DEF Message
<1>5. here \in Place /\ store[m][k] \in SUBSET Place
  BY <1>0, <1>2, <1>4 DEF Place, StoreType
<1>6. entry \in Entry
  <2> HIDE DEF k
  <2>1. QED BY <1>4, <1>5 DEF Entry
<1>7. changelog' = IF m \in fenced THEN changelog ELSE
                     [changelog EXCEPT ![Home[k]] = Append(@, entry)]
  BY DEF Fold
<1>8. entry.status = "open" /\ entry.by = m /\ entry.cause = here /\ here[1] = s
  OBVIOUS
<1> HIDE DEF entry, k
<1>9. CASE m \in fenced
  <2>1. \A n \in Members : Quiet(n)
    BY <1>1, <1>7, <1>9, UntouchedIsSame DEF Quiet
  <2>2. (\A p : Shown(p)' = Shown(p)) /\ (PlacedOK => PlacedOK')
    BY <1>7, <1>9 DEF Shown, PlacedOK
  <2>3. QED BY <1>1, <1>9, <2>1, <2>2
<1>10. CASE m \notin fenced
  <2>1. changelog' = [changelog EXCEPT ![Home[k]] = Append(@, entry)]
    BY <1>7, <1>10
  <2>2. entry.cause[1][2] = Home[k]
    BY <1>3, <1>8
  <2>0. PICK h \in Numbers, new \in Entry :
          /\ new.status = "open" /\ new.by = m /\ new.cause = here /\ new.cause[1][2] = h
          /\ changelog' = [changelog EXCEPT ![h] = Append(@, new)]
    BY <1>4, <1>6, <1>8, <2>1, <2>2
  <2>3. PICK e : \A p : FoldsOf(m, p)' =
                   IF p = here THEN FoldsOf(m, p) \cup {e} ELSE FoldsOf(m, p)
    <3>1. \E e : \A p : FoldsOf(m, p)' =
                     IF p = new.cause THEN FoldsOf(m, p) \cup {e} ELSE FoldsOf(m, p)
      BY <1>0, <2>0, AppendMoves, ZenonT(40)
    <3>2. QED BY <2>0, <3>1
  <2>4. /\ \A n : n # m => OpenedBy(n)' = OpenedBy(n) /\ \A p : FoldsOf(n, p)' = FoldsOf(n, p)
        /\ \A p : Shown(p)' = Shown(p)
        /\ PlacedOK => PlacedOK'
    BY <1>0, <2>0, AppendMoves
  <2>5. \A n \in Members : n # m => Quiet(n)
    BY <1>1, <2>4 DEF Quiet, SameEffects
  <2>6. \A p : HopsOf(m, p)' = HopsOf(m, p)
    BY <1>1 DEF HopsOf
  <2>7. Gains(m, here)
    <3>1. ASSUME NEW p, p # here
          PROVE  (Never(m, p)' <=> Never(m, p)) /\ (Once(m, p)' <=> Once(m, p))
      <4>1. FoldsOf(m, p)' = FoldsOf(m, p) /\ HopsOf(m, p)' = HopsOf(m, p)
        BY <2>3, <2>6, <3>1
      <4>2. QED BY <4>1 DEF Never, Once
    <3>2. ASSUME Never(m, here) PROVE Once(m, here)'
      <4>1. FoldsOf(m, here)' = {e} /\ HopsOf(m, here)' = {}
        <5>1. FoldsOf(m, here) = {} /\ HopsOf(m, here) = {}
          BY <3>2 DEF Never
        <5>2. FoldsOf(m, here)' = FoldsOf(m, here) \cup {e}
          BY <2>3
        <5>3. QED BY <2>6, <5>1, <5>2
      <4>2. QED BY <4>1 DEF Once
    <3>3. QED BY <3>1, <3>2 DEF Gains
  <2>8. QED BY <1>1, <1>10, <2>4, <2>5, <2>7
<1>11. QED BY <1>9, <1>10

LEMMA RouteMoves ==
  ASSUME TypeOK, NEW m \in Members, Route(m), NEW p, p = work[m]
  PROVE  /\ m \in fenced => Quiet(m)
         /\ m \notin fenced => Gains(m, p)
         /\ \A n \in Members : n # m => Quiet(n)
         /\ UNCHANGED <<committed, accepted, routed, fenced>> /\ \A q : Shown(q)' = Shown(q)
         /\ PlacedOK => PlacedOK'
<1>0. BrokerType /\ LoopType
  BY TypeParts
<1>1. UNCHANGED <<committed, accepted, changelog, routed, fenced>>
  BY DEF Route, coordinator
<1>2. /\ routing' = IF m \in fenced THEN routing ELSE [routing EXCEPT ![m] = Append(@, work[m])]
      /\ routing \in [Members -> Seq(Place)] /\ work[m] \in Place
  BY <1>0 DEF Route, BrokerType, LoopType
<1>3. \A n \in Members : n # m \/ m \in fenced => Quiet(n)
  BY <1>1, <1>2, UntouchedIsSame DEF Quiet
<1>4. (\A q : Shown(q)' = Shown(q)) /\ (PlacedOK => PlacedOK')
  BY <1>1 DEF Shown, PlacedOK
<1>5. m \notin fenced => Gains(m, p)
  <2> SUFFICES ASSUME m \notin fenced PROVE Gains(m, p)
    OBVIOUS
  <2>1. \A q : FoldsOf(m, q)' = FoldsOf(m, q)
    BY <1>1 DEF FoldsOf, OpenedBy
  <2>2. PICK old \in Seq(Place) : old = routing[m] /\ p \in Place
    BY <1>2
  <2>3. routing'[m] = Append(old, p)
    BY <1>2, <2>2
  <2>4. /\ DOMAIN Append(old, p) = DOMAIN old \cup {Len(old) + 1}
        /\ \A i \in DOMAIN old : Append(old, p)[i] = old[i]
        /\ Append(old, p)[Len(old) + 1] = p
    OBVIOUS
  <2>5. ASSUME NEW q
        PROVE  HopsOf(m, q)' = IF q = p THEN HopsOf(m, q) \cup {Len(old) + 1} ELSE HopsOf(m, q)
    BY <2>2, <2>3, <2>4 DEF HopsOf
  <2>6. ASSUME NEW q, q # p
        PROVE  (Never(m, q)' <=> Never(m, q)) /\ (Once(m, q)' <=> Once(m, q))
    <3>1. FoldsOf(m, q)' = FoldsOf(m, q) /\ HopsOf(m, q)' = HopsOf(m, q)
      BY <2>1, <2>5, <2>6
    <3>2. QED BY <3>1 DEF Never, Once
  <2>7. ASSUME Never(m, p) PROVE Once(m, p)'
    <3>1. FoldsOf(m, p)' = {} /\ HopsOf(m, p)' = {Len(old) + 1}
      BY <2>1, <2>5, <2>7 DEF Never
    <3>2. QED BY <3>1 DEF Once
  <2>8. QED BY <2>6, <2>7 DEF Gains
<1>6. QED BY <1>1, <1>3, <1>4, <1>5

\* What a step of m may do at the broker.
LEMMA BrokerCases ==
  ASSUME NEW m \in Members, Acts(m)
  PROVE  \/ UNCHANGED <<committed, accepted, changelog, routing, routed, fenced>>
         \/ Discard({m}) /\ fenced' \in {fenced, fenced \cup {m}}
         \/ Start(m) \/ (\E s \in Sources : Fold(m, s)) \/ Route(m) \/ SendOffsets(m)
         \/ pc[m] = "commit" /\ m \notin fenced /\ Publish(m) /\ fenced' = fenced
<1>1. CASE Close(m) \/ \E N \in SUBSET Numbers : Revoke(m, N)
  BY <1>1 DEF Close, Revoke, GiveUp, aborted_first, Abort
<1>2. CASE Lost(m) \/ TimeOut(m)
  BY <1>2 DEF Lost, GiveUp, aborted_first, Abort, TimeOut
<1>3. CASE Commit(m) \/ CommitFails(m)
  BY <1>3 DEF Commit, CommitFails
<1>4. CASE \E s \in Sources : FoldRefused(m, s) \/ Fail(m, s) \/ Skip(m, s)
  BY <1>4 DEF FoldRefused, Fail, Skip, coordinator, broker
<1>5. CASE RouteRefused(m) \/ Note(m) \/ NoteRefused(m) \/ NotYet(m) \/ SendOffsetsFails(m)
            \/ FencedOut(m) \/ CloseFenced(m)
  BY <1>5 DEF RouteRefused, Note, NoteRefused, NotYet, SendOffsetsFails, FencedOut,
       CloseFenced, coordinator, broker
<1>6. CASE Restore(m) \/ RestoreStalls(m) \/ Fetch(m) \/ (\E N \in SUBSET Numbers : Assign(m, N))
            \/ Evict(m) \/ Crash(m) \/ Exit(m)
  BY <1>6 DEF Restore, RestoreStalls, Fetch, Assign, Evict, Crash, Exit, coordinator, broker
<1>7. QED BY <1>1, <1>2, <1>3, <1>4, <1>5, <1>6, ActsCases

-----------------------------------------------------------------------------
(* What a step of m leaves to the others.                                  *)

\* What a member has to itself.
Private(m) == <<pc[m], joining[m], held[m], position[m], work[m], client[m], offsets[m]>>

LEMMA OthersStay ==
  ASSUME LoopType, NEW m \in Members, Acts(m), NEW n \in Members, n # m
  PROVE  UNCHANGED Private(n)
<1>0. (/\ pc'[n] = pc[n] /\ joining'[n] = joining[n] /\ held'[n] = held[n]
       /\ position'[n] = position[n] /\ work'[n] = work[n] /\ client'[n] = client[n]
       /\ offsets'[n] = offsets[n]) => UNCHANGED Private(n)
  BY DEF Private
<1>t. /\ pc \in [Members -> {"down", "restore", "fetch", "poll", "route", "note", "settle",
                             "commit", "closing"}]
      /\ joining \in [Members -> SUBSET Numbers] /\ held \in [Members -> SUBSET Numbers]
      /\ position \in [Members -> [Sources -> Nat]] /\ work \in [Members -> Place]
      /\ client \in [Members -> {"ready", "open", "failed"}]
      /\ offsets \in [Members -> [Sources -> Nat]]
  BY DEF LoopType
<1>1. ASSUME NEW c, Reset(m, c) PROVE client'[n] = client[n] /\ offsets'[n] = offsets[n]
  BY <1>t, <1>1 DEF Reset
<1>2. ASSUME NEW N, LetGo(m, N)
      PROVE  held'[n] = held[n] /\ joining'[n] = joining[n] /\ position'[n] = position[n]
  BY <1>t, <1>2 DEF LetGo
<1>3. ASSUME NEW l, Goto(m, l) PROVE pc'[n] = pc[n]
  BY <1>t, <1>3 DEF Goto
<1>4. ASSUME NEW s, Take(m, s) PROVE position'[n] = position[n] /\ work'[n] = work[n]
  BY <1>t, <1>4 DEF Take
<1>5. CASE Close(m) \/ CloseFenced(m)
  BY <1>0, <1>1, <1>2, <1>3, <1>5 DEF Close, CloseFenced
<1>6. CASE Start(m) \/ (\E N \in SUBSET Numbers : Assign(m, N))
  BY <1>0, <1>3, <1>6, <1>t DEF Start, Assign, committer
<1>7. CASE Restore(m) \/ RestoreStalls(m) \/ Fetch(m)
  BY <1>0, <1>3, <1>7, <1>t DEF Restore, RestoreStalls, Fetch, committer
<1>8. CASE (\E N \in SUBSET Numbers : Revoke(m, N)) \/ Lost(m)
  <2>1. PICK c, N : Reset(m, c) /\ LetGo(m, N)
    BY <1>8 DEF Revoke, Lost, GiveUp
  <2>2. UNCHANGED <<pc, work>>
    BY <1>8 DEF Revoke, Lost
  <2>3. QED BY <1>0, <1>1, <1>2, <2>1, <2>2
<1>9. CASE Evict(m) \/ TimeOut(m)
  BY <1>0, <1>9 DEF Evict, TimeOut, committer, loop
<1>10. CASE Crash(m) \/ Exit(m) \/ FencedOut(m)
  BY <1>0, <1>1, <1>2, <1>3, <1>10 DEF Crash, Exit, FencedOut, committer
<1>11. CASE (\E s \in Sources : Fold(m, s))
            \/ \E s \in Sources : FoldRefused(m, s) \/ Fail(m, s) \/ Skip(m, s)
  BY <1>0, <1>3, <1>4, <1>11 DEF Fold, FoldRefused, Fail, Skip, committer
<1>12. CASE Route(m) \/ RouteRefused(m) \/ Note(m) \/ NoteRefused(m) \/ NotYet(m)
  BY <1>0, <1>3, <1>12, <1>t DEF Route, RouteRefused, Note, NoteRefused, NotYet, rewind, committer
<1>13. CASE SendOffsets(m) \/ SendOffsetsFails(m) \/ Commit(m) \/ CommitFails(m)
  BY <1>0, <1>1, <1>3, <1>13
     DEF SendOffsets, SendOffsetsFails, Commit, CommitFails, CommitFailed, committer
<1>14. QED BY <1>5, <1>6, <1>7, <1>8, <1>9, <1>10, <1>11, <1>12, <1>13, ActsCases

\* Nobody else gains or loses a number.
LEMMA OwnersStay ==
  ASSUME LoopType, NEW m \in Members, Acts(m), NEW n \in Members, n # m
  PROVE  \A k \in Numbers : owner'[k] = n <=> owner[k] = n
<1>0. owner \in [Numbers -> Members \cup {NoMember}] /\ NoMember \notin Members
  BY ConstantTypes DEF LoopType
<1>1. CASE owner' = owner
  BY <1>1
<1>2. CASE Release(m)
  BY <1>0, <1>2 DEF Release
<1>3. ASSUME NEW N \in SUBSET Numbers, Assign(m, N) PROVE \A k \in Numbers : owner'[k] = n <=> owner[k] = n
  BY <1>0, <1>3 DEF Assign
<1>4. ASSUME NEW N \in SUBSET Numbers, Revoke(m, N) PROVE \A k \in Numbers : owner'[k] = n <=> owner[k] = n
  BY <1>0, <1>4 DEF Revoke
<1>5. CASE Close(m) \/ CloseFenced(m) \/ Start(m) \/ Restore(m) \/ RestoreStalls(m) \/ Fetch(m)
  BY <1>1, <1>2, <1>5 DEF Close, CloseFenced, Start, Restore, RestoreStalls, Fetch, coordinator
<1>6. CASE Lost(m) \/ Evict(m) \/ TimeOut(m) \/ Crash(m) \/ Exit(m) \/ FencedOut(m)
  BY <1>1, <1>2, <1>6 DEF Lost, Evict, TimeOut, Crash, Exit, FencedOut, coordinator
<1>7. CASE (\E s \in Sources : Fold(m, s))
            \/ \E s \in Sources : FoldRefused(m, s) \/ Fail(m, s) \/ Skip(m, s)
  BY <1>1, <1>7 DEF Fold, FoldRefused, Fail, Skip, coordinator
<1>8. CASE Route(m) \/ RouteRefused(m) \/ Note(m) \/ NoteRefused(m) \/ NotYet(m)
            \/ SendOffsets(m) \/ SendOffsetsFails(m) \/ Commit(m) \/ CommitFails(m)
  BY <1>1, <1>8 DEF Route, RouteRefused, Note, NoteRefused, NotYet, SendOffsets, SendOffsetsFails,
       Commit, CommitFails, coordinator
<1>9. QED BY <1>3, <1>4, <1>5, <1>6, <1>7, <1>8, ActsCases

\* Their transactions stay as they are, or are resolved for good by an instance that starts
\* under the same transactional.id.
LEMMA OthersAtBroker ==
  ASSUME TypeOK, NEW m \in Members, Acts(m), NEW n \in Members, n # m
  PROVE  \/ Quiet(n) /\ (n \in fenced' <=> n \in fenced)
         \/ Clean(n)' /\ (n \in fenced' \/ pc[n] = "down") /\ (n \in fenced => n \in fenced')
<1>0. BrokerType /\ LoopType
  BY TypeParts
<1>1. CASE UNCHANGED <<committed, accepted, changelog, routing, routed, fenced>>
  BY <1>1, UntouchedIsSame DEF Quiet
<1>2. CASE Discard({m}) /\ fenced' \in {fenced, fenced \cup {m}}
  <2>1. Quiet(n)
    BY <1>0, <1>2, DiscardMoves
  <2>2. n \in fenced' <=> n \in fenced
    BY <1>2
  <2>3. QED BY <2>1, <2>2
<1>3. CASE Start(m)
  <2>1. PICK same \in SUBSET Members :
          /\ Discard(same) /\ fenced' = (fenced \cup {l \in same : Running(l)}) \ {m}
    BY <1>3 DEF Start
  <2>2. IF n \in same THEN Clean(n)' ELSE Quiet(n)
    BY <1>0, <2>1, DiscardMoves
  <2>3. QED BY <2>1, <2>2 DEF Running
<1>4. CASE \E s \in Sources : Fold(m, s)
  BY <1>4, FoldMoves
<1>5. CASE Route(m)
  BY <1>5, RouteMoves
<1>6. CASE SendOffsets(m)
  <2>1. UNCHANGED <<changelog, routing, fenced>> /\ accepted'[n] = accepted[n]
    BY <1>0, <1>6 DEF SendOffsets, broker, BrokerType
  <2>2. QED BY <2>1, UntouchedIsSame DEF Quiet
<1>7. CASE pc[m] = "commit" /\ m \notin fenced /\ Publish(m) /\ fenced' = fenced
  BY <1>0, <1>7, PublishMoves
<1>8. QED BY <1>1, <1>2, <1>3, <1>4, <1>5, <1>6, <1>7, BrokerCases

\* Only a commit moves an offset of the group, or shows an effect.
LEMMA CommittedMoves ==
  ASSUME TypeOK, NEW m \in Members, Acts(m)
  PROVE  /\ \/ committed' = committed /\ routed' = routed /\ \A p : Shown(p)' = Shown(p)
            \/ pc[m] = "commit" /\ m \notin fenced /\ Publish(m)
         /\ PlacedOK => PlacedOK'
<1>0. BrokerType /\ LoopType
  BY TypeParts
<1>1. CASE UNCHANGED <<committed, accepted, changelog, routing, routed, fenced>>
  BY <1>1 DEF Shown, PlacedOK
<1>2. CASE \E M \in SUBSET Members : Discard(M)
  BY <1>0, <1>2, DiscardMoves
<1>3. CASE Start(m)
  BY <1>2, <1>3 DEF Start
<1>4. CASE \E s \in Sources : Fold(m, s)
  BY <1>4, FoldMoves
<1>5. CASE Route(m)
  BY <1>5, RouteMoves
<1>6. CASE SendOffsets(m)
  BY <1>6 DEF SendOffsets, broker, Shown, PlacedOK
<1>7. CASE pc[m] = "commit" /\ m \notin fenced /\ Publish(m)
  BY <1>0, <1>7, PublishMoves
<1>8. QED BY <1>1, <1>2, <1>3, <1>4, <1>5, <1>6, <1>7, BrokerCases

-----------------------------------------------------------------------------
(* The invariant behind exactly-once.                                      *)

\* The offset up to which m has noted the messages of s, or has nothing of it in hand; and
\* up to which their effects are in its transaction.
Seen(m, s) ==
  IF pc[m] \in {"route", "note"} /\ work[m][1] = s THEN work[m][2] ELSE position[m][s]
Reach(m, s) ==
  IF pc[m] = "route" /\ work[m][1] = s THEN work[m][2] ELSE position[m][s]

Owns(m, N) == \A n \in N : owner[n] = m
OwnsNone(m, N) == \A n \in N : owner[n] # m

Looping(m) == pc[m] \in {"poll", "route", "note", "settle", "commit"}

\* No offset is past the end of its source.
OffsetsOK ==
  /\ \A s \in Sources : committed[s] <= Len(Log[s])
  /\ \A m \in Members, s \in Sources :
       /\ position[m][s] <= Len(Log[s])
       /\ offsets[m][s] <= Len(Log[s]) /\ accepted[m][s] <= Len(Log[s])

\* An eager rebalance gives and takes everything at once.
HoldsOK(m) ==
  /\ pc[m] \in {"down", "restore", "fetch"} => held[m] = {}
  /\ Owns(m, held[m]) \/ OwnsNone(m, held[m])
  /\ Owns(m, joining[m]) \/ OwnsNone(m, joining[m])

HandOK(m) ==
  pc[m] \in {"route", "note"} =>
    /\ work[m][1][2] \in held[m] /\ position[m][work[m][1]] = work[m][2] + 1
    /\ pc[m] = "note" /\ ~ Open(m) => work[m] \notin Effectful

ClientOK(m) ==
  /\ pc[m] = "down" => client[m] = "ready"
  /\ pc[m] = "commit" => Open(m)
  /\ Open(m) => \E s \in Sources : offsets[m][s] > 0
  /\ ~ Open(m) => \A s \in Sources : offsets[m][s] = 0
  /\ \A s \in Sources : offsets[m][s] > 0 => s[2] \in held[m]

\* A fenced member, and one that has begun nothing, have nothing for the broker to resolve;
\* the coordinator has offsets of a transaction only once they are sent to it.
BrokerOK(m) ==
  /\ m \in fenced => Clean(m)
  /\ Running(m) /\ client[m] = "ready" => Clean(m)
  /\ pc[m] = "commit" /\ m \notin fenced => accepted[m] = offsets[m]
  /\ Open(m) /\ pc[m] # "commit" => accepted[m] = NoOffsets

\* Offsets the coordinator waits to commit keep everybody else away from their source.
PendingOK ==
  \A m \in Members, s \in Sources : accepted[m][s] > 0 =>
    \A n \in Members \ {m} : accepted[n][s] = 0 /\ (s[2] \in held[n] => owner[s[2]] # n)

\* An owner is where its transaction, or the committed offset, left off ...
OwnerTracks(m) ==
  Owns(m, held[m]) /\ Looping(m) /\ client[m] # "failed" =>
    \A s \in Sources : s[2] \in held[m] =>
      /\ offsets[m][s] = 0 => Seen(m, s) = committed[s]
      /\ offsets[m][s] > 0 => offsets[m][s] = Seen(m, s) /\ committed[s] <= Seen(m, s)

\* ... and between the two calls of its commit a member is there, owner or no longer.
CommitTracks(m) ==
  pc[m] = "commit" /\ m \notin fenced =>
    \A s \in Sources :
      /\ s[2] \in held[m] /\ offsets[m][s] = 0 => position[m][s] <= committed[s]
      /\ offsets[m][s] > 0 => offsets[m][s] = position[m][s] /\ committed[s] <= offsets[m][s]

\* A transaction that may yet be committed has the effects of the messages between the
\* committed offset and where its member is, once each, and no others.
InReach(m, p) ==
  p[1][2] \in held[m] /\ committed[p[1]] <= p[2] /\ p[2] < Reach(m, p[1])
CarriesOK(m) ==
  m \notin fenced /\ Open(m) /\ Looping(m) /\ (pc[m] = "commit" \/ Owns(m, held[m])) =>
    \A p \in Effectful :
      (InReach(m, p) => Once(m, p)) /\ (~ InReach(m, p) => Never(m, p))

MemberOK(m) ==
  /\ HoldsOK(m) /\ HandOK(m) /\ ClientOK(m) /\ BrokerOK(m)
  /\ OwnerTracks(m) /\ CommitTracks(m) /\ CarriesOK(m)

EosInv ==
  TypeOK /\ OffsetsOK /\ PlacedOK /\ PendingOK /\ \A m \in Members : MemberOK(m)

LEMMA EffectfulType ==
  ASSUME NEW p \in Effectful
  PROVE  /\ p[1] \in Sources /\ p[2] \in Nat /\ p[2] < Len(Log[p[1]]) /\ p = <<p[1], p[2]>>
         /\ p[1][2] \in Numbers
<1>1. PICK s \in Sources : p \in {s} \X (0 .. Len(Log[s]) - 1)
  BY DEF Effectful
<1>2. p[1] = s /\ p[2] \in 0 .. Len(Log[s]) - 1 /\ p = <<p[1], p[2]>>
  BY <1>1
<1>3. Len(Log[s]) \in Nat /\ s[2] \in Numbers
  BY ConstantTypes
<1>4. QED BY <1>2, <1>3

\* What the types say of one member and one source.
LEMMA Types ==
  ASSUME TypeOK, NEW m \in Members
  PROVE  /\ held[m] \in SUBSET Numbers /\ joining[m] \in SUBSET Numbers
         /\ work[m][1] \in Sources /\ work[m][2] \in Nat /\ work[m] = <<work[m][1], work[m][2]>>
         /\ \A s \in Sources :
              /\ committed[s] \in Nat /\ accepted[m][s] \in Nat /\ offsets[m][s] \in Nat
              /\ position[m][s] \in Nat /\ Seen(m, s) \in Nat /\ Reach(m, s) \in Nat
              /\ s[2] \in Numbers
<1>1. BrokerType /\ LoopType
  BY TypeParts
<1>2. work[m] \in Place
  BY <1>1 DEF LoopType
<1>3. work[m][1] \in Sources /\ work[m][2] \in Nat /\ work[m] = <<work[m][1], work[m][2]>>
  BY <1>2 DEF Place
<1>4. \A s \in Sources :
        /\ committed[s] \in Nat /\ accepted[m][s] \in Nat /\ offsets[m][s] \in Nat
        /\ position[m][s] \in Nat /\ s[2] \in Numbers
  BY <1>1, ConstantTypes DEF BrokerType, LoopType
<1>5. \A s \in Sources : Seen(m, s) \in Nat /\ Reach(m, s) \in Nat
  BY <1>3, <1>4 DEF Seen, Reach
<1>6. held[m] \in SUBSET Numbers /\ joining[m] \in SUBSET Numbers
  BY <1>1 DEF LoopType
<1>7. QED BY <1>3, <1>4, <1>5, <1>6

LEMMA Parts ==
  ASSUME EosInv
  PROVE  /\ TypeOK /\ BrokerType /\ LoopType /\ OffsetsOK /\ PlacedOK /\ PendingOK
         /\ \A m \in Members : /\ HoldsOK(m) /\ HandOK(m) /\ ClientOK(m) /\ BrokerOK(m)
                               /\ OwnerTracks(m) /\ CommitTracks(m) /\ CarriesOK(m)
  BY TypeParts DEF EosInv, MemberOK

\* A commit moves an offset to where its member is, and never back.
LEMMA CommittedRises ==
  ASSUME EosInv, NEW m \in Members, Acts(m), NEW s \in Sources
  PROVE  \/ committed'[s] = committed[s]
         \/ /\ accepted[m][s] > 0 /\ committed'[s] = accepted[m][s]
            /\ committed'[s] = offsets[m][s] /\ committed'[s] = position[m][s]
            /\ committed[s] <= committed'[s]
<1>1. CASE committed' = committed
  BY <1>1
<1>2. CASE pc[m] = "commit" /\ m \notin fenced /\ Publish(m)
  <2>1. accepted[m] = offsets[m]
    BY <1>2, Parts DEF BrokerOK
  <2>2. offsets[m][s] > 0 => offsets[m][s] = position[m][s] /\ committed[s] <= offsets[m][s]
    BY <1>2, Parts DEF CommitTracks
  <2>3. committed'[s] = IF accepted[m][s] = 0 THEN committed[s] ELSE accepted[m][s]
    BY <1>2, Parts, PublishMoves
  <2>4. accepted[m][s] \in Nat
    BY Parts, Types
  <2>5. QED BY <2>1, <2>2, <2>3, <2>4
<1>3. QED BY <1>1, <1>2, Parts, CommittedMoves

-----------------------------------------------------------------------------
(* A step of m, as the other members see it.                               *)

LEMMA BystanderHolds ==
  ASSUME EosInv, NEW m \in Members, Acts(m), NEW n \in Members, n # m
  PROVE  /\ HoldsOK(n)' /\ HandOK(n)' /\ ClientOK(n)'
         /\ Owns(n, held[n])' <=> Owns(n, held[n])
<1>1. UNCHANGED Private(n)
  BY Parts, OthersStay
<1>2. \A k \in Numbers : owner'[k] = n <=> owner[k] = n
  BY Parts, OwnersStay
<1>3. held[n] \in SUBSET Numbers /\ joining[n] \in SUBSET Numbers
  BY Parts, Types
<1>4. HoldsOK(n) /\ HandOK(n) /\ ClientOK(n)
  BY Parts
<1>5. /\ Owns(n, held[n])' <=> Owns(n, held[n])
      /\ Owns(n, joining[n])' <=> Owns(n, joining[n])
  BY <1>1, <1>2, <1>3 DEF Owns, Private
<1>6. /\ OwnsNone(n, held[n])' <=> OwnsNone(n, held[n])
      /\ OwnsNone(n, joining[n])' <=> OwnsNone(n, joining[n])
  BY <1>1, <1>2, <1>3 DEF OwnsNone, Private
<1>7. HoldsOK(n)'
  BY <1>1, <1>4, <1>5, <1>6 DEF HoldsOK, Private
<1>8. HandOK(n)' /\ ClientOK(n)'
  BY <1>1, <1>4 DEF HandOK, ClientOK, Private, Open
<1>9. QED BY <1>5, <1>7, <1>8

LEMMA BystanderBroker ==
  ASSUME EosInv, NEW m \in Members, Acts(m), NEW n \in Members, n # m
  PROVE  BrokerOK(n)'
<1>1. UNCHANGED Private(n)
  BY Parts, OthersStay
<1>2. BrokerOK(n)
  BY Parts
<1>3. CASE Quiet(n) /\ (n \in fenced' <=> n \in fenced)
  <2>1. (Clean(n)' <=> Clean(n)) /\ accepted'[n] = accepted[n]
    BY <1>3, SameIsSame DEF Quiet
  <2>2. QED BY <1>1, <1>2, <1>3, <2>1 DEF BrokerOK, Private, Running, Open
<1>4. CASE Clean(n)' /\ (n \in fenced' \/ pc[n] = "down")
  <2>1. accepted'[n] = NoOffsets
    BY <1>4 DEF Clean
  <2>2. pc'[n] = "commit" => n \in fenced'
    BY <1>1, <1>4 DEF Private
  <2>3. QED BY <1>4, <2>1, <2>2 DEF BrokerOK
<1>5. QED BY <1>3, <1>4, Parts, OthersAtBroker

LEMMA BystanderTracks ==
  ASSUME EosInv, NEW m \in Members, Acts(m), NEW n \in Members, n # m
  PROVE  OwnerTracks(n)' /\ CommitTracks(n)'
<1>1. UNCHANGED Private(n)
  BY Parts, OthersStay
<1>2. /\ pc'[n] = pc[n] /\ held'[n] = held[n] /\ position'[n] = position[n]
      /\ work'[n] = work[n] /\ client'[n] = client[n] /\ offsets'[n] = offsets[n]
  BY <1>1 DEF Private
<1>3. \A s \in Sources : Seen(n, s)' = Seen(n, s)
  BY <1>2 DEF Seen
<1>4. /\ OwnerTracks(n) /\ CommitTracks(n) /\ BrokerOK(n) /\ PendingOK
  BY Parts
<1>5. ASSUME NEW s \in Sources
      PROVE  /\ committed[s] \in Nat /\ committed'[s] \in Nat /\ committed[s] <= committed'[s]
             /\ offsets[n][s] \in Nat /\ position[n][s] \in Nat /\ Seen(n, s) \in Nat
             /\ committed'[s] = committed[s] \/ accepted[m][s] > 0
  <2>1. /\ committed[s] \in Nat /\ offsets[n][s] \in Nat /\ position[n][s] \in Nat
        /\ Seen(n, s) \in Nat /\ accepted[m][s] \in Nat
    BY Parts, Types
  <2>2. \/ committed'[s] = committed[s]
        \/ accepted[m][s] > 0 /\ committed'[s] = accepted[m][s] /\ committed[s] <= committed'[s]
    BY CommittedRises
  <2>3. QED BY <2>1, <2>2
<1>6. OwnerTracks(n)'
  <2> SUFFICES ASSUME Owns(n, held[n])', Looping(n)', client'[n] # "failed",
                      NEW s \in Sources, s[2] \in held'[n]
               PROVE  /\ offsets'[n][s] = 0 => Seen(n, s)' = committed'[s]
                      /\ offsets'[n][s] > 0 =>
                           offsets'[n][s] = Seen(n, s)' /\ committed'[s] <= Seen(n, s)'
    BY DEF OwnerTracks
  <2>1. Owns(n, held[n]) /\ Looping(n) /\ client[n] # "failed" /\ s[2] \in held[n]
    BY <1>2, BystanderHolds DEF Looping
  <2>2. committed'[s] = committed[s]
    <3>1. owner[s[2]] = n
      BY <2>1 DEF Owns
    <3>2. ~ accepted[m][s] > 0
      BY <1>4, <2>1, <3>1 DEF PendingOK
    <3>3. QED BY <1>5, <3>2
  <2>3. /\ offsets[n][s] = 0 => Seen(n, s) = committed[s]
        /\ offsets[n][s] > 0 => offsets[n][s] = Seen(n, s) /\ committed[s] <= Seen(n, s)
    BY <1>4, <2>1 DEF OwnerTracks
  <2>4. QED BY <1>2, <1>3, <2>2, <2>3
<1>7. CommitTracks(n)'
  <2> SUFFICES ASSUME pc'[n] = "commit", n \notin fenced', NEW s \in Sources
               PROVE  /\ s[2] \in held'[n] /\ offsets'[n][s] = 0 => position'[n][s] <= committed'[s]
                      /\ offsets'[n][s] > 0 =>
                           offsets'[n][s] = position'[n][s] /\ committed'[s] <= offsets'[n][s]
    BY DEF CommitTracks
  <2>1. pc[n] = "commit" /\ n \notin fenced
    BY <1>2, Parts, OthersAtBroker
  <2>2. /\ s[2] \in held[n] /\ offsets[n][s] = 0 => position[n][s] <= committed[s]
        /\ offsets[n][s] > 0 => offsets[n][s] = position[n][s] /\ committed[s] <= offsets[n][s]
    BY <1>4, <2>1 DEF CommitTracks
  <2>3. offsets[n][s] > 0 => committed'[s] = committed[s]
    <3>1. accepted[n][s] = offsets[n][s]
      BY <1>4, <2>1 DEF BrokerOK
    <3>2. accepted[n][s] > 0 => ~ accepted[m][s] > 0
      BY <1>4, <1>5 DEF PendingOK
    <3>3. QED BY <1>5, <3>1, <3>2
  <2>4. s[2] \in held[n] /\ offsets[n][s] = 0 => position[n][s] <= committed'[s]
    BY <1>5, <2>2
  <2>5. QED BY <1>2, <2>2, <2>3, <2>4
<1>8. QED BY <1>6, <1>7

LEMMA BystanderCarries ==
  ASSUME EosInv, NEW m \in Members, Acts(m), NEW n \in Members, n # m
  PROVE  CarriesOK(n)'
<1>1. UNCHANGED Private(n)
  BY Parts, OthersStay
<1>2. /\ pc'[n] = pc[n] /\ held'[n] = held[n] /\ position'[n] = position[n]
      /\ work'[n] = work[n] /\ client'[n] = client[n] /\ offsets'[n] = offsets[n]
  BY <1>1 DEF Private
<1> SUFFICES ASSUME n \notin fenced', Open(n)', Looping(n)', pc'[n] = "commit" \/ Owns(n, held[n])',
                    NEW p \in Effectful
             PROVE  (InReach(n, p)' => Once(n, p)') /\ (~ InReach(n, p)' => Never(n, p)')
  BY DEF CarriesOK
<1>3. /\ Open(n) /\ Looping(n) /\ (pc[n] = "commit" \/ Owns(n, held[n]))
      /\ pc[n] # "down"
  BY <1>2, BystanderHolds DEF Open, Looping
<1>4. Quiet(n) /\ n \notin fenced
  BY <1>3, Parts, OthersAtBroker
<1>5. (InReach(n, p) => Once(n, p)) /\ (~ InReach(n, p) => Never(n, p))
  BY <1>3, <1>4, Parts DEF CarriesOK
<1>6. (Once(n, p)' <=> Once(n, p)) /\ (Never(n, p)' <=> Never(n, p))
  BY <1>4, SameIsSame DEF Quiet
<1>7. PICK s \in Sources : s = p[1]
  BY EffectfulType
<1>8. Reach(n, s)' = Reach(n, s) /\ Reach(n, s) \in Nat /\ position[n][s] \in Nat
      /\ accepted[n][s] \in Nat /\ accepted[m][s] \in Nat /\ committed[s] \in Nat /\ p[2] \in Nat
  BY <1>2, Parts, Types, EffectfulType DEF Reach
<1>9. InReach(n, p)' <=> InReach(n, p)
  <2>1. CASE committed'[s] = committed[s]
    BY <1>2, <1>7, <1>8, <2>1 DEF InReach
  <2>2. CASE s[2] \notin held[n]
    BY <1>2, <1>7, <2>2 DEF InReach
  <2>3. CASE committed'[s] # committed[s] /\ s[2] \in held[n]
    <3>1. accepted[m][s] > 0 /\ committed'[s] = accepted[m][s] /\ committed[s] <= committed'[s]
      BY <2>3, CommittedRises
    <3>2. accepted[n][s] = 0 /\ owner[s[2]] # n
      BY <2>3, <3>1, Parts DEF PendingOK
    <3>3. pc[n] = "commit"
      BY <1>3, <2>3, <3>2 DEF Owns
    <3>4. accepted[n] = offsets[n]
      BY <1>4, <3>3, Parts DEF BrokerOK
    <3>5. position[n][s] <= committed[s]
      BY <1>4, <2>3, <3>2, <3>3, <3>4, Parts DEF CommitTracks
    <3>6. Reach(n, s) = position[n][s]
      BY <3>3 DEF Reach
    <3>7. ~ (committed[s] <= p[2] /\ p[2] < Reach(n, s))
      BY <1>8, <3>5, <3>6
    <3>8. ~ (committed'[s] <= p[2] /\ p[2] < Reach(n, s))
      BY <1>8, <3>1, <3>5, <3>6
    <3>9. QED BY <1>7, <1>8, <3>7, <3>8 DEF InReach
  <2>4. QED BY <2>1, <2>2, <2>3
<1>10. QED BY <1>5, <1>6, <1>9

LEMMA BystanderOK ==
  ASSUME EosInv, NEW m \in Members, Acts(m), NEW n \in Members, n # m
  PROVE  MemberOK(n)'
  BY BystanderHolds, BystanderBroker, BystanderTracks, BystanderCarries DEF MemberOK

-----------------------------------------------------------------------------
(* A step of m, as m itself sees it: membership.                           *)

\* What the helpers of the actions do to m.
LEMMA OwnMoves ==
  ASSUME LoopType, NEW m \in Members
  PROVE  /\ \A l : Goto(m, l) => pc'[m] = l
         /\ \A N : LetGo(m, N) => held'[m] = held[m] \ N /\ joining'[m] = {}
         /\ \A c : Reset(m, c) => client'[m] = c /\ offsets'[m] = NoOffsets
         /\ \A s \in Sources : Take(m, s) =>
              /\ work'[m] = <<s, position[m][s]>> /\ position'[m][s] = position[m][s] + 1
              /\ \A r \in Sources : r # s => position'[m][r] = position[m][r]
<1>t. /\ pc \in [Members -> {"down", "restore", "fetch", "poll", "route", "note", "settle",
                             "commit", "closing"}]
      /\ joining \in [Members -> SUBSET Numbers] /\ held \in [Members -> SUBSET Numbers]
      /\ position \in [Members -> [Sources -> Nat]] /\ work \in [Members -> Place]
      /\ client \in [Members -> {"ready", "open", "failed"}]
      /\ offsets \in [Members -> [Sources -> Nat]]
  BY DEF LoopType
<1>1. \A l : Goto(m, l) => pc'[m] = l
  BY <1>t DEF Goto
<1>2. \A N : LetGo(m, N) => held'[m] = held[m] \ N /\ joining'[m] = {}
  BY <1>t DEF LetGo
<1>3. \A c : Reset(m, c) => client'[m] = c /\ offsets'[m] = NoOffsets
  BY <1>t DEF Reset
<1>4. ASSUME NEW s \in Sources, Take(m, s)
      PROVE  /\ work'[m] = <<s, position[m][s]>> /\ position'[m][s] = position[m][s] + 1
             /\ \A r \in Sources : r # s => position'[m][r] = position[m][r]
  BY <1>t, <1>4 DEF Take
<1>5. QED BY <1>1, <1>2, <1>3, <1>4

LEMMA NothingNoted == \A s \in Sources : NoOffsets[s] = 0
  BY DEF NoOffsets

LEMMA OutOfLoop ==
  ASSUME NEW m, ~ Looping(m)'
  PROVE  HandOK(m)' /\ OwnerTracks(m)' /\ CommitTracks(m)' /\ CarriesOK(m)'
  BY DEF Looping, HandOK, OwnerTracks, CommitTracks, CarriesOK

LEMMA NothingHeld ==
  ASSUME NEW m, held'[m] = {}, joining'[m] = {}
  PROVE  HoldsOK(m)' /\ OwnerTracks(m)'
  BY DEF HoldsOK, Owns, OwnerTracks

LEMMA NothingOpen ==
  ASSUME NEW m, client'[m] # "open", pc'[m] # "commit"
  PROVE  CarriesOK(m)' /\ CommitTracks(m)'
  BY DEF CarriesOK, CommitTracks, Open

LEMMA ResetClient ==
  ASSUME NEW m, client'[m] \in {"ready", "failed"}, offsets'[m] = NoOffsets,
         pc'[m] # "commit", pc'[m] = "down" => client'[m] = "ready"
  PROVE  ClientOK(m)'
<1>1. \A s \in Sources : offsets'[m][s] = 0
  BY NothingNoted
<1>2. \A s \in Sources : ~ offsets'[m][s] > 0
  BY <1>1
<1>3. QED BY <1>1, <1>2 DEF ClientOK, Open

\* Nothing moves at the broker.
LEMMA StillClean ==
  ASSUME NEW m, changelog' = changelog, routing' = routing, accepted' = accepted
  PROVE  Quiet(m) /\ (Clean(m)' <=> Clean(m))
<1>1. SameEffects(m)
  BY UntouchedIsSame
<1>2. QED BY <1>1, SameIsSame DEF Quiet

\* After an abort the transaction is out of the way, or the library's is in error.
LEMMA Aborted ==
  ASSUME EosInv, NEW m \in Members, NEW c \in {"ready", "failed"}, Abort(m, c), fenced' = fenced
  PROVE  /\ m \in fenced' => Clean(m)'
         /\ Running(m) /\ c = "ready" => Clean(m)'
         /\ committed' = committed
<1>0. BrokerOK(m) /\ BrokerType
  BY Parts
<1>1. CASE ~ Open(m) /\ c = client[m] /\ UNCHANGED <<committed, accepted, changelog, routing, routed>>
  <2>1. Clean(m)' <=> Clean(m)
    BY <1>1, StillClean
  <2>2. QED BY <1>0, <1>1, <2>1 DEF BrokerOK
<1>2. CASE Discard({m})
  BY <1>0, <1>2, DiscardMoves
<1>3. CASE m \notin fenced /\ c = "failed" /\ UNCHANGED <<committed, accepted, changelog, routing, routed>>
  BY <1>3
<1>4. QED BY <1>1, <1>2, <1>3 DEF Abort

LEMMA Leaves ==
  ASSUME EosInv, NEW m \in Members, Close(m) \/ CloseFenced(m) \/ Crash(m)
  PROVE  MemberOK(m)'
<1>1. /\ Goto(m, "down") /\ LetGo(m, Numbers) /\ Reset(m, "ready") /\ fenced' = fenced
  BY DEF Close, CloseFenced, Crash, broker
<1>2. held[m] \in SUBSET Numbers
  BY Parts, Types
<1>3. /\ pc'[m] = "down" /\ held'[m] = {} /\ joining'[m] = {}
      /\ client'[m] = "ready" /\ offsets'[m] = NoOffsets
  BY <1>1, <1>2, Parts, OwnMoves
<1>4. m \in fenced' => Clean(m)'
  <2>1. CASE Close(m)
    <3>1. PICK c \in {"ready", "failed"} : Abort(m, c)
      BY <2>1 DEF Close
    <3>2. QED BY <1>1, <3>1, Aborted
  <2>2. CASE CloseFenced(m) \/ Crash(m)
    <3>1. Clean(m)' <=> Clean(m)
      BY <2>2, StillClean DEF CloseFenced, Crash, coordinator, broker
    <3>2. QED BY <1>1, <3>1, Parts DEF BrokerOK
  <2>3. QED BY <2>1, <2>2
<1>5. BrokerOK(m)'
  BY <1>3, <1>4 DEF BrokerOK, Running, Open
<1>6. QED BY <1>3, <1>5, OutOfLoop, NothingHeld, ResetClient DEF MemberOK, Looping

LEMMA TurnsToClose ==
  ASSUME EosInv, NEW m \in Members,
         \/ Exit(m) \/ FencedOut(m) \/ RestoreStalls(m) \/ NoteRefused(m)
         \/ \E s \in Sources : FoldRefused(m, s)
  PROVE  MemberOK(m)'
<1>1. /\ Goto(m, "closing") /\ UNCHANGED <<coordinator, broker, joining, held>>
      /\ pc[m] \notin {"down"}
      /\ \/ Reset(m, "ready") /\ m \in fenced
         \/ UNCHANGED <<client, offsets>> /\ pc[m] # "commit"
  <2>1. CASE Exit(m) \/ RestoreStalls(m) \/ NoteRefused(m)
    BY <2>1 DEF Exit, RestoreStalls, NoteRefused, committer
  <2>2. CASE FencedOut(m)
    BY <2>2 DEF FencedOut
  <2>3. CASE \E s \in Sources : FoldRefused(m, s)
    BY <2>3 DEF FoldRefused, Polls, committer
  <2>4. QED BY <2>1, <2>2, <2>3
<1>2. pc'[m] = "closing"
  BY <1>1, Parts, OwnMoves
<1>3. UNCHANGED <<owner, committed, accepted, changelog, routing, fenced, held, joining>>
  BY <1>1 DEF coordinator, broker
<1>4. Clean(m)' <=> Clean(m)
  BY <1>3, StillClean
<1>5. HoldsOK(m) /\ ClientOK(m) /\ BrokerOK(m)
  BY Parts
<1>6. HoldsOK(m)'
  BY <1>2, <1>3, <1>5 DEF HoldsOK, Owns, OwnsNone
<1>7. ClientOK(m)' /\ BrokerOK(m)'
  <2>1. CASE Reset(m, "ready") /\ m \in fenced
    <3>1. client'[m] = "ready" /\ offsets'[m] = NoOffsets
      BY <2>1, Parts, OwnMoves
    <3>2. Clean(m)'
      BY <1>4, <1>5, <2>1 DEF BrokerOK
    <3>3. ClientOK(m)'
      BY <1>2, <3>1, ResetClient
    <3>4. QED BY <1>2, <3>1, <3>2, <3>3 DEF BrokerOK, Open
  <2>2. CASE UNCHANGED <<client, offsets>> /\ pc[m] # "commit"
    <3>1. ClientOK(m)'
      BY <1>2, <1>3, <1>5, <2>2 DEF ClientOK, Open
    <3>2. BrokerOK(m)'
      BY <1>1, <1>2, <1>3, <1>4, <1>5, <2>2 DEF BrokerOK, Open, Running
    <3>3. QED BY <3>1, <3>2
  <2>3. QED BY <1>1, <2>1, <2>2
<1>8. QED BY <1>2, <1>6, <1>7, OutOfLoop DEF MemberOK, Looping

LEMMA Starts ==
  ASSUME EosInv, NEW m \in Members, Start(m)
  PROVE  MemberOK(m)'
<1>0. LoopType /\ BrokerType /\ HoldsOK(m) /\ ClientOK(m)
  BY Parts
<1>1. /\ pc[m] = "down" /\ pc'[m] = "poll" /\ m \notin fenced'
      /\ UNCHANGED <<owner, held, joining, client, offsets>>
  BY <1>0, OwnMoves DEF Start, Running, committer
<1>2. Clean(m)'
  <2>1. Discard({n \in Members : Id[n] = Id[m]})
    BY DEF Start
  <2>2. QED BY <1>0, <2>1, DiscardMoves
<1>3. held'[m] = {} /\ client'[m] = "ready"
  BY <1>0, <1>1 DEF HoldsOK, ClientOK
<1>4. HoldsOK(m)' /\ OwnerTracks(m)'
  BY <1>0, <1>1, <1>3 DEF HoldsOK, OwnerTracks, Owns, OwnsNone
<1>5. HandOK(m)' /\ ClientOK(m)'
  BY <1>0, <1>1, <1>3 DEF HandOK, ClientOK, Open
<1>6. BrokerOK(m)'
  BY <1>1, <1>2, <1>3 DEF BrokerOK, Open
<1>7. QED BY <1>1, <1>3, <1>4, <1>5, <1>6, NothingOpen DEF MemberOK

\* The broker and the client library are left alone, away from a commit.
LEMMA UnmovedBroker ==
  ASSUME EosInv, NEW m \in Members, UNCHANGED <<accepted, changelog, routing, fenced>>,
         client'[m] = client[m], pc[m] \notin {"down", "commit"}, pc'[m] # "commit"
  PROVE  BrokerOK(m)'
<1>1. BrokerOK(m)
  BY Parts
<1>2. (Clean(m)' <=> Clean(m)) /\ accepted'[m] = accepted[m]
  BY StillClean
<1>3. QED BY <1>1, <1>2 DEF BrokerOK, Running, Open

LEMMA UnmovedClient ==
  ASSUME EosInv, NEW m \in Members, client'[m] = client[m], offsets'[m] = offsets[m],
         held[m] \subseteq held'[m], pc'[m] \notin {"down", "commit"}
  PROVE  ClientOK(m)'
<1>1. ClientOK(m)
  BY Parts
<1>2. QED BY <1>1 DEF ClientOK, Open

LEMMA UnmovedHolds ==
  ASSUME EosInv, NEW m \in Members, UNCHANGED owner, held'[m] = held[m], joining'[m] = joining[m],
         pc'[m] \notin {"down", "restore", "fetch"}
  PROVE  HoldsOK(m)' /\ (Owns(m, held[m])' <=> Owns(m, held[m]))
<1>1. HoldsOK(m)
  BY Parts
<1>2. QED BY <1>1 DEF HoldsOK, Owns, OwnsNone

LEMMA Assigns ==
  ASSUME EosInv, ~ Incremental, NEW m \in Members, NEW N \in SUBSET Numbers, Assign(m, N)
  PROVE  MemberOK(m)'
<1>0. LoopType
  BY Parts
<1>1. /\ pc[m] = "poll" /\ pc'[m] = "restore" /\ held[m] = {} /\ joining'[m] = N
      /\ held' = held /\ client' = client /\ offsets' = offsets
      /\ UNCHANGED <<accepted, changelog, routing, fenced>>
  BY <1>0, OwnMoves DEF Assign, LoopType, broker, committer
<1>2. \A n \in N : owner'[n] = m
  BY DEF Assign
<1>3. HoldsOK(m)'
  BY <1>1, <1>2 DEF HoldsOK, Owns
<1>4. ClientOK(m)' /\ BrokerOK(m)'
  BY <1>1, UnmovedClient, UnmovedBroker
<1>5. QED BY <1>1, <1>3, <1>4, OutOfLoop DEF MemberOK, Looping

LEMMA Restores ==
  ASSUME EosInv, NEW m \in Members, Restore(m)
  PROVE  MemberOK(m)'
<1>1. /\ pc[m] = "restore" /\ pc'[m] = "fetch" /\ UNCHANGED <<owner, held, joining, client, offsets>>
      /\ UNCHANGED <<accepted, changelog, routing, fenced>>
  BY Parts, OwnMoves DEF Restore, coordinator, broker, committer
<1>2. HoldsOK(m)
  BY Parts
<1>3. HoldsOK(m)'
  BY <1>1, <1>2 DEF HoldsOK, Owns, OwnsNone
<1>4. ClientOK(m)' /\ BrokerOK(m)'
  BY <1>1, UnmovedClient, UnmovedBroker
<1>5. QED BY <1>1, <1>3, <1>4, OutOfLoop DEF MemberOK, Looping

LEMMA Fetches ==
  ASSUME EosInv, NEW m \in Members, Fetch(m)
  PROVE  MemberOK(m)'
<1>0. LoopType /\ HoldsOK(m) /\ ClientOK(m)
  BY Parts
<1>1. /\ pc[m] = "fetch" /\ pc'[m] = "poll" /\ held[m] = {} /\ held'[m] = joining[m]
      /\ joining'[m] = {}
      /\ \A s \in Sources : s[2] \in joining[m] => position'[m][s] = committed[s]
      /\ UNCHANGED <<owner, committed, client, offsets>>
      /\ UNCHANGED <<accepted, changelog, routing, fenced>>
  BY <1>0, OwnMoves DEF Fetch, LoopType, HoldsOK, coordinator, broker, committer
<1>2. ~ Open(m) /\ \A s \in Sources : offsets[m][s] = 0
  <2>1. \A s \in Sources : ~ offsets[m][s] > 0
    BY <1>0, <1>1 DEF ClientOK
  <2>2. QED BY <1>0, <2>1 DEF ClientOK
<1>3. HoldsOK(m)'
  BY <1>0, <1>1 DEF HoldsOK, Owns, OwnsNone
<1>4. ClientOK(m)' /\ BrokerOK(m)'
  BY <1>1, UnmovedClient, UnmovedBroker
<1>5. HandOK(m)'
  BY <1>1 DEF HandOK
<1>6. OwnerTracks(m)'
  <2>1. \A s \in Sources : Seen(m, s)' = position'[m][s]
    BY <1>1 DEF Seen
  <2>2. \A s \in Sources : s[2] \in held'[m] => Seen(m, s)' = committed'[s]
    BY <1>1, <2>1
  <2>3. \A s \in Sources : ~ offsets'[m][s] > 0
    BY <1>1, <1>2
  <2>4. QED BY <2>2, <2>3 DEF OwnerTracks
<1>7. CarriesOK(m)' /\ CommitTracks(m)'
  BY <1>1, <1>2, NothingOpen DEF Open
<1>8. QED BY <1>3, <1>4, <1>5, <1>6, <1>7 DEF MemberOK

\* Everything is given up: _on_revoke of an eager rebalance, and _on_lost.
LEMMA GivesUp ==
  ASSUME EosInv, NEW m \in Members, pc[m] = "poll", UNCHANGED <<pc, fenced>>,
         NEW N, held[m] \subseteq N, GiveUp(m, N)
  PROVE  MemberOK(m)'
<1>1. PICK c \in {"ready", "failed"} : Abort(m, c) /\ Reset(m, c) /\ LetGo(m, N)
  BY DEF GiveUp, aborted_first
<1>2. held'[m] = {} /\ joining'[m] = {} /\ client'[m] = c /\ offsets'[m] = NoOffsets
      /\ pc'[m] = "poll"
  <2>1. /\ held'[m] = held[m] \ N /\ joining'[m] = {} /\ client'[m] = c
        /\ offsets'[m] = NoOffsets
    BY <1>1, Parts, OwnMoves
  <2>2. QED BY <2>1
<1>3. HoldsOK(m)' /\ OwnerTracks(m)'
  BY <1>2, NothingHeld
<1>4. ClientOK(m)'
  BY <1>2, ResetClient
<1>5. BrokerOK(m)'
  <2>1. /\ m \in fenced' => Clean(m)'
        /\ Running(m) /\ c = "ready" => Clean(m)'
    BY <1>1, Aborted
  <2>2. QED BY <1>2, <2>1 DEF BrokerOK, Open, Running
<1>6. HandOK(m)'
  BY <1>2 DEF HandOK
<1>7. CarriesOK(m)' /\ CommitTracks(m)'
  BY <1>2, NothingOpen
<1>8. QED BY <1>3, <1>4, <1>5, <1>6, <1>7 DEF MemberOK

LEMMA Disowned ==
  ASSUME EosInv, NEW m \in Members,
         \/ ~ Incremental /\ \E N \in SUBSET Numbers : Revoke(m, N)
         \/ Lost(m)
  PROVE  MemberOK(m)'
<1>0. held[m] \in SUBSET Numbers
  BY Parts, Types
<1>1. PICK N : held[m] \subseteq N /\ GiveUp(m, N) /\ pc[m] = "poll" /\ UNCHANGED <<pc, fenced>>
  BY <1>0 DEF Revoke, Lost
<1>2. QED BY <1>1, GivesUp

LEMMA Evicts ==
  ASSUME EosInv, NEW m \in Members, Evict(m)
  PROVE  MemberOK(m)'
<1>0. LoopType
  BY Parts
<1>1. /\ UNCHANGED <<committed, accepted, changelog, routing, fenced>>
      /\ UNCHANGED <<pc, joining, held, position, work, client, offsets>>
  BY DEF Evict, broker, committer, loop
<1>2. \A n \in Numbers : owner'[n] # m
  BY <1>0, ConstantTypes DEF Evict, Release, LoopType
<1>3. HoldsOK(m) /\ HandOK(m) /\ ClientOK(m) /\ BrokerOK(m) /\ CommitTracks(m) /\ CarriesOK(m)
  BY Parts
<1>4. held[m] \in SUBSET Numbers /\ joining[m] \in SUBSET Numbers
  BY Parts, Types
<1>5. HoldsOK(m)'
  BY <1>1, <1>2, <1>3, <1>4 DEF HoldsOK, OwnsNone
<1>6. Owns(m, held[m])' => held[m] = {}
  BY <1>1, <1>2, <1>4 DEF Owns
<1>7. OwnerTracks(m)'
  BY <1>1, <1>6 DEF OwnerTracks
<1>8. HandOK(m)' /\ ClientOK(m)' /\ CommitTracks(m)'
  BY <1>1, <1>3 DEF HandOK, ClientOK, CommitTracks, Open
<1>9. SameEffects(m) /\ (Clean(m)' <=> Clean(m))
  BY <1>1, StillClean DEF Quiet
<1>10. BrokerOK(m)'
  BY <1>1, <1>3, <1>9 DEF BrokerOK, Running, Open
<1>11. CarriesOK(m)'
  <2>1. Open(m) => held[m] # {}
    BY <1>3 DEF ClientOK
  <2>2. \A p : (Once(m, p)' <=> Once(m, p)) /\ (Never(m, p)' <=> Never(m, p))
    BY <1>9, SameIsSame
  <2>3. \A p : InReach(m, p)' <=> InReach(m, p)
    BY <1>1 DEF InReach, Reach
  <2>4. QED BY <1>1, <1>3, <1>6, <2>1, <2>2, <2>3 DEF CarriesOK, Open, Looping
<1>12. QED BY <1>5, <1>7, <1>8, <1>10, <1>11 DEF MemberOK

LEMMA TimesOut ==
  ASSUME EosInv, NEW m \in Members, TimeOut(m)
  PROVE  MemberOK(m)'
<1>1. /\ UNCHANGED <<owner, pc, joining, held, position, work, client, offsets>>
      /\ m \in fenced' /\ Discard({m})
  BY DEF TimeOut, committer, loop
<1>2. Clean(m)' /\ committed' = committed
  BY <1>1, Parts, DiscardMoves
<1>3. HoldsOK(m) /\ HandOK(m) /\ ClientOK(m) /\ OwnerTracks(m)
  BY Parts
<1>4. HoldsOK(m)' /\ HandOK(m)' /\ ClientOK(m)'
  BY <1>1, <1>3 DEF HoldsOK, HandOK, ClientOK, Owns, OwnsNone, Open
<1>5. BrokerOK(m)'
  BY <1>1, <1>2 DEF BrokerOK, Clean
<1>6. OwnerTracks(m)'
  BY <1>1, <1>2, <1>3 DEF OwnerTracks, Owns, Looping, Seen
<1>7. CommitTracks(m)' /\ CarriesOK(m)'
  BY <1>1 DEF CommitTracks, CarriesOK
<1>8. QED BY <1>4, <1>5, <1>6, <1>7 DEF MemberOK

-----------------------------------------------------------------------------
(* A step of m, as m itself sees it: the consume loop.                     *)

\* m polls message i of s: it is in hand, and not yet noted.
LEMMA TakesInHand ==
  ASSUME EosInv, NEW m \in Members, NEW s \in Sources, Polls(m, s), Take(m, s),
         NEW i, i = position[m][s], pc'[m] \in {"route", "note"}
  PROVE  /\ i \in Nat /\ s[2] \in held[m] /\ i < Len(Log[s])
         /\ work'[m][1] = s /\ work'[m][2] = i /\ position'[m][s] = i + 1
         /\ \A r \in Sources : r # s => position'[m][r] = position[m][r]
         /\ \A r \in Sources : Seen(m, r)' = Seen(m, r)
         /\ Seen(m, s) = i /\ Reach(m, s) = i
         /\ \A r \in Sources : r # s => Reach(m, r)' = Reach(m, r)
         /\ Reach(m, s)' = IF pc'[m] = "route" THEN i ELSE i + 1
<1>1. /\ work'[m] = <<s, i>> /\ position'[m][s] = i + 1
      /\ \A r \in Sources : r # s => position'[m][r] = position[m][r]
  BY Parts, OwnMoves
<1>2. work'[m][1] = s /\ work'[m][2] = i
  BY <1>1
<1>3. i \in Nat /\ pc[m] = "poll" /\ s[2] \in held[m] /\ i < Len(Log[s])
  BY Parts, Types DEF Polls
<1>4. \A r \in Sources : Seen(m, r) = position[m][r] /\ Reach(m, r) = position[m][r]
  BY <1>3 DEF Seen, Reach
<1>5. \A r \in Sources : Seen(m, r)' = IF r = s THEN i ELSE position'[m][r]
  BY <1>2 DEF Seen
<1>6. \A r \in Sources : Reach(m, r)' = IF pc'[m] = "route" /\ r = s THEN i ELSE position'[m][r]
  BY <1>2 DEF Reach
<1>7. QED BY <1>1, <1>2, <1>3, <1>4, <1>5, <1>6

\* While nothing is noted an owner stays where it is.
LEMMA TracksAlong ==
  ASSUME EosInv, NEW m \in Members, Looping(m), pc'[m] # "commit",
         UNCHANGED <<owner, committed>>, held'[m] = held[m], client'[m] = client[m],
         offsets'[m] = offsets[m], \A r \in Sources : Seen(m, r)' = Seen(m, r)
  PROVE  OwnerTracks(m)' /\ CommitTracks(m)'
<1>1. OwnerTracks(m)
  BY Parts
<1>2. OwnerTracks(m)'
  BY <1>1 DEF OwnerTracks, Owns, Looping
<1>3. CommitTracks(m)'
  BY DEF CommitTracks
<1>4. QED BY <1>2, <1>3

\* What the invariant says of an owner whose transaction may yet be committed.
LEMMA Carrying ==
  ASSUME EosInv, NEW m \in Members, m \notin fenced, Open(m), Looping(m), pc[m] # "commit",
         Owns(m, held[m])
  PROVE  /\ \A p \in Effectful : (InReach(m, p) => Once(m, p)) /\ (~ InReach(m, p) => Never(m, p))
         /\ \A s \in Sources : s[2] \in held[m] => committed[s] <= Seen(m, s)
<1>1. OwnerTracks(m) /\ CarriesOK(m)
  BY Parts
<1>2. \A p \in Effectful : (InReach(m, p) => Once(m, p)) /\ (~ InReach(m, p) => Never(m, p))
  BY <1>1 DEF CarriesOK
<1>3. ASSUME NEW s \in Sources, s[2] \in held[m] PROVE committed[s] <= Seen(m, s)
  <2>1. offsets[m][s] \in Nat /\ committed[s] \in Nat
    BY Parts, Types
  <2>2. client[m] # "failed"
    BY DEF Open
  <2>3. /\ offsets[m][s] = 0 => Seen(m, s) = committed[s]
        /\ offsets[m][s] > 0 => committed[s] <= Seen(m, s)
    BY <1>1, <1>3, <2>2 DEF OwnerTracks
  <2>4. QED BY <2>1, <2>3
<1>4. QED BY <1>2, <1>3

\* The transaction reaches as far as it did, and carries what it did.
LEMMA CarriesAlong ==
  ASSUME EosInv, NEW m \in Members, Looping(m), pc[m] # "commit", pc'[m] # "commit",
         UNCHANGED <<owner, committed, fenced>>, held'[m] = held[m], client'[m] = client[m],
         Quiet(m), \A r \in Sources : Reach(m, r)' = Reach(m, r)
  PROVE  CarriesOK(m)'
<1> SUFFICES ASSUME m \notin fenced, Open(m)', Owns(m, held[m])', NEW p \in Effectful
             PROVE  (InReach(m, p)' => Once(m, p)') /\ (~ InReach(m, p)' => Never(m, p)')
  BY DEF CarriesOK
<1>1. Open(m) /\ Owns(m, held[m])
  BY DEF Open, Owns
<1>2. (InReach(m, p) => Once(m, p)) /\ (~ InReach(m, p) => Never(m, p))
  BY <1>1, Carrying
<1>3. (Once(m, p)' <=> Once(m, p)) /\ (Never(m, p)' <=> Never(m, p))
  BY SameIsSame DEF Quiet
<1>4. InReach(m, p)' <=> InReach(m, p)
  BY EffectfulType DEF InReach
<1>5. QED BY <1>2, <1>3, <1>4

\* It reaches one message further, and carries its effect.
LEMMA CarriesOn ==
  ASSUME EosInv, NEW m \in Members, Looping(m), pc[m] # "commit", pc'[m] # "commit",
         UNCHANGED <<owner, committed, fenced>>, held'[m] = held[m], client'[m] = client[m],
         NEW s \in Sources, NEW i \in Nat, NEW here, here = <<s, i>>, s[2] \in held[m],
         Seen(m, s) = i, Reach(m, s) = i, Reach(m, s)' = i + 1,
         \A r \in Sources : r # s => Reach(m, r)' = Reach(m, r),
         m \in fenced \/ Gains(m, here) \/ (here \notin Effectful /\ Quiet(m))
  PROVE  CarriesOK(m)'
<1> SUFFICES ASSUME m \notin fenced, Open(m)', Owns(m, held[m])', NEW p \in Effectful
             PROVE  (InReach(m, p)' => Once(m, p)') /\ (~ InReach(m, p)' => Never(m, p)')
  BY DEF CarriesOK
<1>1. Open(m) /\ Owns(m, held[m])
  BY DEF Open, Owns
<1>2. (InReach(m, p) => Once(m, p)) /\ (~ InReach(m, p) => Never(m, p))
  BY <1>1, Carrying
<1>3. committed[s] <= i /\ committed[s] \in Nat
  BY <1>1, Carrying, Parts, Types
<1>4. p[1] \in Sources /\ p[2] \in Nat /\ p = <<p[1], p[2]>> /\ committed[p[1]] \in Nat
  BY EffectfulType, Parts, Types
<1>5. CASE p = here
  <2>1. Gains(m, here)
    BY <1>5
  <2>2. p[1] = s /\ p[2] = i
    BY <1>5
  <2>3. ~ InReach(m, p)
    BY <2>2 DEF InReach
  <2>4. Once(m, p)'
    BY <1>2, <1>5, <2>1, <2>3 DEF Gains
  <2>5. InReach(m, p)'
    BY <1>3, <2>2 DEF InReach
  <2>6. QED BY <2>4, <2>5
<1>6. CASE p # here
  <2>1. (Once(m, p)' <=> Once(m, p)) /\ (Never(m, p)' <=> Never(m, p))
    <3>1. CASE Gains(m, here)
      BY <1>6, <3>1 DEF Gains
    <3>2. CASE Quiet(m)
      BY <3>2, SameIsSame DEF Quiet
    <3>3. QED BY <3>1, <3>2
  <2>2. p[1] = s => p[2] # i
    BY <1>4, <1>6
  <2>3. p[1] = s => (p[2] < i + 1 <=> p[2] < i)
    BY <1>4, <2>2
  <2>4. InReach(m, p)' <=> InReach(m, p)
    <3>1. CASE p[1] = s
      BY <2>3, <3>1 DEF InReach
    <3>2. CASE p[1] # s
      BY <1>4, <3>2 DEF InReach
    <3>3. QED BY <3>1, <3>2
  <2>5. QED BY <1>2, <2>1, <2>4
<1>7. QED BY <1>5, <1>6

LEMMA Folds ==
  ASSUME EosInv, NEW m \in Members, NEW s \in Sources, Fold(m, s)
  PROVE  MemberOK(m)'
<1>i. PICK i : i = position[m][s]
  OBVIOUS
<1>1. /\ Polls(m, s) /\ Take(m, s) /\ Open(m) /\ pc'[m] = "note" /\ pc[m] = "poll"
      /\ UNCHANGED <<owner, committed, held, joining, client, offsets>>
  BY Parts, OwnMoves DEF Fold, Polls, coordinator, committer
<1>2. i = position[m][s] /\ <<s, i>> = <<s, position[m][s]>>
  BY <1>i
<1>3. PICK here : here = <<s, i>>
  OBVIOUS
<1>4. /\ i \in Nat /\ s[2] \in held[m]
      /\ work'[m][1] = s /\ work'[m][2] = i /\ position'[m][s] = i + 1
      /\ \A r \in Sources : Seen(m, r)' = Seen(m, r)
      /\ Seen(m, s) = i /\ Reach(m, s) = i
      /\ \A r \in Sources : r # s => Reach(m, r)' = Reach(m, r)
      /\ Reach(m, s)' = i + 1
  BY <1>1, <1>2, TakesInHand
<1>5. /\ m \in fenced => Quiet(m)
      /\ m \notin fenced => Gains(m, here)
      /\ UNCHANGED <<accepted, fenced>>
  BY <1>2, <1>3, Parts, FoldMoves
<1>6. HoldsOK(m)' /\ ClientOK(m)'
  BY <1>1, UnmovedHolds, UnmovedClient
<1>7. HandOK(m)'
  BY <1>1, <1>4 DEF HandOK, Open
<1>8. BrokerOK(m)'
  <2>1. BrokerOK(m)
    BY Parts
  <2>2. m \in fenced' => Clean(m)'
    BY <1>5, <2>1, SameIsSame DEF BrokerOK, Quiet
  <2>3. QED BY <1>1, <1>5, <2>1, <2>2 DEF BrokerOK, Open
<1>9. OwnerTracks(m)' /\ CommitTracks(m)'
  BY <1>1, <1>4, TracksAlong DEF Looping
<1>10. CarriesOK(m)'
  BY <1>1, <1>3, <1>4, <1>5, CarriesOn DEF Looping
<1>11. QED BY <1>6, <1>7, <1>8, <1>9, <1>10 DEF MemberOK

\* A failure in hand, or a message that asks for nothing.
LEMMA Takes ==
  ASSUME EosInv, NEW m \in Members, NEW s \in Sources, Fail(m, s) \/ Skip(m, s)
  PROVE  MemberOK(m)'
<1>i. PICK i : i = position[m][s]
  OBVIOUS
<1>1. /\ Polls(m, s) /\ Take(m, s) /\ pc[m] = "poll" /\ pc'[m] \in {"route", "note"}
      /\ UNCHANGED <<owner, committed, held, joining, client, offsets>>
      /\ UNCHANGED <<accepted, changelog, routing, fenced>>
      /\ pc'[m] = "note" => Polled(m, s).kind = "skip"
  <2>1. CASE Fail(m, s)
    BY <2>1, Parts, OwnMoves DEF Fail, Polls, coordinator, broker, committer
  <2>2. CASE Skip(m, s)
    BY <2>2, Parts, OwnMoves DEF Skip, Polls, coordinator, broker, committer
  <2>3. QED BY <2>1, <2>2
<1>2. i = position[m][s]
  BY <1>i
<1>3. PICK here : here = <<s, i>>
  OBVIOUS
<1>4. /\ i \in Nat /\ s[2] \in held[m]
      /\ work'[m] = <<s, i>> /\ work'[m][1] = s /\ work'[m][2] = i /\ position'[m][s] = i + 1
      /\ \A r \in Sources : Seen(m, r)' = Seen(m, r)
      /\ Seen(m, s) = i /\ Reach(m, s) = i
      /\ \A r \in Sources : r # s => Reach(m, r)' = Reach(m, r)
      /\ Reach(m, s)' = IF pc'[m] = "route" THEN i ELSE i + 1
  <2>1. work'[m] = <<s, i>>
    BY <1>1, <1>2, Parts, OwnMoves
  <2>2. QED BY <1>1, <1>2, <2>1, TakesInHand
<1>5. Quiet(m)
  BY <1>1, StillClean
<1>6. HoldsOK(m)' /\ ClientOK(m)' /\ BrokerOK(m)'
  BY <1>1, UnmovedHolds, UnmovedClient, UnmovedBroker
<1>7. pc'[m] = "note" => here \notin Effectful
  <2>1. here[1] = s /\ here[2] = i
    BY <1>3
  <2>2. QED BY <1>1, <1>2, <2>1 DEF Effectful, Polled
<1>8. HandOK(m)'
  BY <1>1, <1>3, <1>4, <1>7 DEF HandOK
<1>9. OwnerTracks(m)' /\ CommitTracks(m)'
  BY <1>1, <1>4, TracksAlong DEF Looping
<1>10. CarriesOK(m)'
  <2>1. Looping(m) /\ pc[m] # "commit" /\ pc'[m] # "commit"
    BY <1>1 DEF Looping
  <2>2. CASE pc'[m] = "route"
    <3>1. \A r \in Sources : Reach(m, r)' = Reach(m, r)
      BY <1>4, <2>2
    <3>2. QED BY <1>1, <1>5, <2>1, <3>1, CarriesAlong
  <2>3. CASE pc'[m] = "note"
    <3>1. Reach(m, s)' = i + 1 /\ here \notin Effectful
      BY <1>4, <1>7, <2>3
    <3>2. QED BY <1>1, <1>3, <1>4, <1>5, <2>1, <3>1, CarriesOn
  <2>4. QED BY <1>1, <2>2, <2>3
<1>11. QED BY <1>6, <1>8, <1>9, <1>10 DEF MemberOK

LEMMA Routes ==
  ASSUME EosInv, NEW m \in Members, Route(m)
  PROVE  MemberOK(m)'
<1>s. PICK s \in Sources, i \in Nat : work[m][1] = s /\ work[m][2] = i /\ work[m] = <<s, i>>
  BY Parts, Types
<1>1. /\ pc[m] = "route" /\ pc'[m] = "note" /\ Open(m)
      /\ UNCHANGED <<owner, committed, held, joining, position, work, client, offsets>>
  BY Parts, OwnMoves DEF Route, coordinator, committer
<1>2. PICK here : here = work[m]
  OBVIOUS
<1>3. s = work[m][1] /\ i = work[m][2] /\ here = <<s, i>>
  BY <1>2, <1>s
<1>4. s[2] \in held[m] /\ position[m][s] = i + 1
  BY <1>1, <1>3, Parts DEF HandOK
<1>5. /\ m \in fenced => Quiet(m)
      /\ m \notin fenced => Gains(m, here)
      /\ UNCHANGED <<accepted, fenced>>
  BY <1>2, Parts, RouteMoves
<1>6. HoldsOK(m)' /\ ClientOK(m)'
  BY <1>1, UnmovedHolds, UnmovedClient
<1>7. HandOK(m)'
  BY <1>1, <1>3, <1>4 DEF HandOK, Open
<1>8. BrokerOK(m)'
  <2>1. BrokerOK(m)
    BY Parts
  <2>2. m \in fenced' => Clean(m)'
    BY <1>5, <2>1, SameIsSame DEF BrokerOK, Quiet
  <2>3. QED BY <1>1, <1>5, <2>1, <2>2 DEF BrokerOK, Open
<1>9. \A r \in Sources : Seen(m, r)' = Seen(m, r)
  BY <1>1 DEF Seen
<1>10. OwnerTracks(m)' /\ CommitTracks(m)'
  BY <1>1, <1>9, TracksAlong DEF Looping
<1>11. /\ Seen(m, s) = i /\ Reach(m, s) = i /\ Reach(m, s)' = i + 1
       /\ \A r \in Sources : r # s => Reach(m, r)' = Reach(m, r)
  BY <1>1, <1>3, <1>4 DEF Seen, Reach
<1>12. CarriesOK(m)'
  BY <1>1, <1>3, <1>4, <1>5, <1>11, CarriesOn DEF Looping
<1>13. QED BY <1>6, <1>7, <1>8, <1>10, <1>12 DEF MemberOK

LEMMA Rewinds ==
  ASSUME EosInv, NEW m \in Members, RouteRefused(m)
  PROVE  MemberOK(m)'
<1>s. PICK s \in Sources, i \in Nat : work[m][1] = s /\ work[m][2] = i /\ work[m] = <<s, i>>
  BY Parts, Types
<1>0. LoopType
  BY Parts
<1>1. /\ pc[m] = "route" /\ pc'[m] = "poll" /\ ~ Open(m)
      /\ UNCHANGED <<owner, committed, held, joining, client, offsets>>
      /\ UNCHANGED <<accepted, changelog, routing, fenced>>
  BY Parts, OwnMoves DEF RouteRefused, coordinator, broker, committer
<1>2. s = work[m][1] /\ i = work[m][2]
  BY <1>s
<1>3. position'[m][s] = i /\ \A r \in Sources : r # s => position'[m][r] = position[m][r]
  BY <1>0, <1>2 DEF RouteRefused, rewind, LoopType
<1>4. \A r \in Sources : Seen(m, r)' = Seen(m, r)
  BY <1>1, <1>2, <1>3 DEF Seen
<1>5. HoldsOK(m)' /\ ClientOK(m)' /\ BrokerOK(m)'
  BY <1>1, UnmovedHolds, UnmovedClient, UnmovedBroker
<1>6. HandOK(m)'
  BY <1>1 DEF HandOK
<1>7. OwnerTracks(m)' /\ CommitTracks(m)'
  BY <1>1, <1>4, TracksAlong DEF Looping
<1>8. CarriesOK(m)'
  BY <1>1 DEF CarriesOK, Open
<1>9. QED BY <1>5, <1>6, <1>7, <1>8 DEF MemberOK

LEMMA Notes ==
  ASSUME EosInv, NEW m \in Members, Note(m)
  PROVE  MemberOK(m)'
<1>0. LoopType /\ HandOK(m) /\ ClientOK(m) /\ BrokerOK(m) /\ OwnerTracks(m)
  BY Parts
<1>s. PICK s \in Sources, i \in Nat : work[m][1] = s /\ work[m][2] = i /\ work[m] = <<s, i>>
  BY Parts, Types
<1>1. /\ pc[m] = "note" /\ client[m] # "failed" /\ pc'[m] = "settle" /\ client'[m] = "open"
      /\ offsets'[m][s] = i + 1
      /\ \A r \in Sources : r # s => offsets'[m][r] = offsets[m][r]
      /\ UNCHANGED <<owner, committed, held, joining, position, work>>
      /\ UNCHANGED <<accepted, changelog, routing, fenced>>
  BY <1>0, <1>s, OwnMoves DEF Note, LoopType, coordinator, broker
<1>2. s[2] \in held[m] /\ position[m][s] = i + 1 /\ (~ Open(m) => <<s, i>> \notin Effectful)
  BY <1>0, <1>1, <1>s DEF HandOK
<1>3. HoldsOK(m)' /\ (Owns(m, held[m])' <=> Owns(m, held[m]))
  BY <1>1, UnmovedHolds
<1>4. HandOK(m)' /\ CommitTracks(m)'
  BY <1>1 DEF HandOK, CommitTracks
<1>5. ClientOK(m)'
  <2>1. i + 1 > 0
    OBVIOUS
  <2>2. \A r \in Sources : offsets'[m][r] > 0 => r[2] \in held'[m]
    BY <1>0, <1>1, <1>2 DEF ClientOK
  <2>3. QED BY <1>1, <2>1, <2>2 DEF ClientOK, Open
<1>6. Quiet(m) /\ (Clean(m)' <=> Clean(m))
  BY <1>1, StillClean
<1>7. client[m] = "open" \/ Clean(m)
  BY <1>0, <1>1 DEF BrokerOK, Running, LoopType
<1>8. BrokerOK(m)'
  <2>1. accepted[m] = NoOffsets
    BY <1>0, <1>1, <1>7 DEF BrokerOK, Open, Clean
  <2>2. QED BY <1>0, <1>1, <1>6, <2>1 DEF BrokerOK
<1>9. \A r \in Sources : /\ Seen(m, r) = IF r = s THEN i ELSE position[m][r]
                         /\ Seen(m, r)' = position[m][r]
                         /\ Reach(m, r) = position[m][r] /\ Reach(m, r)' = position[m][r]
  BY <1>1, <1>s DEF Seen, Reach
<1>10. Owns(m, held[m]) => \A r \in Sources : r[2] \in held[m] =>
         /\ offsets[m][r] = 0 => Seen(m, r) = committed[r]
         /\ offsets[m][r] > 0 => offsets[m][r] = Seen(m, r) /\ committed[r] <= Seen(m, r)
  BY <1>0, <1>1 DEF OwnerTracks, Looping
<1>11. \A r \in Sources : committed[r] \in Nat /\ position[m][r] \in Nat /\ offsets[m][r] \in Nat
  BY Parts, Types
<1>12. OwnerTracks(m)'
  <2> SUFFICES ASSUME Owns(m, held[m])', NEW r \in Sources, r[2] \in held'[m]
               PROVE  /\ offsets'[m][r] = 0 => Seen(m, r)' = committed'[r]
                      /\ offsets'[m][r] > 0 =>
                           offsets'[m][r] = Seen(m, r)' /\ committed'[r] <= Seen(m, r)'
    BY DEF OwnerTracks
  <2>1. /\ offsets[m][r] = 0 => Seen(m, r) = committed[r]
        /\ offsets[m][r] > 0 => offsets[m][r] = Seen(m, r) /\ committed[r] <= Seen(m, r)
    BY <1>1, <1>3, <1>10
  <2>2. CASE r = s
    <3>1. committed[s] <= i
      BY <1>9, <1>11, <2>1, <2>2
    <3>2. QED BY <1>1, <1>2, <1>9, <1>11, <2>2, <3>1
  <2>3. CASE r # s
    BY <1>1, <1>9, <2>1, <2>3
  <2>4. QED BY <2>2, <2>3
<1>13. CarriesOK(m)'
  <2> SUFFICES ASSUME m \notin fenced, Owns(m, held[m])', NEW p \in Effectful
               PROVE  (InReach(m, p)' => Once(m, p)') /\ (~ InReach(m, p)' => Never(m, p)')
    BY <1>1 DEF CarriesOK
  <2>1. p[1] \in Sources /\ p[2] \in Nat /\ p = <<p[1], p[2]>>
    BY EffectfulType
  <2>2. InReach(m, p)' <=> InReach(m, p)
    BY <1>1, <1>9, <2>1 DEF InReach
  <2>3. (Once(m, p)' <=> Once(m, p)) /\ (Never(m, p)' <=> Never(m, p))
    BY <1>6, SameIsSame DEF Quiet
  <2>4. CASE Open(m)
    <3>1. (InReach(m, p) => Once(m, p)) /\ (~ InReach(m, p) => Never(m, p))
      BY <1>1, <1>3, <2>4, Carrying DEF Looping
    <3>2. QED BY <2>2, <2>3, <3>1
  <2>5. CASE ~ Open(m)
    <3>1. Never(m, p)
      BY <1>7, <2>5, CleanIsNever DEF Open
    <3>2. ~ InReach(m, p)
      <4> SUFFICES ASSUME InReach(m, p) PROVE FALSE
        OBVIOUS
      <4>1. /\ p[1][2] \in held[m] /\ committed[p[1]] <= p[2] /\ p[2] < position[m][p[1]]
        BY <1>9, <2>1 DEF InReach
      <4>2. Seen(m, p[1]) = committed[p[1]]
        BY <1>0, <1>3, <1>10, <2>1, <2>5, <4>1 DEF ClientOK
      <4>3. CASE p[1] = s
        <5>1. p[2] = i
          BY <1>2, <1>9, <1>11, <2>1, <4>1, <4>2, <4>3
        <5>2. QED BY <1>2, <2>1, <2>5, <4>3, <5>1
      <4>4. CASE p[1] # s
        BY <1>9, <1>11, <2>1, <4>1, <4>2, <4>4
      <4>5. QED BY <4>3, <4>4
    <3>3. QED BY <2>2, <2>3, <3>1, <3>2
  <2>6. QED BY <2>4, <2>5
<1>14. QED BY <1>3, <1>4, <1>5, <1>8, <1>12, <1>13 DEF MemberOK

LEMMA NotYets ==
  ASSUME EosInv, NEW m \in Members, NotYet(m)
  PROVE  MemberOK(m)'
<1>1. /\ pc[m] = "settle" /\ pc'[m] = "poll"
      /\ UNCHANGED <<owner, committed, held, joining, position, work, client, offsets>>
      /\ UNCHANGED <<accepted, changelog, routing, fenced>>
  BY Parts, OwnMoves DEF NotYet, coordinator, broker, committer
<1>2. \A r \in Sources : Seen(m, r)' = Seen(m, r) /\ Reach(m, r)' = Reach(m, r)
  BY <1>1 DEF Seen, Reach
<1>3. HoldsOK(m)' /\ ClientOK(m)' /\ BrokerOK(m)'
  BY <1>1, UnmovedHolds, UnmovedClient, UnmovedBroker
<1>4. HandOK(m)'
  BY <1>1 DEF HandOK
<1>5. OwnerTracks(m)' /\ CommitTracks(m)'
  BY <1>1, <1>2, TracksAlong DEF Looping
<1>6. CarriesOK(m)'
  <2>1. Quiet(m)
    BY <1>1, StillClean
  <2>2. QED BY <1>1, <1>2, <2>1, CarriesAlong DEF Looping
<1>7. QED BY <1>3, <1>4, <1>5, <1>6 DEF MemberOK

\* The coordinator takes a transaction's offsets from an owner only.
LEMMA SenderOwns ==
  ASSUME EosInv, NEW m \in Members, Open(m), in_generation(m)
  PROVE  Owns(m, held[m])
<1>1. PICK s \in Sources : offsets[m][s] > 0 /\ s[2] \in held[m]
  BY Parts DEF ClientOK
<1>2. owner[s[2]] = m
  BY <1>1 DEF in_generation
<1>3. QED BY <1>1, <1>2, Parts DEF HoldsOK, OwnsNone

LEMMA SendsOffsets ==
  ASSUME EosInv, NEW m \in Members, SendOffsets(m)
  PROVE  MemberOK(m)'
<1>0. BrokerType /\ ClientOK(m) /\ OwnerTracks(m) /\ BrokerOK(m)
  BY Parts
<1>1. /\ pc[m] \in {"settle", "poll"} /\ pc'[m] = "commit" /\ Open(m) /\ m \notin fenced
      /\ in_generation(m) /\ accepted'[m] = offsets[m]
      /\ UNCHANGED <<owner, committed, held, joining, position, work, client, offsets>>
      /\ UNCHANGED <<changelog, routing, fenced>>
  BY <1>0, Parts, OwnMoves DEF SendOffsets, settles_at, BrokerType, broker, committer
<1>2. Owns(m, held[m])
  BY <1>1, SenderOwns
<1>3. \A r \in Sources : /\ Seen(m, r) = position[m][r] /\ Seen(m, r)' = position[m][r]
                         /\ Reach(m, r)' = Reach(m, r)
  BY <1>1 DEF Seen, Reach
<1>4. \A r \in Sources : r[2] \in held[m] =>
        /\ offsets[m][r] = 0 => position[m][r] = committed[r]
        /\ offsets[m][r] > 0 => offsets[m][r] = position[m][r] /\ committed[r] <= position[m][r]
  BY <1>0, <1>1, <1>2, <1>3 DEF OwnerTracks, Looping, Open
<1>5. HoldsOK(m)'
  BY <1>1, UnmovedHolds
<1>6. HandOK(m)' /\ ClientOK(m)' /\ BrokerOK(m)'
  BY <1>0, <1>1 DEF HandOK, ClientOK, BrokerOK, Open
<1>7. OwnerTracks(m)'
  BY <1>1, <1>3, <1>4 DEF OwnerTracks
<1>8. CommitTracks(m)'
  <2>1. \A r \in Sources : committed[r] \in Nat /\ position[m][r] \in Nat
    BY Parts, Types
  <2>2. \A r \in Sources : offsets[m][r] > 0 => r[2] \in held[m]
    BY <1>0 DEF ClientOK
  <2>3. QED BY <1>1, <1>4, <2>1, <2>2 DEF CommitTracks
<1>9. CarriesOK(m)'
  <2> SUFFICES ASSUME NEW p \in Effectful
               PROVE  (InReach(m, p)' => Once(m, p)') /\ (~ InReach(m, p)' => Never(m, p)')
    BY DEF CarriesOK
  <2>1. (InReach(m, p) => Once(m, p)) /\ (~ InReach(m, p) => Never(m, p))
    BY <1>1, <1>2, Carrying DEF Looping
  <2>2. InReach(m, p)' <=> InReach(m, p)
    BY <1>1, <1>3, EffectfulType DEF InReach
  <2>3. (Once(m, p)' <=> Once(m, p)) /\ (Never(m, p)' <=> Never(m, p))
    BY <1>1, UntouchedIsSame, SameIsSame
  <2>4. QED BY <2>1, <2>2, <2>3
<1>10. QED BY <1>5, <1>6, <1>7, <1>8, <1>9 DEF MemberOK

\* A call of the commit fails: the library's transaction is in error.
LEMMA CommitsFail ==
  ASSUME EosInv, NEW m \in Members, SendOffsetsFails(m) \/ CommitFails(m)
  PROVE  MemberOK(m)'
<1>1. /\ m \notin fenced /\ CommitFailed(m) /\ UNCHANGED <<owner, fenced, held, joining>>
  BY DEF SendOffsetsFails, CommitFails, coordinator, broker
<1>2. pc'[m] = "poll" /\ client'[m] = "failed" /\ offsets'[m] = NoOffsets
  BY <1>1, Parts, OwnMoves DEF CommitFailed
<1>3. HoldsOK(m)' /\ ClientOK(m)'
  BY <1>1, <1>2, UnmovedHolds, ResetClient
<1>4. HandOK(m)' /\ BrokerOK(m)' /\ OwnerTracks(m)'
  BY <1>1, <1>2 DEF HandOK, BrokerOK, OwnerTracks, Open
<1>5. CarriesOK(m)' /\ CommitTracks(m)'
  BY <1>2, NothingOpen
<1>6. QED BY <1>3, <1>4, <1>5 DEF MemberOK

LEMMA Commits ==
  ASSUME EosInv, NEW m \in Members, Commit(m)
  PROVE  MemberOK(m)'
<1>0. BrokerOK(m) /\ OwnerTracks(m) /\ CommitTracks(m) /\ ClientOK(m)
  BY Parts
<1>1. /\ m \notin fenced /\ pc[m] = "commit" /\ Publish(m)
      /\ UNCHANGED <<owner, fenced, held, joining, position, work>>
      /\ pc'[m] = "poll" /\ client'[m] = "ready" /\ offsets'[m] = NoOffsets
  BY Parts, OwnMoves DEF Commit
<1>2. /\ Clean(m)' /\ accepted[m] = offsets[m] /\ Open(m)
      /\ committed' = [s \in Sources |->
           IF accepted[m][s] = 0 THEN committed[s] ELSE accepted[m][s]]
  BY <1>0, <1>1, Parts, PublishMoves DEF BrokerOK, ClientOK
<1>3. HoldsOK(m)' /\ ClientOK(m)' /\ (Owns(m, held[m])' <=> Owns(m, held[m]))
  BY <1>1, UnmovedHolds, ResetClient
<1>4. HandOK(m)' /\ BrokerOK(m)'
  BY <1>1, <1>2 DEF HandOK, BrokerOK, Open
<1>5. CarriesOK(m)' /\ CommitTracks(m)'
  BY <1>1, NothingOpen
<1>6. OwnerTracks(m)'
  <2> SUFFICES ASSUME Owns(m, held[m]), NEW s \in Sources, s[2] \in held[m]
               PROVE  Seen(m, s)' = committed'[s]
    <3>1. \A s \in Sources : offsets'[m][s] = 0 /\ ~ offsets'[m][s] > 0
      BY <1>1, NothingNoted
    <3>2. QED BY <1>1, <1>3, <3>1 DEF OwnerTracks
  <2>1. Seen(m, s)' = position[m][s] /\ Seen(m, s) = position[m][s]
    BY <1>1 DEF Seen
  <2>2. offsets[m][s] \in Nat
    BY Parts, Types
  <2>3. CASE offsets[m][s] = 0
    <3>1. Seen(m, s) = committed[s]
      BY <1>0, <1>1, <1>2, <2>3 DEF OwnerTracks, Looping, Open
    <3>2. QED BY <1>2, <2>1, <2>3, <3>1
  <2>4. CASE offsets[m][s] > 0
    <3>1. offsets[m][s] = position[m][s]
      BY <1>0, <1>1, <2>4 DEF CommitTracks
    <3>2. QED BY <1>2, <2>1, <2>4, <3>1
  <2>5. QED BY <2>2, <2>3, <2>4
<1>7. QED BY <1>3, <1>4, <1>5, <1>6 DEF MemberOK

LEMMA ActorOK ==
  ASSUME EosInv, ~ Incremental, NEW m \in Members, Acts(m)
  PROVE  MemberOK(m)'
<1>1. CASE Start(m) \/ \E N \in SUBSET Numbers : Assign(m, N)
  BY <1>1, Starts, Assigns
<1>2. CASE Restore(m) \/ Fetch(m) \/ Lost(m) \/ \E N \in SUBSET Numbers : Revoke(m, N)
  BY <1>2, Restores, Fetches, Disowned
<1>3. CASE RestoreStalls(m) \/ Exit(m) \/ FencedOut(m) \/ NoteRefused(m)
            \/ \E s \in Sources : FoldRefused(m, s)
  BY <1>3, TurnsToClose
<1>4. CASE Close(m) \/ CloseFenced(m) \/ Crash(m)
  BY <1>4, Leaves
<1>5. CASE Evict(m) \/ TimeOut(m)
  BY <1>5, Evicts, TimesOut
<1>6. CASE \E s \in Sources : Fold(m, s) \/ Fail(m, s) \/ Skip(m, s)
  BY <1>6, Folds, Takes
<1>7. CASE Route(m) \/ RouteRefused(m) \/ Note(m) \/ NotYet(m)
  BY <1>7, Routes, Rewinds, Notes, NotYets
<1>8. CASE SendOffsets(m) \/ SendOffsetsFails(m) \/ Commit(m) \/ CommitFails(m)
  BY <1>8, SendsOffsets, CommitsFail, Commits
<1>9. QED BY <1>1, <1>2, <1>3, <1>4, <1>5, <1>6, <1>7, <1>8, ActsCases

-----------------------------------------------------------------------------
(* What a step does to the offsets.                                        *)

\* The coordinator's of a transaction are as they were, gone, or just sent.
LEMMA AcceptedMoves ==
  ASSUME EosInv, NEW m \in Members, Acts(m), NEW n \in Members
  PROVE  \/ accepted'[n] = accepted[n] \/ accepted'[n] = NoOffsets
         \/ n = m /\ SendOffsets(m) /\ accepted'[m] = offsets[m]
<1>0. BrokerType /\ TypeOK
  BY Parts
<1>1. CASE n # m
  BY <1>0, <1>1, OthersAtBroker DEF Quiet, Clean
<1>2. CASE n = m
  <2>1. CASE UNCHANGED <<committed, accepted, changelog, routing, routed, fenced>>
    BY <2>1
  <2>2. CASE \E M \in SUBSET Members : Discard(M)
    BY <1>0, <2>2, DiscardMoves DEF Quiet, Clean
  <2>3. CASE Start(m)
    BY <2>2, <2>3 DEF Start
  <2>4. CASE (\E s \in Sources : Fold(m, s)) \/ Route(m)
    BY <2>4 DEF Fold, Route, coordinator
  <2>5. CASE SendOffsets(m)
    BY <1>0, <1>2, <2>5 DEF SendOffsets, BrokerType
  <2>6. CASE Publish(m)
    BY <1>0, <1>2, <2>6, PublishMoves DEF Clean
  <2>7. QED BY <2>1, <2>2, <2>3, <2>4, <2>5, <2>6, BrokerCases
<1>3. QED BY <1>1, <1>2

\* A member notes the message in hand, or forgets what it noted.
LEMMA OffsetsMoves ==
  ASSUME EosInv, NEW m \in Members, Acts(m), NEW s \in Sources
  PROVE  \/ offsets'[m][s] = offsets[m][s] \/ offsets'[m][s] = 0
         \/ pc[m] = "note" /\ work[m][1] = s /\ offsets'[m][s] = work[m][2] + 1
<1>0. LoopType
  BY Parts
<1>1. ASSUME NEW c, Reset(m, c) PROVE offsets'[m][s] = 0
  BY <1>0, <1>1, OwnMoves, NothingNoted
<1>2. CASE Close(m) \/ CloseFenced(m) \/ Crash(m) \/ FencedOut(m) \/ Lost(m)
            \/ \E N \in SUBSET Numbers : Revoke(m, N)
  BY <1>1, <1>2 DEF Close, CloseFenced, Crash, FencedOut, Lost, Revoke, GiveUp
<1>3. CASE SendOffsetsFails(m) \/ Commit(m) \/ CommitFails(m)
  BY <1>1, <1>3 DEF SendOffsetsFails, Commit, CommitFails, CommitFailed
<1>4. CASE Note(m)
  BY <1>0, <1>4 DEF Note, LoopType
<1>5. CASE \/ Start(m) \/ (\E N \in SUBSET Numbers : Assign(m, N)) \/ Restore(m) \/ RestoreStalls(m)
           \/ Fetch(m) \/ Evict(m) \/ Exit(m) \/ TimeOut(m)
  BY <1>5 DEF Start, Assign, Restore, RestoreStalls, Fetch, Evict, Exit, TimeOut, committer
<1>6. CASE (\E r \in Sources : Fold(m, r))
           \/ \E r \in Sources : FoldRefused(m, r) \/ Fail(m, r) \/ Skip(m, r)
  BY <1>6 DEF Fold, FoldRefused, Fail, Skip, committer
<1>7. CASE Route(m) \/ RouteRefused(m) \/ NoteRefused(m) \/ NotYet(m) \/ SendOffsets(m)
  BY <1>7 DEF Route, RouteRefused, NoteRefused, NotYet, SendOffsets, committer
<1>8. QED BY <1>2, <1>3, <1>4, <1>5, <1>6, <1>7, ActsCases

\* It goes on by one message, goes back to one, to the committed offset, or gives up.
LEMMA PositionMoves ==
  ASSUME EosInv, NEW m \in Members, Acts(m), NEW s \in Sources
  PROVE  \/ position'[m][s] = position[m][s] \/ position'[m][s] = 0
         \/ position'[m][s] = committed[s]
         \/ position'[m][s] = position[m][s] + 1 /\ position[m][s] < Len(Log[s])
         \/ pc[m] = "route" /\ work[m][1] = s /\ position'[m][s] = work[m][2]
<1>0. LoopType
  BY Parts
<1>1. ASSUME NEW N, LetGo(m, N) PROVE position'[m][s] = position[m][s] \/ position'[m][s] = 0
  BY <1>0, <1>1 DEF LetGo, LoopType
<1>2. ASSUME NEW r \in Sources, Take(m, r), Polls(m, r)
      PROVE  \/ position'[m][s] = position[m][s]
             \/ position'[m][s] = position[m][s] + 1 /\ position[m][s] < Len(Log[s])
  <2>1. CASE r = s
    BY <1>0, <1>2, <2>1, OwnMoves DEF Polls
  <2>2. CASE r # s
    BY <1>0, <1>2, <2>2, OwnMoves
  <2>3. QED BY <2>1, <2>2
<1>3. CASE Close(m) \/ CloseFenced(m) \/ Crash(m)
  BY <1>1, <1>3 DEF Close, CloseFenced, Crash
<1>4. CASE Lost(m) \/ \E N \in SUBSET Numbers : Revoke(m, N)
  BY <1>1, <1>4 DEF Lost, Revoke, GiveUp
<1>5. CASE Fetch(m)
  BY <1>0, <1>5 DEF Fetch, LoopType
<1>6. CASE \E r \in Sources : Fold(m, r)
  BY <1>2, <1>6 DEF Fold
<1>7. CASE \E r \in Sources : FoldRefused(m, r) \/ Fail(m, r) \/ Skip(m, r)
  BY <1>2, <1>7 DEF FoldRefused, Fail, Skip
<1>8. CASE RouteRefused(m)
  BY <1>0, <1>8 DEF RouteRefused, rewind, LoopType
<1>9. CASE \/ Start(m) \/ (\E N \in SUBSET Numbers : Assign(m, N)) \/ Restore(m) \/ RestoreStalls(m)
           \/ Evict(m) \/ Exit(m) \/ TimeOut(m) \/ FencedOut(m)
  BY <1>9 DEF Start, Assign, Restore, RestoreStalls, Evict, Exit, TimeOut, FencedOut, loop
<1>10. CASE Route(m) \/ Note(m) \/ NoteRefused(m) \/ NotYet(m)
  BY <1>10 DEF Route, Note, NoteRefused, NotYet
<1>11. CASE SendOffsets(m) \/ SendOffsetsFails(m) \/ Commit(m) \/ CommitFails(m)
  BY <1>11 DEF SendOffsets, SendOffsetsFails, Commit, CommitFails
<1>12. QED BY <1>3, <1>4, <1>5, <1>6, <1>7, <1>8, <1>9, <1>10, <1>11, ActsCases

LEMMA OffsetsStay ==
  ASSUME EosInv, NEW m \in Members, Acts(m)
  PROVE  OffsetsOK'
<1>0. OffsetsOK /\ LoopType /\ TypeOK
  BY Parts
<1>1. ASSUME NEW s \in Sources PROVE committed'[s] <= Len(Log[s])
  <2>1. committed[s] <= Len(Log[s]) /\ accepted[m][s] <= Len(Log[s])
    BY <1>0 DEF OffsetsOK
  <2>2. QED BY <2>1, CommittedRises
<1>2. ASSUME NEW n \in Members, NEW s \in Sources
      PROVE  /\ position'[n][s] <= Len(Log[s])
             /\ offsets'[n][s] <= Len(Log[s]) /\ accepted'[n][s] <= Len(Log[s])
  <2>1. /\ committed[s] <= Len(Log[s])
        /\ \A l \in Members : /\ position[l][s] <= Len(Log[s])
                              /\ offsets[l][s] <= Len(Log[s]) /\ accepted[l][s] <= Len(Log[s])
    BY <1>0 DEF OffsetsOK
  <2>2. Len(Log[s]) \in Nat /\ NoOffsets[s] = 0 /\ position[m][s] \in Nat /\ work[m][2] \in Nat
    BY <1>0, ConstantTypes, NothingNoted, Types
  <2>3. accepted'[n][s] <= Len(Log[s])
    BY <2>1, <2>2, AcceptedMoves
  <2>4. CASE n # m
    <3>1. position'[n] = position[n] /\ offsets'[n] = offsets[n]
      BY <1>0, <2>4, OthersStay DEF Private
    <3>2. QED BY <2>1, <2>3, <3>1
  <2>5. CASE n = m
    <3>1. pc[m] \in {"route", "note"} /\ work[m][1] = s => work[m][2] + 1 <= Len(Log[s])
      <4>1. pc[m] \in {"route", "note"} => position[m][work[m][1]] = work[m][2] + 1
        BY Parts DEF HandOK
      <4>2. QED BY <2>1, <4>1
    <3>2. position'[m][s] <= Len(Log[s])
      BY <2>1, <2>2, <3>1, PositionMoves
    <3>3. offsets'[m][s] <= Len(Log[s])
      BY <2>1, <2>2, <3>1, OffsetsMoves
    <3>4. QED BY <2>3, <2>5, <3>2, <3>3
  <2>6. QED BY <2>4, <2>5
<1>3. QED BY <1>1, <1>2 DEF OffsetsOK

\* But for the fetch that ends a rebalance nobody comes to own what it consumes.
LEMMA HoldsShrink ==
  ASSUME EosInv, ~ Incremental, NEW m \in Members, Acts(m), ~ Fetch(m),
         NEW n \in Members, NEW k \in Numbers, k \in held'[n], owner'[k] = n
  PROVE  k \in held[n] /\ owner[k] = n
<1>0. LoopType
  BY Parts
<1>1. CASE n # m
  BY <1>0, <1>1, OthersStay, OwnersStay DEF Private
<1>2. CASE n = m
  <2>1. \A N : LetGo(m, N) => held'[m] \subseteq held[m]
    BY <1>0, OwnMoves
  <2>2. owner' = owner /\ held' = held => k \in held[n] /\ owner[k] = n
    OBVIOUS
  <2>3. Release(m) => owner'[k] # m
    BY <1>0, ConstantTypes DEF Release, LoopType
  <2>4. CASE \E N \in SUBSET Numbers : Assign(m, N)
    BY <1>2, <2>4 DEF Assign
  <2>5. CASE \E N \in SUBSET Numbers : Revoke(m, N)
    <3>1. PICK N \in SUBSET Numbers : Revoke(m, N)
      BY <2>5
    <3>2. held'[m] \subseteq held[m]
      BY <2>1, <3>1 DEF Revoke, GiveUp
    <3>3. owner'[k] = m => owner[k] = m
      BY <1>0, <3>1, ConstantTypes DEF Revoke
    <3>4. QED BY <1>2, <3>2, <3>3
  <2>6. CASE Lost(m) \/ CloseFenced(m) \/ Crash(m)
    BY <1>2, <2>1, <2>6 DEF Lost, GiveUp, CloseFenced, Crash, coordinator
  <2>7. CASE Close(m) \/ Evict(m)
    BY <1>2, <2>3, <2>7 DEF Close, Evict
  <2>8. CASE Start(m) \/ Restore(m) \/ RestoreStalls(m) \/ Exit(m) \/ TimeOut(m) \/ FencedOut(m)
    BY <2>2, <2>8 DEF Start, Restore, RestoreStalls, Exit, TimeOut, FencedOut, coordinator, loop
  <2>9. CASE (\E s \in Sources : Fold(m, s))
             \/ \E s \in Sources : FoldRefused(m, s) \/ Fail(m, s) \/ Skip(m, s)
    BY <2>2, <2>9 DEF Fold, FoldRefused, Fail, Skip, coordinator
  <2>10. CASE Route(m) \/ RouteRefused(m) \/ Note(m) \/ NoteRefused(m) \/ NotYet(m)
              \/ SendOffsets(m) \/ SendOffsetsFails(m) \/ Commit(m) \/ CommitFails(m)
    BY <2>2, <2>10 DEF Route, RouteRefused, Note, NoteRefused, NotYet, SendOffsets,
         SendOffsetsFails, Commit, CommitFails, coordinator
  <2>11. QED BY <2>4, <2>5, <2>6, <2>7, <2>8, <2>9, <2>10, ActsCases
<1>3. QED BY <1>1, <1>2

LEMMA PendingStays ==
  ASSUME EosInv, ~ Incremental, NEW m \in Members, Acts(m)
  PROVE  PendingOK'
<1> SUFFICES ASSUME NEW l \in Members, NEW s \in Sources, accepted'[l][s] > 0,
                    NEW n \in Members \ {l}
             PROVE  accepted'[n][s] = 0 /\ (s[2] \in held'[n] => owner'[s[2]] # n)
  BY DEF PendingOK
<1>0. PendingOK /\ LoopType /\ TypeOK
  BY Parts
<1>1. NoOffsets[s] = 0 /\ s[2] \in Numbers
  BY ConstantTypes, NothingNoted
<1>2. \A x \in Members : accepted[x][s] \in Nat /\ offsets[x][s] \in Nat
  BY <1>0, Types
<1>3. ASSUME NEW x \in Members, accepted'[x][s] # 0, ~ (x = m /\ SendOffsets(m))
      PROVE  accepted[x][s] > 0
  BY <1>1, <1>2, <1>3, AcceptedMoves
<1>4. CASE SendOffsets(m)
  <2>1. /\ accepted'[m] = offsets[m] /\ UNCHANGED <<owner, held>>
        /\ \A x \in Members : x # m => accepted'[x] = accepted[x]
        /\ in_generation(m)
    BY <1>4, Parts DEF SendOffsets, BrokerType
  <2>2. offsets[m][s] > 0 => owner[s[2]] = m /\ s[2] \in held[m]
    BY <2>1, Parts DEF in_generation, ClientOK
  <2>3. CASE l = m
    <3>1. owner[s[2]] = m /\ s[2] \in held[m]
      BY <2>1, <2>2, <2>3
    <3>2. ~ accepted[n][s] > 0
      BY <1>0, <2>3, <3>1 DEF PendingOK
    <3>3. QED BY <1>2, <2>1, <2>3, <3>1, <3>2
  <2>4. CASE l # m
    <3>1. accepted[l][s] > 0
      BY <2>1, <2>4
    <3>2. \A x \in Members \ {l} : accepted[x][s] = 0 /\ (s[2] \in held[x] => owner[s[2]] # x)
      BY <1>0, <3>1 DEF PendingOK
    <3>3. ~ offsets[m][s] > 0
      BY <2>2, <2>4, <3>2
    <3>4. QED BY <1>2, <2>1, <3>2, <3>3
  <2>5. QED BY <2>3, <2>4
<1>5. CASE ~ SendOffsets(m)
  <2>1. accepted[l][s] > 0
    BY <1>3, <1>5
  <2>2. accepted[n][s] = 0 /\ (s[2] \in held[n] => owner[s[2]] # n)
    BY <1>0, <2>1 DEF PendingOK
  <2>3. accepted'[n][s] = 0
    BY <1>2, <1>3, <1>5, <2>2
  <2>4. s[2] \in held'[n] => owner'[s[2]] # n
    <3>1. CASE Fetch(m)
      <4>1. /\ pc[m] = "fetch" /\ held'[m] = held[m] \cup joining[m] /\ owner' = owner
            /\ \A k \in joining[m] : offsets_are_stable(k)
        BY <1>0, <3>1 DEF Fetch, coordinator, LoopType
      <4>2. s[2] \notin joining[m]
        <5>1. \E t \in Topics : s = <<t, s[2]>>
          BY DEF Sources
        <5>2. QED BY <2>1, <4>1, <5>1 DEF offsets_are_stable
      <4>3. n # m => held'[n] = held[n]
        BY <1>0, OthersStay DEF Private
      <4>4. QED BY <2>2, <4>1, <4>2, <4>3
    <3>2. CASE ~ Fetch(m)
      BY <1>1, <2>2, <3>2, HoldsShrink
    <3>3. QED BY <3>1, <3>2
  <2>5. QED BY <2>3, <2>4
<1>6. QED BY <1>4, <1>5

LEMMA EosInit == Init => EosInv
<1> SUFFICES ASSUME Init PROVE EosInv
  OBVIOUS
<1>1. TypeOK
  BY TypeInit
<1>2. ASSUME NEW m \in Members
      PROVE  /\ pc[m] = "down" /\ held[m] = {} /\ joining[m] = {} /\ client[m] = "ready"
             /\ offsets[m] = NoOffsets /\ accepted[m] = NoOffsets /\ position[m] = NoOffsets
             /\ routing[m] = << >>
  BY DEF Init
<1>3. \A n \in Numbers : changelog[n] = << >> /\ DOMAIN changelog[n] = {}
  BY DEF Init
<1>4. committed = NoOffsets
  BY DEF Init
<1>5. \A s \in Sources : NoOffsets[s] = 0 /\ ~ NoOffsets[s] > 0 /\ 0 <= Len(Log[s])
  BY NothingNoted, ConstantTypes
<1>6. OffsetsOK /\ PlacedOK /\ PendingOK
  BY <1>2, <1>3, <1>4, <1>5 DEF OffsetsOK, PlacedOK, PendingOK
<1>7. ASSUME NEW m \in Members PROVE MemberOK(m)
  <2>1. OpenedBy(m) = {}
    BY <1>3 DEF OpenedBy
  <2>2. Clean(m)
    BY <1>2, <2>1 DEF Clean
  <2>3. HoldsOK(m) /\ HandOK(m) /\ OwnerTracks(m) /\ CommitTracks(m) /\ CarriesOK(m)
    BY <1>2 DEF HoldsOK, HandOK, OwnerTracks, CommitTracks, CarriesOK, Owns, Looping
  <2>4. ClientOK(m) /\ BrokerOK(m)
    BY <1>2, <1>5, <2>2 DEF ClientOK, BrokerOK, Open
  <2>5. QED BY <2>3, <2>4 DEF MemberOK
<1>8. QED BY <1>1, <1>6, <1>7 DEF EosInv

LEMMA EosStep == ~ Incremental /\ EosInv /\ [Next]_vars => EosInv'
<1> SUFFICES ASSUME ~ Incremental, EosInv, [Next]_vars PROVE EosInv'
  OBVIOUS
<1>0. TypeOK'
  BY TypeStep DEF EosInv
<1>1. CASE Next
  <2>1. PICK m \in Members : Acts(m)
    BY <1>1, NextActs
  <2>2. \A n \in Members : MemberOK(n)'
    BY <2>1, ActorOK, BystanderOK
  <2>3. OffsetsOK' /\ PendingOK' /\ PlacedOK'
    BY <2>1, Parts, OffsetsStay, PendingStays, CommittedMoves
  <2>4. QED BY <1>0, <2>2, <2>3 DEF EosInv
<1>2. CASE UNCHANGED vars
  <2>1. /\ UNCHANGED <<owner, committed, accepted, changelog, routing, fenced>>
        /\ UNCHANGED <<pc, joining, held, position, work, client, offsets>>
    BY <1>2 DEF vars, coordinator, broker, committer, loop
  <2>2. OffsetsOK' /\ PendingOK' /\ PlacedOK'
    BY <2>1, Parts DEF OffsetsOK, PendingOK, PlacedOK
  <2>3. ASSUME NEW m \in Members PROVE MemberOK(m)'
    <3>1. SameEffects(m) /\ (Clean(m)' <=> Clean(m))
      BY <2>1, StillClean DEF Quiet
    <3>2. HoldsOK(m)' /\ HandOK(m)' /\ ClientOK(m)'
      BY <2>1, Parts DEF HoldsOK, HandOK, ClientOK, Owns, OwnsNone, Open
    <3>3. BrokerOK(m)'
      BY <2>1, <3>1, Parts DEF BrokerOK, Open, Running
    <3>4. OwnerTracks(m)' /\ CommitTracks(m)'
      BY <2>1, Parts DEF OwnerTracks, CommitTracks, Owns, Looping, Seen
    <3>5. CarriesOK(m)'
      <4>1. \A p : (Once(m, p)' <=> Once(m, p)) /\ (Never(m, p)' <=> Never(m, p))
        BY <3>1, SameIsSame
      <4>2. \A p : InReach(m, p)' <=> InReach(m, p)
        BY <2>1 DEF InReach, Reach
      <4>3. QED BY <2>1, <4>1, <4>2, Parts DEF CarriesOK, Owns, Open, Looping
    <3>6. QED BY <3>2, <3>3, <3>4, <3>5 DEF MemberOK
  <2>4. QED BY <1>0, <2>2, <2>3 DEF EosInv
<1>3. QED BY <1>1, <1>2

LEMMA EosCorrect ==
  ASSUME ~ Incremental
  PROVE  Spec => []EosInv
<1>1. QED BY EosInit, EosStep, PTL DEF Spec

-----------------------------------------------------------------------------
(* The effects of a message, counted.                                      *)

\* The committed records that p caused in a changelog, as Effects finds them.
LEMMA EntriesAre ==
  ASSUME NEW log \in [Numbers -> Seq(Entry \cup {Marker})], NEW p
  PROVE  {e \in UNION {{n} \X DOMAIN log[n] : n \in Numbers} :
            log[e[1]][e[2]].status = "committed" /\ log[e[1]][e[2]].cause = p}
         = {e \in Numbers \X Nat : /\ e[2] \in DOMAIN log[e[1]]
                                   /\ log[e[1]][e[2]].status = "committed"
                                   /\ log[e[1]][e[2]].cause = p}
<1>1. ASSUME NEW e
      PROVE  e \in UNION {{n} \X DOMAIN log[n] : n \in Numbers}
               <=> e \in Numbers \X Nat /\ e[2] \in DOMAIN log[e[1]]
  <2>1. ASSUME NEW n \in Numbers PROVE DOMAIN log[n] \subseteq Nat
    <3>1. log[n] \in Seq(Entry \cup {Marker})
      OBVIOUS
    <3>2. QED BY <3>1
  <2>2. ASSUME e \in UNION {{n} \X DOMAIN log[n] : n \in Numbers}
        PROVE  e \in Numbers \X Nat /\ e[2] \in DOMAIN log[e[1]]
    <3>1. PICK n \in Numbers : e \in {n} \X DOMAIN log[n]
      BY <2>2
    <3>2. QED BY <2>1, <3>1
  <2>3. ASSUME e \in Numbers \X Nat, e[2] \in DOMAIN log[e[1]]
        PROVE  e \in UNION {{n} \X DOMAIN log[n] : n \in Numbers}
    <3>1. e[1] \in Numbers /\ e = <<e[1], e[2]>>
      BY <2>3
    <3>2. e \in {e[1]} \X DOMAIN log[e[1]]
      BY <2>3, <3>1
    <3>3. QED BY <3>1, <3>2
  <2>4. QED BY <2>2, <2>3
<1>2. QED BY <1>1

LEMMA EffectsAre ==
  ASSUME BrokerType, BrokerType', NEW p \in Effectful
  PROVE  /\ Effects[p] = Cardinality(Shown(p)) + Cardinality(Lodged(p))
         /\ Effects'[p] = Cardinality(Shown(p)') + Cardinality(Lodged(p)')
<1>1. changelog \in [Numbers -> Seq(Entry \cup {Marker})]
      /\ changelog' \in [Numbers -> Seq(Entry \cup {Marker})]
  BY DEF BrokerType
<1>2. PICK log \in [Numbers -> Seq(Entry \cup {Marker})],
           new \in [Numbers -> Seq(Entry \cup {Marker})] : log = changelog /\ new = changelog'
  BY <1>1
<1>3. Effects[p] = Cardinality({e \in UNION {{n} \X DOMAIN log[n] : n \in Numbers} :
                     log[e[1]][e[2]].status = "committed" /\ log[e[1]][e[2]].cause = p})
                   + Cardinality(Lodged(p))
  BY <1>2 DEF Effects, Lodged
<1>4. Effects'[p] = Cardinality({e \in UNION {{n} \X DOMAIN new[n] : n \in Numbers} :
                      new[e[1]][e[2]].status = "committed" /\ new[e[1]][e[2]].cause = p})
                    + Cardinality(Lodged(p)')
  BY <1>2 DEF Effects, Lodged, Effectful
<1>5. Shown(p) = {e \in Numbers \X Nat : /\ e[2] \in DOMAIN log[e[1]]
                                         /\ log[e[1]][e[2]].status = "committed"
                                         /\ log[e[1]][e[2]].cause = p}
  BY <1>2 DEF Shown
<1>6. Shown(p)' = {e \in Numbers \X Nat : /\ e[2] \in DOMAIN new[e[1]]
                                          /\ new[e[1]][e[2]].status = "committed"
                                          /\ new[e[1]][e[2]].cause = p}
  BY <1>2 DEF Shown
<1>7. {e \in UNION {{n} \X DOMAIN log[n] : n \in Numbers} :
         log[e[1]][e[2]].status = "committed" /\ log[e[1]][e[2]].cause = p} = Shown(p)
  <2>1. log \in [Numbers -> Seq(Entry \cup {Marker})]
    OBVIOUS
  <2>2. QED BY <1>5, <2>1, EntriesAre
<1>8. {e \in UNION {{n} \X DOMAIN new[n] : n \in Numbers} :
         new[e[1]][e[2]].status = "committed" /\ new[e[1]][e[2]].cause = p} = Shown(p)'
  <2>1. new \in [Numbers -> Seq(Entry \cup {Marker})]
    OBVIOUS
  <2>2. QED BY <1>6, <2>1, EntriesAre
<1>9. QED BY <1>3, <1>4, <1>7, <1>8

LEMMA EffectsDomain == Effects = [p \in Effectful |-> Effects[p]]
                       /\ Effects' = [p \in Effectful |-> Effects'[p]]
  BY DEF Effects, Effectful

\* They are on one partition, and finitely many.
LEMMA ShownFinite ==
  ASSUME BrokerType, PlacedOK, NEW p \in Effectful
  PROVE  /\ IsFiniteSet(Shown(p)) /\ Cardinality(Shown(p)) \in Nat
         /\ IsFiniteSet(Lodged(p)) /\ Cardinality(Lodged(p)) \in Nat
<1>1. PICK n \in Numbers : n = p[1][2]
  BY EffectfulType
<1>2. PICK high \in Nat : DOMAIN changelog[n] = 1 .. high
  BY DEF BrokerType
<1>3. IsFiniteSet({n} \X (1 .. high))
  <2>1. IsFiniteSet({n})
    BY FS_Singleton
  <2>2. IsFiniteSet(1 .. high)
    BY FS_Interval
  <2>3. QED BY <2>1, <2>2, FS_Product
<1>4. Shown(p) \subseteq {n} \X (1 .. high)
  <2> SUFFICES ASSUME NEW e \in Shown(p) PROVE e \in {n} \X (1 .. high)
    OBVIOUS
  <2>1. /\ e \in Numbers \X Nat /\ e[2] \in DOMAIN changelog[e[1]]
        /\ changelog[e[1]][e[2]].status = "committed" /\ changelog[e[1]][e[2]].cause = p
    BY DEF Shown
  <2>2. e[1] = n
    BY <1>1, <2>1 DEF PlacedOK
  <2>3. QED BY <1>2, <2>1, <2>2
<1>5. PICK far \in Nat : DOMAIN routed = 1 .. far
  BY DEF BrokerType
<1>6. Lodged(p) \subseteq 1 .. far /\ IsFiniteSet(1 .. far)
  BY <1>5, FS_Interval DEF Lodged
<1>7. IsFiniteSet(Shown(p)) /\ IsFiniteSet(Lodged(p))
  BY <1>3, <1>4, <1>6, FS_Subset
<1>8. QED BY <1>7, FS_CardinalityType

\* What a commit shows of p.
LEMMA PublishShows ==
  ASSUME TypeOK, TypeOK', PlacedOK, NEW m \in Members, Publish(m), NEW p \in Effectful
  PROVE  /\ Once(m, p) => Effects'[p] = Effects[p] + 1
         /\ Never(m, p) => Effects'[p] = Effects[p]
<1>0. BrokerType /\ BrokerType'
  BY TypeParts DEF TypeOK, BrokerType
<1>1. Shown(p)' = Shown(p) \cup FoldsOf(m, p)
  BY <1>0, PublishMoves
<1>2. \A e : e \in FoldsOf(m, p) => e \notin Shown(p)
  BY DEF FoldsOf, OpenedBy, Shown
<1>3. PICK old \in Seq(Place), new \in Seq(Place) : old = routed /\ new = routing[m]
  BY <1>0 DEF BrokerType
<1>4. routed' = old \o new
  BY <1>0, <1>3, PublishMoves
<1>5. /\ Len(old) \in Nat /\ DOMAIN old = 1 .. Len(old) /\ DOMAIN new = 1 .. Len(new)
      /\ DOMAIN (old \o new) = 1 .. (Len(old) + Len(new)) /\ Len(new) \in Nat
      /\ \A i \in 1 .. (Len(old) + Len(new)) :
           (old \o new)[i] = IF i <= Len(old) THEN old[i] ELSE new[i - Len(old)]
  OBVIOUS
<1>6. ASSUME NEW i
      PROVE  i \in Lodged(p)' <=>
               \/ i \in Lodged(p)
               \/ i \in Nat /\ i - Len(old) \in HopsOf(m, p)
  <2>1. i \in Lodged(p)' <=> i \in 1 .. (Len(old) + Len(new)) /\ (old \o new)[i] = p
    BY <1>4, <1>5 DEF Lodged
  <2>2. i \in Lodged(p) <=> i \in 1 .. Len(old) /\ old[i] = p
    BY <1>3, <1>5 DEF Lodged
  <2>3. i \in Nat /\ i - Len(old) \in HopsOf(m, p) <=>
          i \in Nat /\ i - Len(old) \in 1 .. Len(new) /\ new[i - Len(old)] = p
    BY <1>3, <1>5 DEF HopsOf
  <2>4. QED BY <1>5, <2>1, <2>2, <2>3
<1>7. HopsOf(m, p) = {} => Lodged(p)' = Lodged(p)
  BY <1>6
<1>8. ASSUME NEW h, HopsOf(m, p) = {h}
      PROVE  \E i : i \notin Lodged(p) /\ Lodged(p)' = Lodged(p) \cup {i}
  <2>1. h \in Nat /\ h > 0
    BY <1>3, <1>5, <1>8 DEF HopsOf
  <2>2. PICK i \in Nat : i = Len(old) + h
    BY <1>5, <2>1
  <2>3. i \notin Lodged(p)
    BY <1>3, <1>5, <2>1, <2>2 DEF Lodged
  <2>4. \A j : j \in Nat /\ j - Len(old) \in HopsOf(m, p) <=> j = i
    BY <1>5, <1>8, <2>1, <2>2
  <2>5. QED BY <1>6, <2>3, <2>4
<1>9. /\ Effects[p] = Cardinality(Shown(p)) + Cardinality(Lodged(p))
      /\ Effects'[p] = Cardinality(Shown(p)') + Cardinality(Lodged(p)')
  BY <1>0, EffectsAre
<1>10. /\ IsFiniteSet(Shown(p)) /\ Cardinality(Shown(p)) \in Nat
       /\ IsFiniteSet(Lodged(p)) /\ Cardinality(Lodged(p)) \in Nat
  BY <1>0, ShownFinite
<1>11. ASSUME Never(m, p) PROVE Effects'[p] = Effects[p]
  <2>1. Shown(p)' = Shown(p) /\ Lodged(p)' = Lodged(p)
    BY <1>1, <1>7, <1>11 DEF Never
  <2>2. QED BY <1>9, <2>1
<1>12. ASSUME NEW e, FoldsOf(m, p) = {e}, HopsOf(m, p) = {} PROVE Effects'[p] = Effects[p] + 1
  <2>1. Shown(p)' = Shown(p) \cup {e} /\ e \notin Shown(p) /\ Lodged(p)' = Lodged(p)
    BY <1>1, <1>2, <1>7, <1>12
  <2>2. Cardinality(Shown(p) \cup {e}) = Cardinality(Shown(p)) + 1
    BY <1>10, <2>1, FS_AddElement
  <2>3. QED BY <1>9, <1>10, <2>1, <2>2
<1>13. ASSUME NEW h, HopsOf(m, p) = {h}, FoldsOf(m, p) = {} PROVE Effects'[p] = Effects[p] + 1
  <2>1. PICK i : i \notin Lodged(p) /\ Lodged(p)' = Lodged(p) \cup {i}
    BY <1>8, <1>13
  <2>2. Cardinality(Lodged(p) \cup {i}) = Cardinality(Lodged(p)) + 1
    BY <1>10, <2>1, FS_AddElement
  <2>3. Shown(p)' = Shown(p)
    BY <1>1, <1>13
  <2>4. QED BY <1>9, <1>10, <2>1, <2>2, <2>3
<1>14. QED BY <1>11, <1>12, <1>13 DEF Once

-----------------------------------------------------------------------------
(* Exactly once.                                                           *)

\* A commit is a transaction of the promise: every effect between the offsets it leaves and
\* those it sets is shown, once, and no other.
LEMMA CommitTransacts ==
  ASSUME EosInv, EosInv', NEW m \in Members, Acts(m), pc[m] = "commit", m \notin fenced, Publish(m)
  PROVE  Promise!Transact(committed')
<1>0. TypeOK /\ TypeOK' /\ PlacedOK
  BY DEF EosInv
<1>1. Open(m) /\ ClientOK(m) /\ CommitTracks(m) /\ CarriesOK(m) /\ accepted[m] = offsets[m]
  BY Parts DEF ClientOK, BrokerOK
<1>2. committed' = [s \in Sources |->
        IF accepted[m][s] = 0 THEN committed[s] ELSE accepted[m][s]]
  BY Parts, PublishMoves
<1>3. ASSUME NEW s \in Sources PROVE committed[s] <= committed'[s]
  BY <1>3, <1>0, Types, CommittedRises
<1>4. ASSUME NEW p \in Effectful
      PROVE  InReach(m, p) <=> committed[p[1]] <= p[2] /\ p[2] < committed'[p[1]]
  <2>1. PICK s \in Sources : s = p[1]
    BY EffectfulType
  <2>2. /\ Reach(m, s) = position[m][s] /\ committed[s] \in Nat /\ position[m][s] \in Nat
        /\ offsets[m][s] \in Nat /\ p[2] \in Nat
    BY <1>0, Types, EffectfulType DEF Reach
  <2>3. CASE offsets[m][s] = 0
    <3>1. committed'[s] = committed[s]
      BY <1>1, <1>2, <2>3
    <3>2. s[2] \in held[m] => position[m][s] <= committed[s]
      BY <1>1, <2>3 DEF CommitTracks
    <3>3. ~ InReach(m, p)
      BY <2>1, <2>2, <3>2 DEF InReach
    <3>4. QED BY <2>1, <2>2, <3>1, <3>3
  <2>4. CASE offsets[m][s] > 0
    <3>1. committed'[s] = offsets[m][s]
      BY <1>1, <1>2, <2>2, <2>4
    <3>2. offsets[m][s] = position[m][s] /\ s[2] \in held[m]
      BY <1>1, <2>4 DEF CommitTracks, ClientOK
    <3>3. QED BY <2>1, <2>2, <3>1, <3>2 DEF InReach
  <2>5. QED BY <2>2, <2>3, <2>4
<1>5. ASSUME NEW p \in Effectful
      PROVE  Effects'[p] = IF committed[p[1]] <= p[2] /\ p[2] < committed'[p[1]]
                           THEN Effects[p] + 1 ELSE Effects[p]
  <2>1. (InReach(m, p) => Once(m, p)) /\ (~ InReach(m, p) => Never(m, p))
    BY <1>1 DEF CarriesOK, Looping
  <2>2. /\ Once(m, p) => Effects'[p] = Effects[p] + 1
        /\ Never(m, p) => Effects'[p] = Effects[p]
    BY <1>0, PublishShows
  <2>3. QED BY <1>4, <2>1, <2>2
<1>6. Effects' = [p \in Effectful |->
        IF committed[p[1]] <= p[2] /\ p[2] < committed'[p[1]] THEN Effects[p] + 1 ELSE Effects[p]]
  BY <1>5, EffectsDomain
<1>7. QED BY <1>3, <1>6 DEF Promise!Transact

LEMMA PromiseInit == Init => Promise!Init
<1> SUFFICES ASSUME Init PROVE Promise!Init
  OBVIOUS
<1>1. committed = [s \in Sources |-> 0]
  BY DEF Init, NoOffsets
<1>2. ASSUME NEW p \in Effectful PROVE Effects[p] = 0
  <2>1. PICK shown, lodged :
          /\ shown = {e \in UNION {{n} \X DOMAIN changelog[n] : n \in Numbers} :
                        /\ changelog[e[1]][e[2]].status = "committed"
                        /\ changelog[e[1]][e[2]].cause = p}
          /\ lodged = {i \in DOMAIN routed : routed[i] = p}
    OBVIOUS
  <2>2. Effects[p] = Cardinality(shown) + Cardinality(lodged)
    BY <2>1 DEF Effects
  <2>3. shown = {} /\ lodged = {}
    BY <2>1 DEF Init
  <2>4. Cardinality({}) = 0
    BY FS_EmptySet
  <2>5. QED BY <2>2, <2>3, <2>4
<1>3. Effects = [p \in Effectful |-> 0]
  BY <1>2, EffectsDomain
<1>4. QED BY <1>1, <1>3 DEF Promise!Init

LEMMA PromiseStep ==
  ASSUME EosInv, EosInv', [Next]_vars
  PROVE  [Promise!Next]_(Promise!vars)
<1>0. TypeOK /\ TypeOK' /\ BrokerType /\ BrokerType'
  BY TypeParts DEF EosInv, TypeOK, BrokerType
<1>1. ASSUME committed' = committed, routed' = routed, \A p : Shown(p)' = Shown(p)
      PROVE  UNCHANGED Promise!vars
  <2>1. ASSUME NEW p \in Effectful PROVE Effects'[p] = Effects[p]
    <3>1. Lodged(p)' = Lodged(p) /\ Shown(p)' = Shown(p)
      BY <1>1 DEF Lodged
    <3>2. QED BY <1>0, <3>1, EffectsAre
  <2>2. Effects' = Effects
    BY <2>1, EffectsDomain
  <2>3. QED BY <1>1, <2>2 DEF Promise!vars
<1>2. CASE UNCHANGED vars
  BY <1>1, <1>2 DEF vars, coordinator, broker, Shown
<1>3. CASE Next
  <2>1. PICK m \in Members : Acts(m)
    BY <1>3, NextActs
  <2>2. CASE pc[m] = "commit" /\ m \notin fenced /\ Publish(m)
    <3>1. Promise!Transact(committed')
      BY <2>1, <2>2, CommitTransacts
    <3>2. committed' \in [Sources -> UNION {0 .. Len(Log[s]) : s \in Sources}]
      <4>1. committed' \in [Sources -> Nat]
        BY <1>0 DEF TypeOK
      <4>2. ASSUME NEW s \in Sources PROVE committed'[s] \in 0 .. Len(Log[s])
        <5>1. committed'[s] <= Len(Log[s])
          BY DEF EosInv, OffsetsOK
        <5>2. QED BY <4>1, <5>1, ConstantTypes
      <4>3. QED BY <4>1, <4>2
    <3>3. UNION {0 .. [r \in Sources |-> Len(Log[r])][s] : s \in Sources}
            = UNION {0 .. Len(Log[s]) : s \in Sources}
      OBVIOUS
    <3>4. QED BY <3>1, <3>2, <3>3 DEF Promise!Next
  <2>3. CASE committed' = committed /\ routed' = routed /\ \A p : Shown(p)' = Shown(p)
    BY <1>1, <2>3
  <2>4. QED BY <1>0, <2>1, <2>2, <2>3, CommittedMoves
<1>4. QED BY <1>2, <1>3

\* Under the eager rebalance the group implements ExactlyOnce: every commit moves the offsets
\* forward and shows the effects of the messages it moves past, each once and none besides
\* (R8.6, R8.7), whatever was fenced, evicted, lost or timed out between its two calls.
THEOREM ExactlyOnceHolds ==
  ASSUME ~ Incremental
  PROVE  Spec => ImplementsExactlyOnce
<1>1. Spec => []EosInv
  BY EosCorrect
<1>2. EosInv /\ EosInv' /\ [Next]_vars => [Promise!Next]_(Promise!vars)
  BY PromiseStep
<1>3. QED BY <1>1, <1>2, PromiseInit, PTL DEF Spec, ImplementsExactlyOnce, Promise!Spec
=============================================================================
