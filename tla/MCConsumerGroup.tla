--------------------------- MODULE MCConsumerGroup ---------------------------
(***************************************************************************)
(* Small instances of ConsumerGroup for TLC: the topics' contents.         *)
(***************************************************************************)
EXTENDS ConsumerGroup, TLC

CONSTANTS x, y         \* two orders

Event(order, sequence, type) ==
  [kind |-> "body", order |-> order, sequence |-> sequence, type |-> type,
   target |-> "none"]

Snapshot(order)  == Event(order, 1, "ORDER_CREATED")
Tombstone(order) == [Snapshot(order) EXCEPT !.kind = "tombstone"]

Created(order) == Event(order, 1, "ORDER_CREATED")
Packed(order)  == Event(order, 2, "PACKED")

\* One order's lifecycle in order, another's interleaved, and the retry worker
\* putting events back after their successors, for this service and for another.
RetriedLog ==
  <<Created(x), Packed(x), Created(y), [Created(x) EXCEPT !.target = "ours"],
    [Packed(x) EXCEPT !.target = "other"]>>

\* A poison message after an event.
PoisonLog == <<Created(x), [Packed(x) EXCEPT !.kind = "undecodable"]>>

ShortLog == <<Created(x), Packed(x)>>

YGone    == <<Snapshot(y), Tombstone(y)>>
JustGone == <<Tombstone(x)>>

Symmetry == Permutations(Members)
=============================================================================
