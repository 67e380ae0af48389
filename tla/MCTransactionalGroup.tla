------------------------ MODULE MCTransactionalGroup -------------------------
(***************************************************************************)
(* Small instances of TransactionalGroup for TLC: the topics' contents.    *)
(***************************************************************************)
EXTENDS TransactionalGroup, TLC

CONSTANTS x, y, m1, m2

Of(kind, order) == [kind |-> kind, order |-> order]

OneNumber == {1}
TwoNumbers == {1, 2}

HomeOne == (x :> 1) @@ (y :> 1)
HomeTwo == (x :> 1) @@ (y :> 2)

OwnId == (m1 :> "a") @@ (m2 :> "b")

\* A snapshot opens the transaction that the event and the poison message join.
MixedLog ==
  (<<"snapshot", 1>> :> <<Of("skip", x)>>) @@
  (<<"lifecycle", 1>> :> <<Of("event", x), Of("poison", x)>>)

\* After the event, a retry for another service: committed, not folded.
RetryAfter ==
  (<<"snapshot", 1>> :> <<Of("skip", x)>>) @@
  (<<"lifecycle", 1>> :> <<Of("event", x), Of("skip", x)>>) @@
  (<<"snapshot", 2>> :> << >>) @@
  (<<"lifecycle", 2>> :> << >>)

\* An order's first event, and nothing that opens a transaction before it.
EventFirst ==
  (<<"snapshot", 1>> :> << >>) @@
  (<<"lifecycle", 1>> :> <<Of("event", x)>>)
=============================================================================
