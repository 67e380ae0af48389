------------------------------ MODULE Lifecycle ------------------------------
(***************************************************************************)
(* The order lifecycle: the event types, the state machine they drive and  *)
(* the fold every consumer service keeps per order.  Translated from       *)
(* order_service/events.py and from apply_event in consumer/runtime.py.    *)
(*                                                                         *)
(* A fold is <last_sequence, state>; an order never folded is NoFold,      *)
(* which the code writes None.                                             *)
(***************************************************************************)
EXTENDS Naturals

CONSTANT NoFold        \* "no order yet": the None of OrderFold and OrderState

EventType  == {"ORDER_CREATED", "PACKED", "SHIPPED", "DELIVERED"}
OrderState == {"CREATED", "PACKED", "SHIPPED", "DELIVERED"}

\* The one legal predecessor state per event type.
LEGAL_PREDECESSOR ==
  [ORDER_CREATED |-> NoFold, PACKED |-> "CREATED", SHIPPED |-> "PACKED",
   DELIVERED |-> "SHIPPED"]

\* The state an order is in once an event of this type is applied.
RESULTING_STATE ==
  [ORDER_CREATED |-> "CREATED", PACKED |-> "PACKED", SHIPPED |-> "SHIPPED",
   DELIVERED |-> "DELIVERED"]

is_legal_transition(event_type, current) ==
  LEGAL_PREDECESSOR[event_type] = current

-----------------------------------------------------------------------------
OrderFold == [last_sequence : Nat, state : OrderState]

ASSUME NoneIsNoFold == NoFold \notin OrderFold

\* What a service remembers of an order it may never have folded.
last_sequence_of(fold) == IF fold = NoFold THEN 0 ELSE fold.last_sequence
state_of(fold)         == IF fold = NoFold THEN NoFold ELSE fold.state

ViolationType == {"SEQUENCE_GAP", "ILLEGAL_TRANSITION"}

\* apply_event, split into its two results.  The event is applied even when it
\* violates an expectation.
updated_fold(event) ==
  [last_sequence |-> event.sequence, state |-> RESULTING_STATE[event.type]]

violations_of(current, event) ==
  {v \in ViolationType :
     \/ v = "SEQUENCE_GAP" /\ event.sequence # last_sequence_of(current) + 1
     \/ v = "ILLEGAL_TRANSITION"
          /\ ~ is_legal_transition(event.type, state_of(current))}

\* Mutant: only an earlier sequence is a repeat.
redelivered_if_earlier(current, event) ==
  current # NoFold /\ event.sequence < current.last_sequence

\* A delivery at or below the stored sequence is a repeat, not a violation.
redelivered(current, event) ==
  current # NoFold /\ event.sequence <= current.last_sequence
=============================================================================
