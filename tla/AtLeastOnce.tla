----------------------------- MODULE AtLeastOnce -----------------------------
(***************************************************************************)
(* What a consumer that commits its own offsets promises its group: an     *)
(* offset is committed only once every message below it has been dealt     *)
(* with (handled, moved to another topic, or skipped by rule), and a       *)
(* committed offset never moves back.  Nothing is said of how often a      *)
(* message is dealt with: that is the "at least" of at-least-once.         *)
(***************************************************************************)
EXTENDS Naturals

CONSTANTS Topics,      \* the topic-partitions read by the group
          Length       \* topic |-> the number of messages on it

VARIABLES done,        \* the <<topic, offset>> pairs dealt with so far
          committed    \* topic |-> the offset consumption resumes from

vars == <<done, committed>>

Init ==
  /\ done = {}
  /\ committed = [t \in Topics |-> 0]

Finish(t, o) ==
  /\ done' = done \cup {<<t, o>>}
  /\ UNCHANGED committed

Advance(t, n) ==
  /\ n >= committed[t]
  /\ \A o \in 0 .. n - 1 : <<t, o>> \in done
  /\ committed' = [committed EXCEPT ![t] = n]
  /\ UNCHANGED done

Next ==
  \E t \in Topics : \E o \in 0 .. Length[t] : Finish(t, o) \/ Advance(t, o)

Spec == Init /\ [][Next]_vars
=============================================================================
