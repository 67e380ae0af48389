----------------------------- MODULE ExactlyOnce -----------------------------
(***************************************************************************)
(* What exactly_once promises a group: the offsets and the effects of the  *)
(* messages below them become visible in one step.  A message that asks    *)
(* for an effect (a changelog record, or a record on the retry or          *)
(* dead-letter topic) has had it once if its offset is committed past, and *)
(* not at all otherwise.  Handlers may run more often; that is no part of  *)
(* the promise.                                                            *)
(***************************************************************************)
EXTENDS Naturals

CONSTANTS Sources,     \* the topic-partitions read by the group
          Length,      \* source |-> the number of messages on it
          Effectful    \* the <<source, offset>> pairs that ask for an effect

VARIABLES committed,   \* source |-> the offset consumption resumes from
          effects      \* message |-> how often its effect is visible

vars == <<committed, effects>>

Init ==
  /\ committed = [s \in Sources |-> 0]
  /\ effects = [e \in Effectful |-> 0]

\* A transaction moves offsets forward over messages and shows their effects.
Transact(next) ==
  /\ \A s \in Sources : committed[s] <= next[s]
  /\ committed' = next
  /\ effects' = [e \in Effectful |->
       IF committed[e[1]] <= e[2] /\ e[2] < next[e[1]] THEN effects[e] + 1 ELSE effects[e]]

Next ==
  \E next \in [Sources -> UNION {0 .. Length[s] : s \in Sources}] : Transact(next)

Spec == Init /\ [][Next]_vars
=============================================================================
