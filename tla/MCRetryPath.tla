----------------------------- MODULE MCRetryPath -----------------------------
(***************************************************************************)
(* Small instances of RetryPath for TLC: what stands on the retry topic    *)
(* before any failure.                                                     *)
(***************************************************************************)
EXTENDS RetryPath, TLC

CONSTANT inventory     \* one of the services

\* A hand-produced message: no provenance headers, so it seems to originate here.
Stray(event, service) ==
  [event |-> event, service |-> service, attempt |-> 2,
   origin |-> [topic |-> "retry", offset |-> 0], timed |-> FALSE]

NoStrays == << >>

\* A message that names no service.
Unroutable == <<Stray(Published + 1, NoService)>>

Symmetry == Permutations(Services)
=============================================================================
