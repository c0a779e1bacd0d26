----------------------------- MODULE MCMutation -----------------------------
(* Small instances of Mutation for TLC. *)
EXTENDS Mutation, TLC

CONSTANTS confirm, cancel

\* purchases.confirmation and purchases.cancel (src/registry/ops/misc.ts).
MCMethod == [x \in Changes |-> IF x = cancel THEN "GET" ELSE "POST"]
MCProfile == [x \in Changes |-> IF x = cancel THEN "cookie-csrf" ELSE "bearer"]

\* No session in the secrets of the Worker.
MCNoStatic == NoSession

\* Calls and approvals are interchangeable.
Interchangeable == Permutations(Calls) \cup Permutations(Ids)
=============================================================================
