---------------------------- MODULE ApprovedOnce ----------------------------
(***************************************************************************)
(* What execute_mutation promises the owner of the store: a change reaches *)
(* Qasir only if the owner granted that very change, and one grant is      *)
(* spent at most once.  (src/approvals/mutation-approvals.ts:39, "consumed *)
(* exactly once"; docs/mcp-tools.md:105, "the operation is dispatched      *)
(* once".)                                                                 *)
(***************************************************************************)
CONSTANTS Ids, Changes

VARIABLES
  granted,   \* the pairs <<approval, change>> the owner has granted
  done       \* the pairs <<approval, change>> that were sent to Qasir

Init == granted = {} /\ done = {}

Grant(a, x) ==
  /\ \A y \in Changes : <<a, y>> \notin granted
  /\ granted' = granted \cup {<<a, x>>}
  /\ UNCHANGED done

Do(a, x) ==
  /\ <<a, x>> \in granted
  /\ \A y \in Changes : <<a, y>> \notin done
  /\ done' = done \cup {<<a, x>>}
  /\ UNCHANGED granted

Next == \E a \in Ids, x \in Changes : Grant(a, x) \/ Do(a, x)

Spec == Init /\ [][Next]_<<granted, done>>
=============================================================================
