----------------------------- MODULE MCConnect ------------------------------
(***************************************************************************)
(* Small instances of SessionStore and Connect for TLC, side by side: the  *)
(* initial state says which of them moves, `part`, so that their states    *)
(* add up instead of multiplying.                                          *)
(***************************************************************************)
EXTENDS MCSessionStore, Connect, TLC

CONSTANTS u1, ip1

\* As in the code (6, 10 and 20) the global bucket is the largest.
MCAttempts == [b \in Counters |-> IF b = Global THEN 2 ELSE 1]

VARIABLE part   \* which module moves

MCInit ==
  /\ Init /\ ConnectInit
  /\ \/ part = "store" /\ ~connected
     \/ part = "connect" /\ session = NoRecord /\ env.key = k1
MCNext ==
  \/ part = "store" /\ Next /\ UNCHANGED <<connectVars, part>>
  \/ part = "connect" /\ ConnectNext /\ UNCHANGED <<vars, part>>
MCSpec == MCInit /\ [][MCNext]_<<vars, connectVars, part>>

\* The tabs are interchangeable.
Symmetry == Permutations(Requests)
=============================================================================
