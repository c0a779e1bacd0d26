------------------------------- MODULE Worker -------------------------------
(***************************************************************************)
(* The Worker as its callers see it: the dispatcher of Qasir's operations  *)
(* and the owner's pages.  They share the stored session alone, which      *)
(* Connect and SessionStore have; each moves on its own.                   *)
(***************************************************************************)
EXTENDS Dispatch, OwnerGate

WorkerInit == Init /\ GateInit
WorkerNext ==
  \/ Next /\ UNCHANGED gateVars
  \/ GateNext /\ UNCHANGED vars
WorkerSpec == WorkerInit /\ [][WorkerNext]_<<vars, gateVars>>

\* The variables of the dispatcher and of the owner's pages have their types.
BothTypeOK == TypeOK /\ GateTypeOK
=============================================================================
