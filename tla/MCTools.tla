------------------------------ MODULE MCTools -------------------------------
(***************************************************************************)
(* Small instances of Budget and Mutation for TLC, side by side: a call of *)
(* execute with the requests of its script, and a call of execute_mutation *)
(* with a session in the secrets of the Worker.  The initial state says    *)
(* which of them moves, `part`, so that their states add up instead of     *)
(* multiplying.                                                            *)
(***************************************************************************)
EXTENDS Budget

CONSTANTS r1, r2, r3, r4, r5, w1, a1, t1, t2

VARIABLES
  part,   \* which module moves
  approval, alarm, now, enabled, session, write, used, decisions, sent, wire, burned,
  connects   \* Mutation

writeVars == <<approval, alarm, now, enabled, session, write, used, decisions, sent, wire,
               burned, connects>>

\* purchases.confirmation and purchases.cancel (src/registry/ops/misc.ts).  The
\* secrets are QASIR_API_TOKEN and QASIR_CSRF_TOKEN, without QASIR_COOKIE.
W == INSTANCE Mutation WITH
       Ids <- {a1}, Calls <- {w1}, Writers <- {w1}, Changes <- {"confirm", "cancel"},
       Method <- [x \in {"confirm", "cancel"} |-> IF x = "cancel" THEN "GET" ELSE "POST"],
       Profile <- [x \in {"confirm", "cancel"} |->
                     IF x = "cancel" THEN "cookie-csrf" ELSE "bearer"],
       Tokens <- {t1, t2}, Static <- [tok |-> t2, cookie |-> FALSE],
       Ttl <- 1, Grace <- 0, MaxRedirects <- 2, MaxTime <- 2, MaxConnects <- 2,
       call <- write, requests <- wire

MCInit ==
  /\ Init /\ W!Init
  /\ part \in {"execute", "write"} /\ (part = "execute" => ~enabled)
MCNext ==
  \/ part = "execute" /\ Next /\ UNCHANGED <<writeVars, part>>
  \/ part = "write" /\ W!Next /\ UNCHANGED <<vars, part>>
MCSpec ==
  /\ MCInit /\ [][MCNext]_<<vars, writeVars, part>>
  /\ \A c \in Calls : WF_vars(Resume(c)) /\ WF_vars(Settle(c))

\* Also with secrets to fall back on, an approval is spent in vain only by what
\* the two lookups of the session bring (BurnedOnlyByLookup of module Mutation).
BurnedOnlyByLookup == W!BurnedOnlyByLookup
=============================================================================
