------------------------------ MODULE Connect -------------------------------
(***************************************************************************)
(* The owner's way to connect the server to Qasir (src/connect): the       *)
(* requests of several tabs, the sign-in conversation with Qasir, the      *)
(* pending outlet choice and the limits on PIN attempts.                   *)
(*                                                                         *)
(* A request runs in a Worker and is cut at every RPC of the session       *)
(* object and at every answer of Qasir.  The session, the pending login    *)
(* and the rate buckets are cells here; SessionStore has their detail.     *)
(* Requests the gate refuses (no owner cookie, wrong CSRF token, no        *)
(* pending login to continue) change nothing and are not steps.            *)
(***************************************************************************)
EXTENDS FiniteSets, Naturals

CONSTANTS
  Nobody,       \* JavaScript's null and undefined
  Requests,     \* requests in flight together
  Users,        \* normalized usernames
  Ips,          \* client addresses
  Global,       \* the bucket "connect-pin:global"
  MaxAttempts,  \* MaxAttempts[b]: 10 of an address, 6 of a user, 20 of Global
  Hosts,        \* hosts Qasir may redirect to
  Merchant,     \* the host of the configured MERCHANT_SLUG
  MaxHops       \* MAX_DASHBOARD_HOPS

\* The rate-limit buckets.
Counters == Users \cup Ips \cup {Global}

ASSUME ConnectAssumption ==
  /\ IsFiniteSet(Requests)
  /\ Nobody \notin Users \cup Hosts \cup Ips
  /\ MaxAttempts \in [Counters -> Nat]
  /\ Merchant \in Hosts
  /\ MaxHops \in Nat

VARIABLES
  connected, \* a session is stored
  draft,     \* the user whose outlet choice is stored, or Nobody
  count,     \* count[b]: attempts of the bucket's current window
  req,       \* req[r] is where the request r stands
  guesses    \* history: requests of the bucket's window that sent a PIN

connectVars == <<connected, draft, count, req, guesses>>

\* The stages a thrown error leaves through withPendingCleanup.
InFlow == {"prepare", "answer", "page", "save", "savePending", "clear"}

\* `charged` holds the buckets whose current window has counted the request,
\* until it sends a PIN; `merchant` is true once a merchant id was sent; `pins`
\* counts PIN posts.  A request is "lost" when its Worker died or its cleanup
\* failed; like an "idle" one it is over.
Request == [pc : InFlow \cup {"idle", "lost", "count", "cleanup", "disconnect"},
            kind : {"login", "outlet", "none"},
            user : Users \cup {Nobody}, todo : SUBSET Counters,
            charged : SUBSET Counters, admitted : BOOLEAN, merchant : BOOLEAN,
            host : Hosts \cup {Nobody}, hop : Nat, pins : Nat]
FreeRequest ==
  [pc |-> "idle", kind |-> "none", user |-> Nobody, todo |-> {}, charged |-> {},
   admitted |-> TRUE, merchant |-> FALSE, host |-> Nobody, hop |-> 0, pins |-> 0]

ConnectTypeOK ==
  /\ connected \in BOOLEAN
  /\ draft \in Users \cup {Nobody}
  /\ count \in [Counters -> Nat] /\ \A b \in Counters : count[b] <= MaxAttempts[b]
  /\ req \in [Requests -> Request]
  /\ guesses \in [Counters -> Nat]

ConnectInit ==
  /\ connected \in BOOLEAN
  /\ draft = Nobody
  /\ count = [b \in Counters |-> 0]
  /\ req = [r \in Requests |-> FreeRequest]
  /\ guesses = [b \in Counters |-> 0]

-----------------------------------------------------------------------------
(* A request is counted by its address, its user and globally.             *)

AtStage(r, stage) == req[r].pc = stage
Over(r) == AtStage(r, "idle") \/ AtStage(r, "lost")
GoTo(r, stage) == req' = [req EXCEPT ![r].pc = stage]
End(r) == req' = [req EXCEPT ![r] = FreeRequest]
Lose(r) == req' = [req EXCEPT ![r] = [FreeRequest EXCEPT !.pc = "lost"]]

Begin(r, k, u, ip) ==
  /\ Over(r)
  /\ req' = [req EXCEPT ![r] = [FreeRequest EXCEPT !.pc = "count", !.kind = k, !.user = u,
                                  !.todo = {ip, u, Global}]]
  /\ UNCHANGED <<connected, draft, count, guesses>>

\* POST /connect/login.
StartLogin(r, u, ip) == Begin(r, "login", u, ip)

\* POST /connect/select-outlet continues a copy of the pending login.
StartOutlet(r, ip) == draft # Nobody /\ Begin(r, "outlet", draft, ip)

\* Mutant: the last attempt of a window is not the last.
CountOneMore(r, b) ==
  /\ AtStage(r, "count") /\ b \in req[r].todo
  /\ \/ /\ count[b] <= MaxAttempts[b]
        /\ count' = [count EXCEPT ![b] = @ + 1]
        /\ req' = [req EXCEPT ![r].todo = @ \ {b}, ![r].charged = @ \cup {b}]
     \/ /\ count[b] > MaxAttempts[b]
        /\ req' = [req EXCEPT ![r].todo = @ \ {b}, ![r].admitted = FALSE]
        /\ UNCHANGED count
  /\ UNCHANGED <<connected, draft, guesses>>

\* Mutant: a full bucket does not refuse the request.
CountAndAdmit(r, b) ==
  /\ AtStage(r, "count") /\ b \in req[r].todo
  /\ \/ /\ count[b] < MaxAttempts[b]
        /\ count' = [count EXCEPT ![b] = @ + 1]
        /\ req' = [req EXCEPT ![r].todo = @ \ {b}, ![r].charged = @ \cup {b}]
     \/ /\ count[b] >= MaxAttempts[b]
        /\ req' = [req EXCEPT ![r].todo = @ \ {b}, ![r].charged = @ \cup {b}]
        /\ UNCHANGED count
  /\ UNCHANGED <<connected, draft, guesses>>

\* pinAttemptAllowed(): three checkRateLimit RPCs at once, in any order.  A
\* full bucket refuses the request and keeps none of the others from counting.
CountOne(r, b) ==
  /\ AtStage(r, "count") /\ b \in req[r].todo
  /\ \/ /\ count[b] < MaxAttempts[b]
        /\ count' = [count EXCEPT ![b] = @ + 1]
        /\ req' = [req EXCEPT ![r].todo = @ \ {b}, ![r].charged = @ \cup {b}]
     \/ /\ count[b] >= MaxAttempts[b]
        /\ req' = [req EXCEPT ![r].todo = @ \ {b}, ![r].admitted = FALSE]
        /\ UNCHANGED count
  /\ UNCHANGED <<connected, draft, guesses>>

\* An RPC that fails, before or after it counted, fails the request.
CountFails(r, b) ==
  /\ AtStage(r, "count") /\ b \in req[r].todo
  /\ req' = [req EXCEPT ![r].todo = @ \ {b}, ![r].admitted = FALSE]
  /\ \/ count[b] < MaxAttempts[b] /\ count' = [count EXCEPT ![b] = @ + 1]
     \/ UNCHANGED count
  /\ UNCHANGED <<connected, draft, guesses>>

\* 429 or 500: the pending login is kept.
Refuse(r) ==
  /\ AtStage(r, "count") /\ req[r].todo = {} /\ ~req[r].admitted
  /\ End(r)
  /\ UNCHANGED <<connected, draft, count, guesses>>

Admit(r) ==
  /\ AtStage(r, "count") /\ req[r].todo = {} /\ req[r].admitted
  /\ GoTo(r, "prepare")
  /\ UNCHANGED <<connected, draft, count, guesses>>

-----------------------------------------------------------------------------
(* The conversation with Qasir.                                            *)

\* A POST that carries the PIN; the first one of a request is a guess.
PostPin(r, m) ==
  /\ req' = [req EXCEPT ![r].pc = "answer", ![r].merchant = m, ![r].pins = @ + 1,
                        ![r].charged = {}]
  /\ guesses' = [b \in Counters |-> IF b \in req[r].charged THEN guesses[b] + 1
                                   ELSE guesses[b]]

\* runQasirLoginFlow(): bad input or a sign-in page without CSRF is an error,
\* otherwise the device language and then the PIN are posted.
PrepareLogin(r) ==
  /\ AtStage(r, "prepare") /\ req[r].kind = "login"
  /\ \/ PostPin(r, FALSE)
     \/ GoTo(r, "clear") /\ UNCHANGED guesses
  /\ UNCHANGED <<connected, draft, count>>

\* continueWithOutlet(): an outlet that is not offered, or locked, is an error.
PrepareOutlet(r) ==
  /\ AtStage(r, "prepare") /\ req[r].kind = "outlet"
  /\ \/ PostPin(r, TRUE)
     \/ GoTo(r, "clear") /\ UNCHANGED guesses
  /\ UNCHANGED <<connected, draft, count>>

\* select_merchant: the PIN is posted again with the configured merchant, if
\* the account has it and no merchant was sent before.
MerchantAsked(r) ==
  /\ AtStage(r, "answer")
  /\ \/ ~req[r].merchant /\ PostPin(r, TRUE)
     \/ GoTo(r, "clear") /\ UNCHANGED guesses
  /\ UNCHANGED <<connected, draft, count>>

\* select_outlet: the login becomes pending, unless the outlet was just chosen
\* or Qasir asks for another merchant's outlets.
OutletAsked(r) ==
  /\ AtStage(r, "answer")
  /\ \/ req[r].kind = "login" /\ GoTo(r, "savePending")
     \/ GoTo(r, "clear")
  /\ UNCHANGED <<connected, draft, count, guesses>>

\* Any other answer that is not a redirect: refused, OTP, unknown, no JSON.
AnswerUseless(r) ==
  /\ AtStage(r, "answer")
  /\ GoTo(r, "clear")
  /\ UNCHANGED <<connected, draft, count, guesses>>

\* The hand-off to the dashboard, on the merchant's host only.
Redirected(r, h) ==
  /\ AtStage(r, "answer")
  /\ \/ h = Merchant /\ req' = [req EXCEPT ![r].pc = "page", ![r].host = h]
     \/ h # Merchant /\ GoTo(r, "clear")
  /\ UNCHANGED <<connected, draft, count, guesses>>

\* Mutant: only the first page of the hand-off has its host checked.
PageMovesAnywhere(r, h) ==
  /\ AtStage(r, "page")
  /\ \/ /\ req[r].hop < MaxHops
        /\ req' = [req EXCEPT ![r].host = h, ![r].hop = @ + 1]
     \/ req[r].hop >= MaxHops /\ GoTo(r, "clear")
  /\ UNCHANGED <<connected, draft, count, guesses>>

\* Mutant: the count of the hops starts again at the limit.
PageMovesForEver(r, h) ==
  /\ AtStage(r, "page")
  /\ \/ /\ h = Merchant
        /\ req' = [req EXCEPT ![r].host = h, ![r].hop = (@ + 1) % (MaxHops + 1)]
     \/ h # Merchant /\ GoTo(r, "clear")
  /\ UNCHANGED <<connected, draft, count, guesses>>

\* A redirect of the dashboard page: every hop is checked, and counted.
PageMoves(r, h) ==
  /\ AtStage(r, "page")
  /\ \/ /\ h = Merchant /\ req[r].hop < MaxHops
        /\ req' = [req EXCEPT ![r].host = h, ![r].hop = @ + 1]
     \/ (h # Merchant \/ req[r].hop >= MaxHops) /\ GoTo(r, "clear")
  /\ UNCHANGED <<connected, draft, count, guesses>>

\* The page has the token and the CSRF meta, or the owner is sent to paste.
PageRead(r) ==
  /\ AtStage(r, "page")
  /\ GoTo(r, "save") \/ GoTo(r, "clear")
  /\ UNCHANGED <<connected, draft, count, guesses>>

-----------------------------------------------------------------------------
(* What a login leaves in the session object (respondLoginResult).  An RPC *)
(* whose answer is lost has had its effect all the same.                   *)

Answered(r) == End(r) \/ GoTo(r, "cleanup")

StoreSession(r) ==
  /\ AtStage(r, "save")
  /\ connected' = TRUE /\ draft' = Nobody
  /\ Answered(r)
  /\ UNCHANGED <<count, guesses>>

SaveDraft(r) ==
  /\ AtStage(r, "savePending")
  /\ draft' = req[r].user
  /\ Answered(r)
  /\ UNCHANGED <<connected, count, guesses>>

ClearDraft(r) ==
  /\ AtStage(r, "clear")
  /\ draft' = Nobody
  /\ Answered(r)
  /\ UNCHANGED <<connected, count, guesses>>

\* Mutant: nothing is cleaned up when a step throws.
ThrowsUncaught(r) ==
  /\ req[r].pc \in InFlow
  /\ End(r)
  /\ UNCHANGED <<connected, draft, count, guesses>>

\* withPendingCleanup(): a timeout, a network error or a failed RPC.
Throws(r) ==
  /\ req[r].pc \in InFlow
  /\ GoTo(r, "cleanup")
  /\ UNCHANGED <<connected, draft, count, guesses>>

Cleanup(r) ==
  /\ AtStage(r, "cleanup")
  /\ draft' = Nobody
  /\ End(r)
  /\ UNCHANGED <<connected, count, guesses>>

\* The failure of the cleanup itself is ignored.
CleanupFails(r) ==
  /\ AtStage(r, "cleanup")
  /\ Lose(r)
  /\ UNCHANGED <<connected, draft, count, guesses>>

-----------------------------------------------------------------------------
(* The owner's other requests and the world.                               *)

Paste ==
  /\ connected' = TRUE /\ draft' = Nobody
  /\ UNCHANGED <<count, req, guesses>>

Cancel ==
  /\ draft' = Nobody
  /\ UNCHANGED <<connected, count, req, guesses>>

\* Disconnect clears the session and then, in a second RPC, the pending login.
Disconnect(r) ==
  /\ Over(r)
  /\ connected' = FALSE
  /\ GoTo(r, "disconnect")
  /\ UNCHANGED <<draft, count, guesses>>

Disconnected(r) ==
  /\ AtStage(r, "disconnect")
  /\ draft' = Nobody \/ UNCHANGED draft
  /\ End(r)
  /\ UNCHANGED <<connected, count, guesses>>

\* An expiry, or a 401 reported by the dispatcher.
SessionLost ==
  /\ connected' = FALSE
  /\ UNCHANGED <<draft, count, req, guesses>>

PendingExpires ==
  /\ draft' = Nobody
  /\ UNCHANGED <<connected, count, req, guesses>>

WindowEnds(b) ==
  /\ count' = [count EXCEPT ![b] = 0]
  /\ guesses' = [guesses EXCEPT ![b] = 0]
  /\ req' = [r \in Requests |-> [req[r] EXCEPT !.charged = @ \ {b}]]
  /\ UNCHANGED <<connected, draft>>

\* The Worker dies or the browser gives up.
Crash(r) ==
  /\ ~Over(r)
  /\ Lose(r)
  /\ UNCHANGED <<connected, draft, count, guesses>>

-----------------------------------------------------------------------------
Proceed(r) ==
  \/ \E b \in Counters : CountOne(r, b) \/ CountFails(r, b)
  \/ Refuse(r) \/ Admit(r)
  \/ PrepareLogin(r) \/ PrepareOutlet(r)
  \/ MerchantAsked(r) \/ OutletAsked(r) \/ AnswerUseless(r)
  \/ \E h \in Hosts : Redirected(r, h) \/ PageMoves(r, h)
  \/ PageRead(r)
  \/ StoreSession(r) \/ SaveDraft(r) \/ ClearDraft(r)
  \/ Throws(r) \/ Cleanup(r) \/ CleanupFails(r)
  \/ Disconnected(r)

OwnerStep ==
  \/ \E r \in Requests, ip \in Ips : StartOutlet(r, ip) \/ \E u \in Users : StartLogin(r, u, ip)
  \/ \E r \in Requests : Disconnect(r)
  \/ Paste \/ Cancel

ConnectNext ==
  \/ \E r \in Requests : Proceed(r) \/ Crash(r)
  \/ OwnerStep
  \/ SessionLost \/ PendingExpires
  \/ \E b \in Counters : WindowEnds(b)

ConnectSpec == ConnectInit /\ [][ConnectNext]_connectVars

\* Every wait of a request ends: an RPC answers or fails, a fetch has a
\* timeout of 15 s.  The owner owes nothing.
ConnectFairSpec == ConnectSpec /\ \A r \in Requests : WF_connectVars(Proceed(r))

-----------------------------------------------------------------------------
(* Properties.                                                             *)

\* No more requests send a PIN than a window of their address, of their user
\* and of the whole server admits, however they race, fail and crash; and a
\* request sends it twice at most, an outlet choice once.
\* (pinAttemptAllowed; docs/connect-qasir.md:62)
PinsWithinLimits ==
  /\ \A b \in Counters : guesses[b] <= MaxAttempts[b]
  /\ \A r \in Requests : req[r].pins <= (IF req[r].kind = "outlet" THEN 1 ELSE 2)

\* What is saved was read on the merchant's own host: a redirect to any other
\* store or host, at any hop, aborts the login (followRedirectAndScrape).
NothingSavedElsewhere ==
  \A r \in Requests : req[r].pc \in {"page", "save"} => req[r].host = Merchant

\* A login that ends without asking for an outlet, whether it answered or
\* threw, at whichever stage, leaves no pending state behind; only a dying
\* Worker or a cleanup that fails itself can (withPendingCleanup,
\* respondLoginResult).
FlowsLeaveNothingBehind ==
  [][\A r \in Requests :
       /\ req[r].pc \in InFlow \cup {"cleanup"} /\ req'[r].pc = "idle"
       /\ req[r].pc # "savePending"
       => draft' = Nobody]_connectVars

\* Every request ends, whatever Qasir answers, in whichever order.
EveryRequestEnds == \A r \in Requests : ~Over(r) ~> Over(r)
=============================================================================
