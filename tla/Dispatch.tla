------------------------------ MODULE Dispatch ------------------------------
(***************************************************************************)
(* A read on its way to Qasir: the session providers                       *)
(* (session/qasir-session.ts) and the dispatcher (src/dispatcher).         *)
(*                                                                         *)
(* A call is cut where it waits: for the session object to run getSession  *)
(* or clearIfToken and again for the object's answer to arrive, for each   *)
(* hop of the exchange and for each chunk of the body.  A credential set   *)
(* is named by its API token; `stored` is the cell SessionStore details,   *)
(* Static the QASIR_* secrets.  All calls of one MCP request share a       *)
(* provider and with it the `expired` flag of the static secrets.  A URL   *)
(* is what the checks tell apart: its host, what isQasirLoginUrl says of   *)
(* it and what assertAllowedUrl does.                                      *)
(***************************************************************************)
EXTENDS Naturals

CONSTANTS
  None,
  Calls,
  Approved,               \* the calls of execute_mutation, with allowMutation
  Providers, ProviderOf,  \* ProviderOf[c]: the provider of c's MCP request
  Ops, Host, Auth, Method, Safety,  \* the registry: functions on Ops
  Hosts,                  \* allowlisted hosts
  Foreign,                \* any other host
  Tokens, WithCookie,     \* credential sets; those that hold a cookie
  Static,                 \* the token in the Worker secrets, or None
  MaxRedirects, MaxBytes,
  MaxSaves                \* bound: sessions the owner connects

ASSUME ConstantsAssumption ==
  /\ Approved \subseteq Calls
  /\ ProviderOf \in [Calls -> Providers]
  /\ Host \in [Ops -> Hosts]
  /\ Auth \in [Ops -> {"bearer", "raw-token", "cookie-csrf", "none"}]
  /\ Method \in [Ops -> {"GET", "POST"}]
  /\ Safety \in [Ops -> {"read", "write"}]
  /\ Foreign \notin Hosts
  /\ None \notin Tokens \cup Ops \cup Hosts /\ None # Foreign
  /\ WithCookie \subseteq Tokens /\ Static \in Tokens \cup {None}
  /\ MaxRedirects \in Nat /\ MaxBytes \in Nat /\ MaxSaves \in Nat

VARIABLES
  stored,   \* the token of the session in the session object, or None
  expired,  \* expired[p]: #expired of the static provider
  call,
  saves,    \* bounds the owner's connects
  dead      \* history: tokens p marked as rejected once the object held them no
            \* more, not saved again since

vars == <<stored, expired, call, saves, dead>>

Codes == {"INVALID_INPUT", "UNSUPPORTED_OPERATION", "MUTATION_DISABLED",
          "QASIR_AUTH_EXPIRED", "QASIR_RATE_LIMITED", "FORBIDDEN",
          "UPSTREAM_TIMEOUT", "UPSTREAM_ERROR", "UPSTREAM_ABORTED",
          "RESULT_LIMIT_EXCEEDED", "REDIRECT_NOT_ALLOWED"}

Urls == [host : Hosts \cup {Foreign}, login : BOOLEAN, allowed : BOOLEAN]

\* `found` is the object's answer on its way, `tok` the token in use; `cut` is
\* the caller's signal, `late` the deadline of the request.
Call == [pc : {"idle", "lookup", "found", "wait", "body", "report", "mark", "done"},
         op : Ops \cup {None}, found : Tokens \cup {None}, tok : Tokens \cup {None},
         at : Hosts \cup {Foreign, None}, hop : 0 .. MaxRedirects, got : 0 .. MaxBytes,
         status : {"ok", "error", "redirect"}, cut : BOOLEAN, late : BOOLEAN,
         result : Codes \cup {"ok", None}]
Idle == [pc |-> "idle", op |-> None, found |-> None, tok |-> None, at |-> None,
         hop |-> 0, got |-> 0, status |-> "ok", cut |-> FALSE, late |-> FALSE, result |-> None]

TypeOK ==
  /\ stored \in Tokens \cup {None}
  /\ expired \in [Providers -> BOOLEAN]
  /\ call \in [Calls -> Call]
  /\ saves \in Nat
  /\ dead \in [Providers -> SUBSET Tokens]

Init ==
  /\ stored \in Tokens \cup {None}
  /\ expired = [p \in Providers |-> FALSE]
  /\ call = [c \in Calls |-> Idle]
  /\ saves = 0
  /\ dead = [p \in Providers |-> {}]

-----------------------------------------------------------------------------
Set(c, r) == call' = [call EXCEPT ![c] = r]
Ends(c, code) == Set(c, [Idle EXCEPT !.pc = "done", !.result = code])
NoSession == UNCHANGED <<stored, expired, saves, dead>>

TokenAuth(o) == Auth[o] \in {"bearer", "raw-token"}

\* The deadline wins over the caller's abort.
AbortCode(c) == IF call[c].late THEN "UPSTREAM_TIMEOUT" ELSE "UPSTREAM_ABORTED"

\* Mutant: the signals are only passed to fetch().
DepartUnchecked(c, r) == Set(c, [r EXCEPT !.pc = "wait"])

\* guardedFetch: nothing is sent once a signal has fired.
Depart(c, r) ==
  IF r.cut \/ r.late THEN Ends(c, AbortCode(c)) ELSE Set(c, [r EXCEPT !.pc = "wait"])

-----------------------------------------------------------------------------
(* #prepare.                                                               *)

Start(c, o) ==
  /\ call[c].pc = "idle" /\ (Safety[o] = "read" \/ c \in Approved)
  /\ Set(c, [call[c] EXCEPT !.pc = "lookup", !.op = o])
  /\ NoSession

\* An operation that is not registered, a write without allowMutation or with
\* writes disabled, or an input that is refused.
Refuse(c) ==
  /\ call[c].pc = "idle"
  /\ \E code \in {"INVALID_INPUT", "UNSUPPORTED_OPERATION", "MUTATION_DISABLED"} : Ends(c, code)
  /\ NoSession

\* getSession() of the object: it answers with what it holds now, or not at all.
Lookup(c) ==
  /\ call[c].pc = "lookup"
  /\ \E tok \in {stored, None} : Set(c, [call[c] EXCEPT !.pc = "found", !.found = tok])
  /\ NoSession

\* When the answer is there: the session it brought or else the static secrets,
\* unless they count as expired by now.  A cookie operation needs a cookie, and
\* every value must make a header.
Prepare(c) ==
  LET o == call[c].op
      static == IF expired[ProviderOf[c]] THEN None ELSE Static
      tok == IF call[c].found # None THEN call[c].found ELSE static IN
  /\ call[c].pc = "found"
  /\ IF tok = None \/ (Auth[o] = "cookie-csrf" /\ tok \notin WithCookie)
     THEN Ends(c, "QASIR_AUTH_EXPIRED")
     ELSE \/ Depart(c, [call[c] EXCEPT !.found = None, !.tok = tok, !.at = Host[o]])
          \/ Ends(c, "QASIR_AUTH_EXPIRED")
  /\ NoSession

-----------------------------------------------------------------------------
(* fetchUpstream and what dispatch() does with its outcome.                *)

\* A rejected token is reported; a dead dashboard cookie is not.
Rejected(c) ==
  IF TokenAuth(call[c].op) THEN Set(c, [call[c] EXCEPT !.pc = "report", !.hop = 0])
  ELSE Ends(c, "QASIR_AUTH_EXPIRED")

\* Mutant: any allowlisted host will do.
FollowsAnyHost(c, u) ==
  /\ Method[call[c].op] = "GET"
  /\ u.allowed /\ u.host \in Hosts
  /\ call[c].hop < MaxRedirects

\* Which redirects are followed: to no other host, with a GET, so often.
Follows(c, u) ==
  /\ Method[call[c].op] = "GET"
  /\ u.host = call[c].at
  /\ u.allowed /\ u.host \in Hosts
  /\ call[c].hop < MaxRedirects

Redirect(c, u) ==
  /\ call[c].pc = "wait"
  /\ \/ u.login /\ Rejected(c)
     \/ /\ ~u.login
        /\ IF Follows(c, u)
           THEN Depart(c, [call[c] EXCEPT !.at = u.host, !.hop = @ + 1])
           ELSE Ends(c, "REDIRECT_NOT_ALLOWED")
  /\ NoSession

RedirectNowhere(c) ==
  /\ call[c].pc = "wait"
  /\ Ends(c, "REDIRECT_NOT_ALLOWED")
  /\ NoSession

Unauthorized(c) ==
  /\ call[c].pc = "wait"
  /\ Rejected(c)
  /\ NoSession

\* 403, 419 and 429 leave the session alone.
Denied(c) ==
  /\ call[c].pc = "wait"
  /\ \E code \in {"FORBIDDEN", "QASIR_AUTH_EXPIRED", "QASIR_RATE_LIMITED"} : Ends(c, code)
  /\ NoSession

\* Any other response; its declared length, if any, may already be too much.
Respond(c) ==
  /\ call[c].pc = "wait"
  /\ \/ \E st \in {"ok", "error", "redirect"} :
          Set(c, [call[c] EXCEPT !.pc = "body", !.status = st, !.hop = 0])
     \/ Ends(c, "RESULT_LIMIT_EXCEEDED")
  /\ NoSession

FetchFails(c) ==
  /\ call[c].pc = "wait"
  /\ Ends(c, IF call[c].cut \/ call[c].late THEN AbortCode(c) ELSE "UPSTREAM_ERROR")
  /\ NoSession

-----------------------------------------------------------------------------
(* readBodyCapped and normalizeResponse.                                   *)

\* Mutant: the cap is tested before the chunk is added.
ChunkLate(c, n) ==
  /\ call[c].pc = "body"
  /\ IF call[c].got > MaxBytes THEN Ends(c, "RESULT_LIMIT_EXCEEDED")
     ELSE Set(c, [call[c] EXCEPT !.got = @ + n])
  /\ NoSession

Chunk(c, n) ==
  /\ call[c].pc = "body"
  /\ IF call[c].got + n > MaxBytes THEN Ends(c, "RESULT_LIMIT_EXCEEDED")
     ELSE Set(c, [call[c] EXCEPT !.got = @ + n])
  /\ NoSession

\* The body is complete: data, an error status, or text that is no JSON, a
\* sign-in page being told apart.
BodyEnds(c) ==
  /\ call[c].pc = "body"
  /\ \/ call[c].status = "ok" /\ Ends(c, "ok")
     \/ Ends(c, "UPSTREAM_ERROR")
     \/ call[c].status # "redirect" /\ Ends(c, "QASIR_AUTH_EXPIRED")
  /\ NoSession

BodyFails(c) ==
  /\ call[c].pc = "body"
  /\ Ends(c, IF call[c].cut \/ call[c].late THEN AbortCode(c) ELSE "UPSTREAM_ERROR")
  /\ NoSession

-----------------------------------------------------------------------------
(* Signals.                                                                *)

CallerAborts(c) ==
  /\ call[c].pc \in {"lookup", "found", "wait", "body", "report", "mark"} /\ ~call[c].cut
  /\ Set(c, [call[c] EXCEPT !.cut = TRUE])
  /\ NoSession

Deadline(c) ==
  /\ call[c].pc \in {"wait", "body", "report", "mark"} /\ ~call[c].late
  /\ Set(c, [call[c] EXCEPT !.late = TRUE])
  /\ NoSession

\* Mutant: the read of the body is not raced with the signal.
AbortedFetch(c) ==
  /\ call[c].pc = "wait" /\ (call[c].cut \/ call[c].late)
  /\ Ends(c, AbortCode(c))
  /\ NoSession

\* A fired signal rejects the fetch, and the read of the body.
Aborted(c) ==
  /\ call[c].pc \in {"wait", "body"} /\ (call[c].cut \/ call[c].late)
  /\ Ends(c, AbortCode(c))
  /\ NoSession

-----------------------------------------------------------------------------
(* #expire: markExpired(failed token) of the composite provider.           *)

\* Mutant: clear() instead of clearIfToken().
ClearedAny(tok) == None

\* Mutant: a reported token never retires the static secrets.
StaticKept(p, tok) == expired

\* The session object clears the session if it still holds that token.
Cleared(tok) == IF stored = tok THEN None ELSE stored

\* The static secrets count as expired if it was their token.
StaticAfter(p, tok) == [expired EXCEPT ![p] = @ \/ tok = Static]

\* clearIfToken() reaches the object.
Report(c) ==
  /\ call[c].pc = "report"
  /\ stored' = Cleared(call[c].tok)
  /\ Set(c, [call[c] EXCEPT !.pc = "mark"])
  /\ UNCHANGED <<expired, saves, dead>>

\* The object does not answer; that is swallowed.
ReportLost(c) ==
  /\ call[c].pc = "report"
  /\ Set(c, [call[c] EXCEPT !.pc = "mark"])
  /\ NoSession

\* Back from the object, markExpired() goes on to the static secrets.
Mark(c) ==
  LET p == ProviderOf[c]  tok == call[c].tok IN
  /\ call[c].pc = "mark"
  /\ expired' = StaticAfter(p, tok)
  /\ dead' = [dead EXCEPT ![p] = IF stored = tok THEN @ ELSE @ \cup {tok}]
  /\ Ends(c, "QASIR_AUTH_EXPIRED")
  /\ UNCHANGED <<stored, saves>>

-----------------------------------------------------------------------------
(* The owner.                                                              *)

Connects(t) ==
  /\ saves < MaxSaves
  /\ saves' = saves + 1
  /\ stored' = t
  /\ dead' = [p \in Providers |-> dead[p] \ {t}]
  /\ UNCHANGED <<expired, call>>

Disconnects ==
  /\ stored # None
  /\ stored' = None
  /\ UNCHANGED <<expired, call, saves, dead>>

-----------------------------------------------------------------------------
Upstream(c) ==
  \/ \E u \in Urls : Redirect(c, u)
  \/ RedirectNowhere(c) \/ Unauthorized(c) \/ Denied(c) \/ Respond(c) \/ FetchFails(c)
  \/ \E n \in 1 .. MaxBytes + 1 : Chunk(c, n)
  \/ BodyEnds(c) \/ BodyFails(c)

Next ==
  \/ \E c \in Calls :
       \/ \E o \in Ops : Start(c, o)
       \/ Refuse(c) \/ Lookup(c) \/ Prepare(c) \/ Upstream(c)
       \/ CallerAborts(c) \/ Deadline(c) \/ Aborted(c)
       \/ Report(c) \/ ReportLost(c) \/ Mark(c)
  \/ \E t \in Tokens : Connects(t)
  \/ Disconnects

Spec == Init /\ [][Next]_vars

\* The session object answers or fails, timers fire, rejected promises are
\* seen.  Qasir owes nothing: it may stall at every hop and in every body.
Fairness ==
  \A c \in Calls : /\ WF_vars(Lookup(c))
                   /\ WF_vars(Prepare(c))
                   /\ WF_vars(Deadline(c))
                   /\ WF_vars(Aborted(c))
                   /\ WF_vars(Report(c) \/ ReportLost(c))
                   /\ WF_vars(Mark(c))
FairSpec == Spec /\ Fairness

-----------------------------------------------------------------------------
(* Properties.                                                             *)

\* At every hop of a chain of redirects a request is at the host its operation
\* is registered for: its credentials are shown to no other, allowlisted or not
\* (fetchUpstream's host comparison).
CredentialsStayHome ==
  \A c \in Calls :
    call[c].pc \in {"wait", "body", "report", "mark"} => call[c].at = Host[call[c].op]

\* After the caller's signal or the deadline has fired nothing more is sent to
\* Qasir, also when a redirect arrives at that very moment (guardedFetch).
NothingSentAfterAbort ==
  [][\A c \in Calls :
       /\ call'[c].pc = "wait"
       /\ call[c].pc # "wait" \/ call'[c].hop # call[c].hop
       => ~(call[c].cut \/ call[c].late)]_vars

\* A session disappears because the owner disconnects or because Qasir rejected
\* its own token in an operation that sends it, never because of an older
\* session's late answer (markExpired, #expire).
OnlyTheRejectedSession(c) ==
  call'[c] # call[c] /\ stored # None /\ stored' = None
  => stored = call[c].tok /\ TokenAuth(call[c].op)

\* Once an MCP request has reported a rejected token and marked it, the object
\* gives it to no lookup of that request and the static secrets do not bring it
\* back, unless the owner saved it again: it is sent anew only by a call whose
\* answer left the object before the report came there.
RetiredToken(c) ==
  LET retired == dead[ProviderOf[c]] IN
  /\ call[c].pc = "lookup" /\ call'[c].pc = "found" => call'[c].found \notin retired
  /\ call[c].pc = "found" /\ call'[c].pc = "wait" /\ call'[c].tok \in retired
     => call'[c].tok = call[c].found

\* A rejection ends the use of its token and of nothing else: both of the above.
RejectionsAreExact == [][\A c \in Calls : OnlyTheRejectedSession(c) /\ RetiredToken(c)]_vars

\* Every dispatch ends although Qasir may stop answering at any point.
EveryDispatchEnds ==
  \A c \in Calls : call[c].pc = "lookup" ~> call[c].pc = "done"
=============================================================================
