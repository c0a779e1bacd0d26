------------------------------ MODULE Mutation ------------------------------
(***************************************************************************)
(* The write path: execute_mutation (src/mcp/mutation-tool.ts), the        *)
(* owner's single-use approvals (src/approvals) and the dispatcher as a    *)
(* write meets it (src/dispatcher).                                        *)
(*                                                                         *)
(* The approvals object awaits nothing but its storage, so each of its     *)
(* methods is one step.  A tool call runs in a Worker and is cut wherever  *)
(* it waits for another party: the session lookup of preflight(), the      *)
(* consume() RPC, the second session lookup inside dispatch(), Qasir.      *)
(* Either lookup may go unanswered; the provider then takes the Worker's   *)
(* secrets, as it does when the object is empty (CompositeQasirSession-    *)
(* Provider.getSession).  The session itself is the cell module            *)
(* SessionStore details; here the owner may connect at any time, and the   *)
(* session go: disconnected, expired, or rejected in a read.  The server   *)
(* has one subject, its owner, and one approvals object per subject, so    *)
(* the subject checks of #load never fail and are not represented.         *)
(***************************************************************************)
EXTENDS Naturals

CONSTANTS
  None,
  Ids,           \* approval ids (UUIDs, never reused)
  Calls,         \* execute_mutation calls in flight together
  Writers,       \* the calls whose principal has the write scope
  Changes,       \* an operation with its normalized arguments
  Method,        \* Method[x]: the HTTP method of the operation
  Profile,       \* Profile[x]: its authProfile
  Tokens,        \* API tokens
  Static,        \* the session in the Worker secrets QASIR_*
  Ttl,           \* APPROVAL_TTL_MS
  Grace,         \* how long the alarm keeps an expired record
  MaxRedirects,  \* maxRedirects of the dispatcher
  MaxTime,       \* bound: the clock stops here
  MaxConnects    \* bound: sessions the owner connects

ASSUME ConstantsAssumption ==
  /\ None \notin Changes /\ None \notin Tokens /\ None \notin Nat /\ None \notin Ids
  /\ Writers \subseteq Calls
  /\ Method \in [Changes -> {"GET", "POST"}]
  /\ Profile \in [Changes -> {"bearer", "raw-token", "cookie-csrf"}]
  /\ Ttl \in Nat /\ Grace \in Nat /\ MaxRedirects \in Nat
  /\ MaxTime \in Nat /\ MaxConnects \in Nat

Session == [tok : Tokens \cup {None}, cookie : BOOLEAN]
NoSession == [tok |-> None, cookie |-> FALSE]

ASSUME StaticAssumption == Static \in Session

VARIABLES
  approval,   \* storage keys "approval:<id>"; status "none" is an absent key
  alarm,      \* the alarm of the approvals object
  now,        \* Date.now()
  enabled,    \* ENABLE_MUTATIONS
  session,    \* the session in the session object
  call,       \* call[c] is the execute_mutation call c
  used,       \* history: ids given out so far
  decisions,  \* history: <<id, change>> the owner approved
  sent,       \* history: <<id, change>> dispatched to Qasir
  requests,   \* history: HTTP requests made on behalf of an approval
  burned,     \* history: approvals consumed whose dispatch failed locally
  connects    \* history: sessions connected so far

vars == <<approval, alarm, now, enabled, session, call, used, decisions, sent,
          requests, burned, connects>>
history == <<used, decisions, sent, requests, burned, connects>>

Approval == [status : {"none", "pending", "approved", "rejected", "consumed"},
             change : Changes \cup {None}, expires : Nat]
NoApproval == [status |-> "none", change |-> None, expires |-> 0]

\* `found` is what the last lookup brought from the object, `tok` the token
\* dispatch() uses, `expired` the flag of the static provider that the calls of
\* one MCP request share.  History: `held` is what the object held at the first
\* lookup, `lost` whether one brought something else than the object held.
Call == [pc : {"idle", "lookup", "preflight", "consume", "relookup", "prepare", "fetch"},
         id : Ids \cup {None}, change : Changes \cup {None},
         found : Session, expired : BOOLEAN, tok : Tokens \cup {None}, hop : Nat,
         held : Session, lost : BOOLEAN]
Free == [pc |-> "idle", id |-> None, change |-> None, found |-> NoSession,
         expired |-> FALSE, tok |-> None, hop |-> 0, held |-> NoSession, lost |-> FALSE]

TypeOK ==
  /\ approval \in [Ids -> Approval]
  /\ alarm \in Nat \cup {None}
  /\ now \in Nat
  /\ enabled \in BOOLEAN
  /\ session \in Session
  /\ call \in [Calls -> Call]
  /\ used \subseteq Ids
  /\ decisions \subseteq Ids \X Changes
  /\ sent \subseteq Ids \X Changes
  /\ requests \in [Ids -> Nat]
  /\ burned \subseteq Ids
  /\ connects \in Nat

Init ==
  /\ approval = [a \in Ids |-> NoApproval]
  /\ alarm = None
  /\ now = 0
  /\ enabled \in BOOLEAN
  /\ session = NoSession
  /\ call = [c \in Calls |-> Free]
  /\ used = {} /\ decisions = {} /\ sent = {} /\ burned = {}
  /\ requests = [a \in Ids |-> 0]
  /\ connects = 0

-----------------------------------------------------------------------------
(* The approvals object.                                                   *)

\* #load: found and not yet past its expiry (the last millisecond counts).
Loads(a) == approval[a].status # "none" /\ now <= approval[a].expires

\* Mutant: the time to live is taken off instead of added.
RequestExpired(c, a, x) ==
  /\ c \in Writers /\ enabled /\ call[c].pc = "idle"
  /\ a \notin used
  /\ approval' = [approval EXCEPT ![a] =
                    [status |-> "pending", change |-> x, expires |-> now - Ttl]]
  /\ alarm' = now + Ttl + Grace
  /\ used' = used \cup {a}
  /\ UNCHANGED <<now, enabled, session, call, decisions, sent, requests, burned, connects>>

\* request(): each one moves the alarm to an hour after its own expiry.
RequestApproval(c, a, x) ==
  /\ c \in Writers /\ enabled /\ call[c].pc = "idle"
  /\ a \notin used
  /\ approval' = [approval EXCEPT ![a] =
                    [status |-> "pending", change |-> x, expires |-> now + Ttl]]
  /\ alarm' = now + Ttl + Grace
  /\ used' = used \cup {a}
  /\ UNCHANGED <<now, enabled, session, call, decisions, sent, requests, burned, connects>>

\* Mutant: decide() forgets that the approval has to be pending.
DecideAgain(a, verdict) ==
  /\ Loads(a)
  /\ approval' = [approval EXCEPT ![a].status = verdict]
  /\ decisions' = IF verdict = "approved"
                  THEN decisions \cup {<<a, approval[a].change>>} ELSE decisions
  /\ UNCHANGED <<alarm, now, enabled, session, call, used, sent, requests, burned, connects>>

\* decide(), called by the signed-in owner from the approval page.
Decide(a, verdict) ==
  /\ Loads(a) /\ approval[a].status = "pending"
  /\ approval' = [approval EXCEPT ![a].status = verdict]
  /\ decisions' = IF verdict = "approved"
                  THEN decisions \cup {<<a, approval[a].change>>} ELSE decisions
  /\ UNCHANGED <<alarm, now, enabled, session, call, used, sent, requests, burned, connects>>

\* Mutant: consume() does not compare the change with the approved one.
ConsumableForAnyChange(a, x) == Loads(a) /\ approval[a].status = "approved"

\* consume() grants the call only the change it was approved for, only once.
Consumable(a, x) ==
  Loads(a) /\ approval[a].change = x /\ approval[a].status = "approved"

\* alarm(): the runtime clears the alarm and the handler does not set it again.
Stale(a) == approval[a].expires + Grace < now
Alarm ==
  /\ alarm # None /\ alarm <= now
  /\ alarm' = None
  /\ approval' = [a \in Ids |-> IF Stale(a) THEN NoApproval ELSE approval[a]]
  /\ UNCHANGED <<now, enabled, session, call, history>>

-----------------------------------------------------------------------------
(* A tool call that presents an approval id.                               *)

\* getSession() of the composite provider: what the object gave, or else the
\* static secrets, unless they were marked expired.
Credentials(r) ==
  IF r.found.tok # None THEN r.found ELSE IF r.expired THEN NoSession ELSE Static

\* The local checks of the dispatcher's #prepare that depend on the session.
Usable(r) ==
  /\ Credentials(r).tok # None
  /\ Profile[r.change] = "cookie-csrf" => Credentials(r).cookie

\* The flag of the secrets when a lookup's answer arrives: another call of the
\* MCP request may have had their token rejected (Mark of module Dispatch).
Marks(r) == {r.expired} \cup (IF Static.tok # None THEN {TRUE} ELSE {})

Return(c) == call' = [call EXCEPT ![c] = Free]

\* Scope, ENABLE_MUTATIONS, operation and input are checked before any wait.
Start(c, a, x) ==
  /\ c \in Writers /\ enabled /\ call[c].pc = "idle"
  /\ call' = [call EXCEPT ![c] = [Free EXCEPT !.pc = "lookup", !.id = a, !.change = x]]
  /\ UNCHANGED <<approval, alarm, now, enabled, session, history>>

\* preflight() looks the session up: the object answers, or it does not.
Lookup(c) ==
  /\ call[c].pc = "lookup"
  /\ \E s \in {session, NoSession}, e \in Marks(call[c]) :
       call' = [call EXCEPT ![c].pc = "preflight", ![c].found = s, ![c].expired = e,
                            ![c].held = session, ![c].lost = (s # session)]
  /\ UNCHANGED <<approval, alarm, now, enabled, session, history>>

\* Mutant: preflight() skips the session and its cookie.
PreflightWithoutSession(c) ==
  /\ call[c].pc = "preflight"
  /\ call' = [call EXCEPT ![c].pc = "consume"]
  /\ UNCHANGED <<approval, alarm, now, enabled, session, history>>

\* preflight() throws before consume() without credentials for the operation.
Preflight(c) ==
  /\ call[c].pc = "preflight"
  /\ \/ Usable(call[c]) /\ call' = [call EXCEPT ![c].pc = "consume"]
     \/ ~Usable(call[c]) /\ Return(c)
  /\ UNCHANGED <<approval, alarm, now, enabled, session, history>>

Consume(c) ==
  /\ call[c].pc = "consume"
  /\ \/ /\ Consumable(call[c].id, call[c].change)
        /\ approval' = [approval EXCEPT ![call[c].id].status = "consumed"]
        /\ call' = [call EXCEPT ![c].pc = "relookup"]
     \/ ~Consumable(call[c].id, call[c].change) /\ Return(c) /\ UNCHANGED approval
  /\ UNCHANGED <<alarm, now, enabled, session, history>>

\* dispatch(): #prepare looks the session up again.
Relookup(c) ==
  /\ call[c].pc = "relookup"
  /\ \E s \in {session, NoSession}, e \in Marks(call[c]) :
       call' = [call EXCEPT ![c].pc = "prepare", ![c].found = s, ![c].expired = e,
                            ![c].lost = @ \/ s # session]
  /\ UNCHANGED <<approval, alarm, now, enabled, session, history>>

\* With credentials for the operation the request leaves.
Prepare(c) ==
  /\ call[c].pc = "prepare"
  /\ Usable(call[c])
  /\ call' = [call EXCEPT ![c].pc = "fetch", ![c].tok = Credentials(call[c]).tok]
  /\ sent' = sent \cup {<<call[c].id, call[c].change>>}
  /\ requests' = [requests EXCEPT ![call[c].id] = @ + 1]
  /\ UNCHANGED <<approval, alarm, now, enabled, session, used, decisions, burned, connects>>

PrepareFails(c) ==
  /\ call[c].pc = "prepare"
  /\ ~Usable(call[c])
  /\ Return(c)
  /\ burned' = burned \cup {call[c].id}
  /\ UNCHANGED <<approval, alarm, now, enabled, session, used, decisions, sent,
                 requests, connects>>

\* Qasir answers, refuses or times out: the call ends and is not retried.
Answer(c) ==
  /\ call[c].pc = "fetch"
  /\ Return(c)
  /\ UNCHANGED <<approval, alarm, now, enabled, session, history>>

\* 401 or a sign-in redirect: #expire compares and deletes the session, if the
\* object answers, and leaves it alone for operations that authenticate with the
\* cookie.
AuthFailure(c) ==
  /\ call[c].pc = "fetch"
  /\ \/ /\ Profile[call[c].change] # "cookie-csrf" /\ session.tok = call[c].tok
        /\ session' = NoSession
     \/ UNCHANGED session
  /\ Return(c)
  /\ UNCHANGED <<approval, alarm, now, enabled, history>>

\* Mutant: a redirect is followed whatever the method.
RedirectAnyMethod(c) ==
  /\ call[c].pc = "fetch"
  /\ \/ /\ call[c].hop < MaxRedirects
        /\ call' = [call EXCEPT ![c].hop = @ + 1]
        /\ requests' = [requests EXCEPT ![call[c].id] = @ + 1]
     \/ call[c].hop >= MaxRedirects /\ Return(c) /\ UNCHANGED requests
  /\ UNCHANGED <<approval, alarm, now, enabled, session, used, decisions, sent,
                 burned, connects>>

\* A redirect on the same host: followed for a GET, refused for anything else.
Redirect(c) ==
  /\ call[c].pc = "fetch"
  /\ \/ /\ Method[call[c].change] = "GET" /\ call[c].hop < MaxRedirects
        /\ call' = [call EXCEPT ![c].hop = @ + 1]
        /\ requests' = [requests EXCEPT ![call[c].id] = @ + 1]
     \/ /\ Method[call[c].change] # "GET" \/ call[c].hop >= MaxRedirects
        /\ Return(c)
        /\ UNCHANGED requests
  /\ UNCHANGED <<approval, alarm, now, enabled, session, used, decisions, sent,
                 burned, connects>>

\* The Worker dies or the client gives up; the objects know nothing of it.
Crash(c) ==
  /\ call[c].pc # "idle"
  /\ Return(c)
  /\ UNCHANGED <<approval, alarm, now, enabled, session, history>>

-----------------------------------------------------------------------------
(* The owner, the operator and the clock.                                  *)

Connect(t, cookie) ==
  /\ connects < MaxConnects
  /\ connects' = connects + 1
  /\ session' = [tok |-> t, cookie |-> cookie]
  /\ UNCHANGED <<approval, alarm, now, enabled, call, used, decisions, sent, requests, burned>>

Disconnect ==
  /\ session # NoSession
  /\ session' = NoSession
  /\ UNCHANGED <<approval, alarm, now, enabled, call, history>>

SetEnabled(b) ==
  /\ enabled' = b
  /\ UNCHANGED <<approval, alarm, now, session, call, history>>

Tick ==
  /\ now < MaxTime
  /\ now' = now + 1
  /\ UNCHANGED <<approval, alarm, enabled, session, call, history>>

CallStep(c) ==
  \/ \E a \in Ids, x \in Changes : RequestApproval(c, a, x) \/ Start(c, a, x)
  \/ Lookup(c) \/ Preflight(c) \/ Consume(c)
  \/ Relookup(c) \/ Prepare(c) \/ PrepareFails(c)
  \/ Answer(c) \/ AuthFailure(c) \/ Redirect(c) \/ Crash(c)

OwnerStep ==
  \/ \E a \in Ids, verdict \in {"approved", "rejected"} : Decide(a, verdict)
  \/ \E t \in Tokens, cookie \in BOOLEAN : Connect(t, cookie)
  \/ Disconnect

Next ==
  \/ \E c \in Calls : CallStep(c)
  \/ OwnerStep
  \/ \E b \in BOOLEAN : SetEnabled(b)
  \/ Alarm
  \/ Tick

Spec == Init /\ [][Next]_vars

\* The runtime delivers a due alarm and time passes; nobody owes a call.
FairSpec == Spec /\ WF_vars(Alarm) /\ WF_vars(Tick)

-----------------------------------------------------------------------------
(* Properties.                                                             *)

\* The write path implements the abstract promise: only changes the owner
\* approved are dispatched, each approval once, whatever calls, decisions,
\* expiries, collections and crashes interleave.
Promise == INSTANCE ApprovedOnce WITH granted <- decisions, done <- sent
ImplementsApprovedOnce == Promise!Spec

\* A write that is not a GET reaches Qasir in exactly one HTTP request, also
\* when Qasir redirects it, times out or fails (fetchUpstream).
NonGetWritesAreNotReplayed ==
  \A a \in Ids, x \in Changes :
    <<a, x>> \in sent /\ Method[x] # "GET" => requests[a] = 1

\* docs/mcp-tools.md:105 and 107: "the operation is dispatched once", "A write
\* that gets a redirect is not retried".
WritesAreNotReplayed == \A a \in Ids : requests[a] <= 1

\* Once rejected or consumed, an approval stays so until it is collected.
DecisionsAreFinal ==
  [][\A a \in Ids : approval[a].status \in {"rejected", "consumed"} =>
       approval'[a].status \in {approval[a].status, "none"}]_vars

\* "Fail on local problems (no session, missing cookie, bad input) before
\* burning the approval" (mutation-tool.ts:98): once preflight() let the call
\* pass, the local checks fail after consume() only if the object held another
\* session by then, one of the two lookups brought something else than the
\* object held, or the object was empty and the secrets were rejected meanwhile.
BurnedOnlyByLookup ==
  [][\A c \in Calls : call[c].pc = "prepare" /\ burned' # burned /\ call'[c] # call[c]
       => \/ call[c].found # call[c].held \/ call[c].lost
          \/ call[c].held.tok = None /\ call[c].expired]_vars

\* mutation-approvals.ts:104: "Garbage-collect expired approvals."
StaleApprovalsAreCollected ==
  \A a \in Ids : (approval[a].status # "none" /\ Stale(a)) ~> (approval[a].status = "none")
=============================================================================
