----------------------------- MODULE OwnerGate -----------------------------
(***************************************************************************)
(* The owner's pages of the Worker: /login, /authorize, and the gate of    *)
(* /connect and /approvals (src/auth, src/index.ts).                       *)
(*                                                                         *)
(* A request is cut where it waits for the rate-limit object, for the      *)
(* digests and for the OAuth library.  It runs with the secrets and flags  *)
(* of the deployment that took it; `secrets` numbers the pair of           *)
(* OWNER_PASSWORD and SESSION_ENCRYPTION_KEY, of which the cookie's key is *)
(* made, and None stands for secrets that are missing or too short.        *)
(* Forms whose CSRF token is not the cookie's change nothing and are left  *)
(* out, as are the pages that only show something.                         *)
(***************************************************************************)
EXTENDS Integers, FiniteSets

CONSTANTS
  Absent,
  Requests,
  Browsers,
  NetworkOf,              \* NetworkOf[b]: what clientNetwork makes of b's address
  Clients, Asked,         \* Asked[k]: the scopes client k requests
  Ticks,                  \* bound: the choices the owner makes on a consent page
  MaxFailures,            \* MAX_PASSWORD_FAILURES
  MaxSecrets,             \* bound: rotations of the secrets
  MaxDeaths               \* bound: guesses lost per network and window

Scopes == {"qasir:read", "qasir:write", "qasir:admin"}
Networks == {NetworkOf[b] : b \in Browsers}
Rotations == 0 .. MaxSecrets

ASSUME GateAssumption ==
  /\ IsFiniteSet(Requests)
  /\ DOMAIN NetworkOf = Browsers
  /\ Asked \in [Clients -> SUBSET Scopes] /\ Ticks \subseteq SUBSET Scopes
  /\ MaxFailures \in Nat \ {0} /\ MaxSecrets \in Nat /\ MaxDeaths \in Nat
  /\ Absent \notin Rotations

VARIABLES
  secrets,    \* of the current deployment
  mutations,  \* its ENABLE_MUTATIONS
  failures,   \* failures[n]: the count of bucket fail:n
  jar,        \* jar[b]: the secrets that signed b's owner cookie, or Absent
  req,
  token,      \* token[k]: the scopes of an access token of k
  wrong,      \* history: wrong guesses from n that this window answers for
  died,       \* history: those of them whose count was lost
  proved,     \* history: the browsers that gave the password, with the secrets
  consented   \* history: the scopes ticked for k by a browser that had proved itself

gateVars == <<secrets, mutations, failures, jar, req, token, wrong, died, proved, consented>>

NoRequest == [pc |-> "idle", kind |-> "login", from |-> Absent, under |-> Absent,
              client |-> Absent, ticked |-> {}, granted |-> {}, fresh |-> FALSE]
Request == [pc : {"idle", "peek", "compare", "count", "cookie", "grant", "act"},
            kind : {"login", "authorize", "owner"},
            from : Browsers \cup {Absent}, under : Rotations \cup {Absent},
            client : Clients \cup {Absent}, ticked : SUBSET Scopes, granted : SUBSET Scopes,
            fresh : BOOLEAN]

GateTypeOK ==
  /\ secrets \in Rotations \cup {Absent}
  /\ mutations \in BOOLEAN
  /\ failures \in [Networks -> 0 .. MaxFailures]
  /\ jar \in [Browsers -> Rotations \cup {Absent}]
  /\ req \in [Requests -> Request]
  /\ token \in [Clients -> SUBSET Scopes]
  /\ wrong \in [Networks -> Nat] /\ died \in [Networks -> Nat]
  /\ proved \in SUBSET (Browsers \X Rotations)
  /\ consented \in [Clients -> SUBSET Scopes]

GateInit ==
  /\ secrets = 0
  /\ mutations \in BOOLEAN
  /\ failures = [n \in Networks |-> 0]
  /\ jar = [b \in Browsers |-> Absent]
  /\ req = [r \in Requests |-> NoRequest]
  /\ token = [k \in Clients |-> {}]
  /\ wrong = [n \in Networks |-> 0]
  /\ died = [n \in Networks |-> 0]
  /\ proved = {}
  /\ consented = [k \in Clients |-> {}]

-----------------------------------------------------------------------------
Goes(r, pc) == req' = [req EXCEPT ![r].pc = pc]
Answered(r) == req' = [req EXCEPT ![r] = NoRequest]
Net(r) == NetworkOf[req[r].from]
Deployment == <<secrets, mutations>>
Guesses == <<failures, wrong, died>>
Consents == <<token, consented>>

\* Mutant: the cookie's signature is not compared.
AnyCookie(b) == jar[b] # Absent

\* readOwner: the cookie is signed with the secrets of this deployment.
ReadOwner(b) == jar[b] # Absent /\ jar[b] = secrets

\* scopeChoices.
Offered(k) ==
  {"qasir:read"} \cup {s \in {"qasir:write"} : s \in Asked[k] \/ mutations}
                 \cup {s \in {"qasir:admin"} : s \in Asked[k]}

\* Mutant: what is offered is granted.
GrantedAll(k, ticked) == Offered(k)

Granted(k, ticked) == Offered(k) \cap ticked

\* POST /login.
Login(r, b) ==
  /\ req[r].pc = "idle" /\ secrets # Absent
  /\ req' = [req EXCEPT ![r] = [NoRequest EXCEPT !.pc = "peek", !.from = b, !.under = secrets]]
  /\ UNCHANGED <<Deployment, Guesses, Consents, jar, proved>>

\* POST /authorize with decision=approve; without a cookie the password is asked.
Authorize(r, b, k, ticked) ==
  /\ req[r].pc = "idle" /\ secrets # Absent
  /\ req' = [req EXCEPT ![r] =
       [NoRequest EXCEPT !.pc = IF ReadOwner(b) THEN "grant" ELSE "peek", !.kind = "authorize",
          !.from = b, !.under = secrets, !.client = k, !.ticked = ticked,
          !.granted = Granted(k, ticked)]]
  /\ UNCHANGED <<Deployment, Guesses, Consents, jar, proved>>

\* A form of /connect or /approvals; without a cookie it is refused.
OwnerPage(r, b) ==
  /\ req[r].pc = "idle" /\ ReadOwner(b)
  /\ req' = [req EXCEPT ![r] = [NoRequest EXCEPT !.pc = "act", !.kind = "owner",
                                  !.from = b, !.under = secrets]]
  /\ UNCHANGED <<Deployment, Guesses, Consents, jar, proved>>

-----------------------------------------------------------------------------
(* checkPassword.                                                          *)

\* Mutant: the peek lets one guess too many through.
PeekLate(r) ==
  /\ req[r].pc = "peek"
  /\ Goes(r, "compare")
  /\ UNCHANGED <<Deployment, Guesses, Consents, jar, proved>>

Peek(r) ==
  /\ req[r].pc = "peek"
  /\ IF failures[Net(r)] < MaxFailures THEN Goes(r, "compare") ELSE Answered(r)
  /\ UNCHANGED <<Deployment, Guesses, Consents, jar, proved>>

RightPassword(r) ==
  /\ req[r].pc = "compare"
  /\ req' = [req EXCEPT ![r].pc = IF req[r].kind = "login" THEN "cookie" ELSE "grant",
                        ![r].fresh = TRUE]
  /\ proved' = proved \cup {<<req[r].from, req[r].under>>}
  /\ UNCHANGED <<Deployment, Guesses, Consents, jar>>

WrongPassword(r) ==
  /\ req[r].pc = "compare"
  /\ Goes(r, "count")
  /\ wrong' = [wrong EXCEPT ![Net(r)] = @ + 1]
  /\ UNCHANGED <<Deployment, Consents, failures, died, jar, proved>>

\* Mutant: one bucket for all networks.
CountEverywhere(r) ==
  /\ req[r].pc = "count"
  /\ failures' = [n \in Networks |-> IF failures[n] < MaxFailures THEN failures[n] + 1 ELSE failures[n]]
  /\ Answered(r)
  /\ UNCHANGED <<Deployment, Consents, wrong, died, jar, proved>>

\* A full bucket is not counted further.
Count(r) ==
  /\ req[r].pc = "count"
  /\ failures' = [failures EXCEPT ![Net(r)] = IF @ < MaxFailures THEN @ + 1 ELSE @]
  /\ Answered(r)
  /\ UNCHANGED <<Deployment, Consents, wrong, died, jar, proved>>

-----------------------------------------------------------------------------
LoggedIn(r) ==
  /\ req[r].pc = "cookie"
  /\ jar' = [jar EXCEPT ![req[r].from] = req[r].under]
  /\ Answered(r)
  /\ UNCHANGED <<Deployment, Guesses, Consents, proved>>

\* completeAuthorization, and of the tokens the client draws from this grant one
\* or none: the token endpoint issues no scope that was not granted, and
\* tokenExchangeCallback keeps the principal's scopes to those issued.  An empty
\* choice is asked for again, and the page that asks sets no cookie.
Approve(r) ==
  LET k == req[r].client  g == req[r].granted IN
  /\ req[r].pc = "grant"
  /\ IF g = {} THEN UNCHANGED <<Consents, jar>>
     ELSE /\ token' \in {token} \cup {[token EXCEPT ![k] = s] : s \in SUBSET g}
          /\ consented' = [consented EXCEPT ![k] = @ \cup req[r].ticked]
          /\ jar' = IF req[r].fresh THEN [jar EXCEPT ![req[r].from] = req[r].under] ELSE jar
  /\ Answered(r)
  /\ UNCHANGED <<Deployment, Guesses, proved>>

\* The approval is decided (Mutation!Decide), the login started (Connect).
Act(r) ==
  /\ req[r].pc = "act"
  /\ Answered(r)
  /\ UNCHANGED <<Deployment, Guesses, Consents, jar, proved>>

\* The Worker dies or an object does not answer.
Dies(r) ==
  /\ req[r].pc # "idle"
  /\ IF req[r].pc = "count"
     THEN /\ died[Net(r)] < MaxDeaths
          /\ died' = [died EXCEPT ![Net(r)] = @ + 1]
     ELSE UNCHANGED died
  /\ Answered(r)
  /\ UNCHANGED <<Deployment, Consents, failures, wrong, jar, proved>>

-----------------------------------------------------------------------------
\* Logout, or eight hours.
CookieGone(b) ==
  /\ jar[b] # Absent
  /\ jar' = [jar EXCEPT ![b] = Absent]
  /\ UNCHANGED <<Deployment, Guesses, Consents, req, proved>>

\* The bucket is dropped; guesses not counted yet count in the next one.
WindowEnds(n) ==
  /\ failures[n] > 0
  /\ failures' = [failures EXCEPT ![n] = 0]
  /\ wrong' = [wrong EXCEPT ![n] = Cardinality({r \in Requests : req[r].pc = "count" /\ Net(r) = n})]
  /\ died' = [died EXCEPT ![n] = 0]
  /\ UNCHANGED <<Deployment, Consents, jar, req, proved>>

\* New secrets, or none, or a changed flag; requests of before run on.
Deploy(s, m) ==
  /\ IF secrets = Absent THEN s \in Rotations
     ELSE s = Absent \/ (s \in Rotations /\ s \in {secrets, secrets + 1})
  /\ secrets' = s
  /\ mutations' = m
  /\ UNCHANGED <<Guesses, Consents, jar, req, proved>>

GateNext ==
  \/ \E r \in Requests, b \in Browsers :
       \/ Login(r, b) \/ OwnerPage(r, b)
       \/ \E k \in Clients, ticked \in Ticks : Authorize(r, b, k, ticked)
  \/ \E r \in Requests :
       \/ Peek(r) \/ RightPassword(r) \/ WrongPassword(r) \/ Count(r)
       \/ LoggedIn(r) \/ Approve(r) \/ Act(r) \/ Dies(r)
  \/ \E b \in Browsers : CookieGone(b)
  \/ \E n \in Networks : WindowEnds(n)
  \/ \E s \in Rotations \cup {Absent}, m \in BOOLEAN : Deploy(s, m)

GateSpec == GateInit /\ [][GateNext]_gateVars

-----------------------------------------------------------------------------
(* Properties.                                                             *)

\* Peeking, comparing and counting are three steps, so guesses sent together
\* all pass the peek: a window takes the limit, one more for each request but
\* one that runs at the same time, and those whose count was lost.
GuessesBounded ==
  \A n \in Networks : wrong[n] <= MaxFailures + Cardinality(Requests) - 1 + died[n]

\* "10 guesses per network per 15 minutes" (checkPassword's comment), "10 failed
\* attempts per IP" (operations.md): a window takes the limit and no more.
TenFailures == \A n \in Networks : wrong[n] <= MaxFailures

\* A network is locked out by wrong guesses of its own only: nobody can lock the
\* owner out from elsewhere, and right passwords never count (checkPassword).
LockedOutByOwnGuesses == \A n \in Networks : failures[n] <= wrong[n]

\* Both: what the limit on guesses gives.
GuessLimit == GuessesBounded /\ LockedOutByOwnGuesses

\* Whoever is about to grant access, to decide an approval or to change the
\* Qasir session has given, in this browser, the password of the deployment
\* that serves the request: rotating a secret ends every cookie (readOwner).
OwnerActsAreProved ==
  \A r \in Requests :
    req[r].pc \in {"grant", "act", "cookie"} => <<req[r].from, req[r].under>> \in proved

\* principalFromProps: the known scopes of the token's props.
Principal(k) == token[k] \cap Scopes

\* hasScope.
HasScope(granted, needed) ==
  \/ "qasir:admin" \in granted
  \/ needed = "qasir:read" /\ granted \cap Scopes # {}
  \/ needed \in granted

\* createManujujayaServer makes a server for each request: the read tools are
\* listed for everybody, the widgets' among them; execute_mutation is not.
ToolsOf(k) ==
  {"search", "execute", "widgets"}
    \cup {t \in {"execute_mutation"} : mutations /\ HasScope(Principal(k), "qasir:write")}

\* requireScope: what a request of k runs of them.
Runs(k) ==
  {t \in ToolsOf(k) :
     HasScope(Principal(k), IF t = "execute_mutation" THEN "qasir:write" ELSE "qasir:read")}

\* A client reads only if the owner ticked a scope for that client, and changes
\* something only if it was one that allows writes, whatever was requested and
\* deployed in between (handleAuthorize, createManujujayaServer).
WritesNeedConsent ==
  \A k \in Clients :
    /\ Runs(k) # {} => consented[k] # {}
    /\ "execute_mutation" \in Runs(k) => consented[k] \cap {"qasir:write", "qasir:admin"} # {}
=============================================================================
