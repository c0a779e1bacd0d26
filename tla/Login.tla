------------------------------- MODULE Login --------------------------------
(***************************************************************************)
(* One login of the owner at Qasir, with its data: the answers Qasir gives *)
(* (connect/login-parse.ts), the merchant and the outlet they lead to      *)
(* (login-flow.ts, login-continue.ts) and the cookies collected on the way *)
(* (cookie-jar.ts), which are saved with a pending outlet choice and read  *)
(* back when the owner chooses.  Connect has the same login among others,  *)
(* without this data.                                                      *)
(*                                                                         *)
(* Hosts are "www", the merchant's "shop" and "other" of qasir.id; the     *)
(* domain "qasir.id" has them all.  A cookie's value is the position of    *)
(* its Set-Cookie line in the history: no two are equal, and the order of  *)
(* the jar's array is that of the values, so that the jar is a set.        *)
(***************************************************************************)
EXTENDS FiniteSets, Sequences, Integers

CONSTANTS
  Nothing,
  Lines,         \* bound: Set-Cookie lines of responses
  Answers,       \* bound: answers of the auth endpoints
  Landings,      \* bound: hosts a redirect names
  MaxLines,      \* bound: lines of one login
  MaxClock,      \* bound: time that passes
  MaxCookies,    \* MAX_COOKIES
  MaxHops        \* MAX_DASHBOARD_HOPS

ASSUME LoginAssumption ==
  /\ Nothing \notin Int /\ MaxCookies \in Nat \ {0} /\ MaxClock \in Nat
  /\ \A line \in Lines : line.maxAge \in Int \cup {Nothing} /\ line.expires \in Int \cup {Nothing}

VARIABLES
  step,     \* the request that is made next, or how the login ended
  ctx,      \* AuthContext: the merchant and outlet of the login, and its hops
  cookies,  \* the jar; a cookie of a smaller value is older
  pending,  \* the saved draft, or Nothing
  clock,
  log       \* history: the Set-Cookie lines received, with host and time

loginVars == <<step, ctx, cookies, pending, clock, log>>

NoContext == [merchant |-> Nothing, outlet |-> Nothing, host |-> "www", hop |-> 0]

LoginInit ==
  /\ step = "idle" /\ ctx = NoContext /\ cookies = {} /\ pending = Nothing
  /\ clock = 0 /\ log = <<>>

-----------------------------------------------------------------------------
(* The jar.                                                                *)

Live(kept, t) == {c \in kept : c.expires = Nothing \/ c.expires > t}

Same(a, b) ==
  a.name = b.name /\ a.domain = b.domain /\ a.path = b.path /\ a.hostOnly = b.hostOnly

Remove(kept, c) == {d \in kept : ~Same(c, d)}

\* Mutant: a cookie that is set again does not replace the old one.
StoreTwice(kept, c) == kept \cup {c}

\* The oldest cookies give way to more than MAX_COOKIES.
Store(kept, c) ==
  LET all == Remove(kept, c) \cup {c} IN
  {d \in all : Cardinality({e \in all : e.value > d.value}) < MaxCookies}

\* Whether host h belongs to domain d of qasir.id.
Within(h, d) == d \in {h, "qasir.id"}

DomainMatches(h, c) == IF c.hostOnly THEN h = c.domain ELSE Within(h, c.domain)
PathMatches(p, c) == c.path \in {"/", p}

\* applySetCookie for the n-th line, from host h: another domain's line is
\* ignored, Max-Age goes before Expires, a cookie of the past is removed.
Expiry(line) == IF line.maxAge = Nothing THEN line.expires ELSE clock + line.maxAge
Cookie(line, h, n) ==
  [name |-> line.name, value |-> n, path |-> line.path, expires |-> Expiry(line),
   domain |-> IF line.domain = Nothing THEN h ELSE line.domain, hostOnly |-> line.domain = Nothing]
ApplySetCookie(kept, line, h, n) ==
  LET c == Cookie(line, h, n) IN
  IF line.domain # Nothing /\ ~Within(h, line.domain) THEN kept
  ELSE IF c.expires # Nothing /\ c.expires <= clock THEN Remove(kept, c)
  ELSE Store(kept, c)

HeaderFor(kept, h, p, t) == {c \in Live(kept, t) : DomainMatches(h, c) /\ PathMatches(p, c)}

-----------------------------------------------------------------------------
(* The conversation.                                                       *)

GoesTo(s) == step' = s

\* The response to a request may set a cookie.
Exchange ==
  \/ UNCHANGED <<cookies, log>>
  \/ \E line \in Lines :
       /\ Len(log) < MaxLines
       /\ log' = Append(log, [line |-> line, host |-> ctx.host, at |-> clock])
       /\ cookies' = ApplySetCookie(cookies, line, ctx.host, Len(log) + 1)

\* runQasirLoginFlow with a valid name and PIN.  The device's cookie is the
\* first line of the history.
DeviceLine ==
  [name |-> "device", domain |-> Nothing, path |-> "/", maxAge |-> Nothing, expires |-> Nothing]
StartLogin ==
  /\ step = "idle"
  /\ log' = <<[line |-> DeviceLine, host |-> "www", at |-> clock]>>
  /\ cookies' = {Cookie(DeviceLine, "www", 1)}
  /\ GoesTo("sign-in")
  /\ UNCHANGED <<ctx, pending, clock>>

\* wwwCsrfFrom: the page's meta tag, or else the XSRF-TOKEN cookie.
SignIn(meta) ==
  /\ step = "sign-in"
  /\ Exchange
  /\ GoesTo(IF meta \/ \E c \in HeaderFor(cookies', "www", "/api", clock) : c.name = "xsrf" THEN "language" ELSE "error")
  /\ UNCHANGED <<ctx, pending, clock>>

\* The answer to the language is not looked at.
Language ==
  /\ step = "language"
  /\ Exchange /\ GoesTo("login")
  /\ UNCHANGED <<ctx, pending, clock>>

\* matchConfiguredMerchant: the first of the list at the configured host.
Matches(a) == {i \in DOMAIN a.merchants : a.merchants[i].host = "shop"}
Matched(a) == a.merchants[CHOOSE i \in Matches(a) : \A j \in Matches(a) : i <= j].id

\* parseLoginResponse: next_step decides; without one, a token with its
\* subdomain is a redirect.
NextStep(a) == IF a.next = "none" /\ a.url # Nothing THEN "redirect" ELSE a.next

Errs == GoesTo("error") /\ UNCHANGED <<ctx, pending>>

\* The merchant whose outlets are offered.
Offering(a) == IF a.merchant = Nothing THEN ctx.merchant ELSE a.merchant

\* resolveAuthJson.
Resolve(a) ==
  CASE a.ok /\ NextStep(a) = "select_merchant" /\ Matches(a) # {} /\ ctx.merchant = Nothing ->
         /\ ctx' = [ctx EXCEPT !.merchant = Matched(a)]
         /\ GoesTo("merchant") /\ UNCHANGED pending
    [] /\ a.ok /\ NextStep(a) = "select_outlet" /\ ctx.outlet = Nothing
       /\ Offering(a) # Nothing /\ ctx.merchant \in {Nothing, Offering(a)} ->
         /\ pending' = [merchant |-> Offering(a), outlets |-> a.outlets, cookies |-> Live(cookies', clock)]
         /\ GoesTo("select") /\ UNCHANGED ctx
    [] a.ok /\ NextStep(a) = "redirect" /\ a.url = "shop" ->
         /\ ctx' = [ctx EXCEPT !.host = a.url]
         /\ GoesTo("page") /\ UNCHANGED pending
    [] OTHER -> Errs

QasirAnswers(a) ==
  /\ step \in {"login", "merchant", "outlet"}
  /\ Exchange /\ Resolve(a)
  /\ UNCHANGED clock

\* continueWithOutlet, with the draft's cookies (CookieJar.fromJSON); the PIN
\* is given again.  An outlet that is not offered, or locked, is an error.
Choose(o) ==
  /\ step = "select"
  /\ IF [id |-> o, locked |-> FALSE] \in pending.outlets
     THEN /\ ctx' = [NoContext EXCEPT !.merchant = pending.merchant, !.outlet = o]
          /\ cookies' = pending.cookies
          /\ GoesTo("outlet")
     ELSE GoesTo("error") /\ UNCHANGED <<ctx, cookies>>
  /\ UNCHANGED <<pending, clock, log>>

\* followRedirectAndScrape: a redirect within the merchant's host is followed.
PageMoves(h) ==
  /\ step = "page"
  /\ Exchange
  /\ IF h = "shop" /\ ctx.hop < MaxHops
     THEN ctx' = [ctx EXCEPT !.host = h, !.hop = @ + 1] /\ UNCHANGED step
     ELSE GoesTo("error") /\ UNCHANGED ctx
  /\ UNCHANGED <<pending, clock>>

\* A page with API_TOKEN and CSRF meta, without one of them, or an error status.
PageRead(s) ==
  /\ step = "page"
  /\ Exchange /\ GoesTo(s)
  /\ UNCHANGED <<ctx, pending, clock>>

Tick ==
  /\ clock < MaxClock /\ clock' = clock + 1
  /\ UNCHANGED <<step, ctx, cookies, pending, log>>

LoginNext ==
  \/ StartLogin \/ Language \/ Tick
  \/ \E meta \in BOOLEAN : SignIn(meta)
  \/ \E a \in Answers : QasirAnswers(a)
  \/ \E o \in UNION {{p.id : p \in a.outlets} : a \in Answers} : Choose(o)
  \/ \E h \in Landings : PageMoves(h)
  \/ \E s \in {"connected", "paste", "error"} : PageRead(s)

LoginSpec == LoginInit /\ [][LoginNext]_loginVars

-----------------------------------------------------------------------------
(* Properties.                                                             *)

\* What a browser would send (RFC 6265), told from the history alone: line i
\* counts if its host may set it, none with the same name, domain and path came
\* later, and its time has not come.
LineDomain(i) == IF log[i].line.domain = Nothing THEN log[i].host ELSE log[i].line.domain
Counts(i) == log[i].line.domain = Nothing \/ log[i].host = log[i].line.domain \/ log[i].line.domain = "qasir.id"
Key(i) == <<log[i].line.name, LineDomain(i), log[i].line.path, log[i].line.domain = Nothing>>
Ended(i, t) ==
  LET l == log[i].line IN
  \/ l.maxAge # Nothing /\ log[i].at + l.maxAge <= t
  \/ l.maxAge = Nothing /\ l.expires # Nothing /\ l.expires <= t
Due(h, p, t) ==
  {i \in DOMAIN log :
     /\ Counts(i) /\ ~Ended(i, t)
     /\ \A j \in i + 1 .. Len(log) : ~(Counts(j) /\ Key(i) = Key(j))
     /\ IF log[i].line.domain = Nothing THEN h = log[i].host ELSE h = LineDomain(i) \/ LineDomain(i) = "qasir.id"
     /\ log[i].line.path \in {"/", p}}

Values(kept) == {c.value : c \in kept}

\* At every moment of a login, and after a pending choice was saved and read
\* back, a host would be sent exactly the cookies that are due to it: none of
\* another host's, none that was replaced, deleted or has expired, and none is
\* missing unless MAX_COOKIES was reached (CookieJar).
CookiesAreDue ==
  step # "select" =>
    \A h \in {"www", "shop", "other"}, p \in {"/", "/api"} :
      /\ Values(HeaderFor(cookies, h, p, clock)) \subseteq Due(h, p, clock)
      /\ Cardinality({Key(i) : i \in DOMAIN log}) <= MaxCookies =>
           Due(h, p, clock) \subseteq Values(HeaderFor(cookies, h, p, clock))

\* The dashboard's page is read from the configured merchant's host only; the
\* outlets offered are those of the merchant picked for it, and the login goes on
\* with one of them that is not locked, whatever Qasir answers in between
\* (resolveAuthJson, continueWithOutlet).
KeepsToItsStore ==
  /\ step \in {"page", "connected"} => ctx.host = "shop"
  /\ step = "select" => ctx.merchant \in {Nothing, pending.merchant}
  /\ ctx.outlet # Nothing => /\ [id |-> ctx.outlet, locked |-> FALSE] \in pending.outlets
                             /\ ctx.merchant = pending.merchant

\* Both: a login keeps its cookies and its store.
LoginKeepsToItself == CookiesAreDue /\ KeepsToItsStore
=============================================================================
