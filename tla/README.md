# Verification of manujujaya-mcp

manujujaya-mcp is a Cloudflare Worker that gives AI assistants access to one
store's Qasir point-of-sale account over MCP. The owner connects it to Qasir with
a phone number and a PIN; assistants then read data through Code Mode
(`execute`, `search`) and widget tools, and may change data through
`execute_mutation` once the owner has approved the change.

This directory holds TLA+ models of the parts of it whose correctness depends on
the order in which things happen, the TLC runs that check them and theorems
about them that TLAPS checks. `PROJECT.json` maps every modelled definition to
the source lines it stands for.

Contents: 1 the system, 2 the modules, 3 the runs, 4 the proofs, 5 where code
and documentation or comments disagree, 6 what is not modelled, 7 the plan.

## 1. The system

| Component | Source | State it keeps | Operations |
| --- | --- | --- | --- |
| Session store | `src/src/session/session-store.ts`, `qasir-sessions-do.ts`, `crypto.ts` | storage of one Durable Object: `session`, `pending_auth`, `device_id`, `rate:*`, one alarm | get, save, clear, clear-if-token, pending login, device id, rate limit, alarm |
| Session providers | `session/qasir-session.ts` | `#expired` of the static secrets, for one MCP request | which session a request uses, what a rejection means for it |
| Dispatcher | `dispatcher/*.ts` | none | validate, look up the session, fetch, follow redirects, read the body, report a 401 |
| Owner-approved writes | `approvals/*.ts`, `mcp/mutation-tool.ts` | storage of one Durable Object per subject: `approval:<id>`, one alarm | request, decide, consume, collect; `execute_mutation` |
| Code Mode | `codemode/*.ts` | counters and the waiting queue of one tool call | run a script, count, limit and charge its requests, stop it |
| Widget tool budget | `widgets/budget.ts`, `widgets/tools/define.ts` | the same for a widget tool | the same |
| Connect flow | `connect/*.ts` | the login of one request; the pending outlet choice in the session object | sign in, choose the outlet, paste, cancel, disconnect |
| Owner auth and OAuth consent | `auth/*.ts`, `index.ts` | signed cookies; attempts in the session store; grants in the OAuth library | sign in, consent, verify tokens |
| Operation registry and validation | `registry/*` | constant tables | validate and normalise input, describe it in an OpenAPI document |
| Widget data tools | `widgets/tools/*.ts` | none | scan pages, cap rows, summarise |
| Widget client | `src/widgets/src/**` | the router and the query cache of one browser frame | opening call, filters, search, load more, retry |
| MCP registration | `mcp/server.ts`, `resources.ts`, `prompts.ts` | none | list tools by scope and flag |
| HTML parsers | `html/*.ts` | none | scrape dashboard pages |
| Observability | `observability/*.ts` | none | log, redact |
| Web pages | `web/`, `auth/pages.ts`, `connect/html.ts` | none | render |

How they interact. The **session store** is one Durable Object for the merchant.
The connect flow saves and clears the session in it, keeps the login that waits
for an outlet there, and counts PIN and password attempts in it; the dispatcher
reads the session for every request and reports a rejected token to it
(`clearIfToken`). The **approvals object** is written by `execute_mutation`
(request, consume) and by the owner's page (decide). A **budget** belongs to one
tool call; every request the script or widget tool makes takes a slot from it and
then goes through the dispatcher, which validates it against the registry. A chat
host shows a **widget** in a frame; the widget asks the Worker's data tools for
what its route and filters say. All objects are called by RPC from Workers that
may die at any await.

What is hard here:

- A Durable Object admits no event while a *storage* operation is pending, but
  does so while it awaits the decryption, the encryption or a hash. Five methods
  of the session store hold a record across such an await.
- Records of earlier builds and of rotated keys are in storage; the code that
  reads them also rewrites and deletes them.
- One alarm per object serves several deadlines.
- An approved change passes four waits between the owner's click and Qasir, and
  each party may change the world in each of them.
- The budget is a monitor written by hand with promises: a woken waiter runs
  later than the release that woke it, and an abort may come in between.
- A login is a conversation with a server that chooses the next step, may fail
  at each of them, and shares a stored state and attempt counters with other tabs.
- A 401 says something of a token, but arrives when another session may be stored
  and when the static secrets may be in use.
- The limit on password guesses is read, used and written in three steps; a
  cookie and a consent page outlive the deployment that made them.
- The rules for an operation's input stand in the validator, in the OpenAPI
  document and in the dispatcher's path builder, and an approved input is
  validated twice.
- Qasir's lists move between two pages: rows appear, debts are paid.
- A widget may be told the result of the call that opened it before, after or
  instead of asking for it; what the viewer does meanwhile must win.
- Filters are kept relative to today, which changes while a page is shown.

What makes each component correct, and where it is stated:

| Component | Must hold | Property |
| --- | --- | --- |
| Session store | a session is lost only for a reason of its own, or under a read that no key of the deployment can finish | `SessionLostOnlyToKnownCauses`, `SessionLostOnlyForItsOwnReason` |
| | a reader never brings a session back | `ReadersNeverResurrect` |
| | a reported 401 clears the session it is about | `ReportedSessionIsCleared` |
| | one device id for ever | `OneDeviceId` |
| | no deadline without an alarm; expired pending logins are erased | `AlarmCoversDeadlines`, `ExpiredPendingIsErased` |
| | attempts are not handed back before the window ends | `AttemptsAreNotForgotten` |
| Writes | only approved changes are sent, each approval once | `ImplementsApprovedOnce` |
| | a write is one HTTP request | `NonGetWritesAreNotReplayed` |
| | a decision is final | `DecisionsAreFinal` |
| | an approval is spent in vain only by what the two session lookups bring | `BurnedOnlyByLookup` |
| Dispatcher, session providers | credentials are shown to no other host than the operation's | `CredentialsStayHome` |
| | nothing is sent after the caller's signal or the deadline | `NothingSentAfterAbort` |
| | a rejection ends the session of its token and no other; reported and marked, the token is not looked up again | `RejectionsAreExact` |
| | every dispatch ends | `RequestsEnd` |
| Budgets | the limits hold in every interleaving | `WithinLimits` |
| | no lost wake-up; every request ends | `NoLostWakeup`, `EveryCallSettles` |
| | nothing happens after the end | `NothingAfterAbort`, `NothingLeftBehind` |
| | the tool answers by its deadline | `TheToolAnswers` |
| Connect flow | PIN guesses are bounded by the windows | `PinsWithinLimits` |
| | only the merchant's own host is saved from | `NothingSavedElsewhere` |
| | a finished login leaves no pending state | `FlowsLeaveNothingBehind` |
| | a host is sent the cookies due to it; the login goes on at its own store | `LoginKeepsToItself` |
| | a login ends whatever Qasir answers | `RequestsEnd` |
| Owner auth | guesses are bounded, and only one's own lock one out | `GuessLimit` |
| | who acts as the owner has proved it to this deployment | `OwnerActsAreProved` |
| | a client may do what the owner ticked | `WritesNeedConsent` |
| Validation | what is documented is accepted, what is accepted is documented, and validating twice changes nothing | `DocumentIsTheContract` |
| | an error names all that is wrong | `OneRetryIsEnough` |
| Data tools | no row is missed, whatever moves | `NothingIsMissed` |
| | totals, counts and caps agree with the rows | `ResultsAddUp` |
| Widget client | the opening call is not repeated, and the widget opens | `OpeningIsNotRepeated`, `OpeningSettles` |
| | the server is asked for what the viewer chose | `ChoicesAreKept` |

## 2. The modules

**`SessionStore`** models the Durable Object. The storage keys are the variables
`session`, `pending`, `device`, `rate` and `alarm`; `call[c]` is an RPC that
awaits something other than storage. Each RPC is cut exactly there, and nowhere
else: code between two such awaits is one action. `GetSession`, `Status`,
`GetPending`, `ClearIfToken` and `GetOrCreateDeviceId` start a call;
`...Opened` is what follows the decryption, `...Sealed` what follows the
encryption, `ClearIfTokenHashed` what follows the hash. `Clear`, `ClearPending`,
`CountAttempt` and `Alarm` are single steps. `Deploy` restarts the object with
any allowed pair of key and `REQUIRE_SESSION_ENCRYPTION` and loses the calls in
flight; `Tick` is the clock.
Abstractions: a record is its format, the key that opens it, its value, its
expiry and `gen`, which stands for what makes the bytes of two saves differ (the
IV, `connectedAt`). Reads that only await a microtask are also treated as
interruptible, which only adds behaviours. A peek of the rate limit changes no
state and is no action. No caller passes `expiresAt` today; the RPC accepts it,
so the model does. The store has one subject, so subject checks never fail and
are left out, as is the `kind` check, which nothing stored can fail.

**`Mutation`** composes the approvals object, `execute_mutation` and the
dispatcher as a write meets it. The object awaits storage only, so each method is
one action (`RequestApproval`, `Decide`, `Alarm`; `consume()` is inside
`Consume`). A tool call is cut at each wait for another party: `Start`, `Lookup`,
`Preflight`, `Consume`, `Relookup`, `Prepare` or `PrepareFails`, then `Answer`,
`AuthFailure` or `Redirect`; `Crash` at any of them. `Lookup` and `Relookup` are
the two times the session object is asked, which may leave either unanswered; the
provider then falls back on the secrets of the Worker (`Credentials`), unless
another call of the MCP request had them rejected by then (`Marks`). The owner
connects, the session goes, the operator turns writes on and off. The body of an operation and
its arguments are one value of `Changes`; `Method` and `Profile` are what the
registry says of the operation.

**`ApprovedOnce`** is the abstract specification of that component: grants and
deeds, a deed needs its grant and a grant admits one deed. `Mutation` implements
it with `granted <- decisions, done <- sent`.

**`Budget`** is `ExecutionBudget` with `runCodemode` (`Mode = "execute"` or
`"search"`) and `RequestBudget` with `invokeWidgetTool` (`Mode = "widget"`). The
counters and the queue of waiters are variables as in the code, dead closures in
the queue included; `call[c]` is where a request stands. `Request`,
`RequestOverLimit` and `RequestAfterAbort` are the three ways a request begins,
`Resume` the continuation of a settled promise, `Deliver` and `DispatchFails` the
two ways it ends; `SpecCall`, `Deadline`, `ScriptEnds` and `Finish` are the tool
call around them.

**`Connect`** is the connect flow: `req[r]` is a request of one of the owner's
tabs. It is counted in three buckets one RPC at a time (`CountOne`, `CountFails`,
then `Admit` or `Refuse`), it converses with Qasir (`PrepareLogin`,
`PrepareOutlet`, `MerchantAsked`, `OutletAsked`, `AnswerUseless`, `Redirected`,
`PageMoves`, `PageRead`), Qasir choosing every answer, and leaves its result in
the session object (`StoreSession`, `SaveDraft`, `ClearDraft`), or throws and
cleans up. `Paste`, `Cancel` and `Disconnect` are the owner's other requests. The
session and the pending login are cells here; the session store's own steps on
them are in `SessionStore`. `WindowEnds` may come at any time, which
over-approximates the 15 minutes. The PIN is posted a second time in a request
only after Qasir asks for the merchant; both posts belong to one counted request,
as in the code, and `guesses` counts the requests. A request whose Worker died or
whose cleanup failed is "lost": it is over without having cleared anything.

**`Dispatch`** is a read on its way to Qasir. `call[c]` waits for the session
object to run its method (`Lookup`) and for the answer, which another call may make
stale meanwhile (`Prepare` uses it), for each hop of the exchange (`Redirect`, `RedirectNowhere`,
`Unauthorized`, `Respond`, `FetchFails`), for the chunks of the body (`Chunk`,
`BodyEnds`) and for the report of a rejected token: `Report` or `ReportLost` is
`clearIfToken` in the object, `Mark` what `markExpired` does once it is back. The
caller's signal and the deadline come at any of them (`CallerAborts`, `Deadline`). `stored` is the session as a cell, `Static` the secrets of
the deployment, `expired[p]` the flag of the provider that all calls of an MCP
request share. The owner saves and clears meanwhile. A URL is its host and what
the two checks say of it. The `outletId` memo of the widget tools is not in it.

**`OwnerGate`** is `/login`, `/authorize` and the gate of the owner's pages.
`checkPassword` is `Peek`, `RightPassword` or `WrongPassword`, and `Count`, three
waits for two objects; `Deploy` changes the secrets and `ENABLE_MUTATIONS` under
requests that run on with what they started with. `token[k]` is one access token
of a client: the grant, the token exchange and `principalFromProps` stand between
the owner's ticks and what `createManujujayaServer` offers (`ToolsOf`) and
`requireScope` lets run (`Runs`). `NetworkOf` stands for `clientNetwork`, whose
key is taken as given. Secrets that are missing or too short are `Absent`.

**`Login`** is one login with its data, where `Connect` has many without: the
answers of Qasir's endpoints in the classes `login-parse.ts` tells apart, the
merchant and the outlet they lead to, the jar with its domain, path, expiry and
eviction rules, and the draft the jar is saved in while the owner chooses. A
cookie's value is the position of its `Set-Cookie` line; the jar's array is in
that order, so the model has it as a set.

**`Registry`** is the table of all registered operations with their schemas
(`Registered`), and **`Input`** what becomes of a request for one of them: what
each tool takes (`Takes`, `Refuses`, `ToolFor`), `Validate`, `SafeSegment` and
`PathRefused` of the path builder, and `Parameters` and `BodySchema` of the OpenAPI
document. A value is headed by its JavaScript type; a text is what the patterns
tell apart. `Input` takes the operations as a constant, for which `MCWidgets` gives
`Registered`. `checkValue` calls itself for the parts of a value, and no schema of
the registry is deeper than a body of rows of fields; so there is one operator for
each level (`CheckWhole`, `CheckRows`, `CheckRow`, `CheckField`), all of them
`CheckValue` with what was found of the parts. `InputAssumption` says that no schema
is deeper, and the other things the properties need of the registry: a bound lets
the value 1 through, a paging field states the bounds the validator would put there,
ids are in the paths of reads only and have no bounds, no operation is a DELETE, a
write requires something. TLC evaluates it for the whole registry in every run of
`MCWidgets`. Schemas without a type and unions are not modelled: no operation has
one.

**`Views`** is the data tools and the lists a widget builds of them: `Following`
is the page each tool reads next, `CapRows` the bisection that cuts a result,
`BucketTotals`, `ByCustomer`, `ModeTotals` and `Counts` the summaries. Qasir's list is an environment
that grows at its head and loses paid debts between any two pages. Its answers
have a pagination block or not, and the `count + 1` rows it gives for installment pages overlap the next page
or not. `Capacity` rows stand for `STRUCTURED_MAX_CHARS`; debts older than
`ScanDays` are from before `DEBT_SCAN_START_DATE`, and Qasir does not list them.
What is owed of a sale (`Owed`) is Qasir's figure, as in its
report `Receivable` and its receipts `Remaining`; the tools' own sums are of what
was sold on credit (`Amount`). The JavaScript sorts order sets of distinct rows or customers by a strict order and
are `Ordered`. What a velocity counts of a movement is the amount of its quantity
without the sign (`Quantity`).

**`WidgetClient`** is the opening of a view and its queries: the host may send the
input and the result in any order, late or never; `startInitialView` and
`primeInitialQuery` wait with their timers; TanStack Query's fetch, retry and
staleness are `Calls`, `Fails`, `Succeeds` as `queryClient.ts` configures them; the
ext-apps bridge tries its two routes.

**`Navigation`** is the filters of the six views: `searchFromToolArgs` and back,
`rangeArgs`, the presets, and every control and link that changes a filter. A date
is the number of a day. The URL's text form is the router's and not modelled;
of a sales trend only the first and the last day are followed.

**`SearchBox`** is `SearchInput.tsx`: the text, the debounced text, what was
emitted and what the page searches change on their own. The debouncer is external;
a navigation under way is overtaken by a later one.

**`Worker`** is `Dispatch` and `OwnerGate` together, **`Pages`** `Navigation` and
`SearchBox`: what a user of each sees, with the promises that concern both halves.

`MCWorker` puts `Worker`, `Connect` and `Login` side by side, `MCConnect`
`SessionStore` and `Connect`, `MCTools` `Budget` and `Mutation`, and `MCWidgets`
`WidgetClient`, `Pages`, `Views` and `Input`: the initial state chooses which of
them moves (`part`), so that one run answers for all and their states add up
instead of multiplying. They share no variables, hence nothing is lost by this.
The other `MC...` modules only give constants their values. The `...Proofs`
modules hold the theorems.

## 3. The runs

Deadlock is not checked in any run, because all systems here may stop: the
clocks and histories are bounded, a tool call makes a finite number of requests,
and no caller has to call.

| Run | Module | Shows | Bounds |
| --- | --- | --- | --- |
| `connect` | SessionStore, Connect | `OneDeviceId`, `ReadersNeverResurrect`, `ReportedSessionIsCleared`, `SessionLostOnlyToKnownCauses`; `ConnectTypeOK`, `PinsWithinLimits`, `NothingSavedElsewhere`, `FlowsLeaveNothingBehind` | two RPCs at once, two saves, every stored format, four environments, two redeployments, one tick; two requests of interchangeable tabs, a limit of 1 for a user and an address below the global one of 2, a foreign host, one further hop |
| `pending` | SessionStore | `TypeOK`, `AlarmCoversDeadlines`, `ExpiredPendingIsErased`, `AttemptsAreNotForgotten` | a clock of 4 with lifetimes of 2, one bucket of limit 2, two pending logins, a restart |
| `drop` | SessionStore | a violation, see 5 | a stored record of a rotated key |
| `approvals` | Mutation | `TypeOK`, `NonGetWritesAreNotReplayed`, `ImplementsApprovedOnce`, `DecisionsAreFinal` | two calls, two approvals, two changes (a POST, a GET with a cookie), clock of 2 with a lifetime of 1, one redirect, no session in the secrets; calls and approvals are interchangeable, and no property here is a liveness property |
| `replay`, `gc` | Mutation | violations, see 5 | one call, one approval |
| `tools` | Budget, Mutation | `TypeOK`, `WithinLimits`, `NoLostWakeup`, `NothingLeftBehind`, `NothingAfterAbort`, `EveryCallSettles`, `TheToolAnswers`; `BurnedOnlyByLookup` | five requests of a script, a limit of four, two slots, results that overflow the size budget (a script may do all a widget tool does, so `execute` contains `widget`); one call of `execute_mutation`, one approval, the two changes, an older and a newer session, the newer also in the secrets |
| `guesses` | OwnerGate | a violation, see 5 | as `worker`, no lost count |
| `worker` | Dispatch, OwnerGate, Connect, Login | `BothTypeOK`, `CredentialsStayHome`, `NothingSentAfterAbort`, `RejectionsAreExact`, `GuessLimit`, `OwnerActsAreProved`, `WritesNeedConsent`, `LoginKeepsToItself`, `RequestsEnd` | two calls of one MCP request, one of them an approved write, two hosts and a foreign one, one redirect, one chunk; two guesses at once with a limit of 2 from two networks; one new pair of secrets; four `Set-Cookie` lines for a jar of three; three hops of one login request |
| `widgets` | WidgetClient, Navigation, SearchBox, Views, Input | `OpeningIsNotRepeated`, `OpeningSettles`, `DocumentIsTheContract`, `OneRetryIsEnough`, `NothingIsMissed`, `ResultsAddUp`, `ChoicesAreKept` | three selections and two acts of the viewer; the Sunday before and the days after a Monday that begins a month; seven rows on pages of one or two, two of them unreadable, one refetch, one paid debt; every operation with one departure from its smallest request (two for the one with nested rows) |
| `chatgpt`, `search` | WidgetClient, SearchBox | violations, see 5 | as `widgets` |

Why the bounds are enough. The races of the session store are between a call that
holds a record and one that changes the storage: two calls, and two saves so that
there is an older and a newer session; a third caller repeats what the second
does. `pending` steps through the operations on pending logins and the rate limit
only (`PendingNext`), whose deadlines share the alarm. Two lifetimes fit in its clock, so a second deadline is always
set while a first one is. Two approvals and two calls allow each call to present
the other's approval; two changes allow it to present the wrong one. What burns an
approval concerns one call and the session, so `tools` has one such call and, to tell
an answer of before from one of now, two sessions, with secrets to fall back on. Five requests
on two slots leave two waiters while a newcomer overtakes one that was woken, and
one request beyond the limit. The global bucket of `connect` is the largest, as with
6, 10 and 20 in the code; a window may end alone, so that each bucket is at times the
one that refuses, and two requests make the last attempt contested.

In `worker`, two calls share one provider, so that one may look up a session, or
have its answer under way, while the other reports it or has reported but not marked it; an older and a newer token are in play, with and without a
cookie, and the secrets hold the newer one. Two guesses at once, a limit of two
and one lost count reach every term of `GuessLimit`. Two sets of secrets are a
cookie of before and of now. The lines of `Login` set one cookie twice, delete
one, set one for the whole domain and one for a foreign one, and four of them
overflow the jar. A request of the connect page never waits for another, so one
is enough for its end.

In `widgets`, the days are the ones around which every preset changes its meaning
at once, and the dates lie on both sides of the 366 days a range may have. Ages of
rows lie on both sides of bucket edges and of the velocity window, the last one on
the day the scans begin; amounts are powers of two, one of them negative, so that a
sum tells its terms, and some debts are half paid, so that what is owed is not the
amount. Lists come with and without pagination blocks for every tool. Values lie on both sides of every
bound of a schema; texts are of every class the patterns tell apart. A request
with one departure meets each rule by itself; rules of different fields do not
see each other. The theorems of section 4 remove these bounds for the safety
properties they cover.

Fairness, and why the code justifies it:

- `WF(Alarm)`: the runtime delivers a due alarm.
- `WF(Resume(c))`, `WF(Settle(c))`: the event loop resumes a settled promise, and
  an upstream request has a timeout of its own.
- `WF(Deadline)`, `WF(Finish)`: a timer fires and a `finally` runs. They are the
  antecedent of `TheToolAnswers`, not part of the specification, so that
  `EveryCallSettles` is checked without the deadline's help. Nothing is assumed of
  the script, which may hang.
- `Fairness` of `Dispatch`: the session object answers or fails, and the deadline
  of a request fires. Nothing is assumed of Qasir, which may stop in the middle of
  a body.
- `WF(C!Proceed(r1))`: an RPC answers or fails; each fetch of a login has a timeout
  of 15 seconds.
- `ClientFairness`: timers of the widget fire and its own calls are answered or
  time out. Nothing is assumed of the host's messages. `window.openai.callTool`
  has no timeout, so `OpeningSettles` speaks of hosts without it.
- `WF(Tick)` (only in `gc`): time passes.
- Nobody has to call anything: no fairness on callers, the owner or the viewer.

## 4. The proofs

All theorems hold for every value of the constants that satisfies the module's
`...Assumption` and those of the modules it extends; these say that
sentinels are distinct from the values they stand among, that sets to be counted
are finite, that limits are numbers, that a month begins at most thirty days before
any of its days (`NavigationAssumption`), that the registry has the shape section 2
describes (`InputAssumption`), and that records of an earlier build are none of this
run's saves.

- **`SessionStoreProofs`**: `TypeCorrect`, `DeviceIdIsUnique`,
  `DeadlinesAreCovered`, `NoResurrection`, `AttemptsKept`,
  `ReportsClear`, `LossesAreExplained`, `NoOtherSessionIsLost`. The inductive invariant adds to the
  typing that a pending save is well formed (`SavingInv`) and that a stored
  pending login either is of an older format or carries an expiry (`PendingInv`),
  without which the alarm could not be compared with it. `NoResurrection` is a
  case analysis of the one operator through which readers write,
  `SessionAfterOpen`. `AttemptsKept` needs that an empty bucket has no window
  (`RateInv`). `NoOtherSessionIsLost` assumes `OneKey`: every environment has the
  same key and it opens every stored record; without that the run `drop` refutes
  it. `LossesAreExplained` needs no such assumption: it has the reads that no key
  could finish as a further cause, and holds of every environment. The first one's
  invariant `ReadInv` says that what a reader holds is readable and had not expired
  when it was read, so that no reader deletes anything. `ReportsClear` relates what
  calls hold at the same time: a session being saved differs from the stored one,
  from those readers hold and from the others being saved (`GenInv`), so whoever
  holds a record of this format holds the stored one or one of another save
  (`HeldInv`), and the comparison in `clearIfToken` cannot miss.
- **`MutationProofs`**: `TypeCorrect`, `Refinement`, `NonGetWritesOnce`,
  `Finality`, `BurnedOnly`. The invariant follows an approval from the
  owner's decision to Qasir: an approved record is backed by a decision
  (`ApprovalInv`), at most one call is past `consume()` with a given approval and
  its record, if still there, is consumed (`HolderInv`), the requests made for an
  approval are none until its holder sends (`RequestInv`), and past `preflight()`
  what the object held at the first lookup is usable, unless that lookup missed it
  or the secrets that stood in for it were rejected since (`SeenInv`). From `HolderInv` follow that two
  calls never send under one approval and hence the step simulation of
  `ApprovedOnce`.
- **`BudgetProofs`**: `TypeCorrect`, `LimitsHold`, `WakeupsAreKept`,
  `AnswerEndsAll`, `AbortIsFinal`. The invariant ties the counters to the requests:
  `#inFlight` is the number of requests in flight (`SlotInv`), and while the budget
  is active the queue lists the waiting requests, each once (`QueueInv`). With
  these, `NoLostWakeup` is inductive: a release passes its slot to the head of the
  queue, and a newcomer that overtakes a woken waiter takes the slot itself.
- **`ConnectProofs`**: `TypeCorrect`, `PinsLimited`, `SavedFromMerchant`,
  `NothingLeft`. `PinsWithinLimits` is not inductive: a request is counted some
  time before it posts. `GuessInv` states that the guesses of a window, together
  with the requests charged to it that have not posted, are at most its count, and
  `PinInv` how often a request has posted at each stage.
- **`WorkerProofs`**: `BothTypesCorrect`, and of the dispatcher `StaysHome`,
  `NothingLate`, `RejectionsExact`. The invariant (`DispatchInv`) adds to the typing
  what a call past its lookup knows: its operation, a token, and the host it was
  checked for. A token is retired (`dead`) once its report was made and marked and the
  object holds it no more, so that only answers under way still carry it. A redirect is followed only to the host of the hop before, so the host
  of the operation is kept along the chain. Of the owner's pages: `GuessesLimited`,
  `OwnersProveThemselves`, `ConsentGiven`. `GuessLimit` is not inductive. `GuessInv`
  counts where the guesses of a network stand: while its bucket has room, every wrong
  guess was counted, waits to be counted or lost its count; once the bucket is full,
  those that compare now are the last that may fail, and there are no more of them
  than requests. `ProofInv` says of cookies what `OwnerActsAreProved` says of requests,
  and `ConsentInv` that what is granted was ticked and what a token holds was ticked
  for its client.
- **`WorkerProofs`** holds the proof for `Login`, too, which `MCWorker` has beside the
  Worker: `KeepsToItself`, for any lines, any answers, logins of any
  length and any `MAX_COOKIES`. `CookiesAreDue` is not inductive: it speaks of what
  three hosts are sent, while a line replaces, deletes or evicts what is in the jar.
  `JarOK` makes the jar a function of the history: a cookie is in it only for a
  line that counts and that no later line with its key replaced, and each such
  line has its cookie until it ends, unless more keys were set than the jar holds
  (the cookies evicted are then counted by an injection of the jar into the keys,
  `NoneGivesWay`). The draft of a pending choice is such a jar too; time only makes
  more lines end (`TimePasses`). `ContextOK` follows merchant, outlet and host
  through the answers.
- **`WidgetProofs`**: `OpeningOnce` of `WidgetClient`; `ChoicesKept` of `Pages`,
  from `FiltersKept` and `OnlyTyped`. Until the host, the clock
  or the viewer gives the widget a reason to call the tool itself, it has called it
  for the defaults at most, and the query of the host's arguments waits for the
  host's result or has it (`OpeningInv`); no query was touched before the arguments
  came (`ShellInv`). `FiltersKept`
  holds for all days: a preset is the range its label promises (`PresetsPromise`, with
  `MondayIs` for the weeks), a range is read as the preset that matches it or as
  itself (`MatchFacts`, `RangeKept`), and so filters survive the way to a tool's
  arguments and back (`RoundTrip`). `NavInv` says that what is wanted is legal
  (`WantedOK`) and that the page holds what is wanted or its arguments (`PlaceOK`);
  each link keeps it for the fields its target has. For the search box, the text is
  what it reported last or what the viewer gave it since (`BoxInv`), so the debouncer
  has nothing to report that a link put there.
- **`ViewsProofs`**: `NothingMissed` and `ResultsAgree`, for lists, pages and results
  of any size and any number of pages loaded. `NothingIsMissed` speaks only of the end. The invariant says
  of any moment that each row sought has been read or is due, that is, stands in the
  list behind the pages read (`ScanOK` of a running tool call, `ViewOK` of the result
  and the pages loaded after it). A new row moves the others back, so that what was
  due stays due (`Appeared`); a page read gets what was due on it (`ReadOrDue`); behind
  a page taken for the last nothing is due (`Ending`), which is where the four ways of
  telling the last page meet the two kinds of answers Qasir gives. Where they do not
  fit, that is for a page of debts none of whose rows can be read or that comes without
  a block, and for a page of sales without a block of which a row cannot be read
  (`Misleads`), the end may come early; a list that holds such a page, with others
  behind it, is exempt (`Overlooked`), and stays exempt when rows are added. The rows are
  sequences and what the tools do with them are folds. The prover has no induction over
  data, but the library proves that the inclusion of finite sets is well founded; from
  that follow a least element for every set of naturals (`Least`), induction over
  them and over sequences, stated with sets instead of operators (`Induction`,
  `SeqInduction`, `SetInduction`), and the facts about folds (`KeepSeq`, `DistinctSet`,
  `FlattenedSet`, `SumIs`, `Customers`) and about the bisection (`LongestIs`).

  `ResultsAddUp` is about figures: folds over the rows of a result, compared with sums
  over sets, with the parts of other figures, and with Qasir's list. A sum over rows is
  the one over their set when no row is there twice (`SumOnce`), and the sum of the
  sums over its parts, customers or aging buckets, when each row is in one
  (`SumOfParts`). The invariant adds three parts to that of `NothingMissed`: what a
  result says is what its rows say, and a debt is never held twice (`Recorded`, from
  the dropping of duplicates); while the list does not change, what was read is in it
  and, for the velocity, stands before the page due, so that it is not read twice
  (`QuietOK`); and a page read again loses no sale (`SalesOK`, which does without the
  `refetches = 0` of `NothingMissed`: the scan of a velocity starts over). With the
  argument of `NothingMissed` a complete reading then holds all rows of the list and
  nothing else (`DebtsComplete`). Qasir's report for the sale dates of a bucket is then
  about the same debts as the tool counts in it by their age (`ReceivableHolds`). The two
  figures still differ by what was paid, as in `tests/unit/widgets-debts.test.ts`; what
  agrees is what they are about. Two things came up in the attempt. A bucket's dates and
  its ages agree only for debts since `DEBT_SCAN_START_DATE`, which both the scan
  and the last bucket end at; and a customer's bucket is that of the oldest debt because
  the bounds of the buckets leave no gap (`BucketOfGrows`).

- **`InputProofs`**: `ContractHolds` and `SecondTryIsAccepted`, for every registry
  `InputAssumption` describes, for every request and for any departures from the
  smallest one. The inductive invariant (`InputInv`, theorem
  `AnswerIsOfItsRequest`) says little: a request names an operation and is JSON as
  deep as a schema looks into it, and an answer is the one its request gets. The rest is the
  validator itself. Everything is shown first of a value, given what holds of its
  parts (`ValueAccepted`, `ValueDocumented`, `PartsMended`), and then of a field, a
  row, the rows and the body, each from the one before, which takes the place of an
  induction over the schema.

  `DocumentIsTheContract` goes through what is *settled*: path, query and body that
  the validator takes and leaves as they are (`Settled`). What is accepted is settled
  (`AcceptedIsSettled`): a value that was coerced has the type it was coerced to,
  and the bounds were checked after that. What is settled is documented, which is where the
  validator's own bounds of paging fields would contradict a schema that leaves them
  out (`SettledIsDocumented`); and it is settled for good (`SettledStays`), so what
  was approved is what runs. The other way round, a documented and ordinary request
  meets no rule that refuses it (`DocumentedIsFine`).

  `OneRetryIsEnough` needs that a report tells enough and that corrections do not
  disturb one another. A problem found of a part stands at the place of that part or
  behind it (`FieldWithin` to `WholeWithin`), and the places of different parts are
  different (`UnderPart`, `PlacesDiffer`), so that what a report says of one field
  was said for that field: the whole report and the field's own agree there
  (`Agrees`, `ToldOfParts`). A mended value is then accepted because each of its
  parts is a sample, which its schema takes (`SampleAccepted`), or was mended or left
  alone, with nothing told of it (`PartsMended`). `ReadRetried` and `WriteRetried`
  add what the two bags of a request can do to each other: an id given twice,
  differently, is named once and then given once.

  In the attempt it came up that the document asks a body of every write
  (`openapi.ts:94`), while the validator asks for one only if the schema has required
  fields (`validate.ts:186`): a write without any would be sent with no body. No
  operation of the registry is one, and `OperationOK` says so.

Only model-checked: liveness (`EveryCallSettles`, `TheToolAnswers`,
`ExpiredPendingIsErased`, `RequestsEnd`, `OpeningSettles`), which is out of the
prover's reach. Every safety property that a passing run checks is a theorem.

## 5. Where the code and its documentation disagree

- **`drop`** (code bug). `SessionStore.#drop` deletes the key after an awaited
  decryption failed, whatever the key holds by then. With a record of a rotated
  key in storage, a read that overlaps a reconnect deletes the new session.
  `clearIfToken` and the re-seal of legacy records, which face the same await,
  compare first. With the one key of the records in storage, the property holds
  (`NoOtherSessionIsLost`).
- **`replay`** (documentation). A redirect on the same host is followed for a GET;
  `purchases.cancel` is a destructive GET. The docs say a write is dispatched once
  and never retried on a redirect. For other methods it is proved.
- **`guesses`** (documentation). The comment of `checkPassword` and the docs speak of
  10 guesses, or failed attempts, per network and 15 minutes. The limit is peeked before
  the password is compared and the failure counted after, so guesses sent together
  all pass: a window takes one more for each request that runs beside the last one
  admitted, and those whose count was lost. `GuessLimit` is that bound, and proved.
- **`gc`** (code bug). The alarm is set for the very millisecond at which the
  record is not yet stale by the comparison in `alarm()`, and nothing sets it
  again: an alarm delivered on time collects nothing.
- **`chatgpt`** (comment). Errors of `NO_RETRY` must not be retried, because a second
  401 clears the session. Where the host has `window.openai.callTool`, the bridge
  tries its second route whatever the first one answered.
- **`search`** (code bug). The search box reports a change of the *debounced* text.
  Type "a", wait, clear, and type "a" again before the debouncer fires: the
  debounced text has not changed, the box shows "a" and the list is not searched
  for it.
Of one more disagreement there is no run. Without a pagination block "a full page
suggests more rows" (`shared.ts:43`), but the sales tool gives `nextPageOf` the number
of rows it kept (`transactions.ts:100`): a full page with a row that cannot be read is
then the last one, and later sales are never listed. `NothingIsMissed` exempts just such
pages (`Misleads`), and TLC finds the lost sale once their clause is taken away. With a
block, which the code prefers wherever Qasir sends one, nothing is lost.

Behaviours a reader may not expect, which contradict nothing:

- A session that is gone after `preflight()` still costs the approval, and so does
  a second lookup that the session object leaves unanswered when the secrets do not
  serve. `BurnedOnlyByLookup` has the full list: the object held another session, a
  lookup brought something else than it held, or the secrets were rejected.
- Between the report of a rejected token and its mark, and with an answer of the
  session object under way, other calls of the MCP request still use that token;
  each of them reports it again.
- A login that is in flight when the owner disconnects saves its session
  afterwards, and its outlet question over that of another tab.
- A page rendered before midnight and clicked after it: "Kemarin" is stored as a
  preset of the new day (`PresetRangePicker.tsx:55`), while Penjualan and Produk
  still convert it with the `today` they were rendered with. `ChoicesAreKept`
  exempts exactly the answers rendered on another day than the choice.
- `AppShell.tsx:34` speaks of a view at its defaults; arguments that come late while
  the view is open on the same filters lead to a second call of the tool, which
  `OpeningIsNotRepeated` names as its last exception.
- When the first page of a loaded list is read again, the later pages stay as they
  are; rows that shifted in between are missing until the list is loaded anew.
- With new sales arriving during the scan, the velocity may count a sale twice,
  never too few; with a status filter, purchases may count a repeated row twice. A
  debt paid during the scan shifts another one out of the pages read.
- A page of debts none of whose rows can be read ends the scan as if it were the
  last one (`debts.ts:103`), and so does one without a pagination block; the result
  does not say that it is cut. `NothingIsMissed` exempts them, as it does a list that goes on behind the last
  page a pager may ask for.
- Numbers in strings are made numbers when they are safe integers; the comment
  calls this lossless, which it is but for leading zeros.

## 6. What is not modelled

- Ciphers, hashes and key derivation: which key opens which record is all that the
  properties distinguish.
- The sandbox that runs a script, the text of its errors and the output cap.
- The parsing of Qasir's pages and the scraping of tokens: an answer is one of the
  classes the code distinguishes. The paste form's text likewise.
- The OAuth library and the Durable Object runtime: external; their guarantees
  (one event at a time, alarms delivered) are the steps' boundaries and fairness.
- Requests the gate refuses (no owner cookie, wrong CSRF token): they change no
  state. The development key (`resolveDevPsk`) works on loopback hosts only.
- `ENABLE_WIDGETS`: it hides read tools.
- The shaping of responses, and the widget tools of the sales dashboard and the
  product rankings: data without control.
- Rendering, logging, redaction, static resources and prompts.

## 7. The plan

Done: the session store, the writes, the budgets, the connect flow (first);
dispatcher and providers, owner auth, the data of a login, registry and
validation, data tools, the widget client (second); the proofs for a login, the
pages, the Worker as a whole, the lists and their figures (third), and for
validation (fourth). Left:

1. The sales dashboard and the product rankings as functions beside `Views`, and the
   memo of the outlet (`define.ts`).
