---------------------------- MODULE WidgetClient ----------------------------
(***************************************************************************)
(* The widget in a chat host: how it opens on the tool call that brought   *)
(* it up (widgets/src/bridge/initialResult.ts, app/AppShell.tsx) and what  *)
(* becomes of its queries (app/queryClient.ts, bridge/extAppsBridge.ts).   *)
(*                                                                         *)
(* A choice is a view with its filters: a path of the router, the          *)
(* arguments of a view tool and the key of a query.  A handler runs to its *)
(* end with the promises it resolves; actions are events and timers.       *)
(***************************************************************************)
EXTENDS Naturals

CONSTANTS
  None,
  Selections, Default,   \* what the viewer can look at; the view's default filters
  OpenAi,             \* bound: whether the host has window.openai.callTool, subset of BOOLEAN
  MaxActs             \* bound: what the viewer does

ASSUME ClientAssumption ==
  /\ Default \in Selections
  /\ None \notin Selections \cup {"good", "error", "junk", "nothing", "host", "call"}
  /\ OpenAi \subseteq BOOLEAN /\ MaxActs \in Nat

VARIABLES
  openai,
  input,    \* the arguments the host announced, or None
  told,     \* what it said of the result
  shell,    \* startInitialView: which wait for the input it is in
  at,       \* where the router is, or None before it is mounted
  query,
  acts,     \* history: bounds the viewer
  called,   \* history: choices the widget called the tool for
  gaveUp    \* history: the wait for the host's result ran out

clientVars == <<openai, input, told, shell, at, query, acts, called, gaveUp>>

\* Data is stale after 60 s.  `primed` queries wait for the host's result first;
\* `final` is set while the running fetch has met an error of NO_RETRY.
Unfetched == [data |-> None, stale |-> FALSE, failed |-> FALSE, fetch |-> "idle", fails |-> 0,
              primed |-> FALSE, final |-> FALSE]

ClientInit ==
  /\ openai \in OpenAi
  /\ input = None /\ told = None
  /\ shell = "connecting" /\ at = None
  /\ query = [k \in Selections |-> Unfetched]
  /\ acts = 0 /\ called = {} /\ gaveUp = FALSE

-----------------------------------------------------------------------------
(* A query, as TanStack Query runs it.                                     *)

Calls(q) == [q EXCEPT !.fetch = "call"]
Succeeds(q, from) ==
  [q EXCEPT !.data = from, !.stale = FALSE, !.failed = FALSE, !.fetch = "idle", !.fails = 0, !.final = FALSE]

\* shouldRetry: one retry, after a pause, and none of a NO_RETRY code.
Fails(q, final) ==
  IF ~final /\ q.fails < 1
  THEN [q EXCEPT !.fetch = "pause", !.fails = 1]
  ELSE [q EXCEPT !.failed = TRUE, !.fetch = "idle", !.fails = 0, !.final = FALSE]

\* The host's result as the primed query takes it; without a usable one it calls
\* the tool itself.
Awaits(q, result) ==
  CASE result = None -> {[q EXCEPT !.fetch = "host"]}
    [] result = "good" -> {Succeeds(q, "host")}
    [] result = "error" -> {Fails(q, TRUE), Fails(q, FALSE)}
    [] result = "junk" -> {Fails(q, TRUE)}
    [] result = "nothing" -> {Calls(q)}

\* Whether a fetch starts when one is asked for: a running one is joined, data of
\* the last minute will do.
Wanted(q) == q.fetch = "idle" /\ (q.data = None \/ q.stale)

\* An observer mounts.
Mounted(q) == IF Wanted(q) THEN Calls(q) ELSE q

\* The last observer leaves: its fetch is aborted and the query as before it.
Left(q) == [q EXCEPT !.fetch = "idle", !.fails = 0, !.final = FALSE]

Calling(q) == {k \in Selections : q[k].fetch \in {"call", "again"}}
Queries(q) ==
  /\ query' = q
  /\ called' = called \cup {k \in Calling(q) : query[k].fetch # q[k].fetch}

\* Where a move to k takes the queries q.
Moved(q, k) ==
  LET left == IF at \in Selections \ {k} THEN [q EXCEPT ![at] = Left(@)] ELSE q IN
  IF at = k THEN left ELSE [left EXCEPT ![k] = Mounted(@)]

\* primeInitialQuery: a result that is there is seeded, otherwise the query
\* waits for it; data that is there, or a running fetch, is left alone.
Primed(q, k) ==
  IF told = "good"
  THEN {[q EXCEPT ![k].data = "host", ![k].stale = FALSE, ![k].failed = FALSE]}
  ELSE IF Wanted(q[k])
  THEN {[q EXCEPT ![k] = x] : x \in Awaits([q[k] EXCEPT !.primed = TRUE], told)}
  ELSE {q}

-----------------------------------------------------------------------------
(* startInitialView.                                                       *)

\* Mutant: the view mounts before its query is primed.
OpenOnUnprimed(k) == \E q \in Primed(Moved(query, k), k) : at' = k /\ Queries(q)

\* The view mounts on the host's arguments once their query is primed.
OpenOn(k) == \E q \in Primed(query, k) : at' = k /\ Queries(Moved(q, k))

OpenOnDefaults == at' = Default /\ Queries(Moved(query, Default))

Unopened == UNCHANGED <<at, query, called>>
HostState == <<openai, input, told, acts, gaveUp>>

Connected ==
  /\ shell = "connecting"
  /\ IF input # None THEN OpenOn(input) /\ shell' = "over"
     ELSE Unopened /\ shell' = "early"
  /\ UNCHANGED HostState

\* A late input moves a viewer who is at the defaults.
ToolInput(k) ==
  /\ input = None
  /\ input' = k
  /\ CASE shell = "connecting" -> Unopened /\ UNCHANGED shell
       [] shell = "early" \/ (shell = "late" /\ at = Default) -> OpenOn(k) /\ shell' = "over"
       [] OTHER -> Unopened /\ shell' = "over"
  /\ UNCHANGED <<openai, told, acts, gaveUp>>

\* Mutant: nothing is shown before the input came.
InputTimeoutBlank ==
  /\ shell \in {"early", "late"} /\ shell' = IF shell = "early" THEN "late" ELSE "over"
  /\ Unopened /\ UNCHANGED HostState

InputTimeout ==
  /\ \/ shell = "early" /\ OpenOnDefaults /\ shell' = "late"
     \/ shell = "late" /\ Unopened /\ shell' = "over"
  /\ UNCHANGED HostState

-----------------------------------------------------------------------------
(* The host's result: settled once.  At most one query waits for it.        *)

ToolResult(result) ==
  /\ told = None
  /\ told' = result
  /\ IF \A k \in Selections : query[k].fetch # "host" THEN UNCHANGED <<query, called>>
     ELSE \E k \in Selections :
            /\ query[k].fetch = "host"
            /\ \E q \in Awaits(query[k], result) : Queries([query EXCEPT ![k] = q])
  /\ UNCHANGED <<openai, input, shell, at, acts, gaveUp>>

ResultTimeout(k) ==
  /\ query[k].fetch = "host"
  /\ Queries([query EXCEPT ![k] = Calls(@)])
  /\ gaveUp' = TRUE
  /\ UNCHANGED <<openai, input, told, shell, at, acts>>

-----------------------------------------------------------------------------
(* The bridge's callTool.                                                  *)

Become(k, q) ==
  /\ Queries([query EXCEPT ![k] = q])
  /\ UNCHANGED <<openai, input, told, shell, at, acts, gaveUp>>

CallSucceeds(k) == query[k].fetch \in {"call", "again"} /\ Become(k, Succeeds(query[k], "call"))

\* An error result, a contract mismatch, a host that throws, 45 s; in ChatGPT
\* the same call is then made the other way, whatever the error was.
CallFails(k, final) ==
  /\ query[k].fetch = "call"
  /\ Become(k, IF openai THEN [query[k] EXCEPT !.fetch = "again", !.final = @ \/ final]
               ELSE Fails(query[k], final))

SecondFails(k, final) == query[k].fetch = "again" /\ Become(k, Fails([query[k] EXCEPT !.final = FALSE], final))

\* A minute passes.
Ages(k) ==
  /\ query[k].data # None /\ ~query[k].stale
  /\ Become(k, [query[k] EXCEPT !.stale = TRUE])

\* A retry runs the query function of the view or, of a primed query, that of
\* primeInitialQuery again.
Retries(k) ==
  /\ query[k].fetch = "pause"
  /\ \/ Become(k, Calls(query[k]))
     \/ query[k].primed /\ \E q \in Awaits(query[k], told) : Become(k, q)

-----------------------------------------------------------------------------
(* The viewer.                                                             *)

Acts == acts < MaxActs /\ acts' = acts + 1

Choose(k) ==
  /\ at \in Selections \ {k} /\ Acts
  /\ at' = k /\ Queries(Moved(query, k))
  /\ UNCHANGED <<openai, input, told, shell, gaveUp>>

TryAgain ==
  /\ at # None /\ Acts
  /\ query[at].failed /\ query[at].fetch = "idle"
  /\ Queries([query EXCEPT ![at] = Calls(@)])
  /\ UNCHANGED <<openai, input, told, shell, at, gaveUp>>

-----------------------------------------------------------------------------
ClientNext ==
  \/ Connected \/ InputTimeout
  \/ \E k \in Selections :
       \/ ToolInput(k) \/ ResultTimeout(k) \/ CallSucceeds(k) \/ Ages(k) \/ Retries(k) \/ Choose(k)
       \/ \E final \in BOOLEAN : CallFails(k, final) \/ SecondFails(k, final)
  \/ \E result \in {"good", "error", "junk", "nothing"} : ToolResult(result)
  \/ TryAgain

ClientSpec == ClientInit /\ [][ClientNext]_clientVars

\* Timers fire: the waits of the shell, the wait for the host's result, the 45 s
\* of a call and the pause before a retry.  window.openai.callTool has none.
ClientFairness ==
  /\ WF_clientVars(InputTimeout)
  /\ \A k \in Selections :
       /\ WF_clientVars(ResultTimeout(k))
       /\ WF_clientVars(CallSucceeds(k) \/ \E final \in BOOLEAN : CallFails(k, final))
       /\ WF_clientVars(Retries(k))
ClientFairSpec == ClientSpec /\ ClientFairness

-----------------------------------------------------------------------------
(* Properties.                                                             *)

\* The call that brought the widget up is not made a second time: the tool is
\* called with its arguments only if the host cancelled it, failed it or kept it
\* for 90 s, if the viewer did something, or if the arguments came so late that
\* the view was open on the same filters already (primeInitialQuery).
OpeningIsNotRepeated ==
  input \in called =>
    \/ told \in {"nothing", "error", "junk"} \/ gaveUp \/ acts > 0
    \/ input = Default

Settled(k) == query[k].data # None \/ query[k].failed

\* Once connected the widget opens, and what is looked at ends in data or in an
\* error although the host may announce nothing, answer nothing and come late
\* with either (startInitialView).
OpeningSettles ==
  shell = "early" /\ ~openai ~> at # None /\ Settled(at)

\* "Codes that must not be retried automatically. QASIR_AUTH_EXPIRED especially:
\* a second 401 clears the shared Qasir session." (queryClient.ts)
NoRetryCodesAreNotRetried == \A k \in Selections : ~query[k].final
=============================================================================
