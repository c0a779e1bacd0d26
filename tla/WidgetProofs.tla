---------------------------- MODULE WidgetProofs ----------------------------
(***************************************************************************)
(* Theorems about modules WidgetClient and Pages, for any choices the      *)
(* viewer has, all days, ranges and texts, and any number of things he     *)
(* does.                                                                   *)
(*                                                                         *)
(* OpeningIsNotRepeated is not inductive: that the tool was not called     *)
(* with the host's arguments rests on their query waiting for the host's   *)
(* result or holding it (OpeningInv), and that on no query having been     *)
(* touched before the arguments came.                                      *)
(***************************************************************************)
EXTENDS WidgetClient, Pages, TLAPS


Query == [data : {None, "host", "call"}, stale : BOOLEAN, failed : BOOLEAN,
          fetch : {"idle", "host", "call", "again", "pause"}, fails : {0, 1},
          primed : BOOLEAN, final : BOOLEAN]

ClientTypeOK ==
  /\ openai \in BOOLEAN
  /\ input \in Selections \cup {None}
  /\ told \in {None, "good", "error", "junk", "nothing"}
  /\ shell \in {"connecting", "early", "late", "over"}
  /\ at \in Selections \cup {None}
  /\ query \in [Selections -> Query]
  /\ acts \in Nat /\ called \subseteq Selections /\ gaveUp \in BOOLEAN

\* Nothing happened that entitles the widget to call the tool itself.
Undisturbed == told \in {None, "good"} /\ ~gaveUp /\ acts = 0

\* The shell is over once the arguments came, and before it is connected nothing
\* was looked at.
ShellInv ==
  /\ input # None => shell \in {"connecting", "over"}
  /\ shell = "connecting" => at = None /\ query = [k \in Selections |-> Unfetched] /\ called = {}

\* An undisturbed opening calls the tool for the defaults only, and the query of
\* the host's arguments waits for the host or has its result.
OpeningInv ==
  Undisturbed =>
    /\ at \in {None, Default, input}
    /\ \A k \in Selections \ {Default} :
         /\ k \notin called
         /\ k # input => query[k] = Unfetched
         /\ k = input => query[k].fetch \in {"idle", "host"}

-----------------------------------------------------------------------------
(* What the steps of a query make of it.                                   *)

LEMMA UnfetchedOK == Unfetched \in Query
  BY DEF Unfetched, Query

LEMMA CallsOK == ASSUME NEW q \in Query PROVE Calls(q) \in Query
  BY DEF Calls, Query

LEMMA SucceedsOK ==
  ASSUME NEW q \in Query, NEW from \in {"host", "call"}
  PROVE  Succeeds(q, from) \in Query /\ Succeeds(q, from).fetch = "idle"
  BY DEF Succeeds, Query

LEMMA FailsOK == ASSUME NEW q \in Query, NEW final PROVE Fails(q, final) \in Query
  BY DEF Fails, Query

LEMMA LeftOK == ASSUME NEW q \in Query PROVE Left(q) \in Query
  BY DEF Left, Query

LEMMA MountedOK == ASSUME NEW q \in Query PROVE Mounted(q) \in Query
  BY CallsOK DEF Mounted

LEMMA AwaitsOK ==
  ASSUME NEW q \in Query, NEW result \in {None, "good", "error", "junk", "nothing"}
  PROVE  Awaits(q, result) \subseteq Query
<1>1. [q EXCEPT !.fetch = "host"] \in Query
  BY DEF Query
<1> QED
  BY <1>1, SucceedsOK, FailsOK, CallsOK, ClientAssumption DEF Awaits

LEMMA MovedOK ==
  ASSUME NEW q \in [Selections -> Query], NEW k \in Selections
  PROVE  /\ Moved(q, k) \in [Selections -> Query]
         /\ \A j \in Selections \ {k} : j # at => Moved(q, k)[j] = q[j]
         /\ Moved(q, k)[k] = IF at = k THEN q[k] ELSE Mounted(q[k])
<1> DEFINE left == IF at \in Selections \ {k} THEN [q EXCEPT ![at] = Left(@)] ELSE q
<1>1. left \in [Selections -> Query]
  BY LeftOK
<1>2. left[k] = q[k] /\ \A j \in Selections : j # at => left[j] = q[j]
  OBVIOUS
<1>3. Moved(q, k) = IF at = k THEN left ELSE [left EXCEPT ![k] = Mounted(@)]
  BY DEF Moved
<1> HIDE DEF left
<1> QED
  BY <1>1, <1>2, <1>3, MountedOK

LEMMA PrimedOK ==
  ASSUME NEW q \in [Selections -> Query], NEW k \in Selections, ClientTypeOK, NEW p \in Primed(q, k)
  PROVE  /\ p \in [Selections -> Query]
         /\ \A j \in Selections \ {k} : p[j] = q[j]
<1> DEFINE x == [q[k] EXCEPT !.data = "host", !.stale = FALSE, !.failed = FALSE]
<1>1. x \in Query /\ [q EXCEPT ![k].data = "host", ![k].stale = FALSE, ![k].failed = FALSE]
                       = [q EXCEPT ![k] = x]
  BY DEF Query
<1>2. [q[k] EXCEPT !.primed = TRUE] \in Query
  BY DEF Query
<1>3. Awaits([q[k] EXCEPT !.primed = TRUE], told) \subseteq Query
  BY <1>2, AwaitsOK DEF ClientTypeOK
<1>4. p = q \/ \E y \in Query : p = [q EXCEPT ![k] = y]
  BY <1>1, <1>3 DEF Primed
<1> QED
  BY <1>4

\* The view of arguments that come while nothing was looked at waits for the host.
LEMMA OpeningWaits ==
  ASSUME NEW q \in [Selections -> Query], NEW k \in Selections, q[k] = Unfetched,
         told \in {None, "good"}, at # k, ClientTypeOK, NEW p \in Primed(q, k)
  PROVE  Moved(p, k)[k].fetch \in {"idle", "host"}
<1>1. p \in [Selections -> Query]
  BY PrimedOK
<1>2. CASE told = "good"
  <2>1. p = [q EXCEPT ![k].data = "host", ![k].stale = FALSE, ![k].failed = FALSE]
    BY <1>2 DEF Primed
  <2>2. p[k].data = "host" /\ p[k].stale = FALSE /\ p[k].fetch = "idle"
    BY <2>1 DEF Unfetched
  <2>3. ~Wanted(p[k])
    BY <2>2, ClientAssumption DEF Wanted
  <2> QED
    BY <1>1, <2>2, <2>3, MovedOK DEF Mounted
<1>3. CASE told = None
  <2>1. Wanted(q[k])
    BY DEF Wanted, Unfetched
  <2>2. p = [q EXCEPT ![k] = [[q[k] EXCEPT !.primed = TRUE] EXCEPT !.fetch = "host"]]
    <3>1. told # "good" /\ None = told
      BY <1>3, ClientAssumption
    <3>2. Awaits([q[k] EXCEPT !.primed = TRUE], told)
            = {[[q[k] EXCEPT !.primed = TRUE] EXCEPT !.fetch = "host"]}
      BY <1>3, ClientAssumption DEF Awaits
    <3> QED
      BY <2>1, <3>1, <3>2 DEF Primed
  <2>3. p[k].fetch = "host"
    BY <2>2 DEF Unfetched
  <2>4. Mounted(p[k]) = p[k]
    BY <2>3 DEF Mounted, Wanted
  <2> QED
    BY <1>1, <2>3, <2>4, MovedOK
<1> QED
  BY <1>2, <1>3

-----------------------------------------------------------------------------
(* The invariant.                                                          *)

ClientInv == ClientTypeOK /\ ShellInv /\ OpeningInv

LEMMA InitInv == ClientInit => ClientInv
<1> SUFFICES ASSUME ClientInit PROVE ClientInv
  OBVIOUS
<1>1. ClientTypeOK
  BY UnfetchedOK, ClientAssumption DEF ClientInit, ClientTypeOK
<1>2. ShellInv /\ OpeningInv
  BY ClientAssumption DEF ClientInit, ShellInv, OpeningInv, Unfetched
<1> QED
  BY <1>1, <1>2 DEF ClientInv

\* A step of one query, by its own call or at the host's word.
LEMMA OneQuery ==
  ASSUME ClientInv, NEW k \in Selections, NEW q \in Query, Queries([query EXCEPT ![k] = q]),
         UNCHANGED <<input, shell, at>>, shell # "connecting",
         told' \in {None, "good", "error", "junk", "nothing"}, acts' \in Nat, gaveUp' \in BOOLEAN,
         openai' \in BOOLEAN, Undisturbed' => Undisturbed,
         Undisturbed' /\ k # Default => k = input /\ q.fetch \in {"idle", "host"}
  PROVE  ClientInv'
<1>1. query' \in [Selections -> Query] /\ query'[k] = q
      /\ \A j \in Selections \ {k} : query'[j] = query[j]
  BY DEF Queries, ClientInv, ClientTypeOK
<1>2. called' = called \cup {j \in Calling(query') : query[j].fetch # query'[j].fetch}
  BY DEF Queries
<1>3. \A j \in Selections : j \in called' => j \in called \/ (j = k /\ q.fetch \in {"call", "again"})
  BY <1>1, <1>2 DEF Calling
<1>4. called' \subseteq Selections
  BY <1>2 DEF Calling, ClientInv, ClientTypeOK
<1>5. ClientTypeOK'
  BY <1>1, <1>4 DEF ClientInv, ClientTypeOK
<1>6. ShellInv'
  BY DEF ClientInv, ShellInv
<1>7. OpeningInv'
  BY <1>1, <1>3 DEF ClientInv, OpeningInv
<1> QED
  BY <1>5, <1>6, <1>7 DEF ClientInv

\* The router mounts a view whose query is primed or not.
LEMMA Mounts ==
  ASSUME ClientInv, NEW k \in Selections, NEW q \in [Selections -> Query],
         Queries(Moved(q, k)), at' = k, input' \in Selections \cup {None},
         shell' \in {"late", "over"}, input' # None => shell' = "over",
         UNCHANGED <<openai, told, gaveUp>>, acts' \in Nat, acts' >= acts,
         \A j \in Selections \ {k} : q[j] = query[j],
         Undisturbed' =>
           /\ input = None \/ input' = input
           /\ at \in {None, Default, k}
           /\ k # Default => k = input' /\ Moved(q, k)[k].fetch \in {"idle", "host"}
           /\ input \in {None, k, Default}
  PROVE  ClientInv'
<1> DEFINE m == Moved(q, k)
<1>1. /\ m \in [Selections -> Query]
      /\ \A j \in Selections \ {k} : j # at => m[j] = q[j]
  BY MovedOK
<1>2. query' = m /\ called' = called \cup {j \in Calling(m) : query[j].fetch # m[j].fetch}
  BY DEF Queries
<1> HIDE DEF m
<1>3. ClientTypeOK'
  BY <1>1, <1>2 DEF ClientInv, ClientTypeOK, Calling
<1>4. ShellInv'
  BY DEF ShellInv
<1>5. OpeningInv'
  <2> SUFFICES ASSUME Undisturbed', NEW j \in Selections \ {Default}
               PROVE  /\ at' \in {None, Default, input'}
                      /\ j \notin called'
                      /\ j # input' => query'[j] = Unfetched
                      /\ j = input' => query'[j].fetch \in {"idle", "host"}
    BY DEF OpeningInv
  <2>1. Undisturbed
    BY DEF Undisturbed, ClientInv, ClientTypeOK
  <2>2. at' \in {Default, input'}
    OBVIOUS
  <2>3. CASE j = k
    <3>1. m[k].fetch \in {"idle", "host"} /\ k = input'
      BY <2>3 DEF m
    <3>2. k \notin called
      BY <2>1, <2>3 DEF ClientInv, OpeningInv
    <3>3. k \notin called'
      BY <1>2, <3>1, <3>2 DEF Calling
    <3> QED
      BY <1>2, <2>2, <2>3, <3>1, <3>3
  <2>4. CASE j # k
    <3>1. j # at
      BY <2>4, ClientAssumption
    <3>2. m[j] = query[j]
      BY <1>1, <2>4, <3>1
    <3>3. j # input
      BY <2>4, ClientAssumption
    <3>4. j \notin called /\ query[j] = Unfetched
      BY <2>1, <3>3 DEF ClientInv, OpeningInv
    <3>5. j \notin called'
      BY <1>2, <3>2, <3>4
    <3>6. query'[j].fetch = "idle"
      BY <1>2, <3>2, <3>4 DEF Unfetched
    <3> QED
      BY <1>2, <2>2, <3>2, <3>4, <3>5, <3>6
  <2> QED
    BY <2>3, <2>4
<1> QED
  BY <1>3, <1>4, <1>5 DEF ClientInv

LEMMA NextInv == ClientInv /\ [ClientNext]_clientVars => ClientInv'
<1> SUFFICES ASSUME ClientInv, [ClientNext]_clientVars PROVE ClientInv'
  OBVIOUS
<1>0. /\ openai \in BOOLEAN /\ input \in Selections \cup {None}
      /\ told \in {None, "good", "error", "junk", "nothing"}
      /\ shell \in {"connecting", "early", "late", "over"} /\ at \in Selections \cup {None}
      /\ query \in [Selections -> Query] /\ acts \in Nat /\ called \subseteq Selections
      /\ gaveUp \in BOOLEAN
  BY DEF ClientInv, ClientTypeOK
<1>s. ShellInv /\ OpeningInv /\ ClientTypeOK
  BY DEF ClientInv
\* While the shell connects, every query is idle.
<1>i. ASSUME NEW k \in Selections, query[k].fetch # "idle" \/ query[k].data # None
      PROVE  shell # "connecting"
  BY <1>s, <1>i DEF ShellInv, Unfetched
\* What an undisturbed opening knows of a query that is not the default's.
<1>u. ASSUME NEW k \in Selections, k # Default, Undisturbed,
             query[k].fetch # "idle" \/ query[k].data # None
      PROVE  k = input /\ query[k].fetch \in {"idle", "host"}
  BY <1>s, <1>u DEF OpeningInv, Unfetched
<1>1. CASE Connected
  <2>1. CASE input = None
    <3>1. /\ shell' = "early" /\ UNCHANGED <<at, query, called, openai, input, told, acts, gaveUp>>
      BY <1>1, <2>1 DEF Connected, Unopened, HostState
    <3> QED
      BY <1>s, <2>1, <3>1 DEF ClientInv, ClientTypeOK, ShellInv, OpeningInv, Undisturbed
  <2>2. CASE input # None
    <3>1. PICK q \in Primed(query, input) : at' = input /\ Queries(Moved(q, input))
      BY <1>1, <2>2 DEF Connected, OpenOn
    <3>2. q \in [Selections -> Query] /\ \A j \in Selections \ {input} : q[j] = query[j]
      BY <1>0, <1>s, <2>2, PrimedOK
    <3>3. at = None /\ query[input] = Unfetched
      BY <1>0, <1>1, <1>s, <2>2 DEF Connected, ShellInv
    <3>4. Undisturbed => Moved(q, input)[input].fetch \in {"idle", "host"}
      BY <1>0, <1>s, <2>2, <3>1, <3>3, OpeningWaits DEF Undisturbed
    <3>5. shell' = "over" /\ UNCHANGED <<openai, input, told, acts, gaveUp>>
      BY <1>1, <2>2 DEF Connected, HostState
    <3>6. Undisturbed' => Undisturbed
      BY <3>5 DEF Undisturbed
    <3> QED
      BY <1>0, <2>2, <3>1, <3>2, <3>3, <3>4, <3>5, <3>6, Mounts
  <2> QED
    BY <2>1, <2>2
<1>2. CASE InputTimeout
  <2>1. CASE shell = "early"
    <3>1. /\ at' = Default /\ Queries(Moved(query, Default)) /\ shell' = "late"
          /\ UNCHANGED <<openai, input, told, acts, gaveUp>>
      BY <1>2, <2>1 DEF InputTimeout, OpenOnDefaults, HostState
    <3>2. input = None
      BY <1>s, <2>1 DEF ShellInv
    <3>3. Undisturbed' => at \in {None, Default}
      BY <1>s, <3>1, <3>2 DEF Undisturbed, OpeningInv
    <3> QED
      BY <1>0, <3>1, <3>2, <3>3, ClientAssumption, Mounts
  <2>2. CASE shell = "late"
    <3>1. shell' = "over" /\ UNCHANGED <<at, query, called, openai, input, told, acts, gaveUp>>
      BY <1>2, <2>2 DEF InputTimeout, Unopened, HostState
    <3> QED
      BY <1>s, <2>2, <3>1 DEF ClientInv, ClientTypeOK, ShellInv, OpeningInv, Undisturbed
  <2> QED
    BY <1>2, <2>1, <2>2 DEF InputTimeout
<1>3. ASSUME NEW k \in Selections, ToolInput(k) PROVE ClientInv'
  <2>1. input = None /\ input' = k /\ UNCHANGED <<openai, told, acts, gaveUp>>
    BY <1>3 DEF ToolInput
  <2>2. CASE shell = "early" \/ (shell = "late" /\ at = Default)
    <3>1. OpenOn(k) /\ shell' = "over"
      BY <1>3, <2>2 DEF ToolInput
    <3>2. PICK q \in Primed(query, k) : at' = k /\ Queries(Moved(q, k))
      BY <3>1 DEF OpenOn
    <3>3. q \in [Selections -> Query] /\ \A j \in Selections \ {k} : q[j] = query[j]
      BY <1>0, <1>s, <3>2, PrimedOK
    <3>4. Undisturbed' => Undisturbed
      BY <2>1 DEF Undisturbed
    <3>5. Undisturbed => at \in {None, Default}
      BY <1>s, <2>1 DEF OpeningInv
    <3>6. ASSUME Undisturbed, k # Default
          PROVE  Moved(q, k)[k].fetch \in {"idle", "host"}
      <4>1. query[k] = Unfetched /\ at # k /\ told \in {None, "good"}
        BY <1>s, <2>1, <3>5, <3>6, ClientAssumption DEF OpeningInv, Undisturbed
      <4> QED
        BY <1>0, <1>s, <3>2, <4>1, OpeningWaits
    <3> QED
      BY <1>0, <2>1, <3>1, <3>2, <3>3, <3>4, <3>5, <3>6, ClientAssumption, Mounts
  <2>3. CASE ~(shell = "early" \/ (shell = "late" /\ at = Default))
    <3>1. /\ UNCHANGED <<at, query, called>>
          /\ shell' = IF shell = "connecting" THEN shell ELSE "over"
      BY <1>3, <2>3 DEF ToolInput, Unopened
    <3>2. ClientTypeOK' /\ ShellInv'
      BY <1>0, <1>s, <2>1, <3>1 DEF ClientTypeOK, ShellInv
    <3>3. OpeningInv'
      <4>1. Undisturbed' => Undisturbed
        BY <2>1 DEF Undisturbed
      <4>2. Undisturbed => at \in {None, Default}
              /\ \A j \in Selections \ {Default} : j \notin called /\ query[j] = Unfetched
        BY <1>s, <2>1, ClientAssumption DEF OpeningInv
      <4>3. Unfetched.fetch = "idle"
        BY DEF Unfetched
      <4> QED
        BY <3>1, <4>1, <4>2, <4>3 DEF OpeningInv
    <3> QED
      BY <3>2, <3>3 DEF ClientInv
  <2> QED
    BY <2>2, <2>3
<1>4. ASSUME NEW result \in {"good", "error", "junk", "nothing"}, ToolResult(result)
      PROVE  ClientInv'
  <2>1. told = None /\ told' = result /\ UNCHANGED <<openai, input, shell, at, acts, gaveUp>>
    BY <1>4 DEF ToolResult
  <2>2. Undisturbed' => Undisturbed /\ result = "good"
    BY <2>1, ClientAssumption DEF Undisturbed
  <2>3. CASE UNCHANGED <<query, called>>
    BY <1>0, <1>s, <2>1, <2>2, <2>3 DEF ClientInv, ClientTypeOK, ShellInv, OpeningInv
  <2>4. CASE \E k \in Selections : /\ query[k].fetch = "host"
                                   /\ \E q \in Awaits(query[k], result) :
                                        Queries([query EXCEPT ![k] = q])
    <3>0. PICK k \in Selections : /\ query[k].fetch = "host"
                                  /\ \E q \in Awaits(query[k], result) :
                                       Queries([query EXCEPT ![k] = q])
      BY <2>4
    <3>1. PICK q \in Awaits(query[k], result) :
                 query[k].fetch = "host" /\ Queries([query EXCEPT ![k] = q])
      BY <3>0
    <3>2. q \in Query
      BY <1>0, <3>1, AwaitsOK
    <3>3. result = "good" => q.fetch = "idle"
      <4>1. CASE result = "good"
        <5>1. q = Succeeds(query[k], "host")
          BY <3>1, <4>1, ClientAssumption DEF Awaits
        <5> QED
          BY <1>0, <5>1, SucceedsOK
      <4> QED
        BY <4>1
    <3>4. shell # "connecting" /\ (Undisturbed /\ k # Default => k = input)
      BY <1>i, <1>u, <3>1
    <3> QED
      BY <1>0, <2>1, <2>2, <3>1, <3>2, <3>3, <3>4, OneQuery
  <2> QED
    BY <1>4, <2>3, <2>4 DEF ToolResult
<1>5. ASSUME NEW k \in Selections, ResultTimeout(k) PROVE ClientInv'
  <2>1. Calls(query[k]) \in Query
    BY <1>0, CallsOK
  <2>2. /\ Queries([query EXCEPT ![k] = Calls(query[k])]) /\ gaveUp' = TRUE
        /\ UNCHANGED <<openai, input, told, shell, at, acts>>
    BY <1>5 DEF ResultTimeout
  <2>3. ~Undisturbed' /\ shell # "connecting"
    BY <1>5, <1>i, <2>2 DEF Undisturbed, ResultTimeout
  <2> QED
    BY <1>0, <2>1, <2>2, <2>3, OneQuery
\* The bridge's calls: a query that makes one is the default's, or the opening
\* was disturbed.
<1>6. ASSUME NEW k \in Selections, NEW q \in Query, Become(k, q), shell # "connecting",
             Undisturbed /\ k # Default => k = input /\ q.fetch \in {"idle", "host"}
      PROVE  ClientInv'
  <2>1. /\ Queries([query EXCEPT ![k] = q])
        /\ UNCHANGED <<openai, input, told, shell, at, acts, gaveUp>>
    BY <1>6 DEF Become
  <2>2. Undisturbed' <=> Undisturbed
    BY <2>1 DEF Undisturbed
  <2> QED
    BY <1>0, <1>6, <2>1, <2>2, OneQuery
<1>7. ASSUME NEW k \in Selections, CallSucceeds(k) PROVE ClientInv'
  <2>1. Succeeds(query[k], "call") \in Query /\ query[k].fetch \in {"call", "again"}
        /\ Become(k, Succeeds(query[k], "call"))
    BY <1>0, <1>7, SucceedsOK DEF CallSucceeds
  <2> QED
    BY <1>i, <1>u, <1>6, <2>1
<1>8. ASSUME NEW k \in Selections, NEW final \in BOOLEAN, CallFails(k, final) \/ SecondFails(k, final)
      PROVE  ClientInv'
  <2>1. query[k].fetch \in {"call", "again"}
    BY <1>8 DEF CallFails, SecondFails
  <2>2. \E q \in Query : Become(k, q)
    <3>1. query[k] \in Query
      BY <1>0
    <3>2. [query[k] EXCEPT !.fetch = "again", !.final = @ \/ final] \in Query
      <4>1. query[k].final \in BOOLEAN
        BY <3>1 DEF Query
      <4>2. (query[k].final \/ final) \in BOOLEAN
        OBVIOUS
      <4> QED
        BY <3>1, <4>2 DEF Query
    <3>3. [query[k] EXCEPT !.final = FALSE] \in Query
      BY <3>1 DEF Query
    <3> QED
      BY <1>8, <3>1, <3>2, <3>3, FailsOK DEF CallFails, SecondFails
  <2> QED
    BY <1>i, <1>u, <1>6, <2>1, <2>2
<1>9. ASSUME NEW k \in Selections, Ages(k) PROVE ClientInv'
  <2> DEFINE q == [query[k] EXCEPT !.stale = TRUE]
  <2>1. q \in Query /\ q.fetch = query[k].fetch /\ Become(k, q) /\ query[k].data # None
    BY <1>0, <1>9 DEF Ages, Query
  <2> HIDE DEF q
  <2> QED
    BY <1>i, <1>u, <1>6, <2>1
<1>10. ASSUME NEW k \in Selections, Retries(k) PROVE ClientInv'
  <2>1. query[k].fetch = "pause"
    BY <1>10 DEF Retries
  <2>2. \E q \in Query : Become(k, q)
    BY <1>0, <1>10, CallsOK, AwaitsOK DEF Retries
  <2> QED
    BY <1>i, <1>u, <1>6, <2>1, <2>2
\* The viewer.
<1>11. ASSUME NEW k \in Selections, Choose(k) PROVE ClientInv'
  <2>1. /\ at \in Selections /\ acts' = acts + 1 /\ at' = k /\ Queries(Moved(query, k))
        /\ UNCHANGED <<openai, input, told, shell, gaveUp>>
    BY <1>11 DEF Choose, Acts
  <2>2. ~Undisturbed' /\ shell # "connecting"
    BY <1>0, <1>s, <2>1, ClientAssumption DEF Undisturbed, ShellInv
  <2>3. Moved(query, k) \in [Selections -> Query]
    BY <1>0, MovedOK
  <2>4. query' \in [Selections -> Query] /\ called' \subseteq Selections
    BY <1>0, <2>1, <2>3 DEF Queries, Calling
  <2> QED
    BY <1>0, <1>s, <2>1, <2>2, <2>4 DEF ClientInv, ClientTypeOK, ShellInv, OpeningInv
<1>12. CASE TryAgain
  <2>1. /\ at \in Selections /\ acts' = acts + 1 /\ Queries([query EXCEPT ![at] = Calls(query[at])])
        /\ UNCHANGED <<openai, input, told, shell, at, gaveUp>>
    BY <1>0, <1>12 DEF TryAgain, Acts
  <2>2. ~Undisturbed' /\ shell # "connecting"
    BY <1>0, <1>s, <2>1, ClientAssumption DEF Undisturbed, ShellInv
  <2>3. Calls(query[at]) \in Query
    BY <1>0, <2>1, CallsOK
  <2>4. acts' \in Nat /\ told' \in {None, "good", "error", "junk", "nothing"}
        /\ gaveUp' \in BOOLEAN /\ openai' \in BOOLEAN
    BY <1>0, <2>1
  <2>5. UNCHANGED <<input, shell, at>>
    BY <2>1
  <2> QED
    BY <2>1, <2>2, <2>3, <2>4, <2>5, OneQuery
<1>13. CASE UNCHANGED clientVars
  BY <1>13 DEF clientVars, ClientInv, ClientTypeOK, ShellInv, OpeningInv, Undisturbed
<1> QED
  BY <1>1, <1>2, <1>3, <1>4, <1>5, <1>7, <1>8, <1>9, <1>10, <1>11, <1>12, <1>13 DEF ClientNext

LEMMA Invariant == ClientSpec => []ClientInv
<1> QED
  BY InitInv, NextInv, PTL DEF ClientSpec

\* Every variable of the client keeps its type.
THEOREM TypeCorrect == ClientSpec => []ClientTypeOK
<1>1. ClientInv => ClientTypeOK
  BY DEF ClientInv
<1> QED
  BY <1>1, Invariant, PTL

\* The call that brought the widget up is not made a second time, whatever the
\* order of the host's messages, the timers and the queries' steps, but for the
\* named reasons (primeInitialQuery).
THEOREM OpeningOnce == ClientSpec => []OpeningIsNotRepeated
<1>1. ASSUME ClientInv PROVE OpeningIsNotRepeated
  <2> SUFFICES ASSUME input \in called, Undisturbed, input # Default
               PROVE  FALSE
    BY <1>1 DEF OpeningIsNotRepeated, Undisturbed, ClientInv, ClientTypeOK
  <2>1. input \in Selections \ {Default}
    BY <1>1 DEF ClientInv, ClientTypeOK
  <2> QED
    BY <1>1, <2>1 DEF ClientInv, OpeningInv
<1> QED
  BY <1>1, Invariant, PTL

-----------------------------------------------------------------------------
(* The filters and the search box (module Pages).                          *)


Texts == [size : Nat, blank : BOOLEAN]

\* Arguments as they are passed on to view v: a function on Fields with dates that
\* are dates, a search that is a text, and nothing v's tool does not have.
ArgsOK(v, args) ==
  /\ args = [f \in Fields |-> args[f]]
  /\ args["start_date"] \in Int \cup {Unset} /\ args["end_date"] \in Int \cup {Unset}
  /\ args["search"] \in Texts \cup {Unset}
  /\ \A f \in Fields \ Own(v) : args[f] = Unset \/ (v \in Dated /\ f \in {"start_date", "end_date"})

RangeTypeOK(range) ==
  /\ range = <<range[1], range[2], range[3]>>
  /\ range[1] \in Presets \cup {"custom"}
  /\ range[1] = "custom" => range[2] \in Int /\ range[3] \in Int /\ range[2] <= range[3]

OwnOK(v, params) ==
  /\ \A f \in Own(v) \ {"search"} : params[f] \in Legal(f) \cup {Unset}
  /\ v = "stok" => params["search"] \in Texts

SearchOK(v, s) == (v \in Dated => RangeTypeOK(s.range)) /\ OwnOK(v, s.own)

\* The first day of a week, as a calendar has it.
LEMMA MondayIs == ASSUME NEW d \in Int
  PROVE  (CHOOSE e \in d - 6 .. d : e % 7 = 4) = d - SinceMonday(d)
<1>1. d - SinceMonday(d) \in d - 6 .. d /\ (d - SinceMonday(d)) % 7 = 4
  BY DEF SinceMonday
<1>2. \A e \in d - 6 .. d : e % 7 = 4 => e = d - SinceMonday(d)
  BY DEF SinceMonday
<1> QED
  BY <1>1, <1>2

\* A preset is what its label promises.
LEMMA PresetsPromise == ASSUME NEW key \in Presets, NEW d \in Int
  PROVE  Promised(key, d) = PresetRange(key, d)
<1>1. CASE key = "minggu_ini"
  <2>1. Promised(key, d) = <<CHOOSE e \in d - 6 .. d : e % 7 = 4, d>>
    BY <1>1 DEF Promised
  <2>2. PresetRange(key, d) = <<d - SinceMonday(d), d>>
    BY <1>1 DEF PresetRange
  <2> QED
    BY <2>1, <2>2, MondayIs
<1>2. CASE key # "minggu_ini"
  BY <1>2 DEF Promised
<1> QED
  BY <1>1, <1>2

\* A preset is a range of days the server takes.
LEMMA PresetsAreRanges == ASSUME NEW key \in Presets, NEW d \in Days
  PROVE  \E a, b \in Int : PresetRange(key, d) = <<a, b>> /\ a <= b /\ b - a <= 30
<1>1. d \in Int /\ MonthStart[d] \in d - 30 .. d /\ MonthStart[d] \in Int
  BY NavigationAssumption
<1>2. SinceMonday(d) \in 0 .. 6
  BY <1>1 DEF SinceMonday
<1>3. CASE key \in {"hari_ini", "kemarin"}
  <2>1. PresetRange(key, d) = <<d, d>> \/ PresetRange(key, d) = <<d - 1, d - 1>>
    BY <1>3 DEF PresetRange
  <2> QED
    BY <1>1, <2>1
<1>6. CASE key \in {"7_hari", "30_hari"}
  <2>1. PresetRange(key, d) = <<d - 6, d>> \/ PresetRange(key, d) = <<d - 29, d>>
    BY <1>6 DEF PresetRange
  <2> QED
    BY <1>1, <2>1
<1>4. CASE key = "minggu_ini"
  BY <1>1, <1>2, <1>4 DEF PresetRange
<1>5. CASE key = "bulan_ini"
  BY <1>1, <1>5 DEF PresetRange
<1> QED
  BY <1>3, <1>4, <1>5, <1>6 DEF Presets

\* The preset that matches a range is that range.
LEMMA MatchFacts ==
  ASSUME NEW range, NEW today
  PROVE  LET m == MatchPreset(range, today) IN
         m = "custom" \/ (m \in Presets /\ PresetRange(m, today) = range)
<1> DEFINE hits == {i \in 1 .. 6 : PresetRange(MatchOrder[i], today) = range}
           i0 == CHOOSE i \in hits : \A j \in hits : i <= j
<1>1. CASE hits = {}
  BY <1>1 DEF MatchPreset, First
<1>2. CASE hits # {}
  <2>1. \E i \in hits : \A j \in hits : i <= j
    <3>1. \A i \in hits : i \in {1, 2, 3, 4, 5, 6}
      OBVIOUS
    <3> HIDE DEF hits
    <3>2. CASE 1 \in hits
      BY <3>1, <3>2
    <3>3. CASE 1 \notin hits /\ 2 \in hits
      BY <3>1, <3>3
    <3>4. CASE 1 \notin hits /\ 2 \notin hits /\ 3 \in hits
      BY <3>1, <3>4
    <3>5. CASE 1 \notin hits /\ 2 \notin hits /\ 3 \notin hits /\ 4 \in hits
      BY <3>1, <3>5
    <3>6. CASE 5 \in hits /\ \A i \in {1, 2, 3, 4} : i \notin hits
      BY <3>1, <3>6
    <3>7. CASE 6 \in hits /\ \A i \in {1, 2, 3, 4, 5} : i \notin hits
      BY <3>1, <3>7
    <3> QED
      BY <1>2, <3>1, <3>2, <3>3, <3>4, <3>5, <3>6, <3>7
  <2>2. i0 \in hits
    BY <2>1
  <2>3. MatchPreset(range, today) = MatchOrder[i0]
    BY <1>2 DEF MatchPreset, First
  <2>4. \A i \in 1 .. 6 : MatchOrder[i] \in Presets
    BY DEF MatchOrder, Presets
  <2> QED
    BY <2>2, <2>3, <2>4
<1> QED
  BY <1>1, <1>2

\* Dates become search parameters and the same dates again on the same day.
LEMMA RangeKept ==
  ASSUME NEW v \in Dated, NEW a \in Int \cup {Unset}, NEW b \in Int \cup {Unset}, NEW t \in Days
  PROVE  LET r == RangeSearch(v, a, b, t) IN
         /\ RangeTypeOK(r)
         /\ r[1] = "custom" => r[2] = a /\ r[3] = b
         /\ a # Unset /\ b # Unset /\ a <= b => RangeArgs(r, t) = <<a, b>>
<1> DEFINE m == MatchPreset(<<a, b>>, t)
<1>1. m = "custom" \/ (m \in Presets /\ PresetRange(m, t) = <<a, b>>)
  BY MatchFacts
<1>2. DefaultPreset(v) \in Presets /\ DefaultPreset(v) # "custom" /\ "custom" \notin Presets
  BY DEF DefaultPreset, Presets
<1>3. CASE a = Unset \/ b = Unset \/ (a \in Int /\ b \in Int /\ a > b)
  BY <1>2, <1>3 DEF RangeSearch, RangeTypeOK
<1>4. CASE a \in Int /\ b \in Int /\ a <= b
  <2>1. a # Unset /\ b # Unset /\ ~(a > b)
    BY <1>4, NavigationAssumption
  <2>2. CASE m = "custom"
    BY <1>4, <2>1, <2>2 DEF RangeSearch, RangeTypeOK, RangeArgs
  <2>3. CASE m # "custom"
    BY <1>1, <1>2, <2>1, <2>3 DEF RangeSearch, RangeTypeOK, RangeArgs
  <2> QED
    BY <2>2, <2>3
<1> QED
  BY <1>3, <1>4

\* The range a search stands for is one of days in order, and no longer than
\* the server takes if the dates of a custom one are not.
LEMMA RangeArgsOK ==
  ASSUME NEW r, RangeTypeOK(r), NEW t \in Days
  PROVE  \E a, b \in Int : /\ RangeArgs(r, t) = <<a, b>> /\ a <= b
                           /\ (r[1] = "custom" => RangeOk(r[2], r[3])) => RangeOk(a, b)
<1>1. CASE r[1] = "custom"
  BY <1>1 DEF RangeTypeOK, RangeArgs
<1>2. CASE r[1] # "custom"
  <2>1. r[1] \in Presets
    BY <1>2 DEF RangeTypeOK
  <2>2. PICK a \in Int, b \in Int : PresetRange(r[1], t) = <<a, b>> /\ a <= b /\ b - a <= 30
    BY <2>1, PresetsAreRanges
  <2>3. RangeArgs(r, t) = <<a, b>>
    BY <1>2, <2>2 DEF RangeArgs
  <2> QED
    BY <2>2, <2>3 DEF RangeOk, MaxRange
<1> QED
  BY <1>1, <1>2


\* The parameters of a view's own survive the way through its search.
LEMMA OwnKept ==
  ASSUME NEW v \in Places, NEW f \in Own(v) \ {"search"}, NEW x
  PROVE  /\ Parse(f, x) \in Legal(f) \cup {Unset}
         /\ x \in Legal(f) => Parse(f, x) = x
         /\ x = Unset => Parse(f, x) = Fallback(f)
<1>1. f \in {"outlet_id", "order", "status", "customer_id"}
  BY DEF Own, Places, Dated
<1>2. Unset \notin Legal(f) /\ Fallback(f) \in Legal(f) \cup {Unset}
  BY <1>1, NavigationAssumption DEF Legal, Fallback
<1> QED
  BY <1>2 DEF Parse

\* A text is sent without the blanks around it and cut, or not at all.
LEMMA SentTextOK ==
  ASSUME NEW x \in Texts
  PROVE  LET sent == SentText(x) IN
         /\ sent = Unset \/ (sent \in Texts /\ sent.size \in 1 .. MaxText /\ Trim(sent) = sent)
         /\ x.size = 0 => sent = Unset
         /\ x.size \in 1 .. MaxText => sent = Trim(x)
<1>1. Unset \notin Texts /\ MaxText \in Nat \ {0}
  BY NavigationAssumption DEF Texts
<1> DEFINE p == Trim(x)
<1>2. /\ p.size \in Nat /\ p.blank = FALSE /\ p = [size |-> p.size, blank |-> FALSE]
      /\ p \in Texts /\ Trim(p) = p /\ p.size = x.size
  BY DEF Trim, Phrase, Texts
<1>3. SentText(x) = IF p.size = 0 THEN Unset ELSE Slice(p)
  BY DEF SentText
<1> HIDE DEF p
<1>4. p.size # 0 => /\ Slice(p) \in Texts /\ Slice(p).size \in 1 .. MaxText
                    /\ Trim(Slice(p)) = Slice(p)
                    /\ p.size <= MaxText => Slice(p) = p
  <2>1. CASE p.size > MaxText
    <3>1. Slice(p) = [size |-> MaxText, blank |-> FALSE]
      BY <1>2, <2>1 DEF Slice, Phrase
    <3> QED
      BY <1>1, <1>2, <2>1, <3>1 DEF Trim, Phrase, Texts
  <2>2. CASE ~(p.size > MaxText)
    <3>1. Slice(p) = p
      BY <1>2, <2>2 DEF Slice, Phrase
    <3> QED
      BY <1>1, <1>2, <2>2, <3>1
  <2> QED
    BY <2>1, <2>2
<1> QED
  BY <1>1, <1>2, <1>3, <1>4 DEF p

\* So does a text, but for the blanks around it.
LEMMA TextKept ==
  ASSUME NEW x \in Texts \cup {Unset}
  PROVE  LET sent == SentText(Parse("search", x)) IN
         /\ Parse("search", x) \in Texts
         /\ sent = Unset \/ (sent \in Texts /\ sent.size \in 1 .. MaxText /\ Trim(sent) = sent)
         /\ x = Unset => sent = Unset
         /\ x # Unset /\ x.size \in 1 .. MaxText => sent = Trim(x)
<1>1. Unset \notin Texts
  BY NavigationAssumption DEF Texts
<1>2. CASE x = Unset
  <2>1. Parse("search", x) = Empty /\ Empty \in Texts /\ Empty.size = 0
    BY <1>2 DEF Parse, Empty, Phrase, Texts
  <2> QED
    BY <1>2, <2>1, SentTextOK
<1>3. CASE x # Unset
  <2>1. Parse("search", x) = Trim(x) /\ Trim(x) \in Texts /\ Trim(x).size = x.size /\ Trim(Trim(x)) = Trim(x)
    BY <1>3 DEF Parse, Trim, Phrase, Texts
  <2> QED
    BY <1>3, <2>1, SentTextOK
<1> QED
  BY <1>2, <1>3

\* What a view asks for, field by field.
LEMMA AskedFields ==
  ASSUME NEW v \in Places, NEW s, NEW t
  PROVE  LET a == ToolArgsFromSearch(v, s, t) IN
         /\ a = [f \in Fields |-> a[f]]
         /\ v \in Dated => /\ a["start_date"] = RangeArgs(s.range, t)[1]
                           /\ a["end_date"] = RangeArgs(s.range, t)[2]
         /\ v \notin Dated => a["start_date"] = Unset /\ a["end_date"] = Unset
         /\ v = "stok" => a["search"] = SentText(s.own["search"])
         /\ v # "stok" => a["search"] = Unset
         /\ \A f \in Own(v) \ {"search"} : a[f] = s.own[f]
         /\ \A f \in Fields \ Own(v) : f \in {"start_date", "end_date"} \/ a[f] = Unset
<1>1. /\ Own(v) \subseteq Fields \ {"start_date", "end_date"}
      /\ "search" \in Own(v) <=> v = "stok"
  BY DEF Own, Fields, Places, Dated
<1> QED
  BY <1>1 DEF ToolArgsFromSearch, Fields


\* A search made of arguments is one of the view's schema; its custom range is
\* that of the arguments.
LEMMA SearchMade ==
  ASSUME NEW v \in Places, NEW args, ArgsOK(v, args), NEW t \in Days
  PROVE  LET s == SearchFromToolArgs(v, args, t) IN
         /\ SearchOK(v, s)
         /\ v \in Dated /\ s.range[1] = "custom" =>
              s.range[2] = args["start_date"] /\ s.range[3] = args["end_date"]
<1> DEFINE s == SearchFromToolArgs(v, args, t)
           a == args["start_date"]
           b == args["end_date"]
<1>1. a \in Int \cup {Unset} /\ b \in Int \cup {Unset} /\ args["search"] \in Texts \cup {Unset}
  BY DEF ArgsOK
<1>2. v \in Dated => s.range = RangeSearch(v, a, b, t)
  BY DEF SearchFromToolArgs
<1>3. v \in Dated => /\ RangeTypeOK(s.range)
                     /\ s.range[1] = "custom" => s.range[2] = a /\ s.range[3] = b
  BY <1>1, <1>2, RangeKept
<1>4. \A f \in Own(v) : s.own[f] = Parse(f, args[f])
  BY DEF SearchFromToolArgs
<1>5. \A f \in Own(v) \ {"search"} : s.own[f] \in Legal(f) \cup {Unset}
  BY <1>4, OwnKept
<1>6. v = "stok" => "search" \in Own(v)
  BY DEF Own
<1>7. v = "stok" => s.own["search"] \in Texts
  BY <1>1, <1>4, <1>6, TextKept
<1> QED
  BY <1>3, <1>5, <1>7 DEF SearchOK, OwnOK

\* What a view asks for is fit to be passed on.
LEMMA AskedOK ==
  ASSUME NEW v \in Places, NEW s, SearchOK(v, s), NEW t \in Days
  PROVE  /\ ArgsOK(v, ToolArgsFromSearch(v, s, t))
         /\ LegalBut(v, ToolArgsFromSearch(v, s, t))
         /\ (v \in Dated /\ s.range[1] = "custom" => RangeOk(s.range[2], s.range[3]))
              => LegalArgs(v, ToolArgsFromSearch(v, s, t))
<1> DEFINE a == ToolArgsFromSearch(v, s, t)
<1>1. /\ a = [f \in Fields |-> a[f]]
      /\ v \in Dated => /\ a["start_date"] = RangeArgs(s.range, t)[1]
                        /\ a["end_date"] = RangeArgs(s.range, t)[2]
      /\ v \notin Dated => a["start_date"] = Unset /\ a["end_date"] = Unset
      /\ v = "stok" => a["search"] = SentText(s.own["search"])
      /\ v # "stok" => a["search"] = Unset
      /\ \A f \in Own(v) \ {"search"} : a[f] = s.own[f]
      /\ \A f \in Fields \ Own(v) : f \in {"start_date", "end_date"} \/ a[f] = Unset
  BY AskedFields
<1> HIDE DEF a
<1>2. v \in Dated =>
        /\ a["start_date"] \in Int /\ a["end_date"] \in Int /\ a["start_date"] <= a["end_date"]
        /\ (s.range[1] = "custom" => RangeOk(s.range[2], s.range[3]))
             => RangeOk(a["start_date"], a["end_date"])
  BY <1>1, RangeArgsOK DEF SearchOK
<1>3. a["search"] = Unset \/ (a["search"] \in Texts /\ a["search"].size \in 1 .. MaxText)
  <2>1. CASE v = "stok"
    <3>1. s.own["search"] \in Texts
      BY <2>1 DEF SearchOK, OwnOK
    <3> QED
      BY <1>1, <2>1, <3>1, SentTextOK
  <2> QED
    BY <1>1, <2>1
<1>4. \A f \in Own(v) \ {"search"} : a[f] \in Legal(f) \cup {Unset}
  BY <1>1 DEF SearchOK, OwnOK
<1>5. ArgsOK(v, a)
  BY <1>1, <1>2, <1>3 DEF ArgsOK
<1>6. Unset \notin Int
  BY NavigationAssumption
<1>7. LegalBut(v, a)
  BY <1>2, <1>3, <1>4, <1>6 DEF LegalBut
<1> QED
  BY <1>2, <1>5, <1>7 DEF LegalArgs, a

\* What was said comes back from the search parameters on the same day.
LEMMA RoundTrip ==
  ASSUME NEW v \in Places, NEW args, ArgsOK(v, args), NEW t \in Days, LegalArgs(v, args)
  PROVE  Meaning(v, ToolArgsFromSearch(v, SearchFromToolArgs(v, args, t), t)) = Meaning(v, args)
<1> DEFINE s == SearchFromToolArgs(v, args, t)
           a == ToolArgsFromSearch(v, s, t)
<1>1. /\ v \in Dated => /\ a["start_date"] = RangeArgs(s.range, t)[1]
                        /\ a["end_date"] = RangeArgs(s.range, t)[2]
      /\ v \notin Dated => a["start_date"] = Unset /\ a["end_date"] = Unset
      /\ v = "stok" => a["search"] = SentText(s.own["search"])
      /\ \A f \in Own(v) \ {"search"} : a[f] = s.own[f]
      /\ \A f \in Fields \ Own(v) : f \in {"start_date", "end_date"} \/ a[f] = Unset
  BY AskedFields
<1>2. \A f \in Own(v) : s.own[f] = Parse(f, args[f])
  BY DEF SearchFromToolArgs
<1>3. v \in Dated => a["start_date"] = args["start_date"] /\ a["end_date"] = args["end_date"]
  <2> SUFFICES ASSUME v \in Dated
               PROVE  a["start_date"] = args["start_date"] /\ a["end_date"] = args["end_date"]
    OBVIOUS
  <2>1. /\ args["start_date"] # Unset /\ args["end_date"] # Unset
        /\ args["start_date"] <= args["end_date"]
        /\ args["start_date"] \in Int \cup {Unset} /\ args["end_date"] \in Int \cup {Unset}
    BY DEF LegalArgs, LegalBut, ArgsOK
  <2>2. s.range = RangeSearch(v, args["start_date"], args["end_date"], t)
    BY DEF SearchFromToolArgs
  <2>3. RangeArgs(s.range, t) = <<args["start_date"], args["end_date"]>>
    BY <2>1, <2>2, RangeKept
  <2> QED
    BY <1>1, <2>3
<1> HIDE DEF s, a
<1>4. ASSUME NEW f \in Own(v) \ {"search"}
      PROVE  IF args[f] = Unset THEN a[f] \in {Unset, Fallback(f)} ELSE a[f] = args[f]
  <2>1. args[f] \in Legal(f) \cup {Unset}
    BY DEF LegalArgs, LegalBut
  <2> QED
    BY <1>1, <1>2, <2>1, OwnKept
<1>5. "search" \in Own(v) <=> v = "stok"
  BY DEF Own, Places, Dated
<1>6. v = "stok" => IF args["search"] = Unset THEN a["search"] = Unset
                    ELSE a["search"] # Unset /\ Trim(a["search"]) = Trim(args["search"])
  <2> SUFFICES ASSUME v = "stok"
               PROVE  IF args["search"] = Unset THEN a["search"] = Unset
                      ELSE a["search"] # Unset /\ Trim(a["search"]) = Trim(args["search"])
    OBVIOUS
  <2>1. /\ args["search"] \in Texts \cup {Unset}
        /\ args["search"] = Unset \/ args["search"].size \in 1 .. MaxText
    BY DEF LegalArgs, LegalBut, ArgsOK
  <2>2. a["search"] = SentText(Parse("search", args["search"]))
    BY <1>1, <1>2, <1>5
  <2>3. Unset \notin Texts /\ \A x \in Texts : Trim(x) \in Texts /\ Trim(Trim(x)) = Trim(x)
    BY NavigationAssumption DEF Texts, Trim, Phrase
  <2> QED
    BY <2>1, <2>2, <2>3, TextKept
<1>7. ASSUME NEW f \in Fields
      PROVE  Meaning(v, a)[f] = Meaning(v, args)[f]
  <2>1. CASE f \notin Own(v)
    <3>1. a[f] = args[f]
      BY <1>1, <1>3, <2>1 DEF ArgsOK
    <3> QED
      BY <2>1, <3>1 DEF Meaning
  <2>2. CASE f \in Own(v) /\ f # "search"
    BY <1>4, <2>2 DEF Meaning
  <2>3. CASE f \in Own(v) /\ f = "search"
    BY <1>5, <1>6, <2>3 DEF Meaning
  <2> QED
    BY <2>1, <2>2, <2>3
<1> QED
  BY <1>7 DEF Meaning, s, a

-----------------------------------------------------------------------------
\* What was wanted, if anything, is what the page shows: its range, if custom, is
\* one the server takes, and on the day of the wish it asks for just that.
WantedOK ==
  /\ place \in Places /\ wanted.view = place
  /\ wanted.day \in Days /\ wanted.day <= shown
  /\ place \in Dated /\ search.range[1] = "custom" => RangeOk(search.range[2], search.range[3])
  /\ shown = wanted.day => Meaning(place, asked) = Meaning(place, wanted.args)

PlaceOK ==
  /\ SearchOK(place, search)
  /\ asked = ToolArgsFromSearch(place, search, shown)

\* The inductive invariant: the day of a rendering is no later than today, the
\* page's search is one of its schema, and what it asks for is made of that.
NavInv ==
  /\ now \in Days /\ shown \in Days /\ shown <= now
  /\ place \in Places \cup {Unset}
  /\ place \in Places => PlaceOK
  /\ wanted # Unset => WantedOK

LEMMA NavInvInit == NavigationInit => NavInv
<1>1. Unset \notin Places /\ Days \subseteq Int
  BY NavigationAssumption
<1> QED
  BY <1>1 DEF NavigationInit, NavInv

LEMMA NavInvKept == NavInv => FiltersAreKept
<1> SUFFICES ASSUME NavInv PROVE FiltersAreKept
  OBVIOUS
<1>1. AskedAsWanted
  BY DEF NavInv, WantedOK, AskedAsWanted
<1>2. AskedIsLegal
  <2> SUFFICES ASSUME place # Unset
               PROVE  LegalBut(place, asked) /\ (wanted # Unset => LegalArgs(place, asked))
    BY DEF AskedIsLegal
  <2>1. /\ place \in Places /\ SearchOK(place, search) /\ shown \in Days
        /\ asked = ToolArgsFromSearch(place, search, shown)
    BY DEF NavInv, PlaceOK
  <2>2. wanted # Unset => /\ place \in Dated /\ search.range[1] = "custom"
                               => RangeOk(search.range[2], search.range[3])
    BY DEF NavInv, WantedOK
  <2> QED
    BY <2>1, <2>2, AskedOK
<1> QED
  BY <1>1, <1>2 DEF FiltersAreKept

\* A page rendered for arguments, `args`, of the rendering's own day or of the day
\* of the rendering before it, where `said` was wished for.
LEMMA Led ==
  ASSUME NavInv, NEW v \in Places, NEW args, NEW said, NEW t \in {now, shown}, ArgsOK(v, args),
         Renders(v, SearchFromToolArgs(v, args, t)), Wants(v, said, t),
         now = t => args = said,
         v \in Dated /\ LegalArgs(v, said) => RangeOk(args["start_date"], args["end_date"])
  PROVE  NavInv'
<1> DEFINE s == SearchFromToolArgs(v, args, t)
<1>1. now \in Days /\ t \in Days /\ t <= now /\ Days \subseteq Int
  BY NavigationAssumption DEF NavInv
<1>2. /\ place' = v /\ search' = s /\ shown' = now /\ now' = now
      /\ asked' = ToolArgsFromSearch(v, s, now)
  BY DEF Renders
<1>3. /\ SearchOK(v, s)
      /\ v \in Dated /\ s.range[1] = "custom" =>
           s.range[2] = args["start_date"] /\ s.range[3] = args["end_date"]
  BY <1>1, SearchMade
<1>4. now = t /\ LegalArgs(v, said) =>
        Meaning(v, ToolArgsFromSearch(v, s, now)) = Meaning(v, said)
  BY <1>1, RoundTrip
<1> HIDE DEF s
<1>5. PlaceOK'
  BY <1>2, <1>3 DEF PlaceOK
<1>6. wanted' # Unset => WantedOK'
  <2> SUFFICES ASSUME wanted' # Unset PROVE WantedOK'
    OBVIOUS
  <2>1. LegalArgs(v, said) /\ wanted' = [view |-> v, args |-> said, day |-> t]
    BY DEF Wants
  <2>2. wanted'.view = v /\ wanted'.args = said /\ wanted'.day = t
    BY <2>1
  <2>3. v \in Dated /\ s.range[1] = "custom" => RangeOk(s.range[2], s.range[3])
    BY <1>3, <2>1
  <2> QED
    BY <1>1, <1>2, <1>4, <2>1, <2>2, <2>3 DEF WantedOK
<1> QED
  BY <1>1, <1>2, <1>5, <1>6 DEF NavInv

\* A control that leads somewhere with arguments that can be passed on.
LEMMA LedBy ==
  ASSUME NavInv, NEW v \in Places, NEW args, ArgsOK(v, args), Leads(v, args)
  PROVE  NavInv'
<1>1. v \in Dated /\ LegalArgs(v, args) => RangeOk(args["start_date"], args["end_date"])
  BY DEF LegalArgs
<1> QED
  BY <1>1, Led DEF Leads, Goes

\* Arguments of a page can be passed on, with another range or another field of its
\* view; so can its outlet, to any view.
LEMMA AskedPassedOn ==
  ASSUME NavInv, place \in Places
  PROVE  ArgsOK(place, asked)
  BY AskedOK DEF NavInv, PlaceOK

LEMMA OutletPassedOn ==
  ASSUME NEW v \in Places
  PROVE  ArgsOK(v, Outlet) /\ \A f \in Fields \ {"outlet_id"} : Outlet[f] = Unset
  BY DEF ArgsOK, Outlet, NoArgs, Fields, Own, Places, Dated

LEMMA RangePassedOn ==
  ASSUME NEW v \in Dated, NEW args, ArgsOK(v, args), NEW a \in Int \cup {Unset}, NEW b \in Int \cup {Unset}
  PROVE  /\ ArgsOK(v, WithRange(args, <<a, b>>))
         /\ WithRange(args, <<a, b>>)["start_date"] = a /\ WithRange(args, <<a, b>>)["end_date"] = b
<1> DEFINE w == WithRange(args, <<a, b>>)
<1>1. /\ w = [f \in Fields |-> w[f]] /\ w["start_date"] = a /\ w["end_date"] = b
      /\ \A f \in Fields \ {"start_date", "end_date"} : w[f] = args[f]
  BY DEF WithRange, ArgsOK, Fields
<1> HIDE DEF w
<1>2. ArgsOK(v, w)
  BY <1>1 DEF ArgsOK, Fields
<1> QED
  BY <1>1, <1>2 DEF w

LEMMA FieldPassedOn ==
  ASSUME NEW v \in Places, NEW args, ArgsOK(v, args), NEW f \in Own(v), NEW x,
         f = "search" => x \in Texts \cup {Unset}
  PROVE  ArgsOK(v, [args EXCEPT ![f] = x])
<1> DEFINE w == [args EXCEPT ![f] = x]
<1>1. f \in Fields \ {"start_date", "end_date"}
  BY DEF Own, Fields, Places, Dated
<1>2. w = [g \in Fields |-> w[g]] /\ w[f] = x /\ \A g \in Fields \ {f} : w[g] = args[g]
  BY <1>1 DEF ArgsOK
<1> HIDE DEF w
<1>3. ArgsOK(v, w)
  BY <1>1, <1>2 DEF ArgsOK, Fields
<1> QED
  BY <1>3 DEF w

\* A chip's range is the one its label promises, on the day the chip was rendered.
LEMMA ChipKeeps ==
  ASSUME NavInv, NEW key \in Presets, Chip(key)
  PROVE  NavInv'
<1> DEFINE t == IF place = "transaksi" THEN shown ELSE now
           args == WithRange(asked, PresetRange(key, t))
           said == WithRange(asked, Promised(key, shown))
<1>1. /\ place \in Dated /\ place \in Places /\ t \in Days /\ t \in {now, shown}
      /\ shown \in Int /\ ArgsOK(place, asked)
  BY AskedPassedOn, NavigationAssumption DEF Chip, NavInv, Places
<1>2. PICK a \in Int, b \in Int : PresetRange(key, t) = <<a, b>> /\ a <= b /\ b - a <= 30
  BY <1>1, PresetsAreRanges
<1>3. ArgsOK(place, args) /\ RangeOk(args["start_date"], args["end_date"])
  BY <1>1, <1>2, RangePassedOn DEF RangeOk, MaxRange
<1>4. now = shown => args = said
  BY <1>1, PresetsPromise
<1>5. Renders(place, SearchFromToolArgs(place, args, shown)) /\ Wants(place, said, shown)
  BY DEF Chip, Goes
<1> HIDE DEF args, said
<1> QED
  BY <1>1, <1>3, <1>4, <1>5, Led

\* Ranges of an asked page: of its own dates, or of the dates of one of its fields.
LEMMA AskedDates ==
  ASSUME NavInv
  PROVE  place \in Places =>
           asked["start_date"] \in Int \cup {Unset} /\ asked["end_date"] \in Int \cup {Unset}
  BY AskedPassedOn DEF ArgsOK

\* A control that leads to the transactions, the products, the debts or the stock.
LEMMA LinkKeeps ==
  ASSUME NavInv,
         \/ \E f \in {"start_date", "end_date"} : TrendDay(f)
         \/ TopProducts \/ OpenDebts
         \/ \E n \in Phrases : ProductRow(n) \/ Typed(n)
         \/ \E x \in Statuses : Status(x)
         \/ \E c \in Customers : CustomerHistory(c)
  PROVE  NavInv'
<1>1. /\ {"penjualan", "produk", "transaksi"} \subseteq Dated
      /\ {"penjualan", "produk", "transaksi", "stok", "pembelian", "piutang"} \subseteq Places
      /\ Days \subseteq Int /\ shown \in Days /\ Sizes \subseteq Nat /\ MaxText \in Nat
  BY NavigationAssumption DEF Dated, Places, NavInv
<1>2. ASSUME NEW f \in {"start_date", "end_date"}, TrendDay(f) PROVE NavInv'
  <2>1. asked[f] \in Int \cup {Unset}
    BY <1>1, <1>2, AskedDates DEF TrendDay
  <2>2. ArgsOK("transaksi", WithRange(Outlet, <<asked[f], asked[f]>>))
    BY <1>1, <2>1, OutletPassedOn, RangePassedOn
  <2> QED
    BY <1>1, <1>2, <2>2, LedBy DEF TrendDay
<1>3. CASE TopProducts
  <2> DEFINE r == WithRange(Outlet, AskedRange)
  <2>1. ArgsOK("produk", r)
    BY <1>1, <1>3, AskedDates, OutletPassedOn, RangePassedOn DEF TopProducts, AskedRange
  <2>2. "order" \in Own("produk")
    BY DEF Own
  <2> HIDE DEF r
  <2>3. ArgsOK("produk", [r EXCEPT !["order"] = "terlaris"])
    BY <1>1, <2>1, <2>2, FieldPassedOn
  <2> QED
    BY <1>1, <1>3, <2>3, LedBy DEF TopProducts, r
<1>4. CASE OpenDebts
  BY <1>1, <1>4, OutletPassedOn, LedBy DEF OpenDebts
<1>5. ASSUME NEW n \in Phrases, ProductRow(n) \/ Typed(n) PROVE NavInv'
  <2>1. "search" \in Own("stok")
    BY DEF Own
  <2>2. n \in Texts /\ Slice(n) \in Texts
    BY <1>1 DEF Phrases, Texts, Phrase, Slice
  <2>3. ASSUME NEW x \in Texts PROVE ArgsOK("stok", [Outlet EXCEPT !["search"] = x])
    BY <1>1, <2>1, OutletPassedOn, FieldPassedOn
  <2> QED
    BY <1>1, <1>5, <2>2, <2>3, LedBy DEF ProductRow, Typed
<1>6. ASSUME NEW x \in Statuses, Status(x) PROVE NavInv'
  <2>1. "status" \in Own("pembelian")
    BY DEF Own
  <2>2. ArgsOK("pembelian", [Outlet EXCEPT !["status"] = x])
    BY <1>1, <2>1, OutletPassedOn, FieldPassedOn
  <2> QED
    BY <1>1, <1>6, <2>2, LedBy DEF Status
<1>7. ASSUME NEW c \in Customers, CustomerHistory(c) PROVE NavInv'
  <2> DEFINE r == WithRange(Outlet, <<shown - (HistoryDays - 1), shown>>)
  <2>1. shown \in Int /\ shown - (HistoryDays - 1) \in Int
    BY <1>1 DEF HistoryDays
  <2>2. ArgsOK("transaksi", r)
    BY <1>1, <2>1, OutletPassedOn, RangePassedOn
  <2>3. "customer_id" \in Own("transaksi")
    BY DEF Own
  <2> HIDE DEF r
  <2>4. ArgsOK("transaksi", [r EXCEPT !["customer_id"] = c])
    BY <1>1, <2>2, <2>3, FieldPassedOn
  <2> QED
    BY <1>1, <1>7, <2>4, LedBy DEF CustomerHistory, r
<1> QED
  BY <1>2, <1>3, <1>4, <1>5, <1>6, <1>7

\* A control of a page that changes the filters of that page.
LEMMA FilterKeeps ==
  ASSUME NavInv,
         \/ \E a, b \in Dates : Custom(a, b)
         \/ \E o \in Orders : Order(o)
         \/ ClearCustomer \/ DebtFilters
  PROVE  NavInv'
<1>1. Dated \subseteq Places /\ Unset \notin Places /\ Dates \subseteq Int
  BY NavigationAssumption DEF Dated, Places
<1>2. ASSUME NEW a \in Dates, NEW b \in Dates, Custom(a, b) PROVE NavInv'
  <2>1. ArgsOK(place, WithRange(asked, <<a, b>>)) /\ place \in Places
    BY <1>1, <1>2, AskedPassedOn, RangePassedOn DEF Custom
  <2> QED
    BY <1>2, <2>1, LedBy DEF Custom
<1>3. ASSUME NEW o \in Orders, Order(o) PROVE NavInv'
  <2>1. "order" \in Own("produk") /\ "produk" \in Places
    BY DEF Own, Places, Dated
  <2>2. ArgsOK("produk", [asked EXCEPT !["order"] = o])
    BY <1>3, <2>1, AskedPassedOn, FieldPassedOn DEF Order
  <2> QED
    BY <1>3, <2>1, <2>2, LedBy DEF Order
<1>4. CASE ClearCustomer
  <2>1. "customer_id" \in Own("transaksi") /\ "transaksi" \in Places
    BY DEF Own, Places, Dated
  <2>2. ArgsOK("transaksi", [asked EXCEPT !["customer_id"] = Unset])
    BY <1>4, <2>1, AskedPassedOn, FieldPassedOn DEF ClearCustomer
  <2> QED
    BY <1>4, <2>1, <2>2, LedBy DEF ClearCustomer
<1>5. CASE DebtFilters
  <2>1. "piutang" \in Places
    BY DEF Places
  <2> QED
    BY <1>5, <2>1, AskedPassedOn, LedBy DEF DebtFilters
<1> QED
  BY <1>2, <1>3, <1>4, <1>5

\* The first rendering, on what the host sent or on the defaults.
LEMMA OpensKeeps ==
  ASSUME NavInv, NEW v \in Places,
         OpensOnDefaults(v) \/ \E args \in HostArgs(v) : OpensOn(v, args)
  PROVE  NavInv'
<1>1. now \in Days /\ Dates \subseteq Int /\ Sizes \subseteq Nat
  BY NavigationAssumption DEF NavInv
<1>2. ASSUME NEW args \in HostArgs(v), OpensOn(v, args) PROVE NavInv'
  <2>1. PICK a \in Dates \cup {Unset}, b \in Dates \cup {Unset}, o \in Outlets \cup {Unset},
             x \in {Unset} \cup UNION {Sent(f) : f \in Own(v) \ {"outlet_id"}} :
           args = [f \in Fields |->
                    CASE v \in Dated /\ f = "start_date" -> a [] v \in Dated /\ f = "end_date" -> b
                      [] f = "outlet_id" -> o [] f \in Own(v) -> x [] OTHER -> Unset]
    BY DEF HostArgs
  <2>2. v = "stok" => x \in Texts \cup {Unset}
    <3>1. v = "stok" => Own(v) \ {"outlet_id"} = {"search"}
      BY DEF Own
    <3>2. Sent("search") \subseteq Texts
      BY <1>1 DEF Sent, Phrases, Phrase, Texts
    <3>3. v = "stok" => UNION {Sent(f) : f \in Own(v) \ {"outlet_id"}} \subseteq Texts
      BY <3>1, <3>2
    <3> QED
      BY <3>3
  <2>3. /\ Own(v) \subseteq Fields \ {"start_date", "end_date"}
        /\ "search" \in Own(v) => v = "stok"
    BY DEF Own, Fields, Places, Dated
  <2>4. ArgsOK(v, args)
    <3>1. args = [f \in Fields |-> args[f]]
      BY <2>1
    <3>2. args["start_date"] \in Int \cup {Unset} /\ args["end_date"] \in Int \cup {Unset}
      BY <1>1, <2>1, <2>3 DEF Fields
    <3>3. args["search"] \in Texts \cup {Unset}
      BY <2>1, <2>2, <2>3 DEF Fields
    <3>4. \A f \in Fields \ Own(v) : args[f] = Unset \/ (v \in Dated /\ f \in {"start_date", "end_date"})
      <4>1. "outlet_id" \in Own(v)
        BY DEF Own
      <4> QED
        BY <2>1, <4>1
    <3> QED
      BY <3>1, <3>2, <3>3, <3>4 DEF ArgsOK
  <2>5. v \in Dated /\ LegalArgs(v, args) => RangeOk(args["start_date"], args["end_date"])
    BY DEF LegalArgs
  <2> QED
    BY <1>2, <2>4, <2>5, Led DEF OpensOn
<1>3. CASE OpensOnDefaults(v)
  <2> DEFINE s == SearchFromToolArgs(v, NoArgs, now)
  <2>1. ArgsOK(v, NoArgs)
    BY DEF ArgsOK, NoArgs, Fields
  <2>2. SearchOK(v, s)
    BY <1>1, <2>1, SearchMade
  <2>3. /\ place' = v /\ search' = s /\ shown' = now /\ now' = now /\ wanted' = Unset
        /\ asked' = ToolArgsFromSearch(v, s, now)
    BY <1>3 DEF OpensOnDefaults, Renders
  <2> HIDE DEF s
  <2>4. Days \subseteq Int
    BY NavigationAssumption
  <2> QED
    BY <1>1, <2>2, <2>3, <2>4 DEF NavInv, PlaceOK
<1> QED
  BY <1>2, <1>3

\* Rendered again, a page asks for the same, but on the day it is now.
LEMMA RerenderKeeps == ASSUME NavInv, Rerender PROVE NavInv'
<1>1. /\ place \in Places /\ now \in Days /\ shown \in Days /\ shown <= now
      /\ Days \subseteq Int /\ PlaceOK
  BY NavigationAssumption DEF NavInv, Rerender
<1>2. /\ place' = place /\ search' = search /\ shown' = now /\ now' = now /\ wanted' = wanted
      /\ asked' = ToolArgsFromSearch(place, search, now)
  BY DEF Rerender, Renders
<1>3. PlaceOK'
  BY <1>1, <1>2 DEF PlaceOK
<1>4. wanted' # Unset => WantedOK'
  <2> SUFFICES ASSUME wanted # Unset PROVE WantedOK'
    BY <1>2
  <2>1. WantedOK
    BY DEF NavInv
  <2>2. wanted.day \in Int /\ wanted.day <= now /\ (now = wanted.day => shown = wanted.day)
    <3> DEFINE d == wanted.day
    <3>1. d \in Days /\ d <= shown
      BY <2>1 DEF WantedOK
    <3> HIDE DEF d
    <3>2. d \in Int /\ d <= now /\ (now = d => shown = d)
      BY <1>1, <3>1
    <3> QED
      BY <3>2 DEF d
  <2>3. now = wanted.day => asked' = asked
    BY <1>1, <1>2, <2>2 DEF PlaceOK
  <2>4. now = wanted.day => Meaning(place, asked') = Meaning(place, wanted.args)
    BY <2>1, <2>2, <2>3 DEF WantedOK
  <2>5. Meaning(place, asked)' = Meaning(place, asked') /\ Meaning(place, wanted.args)' = Meaning(place, wanted.args)
    BY <1>2 DEF Meaning
  <2> QED
    BY <1>2, <2>1, <2>2, <2>4, <2>5 DEF WantedOK
<1> QED
  BY <1>1, <1>2, <1>3, <1>4 DEF NavInv

LEMMA NavInvNext == NavInv /\ [NavigationNext]_navigationVars => NavInv'
<1> SUFFICES ASSUME NavInv, [NavigationNext]_navigationVars PROVE NavInv'
  OBVIOUS
<1>1. CASE Midnight
  <2>1. Days \subseteq Int
    BY NavigationAssumption
  <2>2. PlaceOK' = PlaceOK /\ WantedOK' = WantedOK
    BY <1>1 DEF Midnight, PlaceOK, WantedOK
  <2> QED
    BY <1>1, <2>1, <2>2 DEF Midnight, NavInv
<1>2. CASE UNCHANGED navigationVars
  BY <1>2 DEF navigationVars, NavInv, PlaceOK, WantedOK
<1> QED
  BY <1>1, <1>2, OpensKeeps, ChipKeeps, FilterKeeps, LinkKeeps, RerenderKeeps DEF NavigationNext

\* The view that answers the host's call or a control asks the server for just
\* what was chosen, on every day and for every range and text, unless midnight fell
\* between; and what a view asks for, the server takes (search.ts, dates.ts).
THEOREM FiltersKept == NavigationSpec => []FiltersAreKept
<1>1. NavigationInit => NavInv
  BY NavInvInit
<1>2. NavInv /\ [NavigationNext]_navigationVars => NavInv'
  BY NavInvNext
<1>3. NavInv => FiltersAreKept
  BY NavInvKept
<1> QED
  BY <1>1, <1>2, <1>3, PTL DEF NavigationSpec

-----------------------------------------------------------------------------
(* The search box.                                                         *)

\* What the box says is what the page was asked for or what the user gave; so a
\* timer that ends late emits nothing but what was typed.
BoxInv ==
  /\ B!SearchTypeOK /\ B!OnlyTypedIsSearched
  /\ B!Trim(text) = emitted \/ B!Trim(text) \in own

LEMMA BoxInit == B!SearchInit => BoxInv
<1> SUFFICES ASSUME B!SearchInit PROVE BoxInv
  OBVIOUS
<1>1. text \in B!Text /\ B!Trim(text) = value
  BY DEF B!SearchInit, B!Plain, B!Trim, B!Text
<1> QED
  BY <1>1, PagesAssumption DEF B!SearchInit, BoxInv, B!SearchTypeOK, B!OnlyTypedIsSearched

LEMMA BoxNext == BoxInv /\ [B!SearchNext]_boxVars => BoxInv'
<1> SUFFICES ASSUME BoxInv, [B!SearchNext]_boxVars PROVE BoxInv'
  OBVIOUS
<1> USE PagesAssumption
    DEF BoxInv, B!SearchTypeOK, B!OnlyTypedIsSearched, B!Plain, B!Trim, B!Text
<1>1. ASSUME NEW t \in B!Text, B!Type(t) PROVE BoxInv'
  BY <1>1 DEF B!Type, B!Shows
<1>2. CASE B!Fires
  BY <1>2 DEF B!Fires, B!Emits
<1>3. CASE B!Clear
  BY <1>3 DEF B!Clear, B!Emits
<1>4. ASSUME NEW w \in Words, B!Takes(w) PROVE BoxInv'
  <2>1. CASE w # emitted
    <3>1. /\ text' = B!Plain(w) /\ timer' = (timer \/ B!Plain(w) # text)
          /\ emitted' = w /\ own' = {} /\ value' = w /\ going' = Unset
          /\ UNCHANGED debounced
      BY <1>4, <2>1 DEF B!Takes, B!Rendered, B!Shows
    <3>2. timer' \in BOOLEAN
      BY <3>1
    <3> QED
      BY <3>1, <3>2
  <2>2. CASE w = emitted
    BY <1>4, <2>2 DEF B!Takes
  <2> QED
    BY <2>1, <2>2
<1>5. CASE B!Arrives
  BY <1>4, <1>5 DEF B!Arrives
<1>6. ASSUME NEW w \in Words, B!Outside(w) PROVE BoxInv'
  BY <1>4, <1>6 DEF B!Outside
<1>7. CASE UNCHANGED boxVars
  BY <1>7 DEF boxVars
<1> QED
  BY <1>1, <1>2, <1>3, <1>5, <1>6, <1>7 DEF B!SearchNext

\* An outside change of the search is never echoed back, whatever was being typed
\* or waiting in the debouncer, and the box knows what the list shows or is about
\* to show (SearchInput's effects).
THEOREM OnlyTyped == B!SearchSpec => []B!OnlyTypedIsSearched
<1>1. B!SearchInit => BoxInv
  BY BoxInit
<1>2. BoxInv /\ [B!SearchNext]_(B!searchVars) => BoxInv'
  BY BoxNext DEF boxVars, B!searchVars
<1>3. BoxInv => B!OnlyTypedIsSearched
  BY DEF BoxInv
<1> QED
  BY <1>1, <1>2, <1>3, PTL DEF B!SearchSpec

-----------------------------------------------------------------------------
\* A page asks for what the owner chose, and its box searches what he typed, in
\* whatever order the two move.
THEOREM ChoicesKept == PagesSpec => []ChoicesAreKept
<1>1. PagesInit => NavInv /\ BoxInv
  BY NavInvInit, BoxInit DEF PagesInit
<1>2. NavInv /\ BoxInv /\ [PagesNext]_<<navigationVars, boxVars>> => NavInv' /\ BoxInv'
  BY NavInvNext, BoxNext DEF PagesNext
<1>3. NavInv /\ BoxInv => ChoicesAreKept
  BY NavInvKept DEF ChoicesAreKept, BoxInv
<1> QED
  BY <1>1, <1>2, <1>3, PTL DEF PagesSpec
=============================================================================
