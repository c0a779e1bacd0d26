------------------------------- MODULE Budget -------------------------------
(***************************************************************************)
(* The accounting of one tool call: ExecutionBudget with runCodemode       *)
(* (src/codemode), and its twin RequestBudget with invokeWidgetTool        *)
(* (src/widgets).  Both count requests, admit a few of them at a time,     *)
(* charge the results against one size budget and stop everything at the   *)
(* first limit, at the deadline or when the tool call has its answer.      *)
(*                                                                         *)
(* Everything runs on one event loop, so code between two awaits is one    *)
(* step.  A request awaits its slot, then the dispatcher; a waiter whose   *)
(* promise was resolved or rejected has still to be resumed, and any other *)
(* request may run before it is.                                           *)
(***************************************************************************)
EXTENDS Naturals, FiniteSets, Sequences

CONSTANTS
  None,
  Calls,           \* the requests a script or a widget tool makes, each once
  Mode,            \* "search", "execute" or "widget"
  MaxRequests,     \* limits.maxRequests
  MaxConcurrency,  \* limits.maxConcurrency
  MaxChars,        \* limits.maxResponseChars
  MaxSpecCalls,    \* limits.maxSpecCalls
  Sizes            \* JSON sizes a result may have

ASSUME ConstantsAssumption ==
  /\ IsFiniteSet(Calls)
  /\ Mode \in {"search", "execute", "widget"}
  /\ MaxRequests \in Nat /\ MaxConcurrency \in Nat \ {0}
  /\ MaxChars \in Nat /\ MaxSpecCalls \in Nat
  /\ Sizes \subseteq Nat
  /\ None \notin {"script", "timeout", "requests", "responses", "spec", "finished"}

VARIABLES
  reason,     \* signal.reason, None while the budget is active
  requests,   \* #requests
  specCalls,  \* #specCalls
  inFlight,   \* #inFlight
  chars,      \* #responseChars
  waiters,    \* #waiters, dead closures included
  call,       \* call[c] is where request c stands
  outcome,    \* what settled the race: "script" or the reason of an abort
  answered,   \* the tool call has returned
  delivered   \* history: characters handed to the script

vars == <<reason, requests, specCalls, inFlight, chars, waiters, call, outcome,
          answered, delivered>>

Reasons == {"timeout", "requests", "responses", "spec", "finished"}
Places == {"idle", "waiting", "woken", "rejected", "flying", "delivered", "failed"}

In(place) == {c \in Calls : call[c] = place}

TypeOK ==
  /\ reason \in Reasons \cup {None}
  /\ requests \in Nat /\ specCalls \in Nat
  /\ inFlight \in Nat /\ chars \in Nat /\ delivered \in Nat
  /\ waiters \in Seq(Calls)
  /\ call \in [Calls -> Places]
  /\ outcome \in Reasons \cup {None, "script"}
  /\ answered \in BOOLEAN

Init ==
  /\ reason = None /\ outcome = None /\ answered = FALSE
  /\ requests = 0 /\ specCalls = 0 /\ inFlight = 0 /\ chars = 0 /\ delivered = 0
  /\ waiters = <<>>
  /\ call = [c \in Calls |-> "idle"]

-----------------------------------------------------------------------------
(* The signal and the queue of waiters.                                    *)

\* Mutant: an abort does not reject the promise that races with the script.
AbortSilently(r) ==
  /\ reason' = IF reason = None THEN r ELSE reason
  /\ UNCHANGED outcome

\* abort(): the first reason wins, and if the race is open it decides it.
Abort(r) ==
  /\ reason' = IF reason = None THEN r ELSE reason
  /\ outcome' = IF outcome = None THEN r ELSE outcome

\* Mutant: waiters do not listen to the signal.
NotRejected(f) == f

\* The abort listeners of the waiters f leaves waiting reject their promises.
Rejected(f) == [c \in Calls |-> IF f[c] = "waiting" THEN "rejected" ELSE f[c]]

\* Mutant: a released slot is announced to nobody.
NotWoken(f) == f

\* release(): the oldest waiter is resolved, to no effect if it was rejected.
Woken(f) ==
  IF waiters # <<>> /\ f[Head(waiters)] = "waiting"
  THEN [f EXCEPT ![Head(waiters)] = "woken"] ELSE f

\* Mutant: release() is not idempotent and runs twice.
ReleaseTwice ==
  /\ inFlight' = inFlight - 2
  /\ waiters' = IF waiters = <<>> THEN waiters ELSE Tail(waiters)

Release ==
  /\ inFlight' = inFlight - 1
  /\ waiters' = IF waiters = <<>> THEN waiters ELSE Tail(waiters)

\* Mutant: the comparison of the loop is off by one.
TakeOneSlotMore(c) ==
  \/ /\ inFlight > MaxConcurrency
     /\ call' = [call EXCEPT ![c] = "waiting"]
     /\ waiters' = Append(waiters, c)
     /\ UNCHANGED inFlight
  \/ /\ inFlight <= MaxConcurrency
     /\ call' = [call EXCEPT ![c] = "flying"]
     /\ inFlight' = inFlight + 1
     /\ UNCHANGED waiters

\* One turn of acquireSlot's loop while the budget is active.
TakeSlot(c) ==
  \/ /\ inFlight >= MaxConcurrency
     /\ call' = [call EXCEPT ![c] = "waiting"]
     /\ waiters' = Append(waiters, c)
     /\ UNCHANGED inFlight
  \/ /\ inFlight < MaxConcurrency
     /\ call' = [call EXCEPT ![c] = "flying"]
     /\ inFlight' = inFlight + 1
     /\ UNCHANGED waiters

Fails(c) == call' = [call EXCEPT ![c] = "failed"]

-----------------------------------------------------------------------------
(* Requests and spec() calls.                                              *)

\* A request is counted, then validated, then asks for its slot.  A widget
\* tool validates before it counts, so its refused requests leave no trace.
Request(c) ==
  /\ Mode # "search" /\ call[c] = "idle" /\ reason = None
  /\ requests < MaxRequests
  /\ requests' = requests + 1
  /\ \/ TakeSlot(c)
     \/ Mode = "execute" /\ Fails(c) /\ UNCHANGED <<inFlight, waiters>>
  /\ UNCHANGED <<reason, specCalls, chars, outcome, answered, delivered>>

RequestOverLimit(c) ==
  /\ Mode # "search" /\ call[c] = "idle" /\ reason = None
  /\ requests >= MaxRequests
  /\ Abort("requests")
  /\ call' = Rejected([call EXCEPT ![c] = "failed"])
  /\ UNCHANGED <<requests, specCalls, inFlight, chars, waiters, answered, delivered>>

RequestAfterAbort(c) ==
  /\ Mode # "search" /\ call[c] = "idle" /\ reason # None
  /\ Fails(c)
  /\ UNCHANGED <<reason, requests, specCalls, inFlight, chars, waiters, outcome,
                 answered, delivered>>

\* Mutant: a resolved waiter takes its slot without asking the signal again.
ResumeUnchecked(c) ==
  /\ \/ call[c] = "woken" /\ TakeSlot(c)
     \/ call[c] = "rejected" /\ Fails(c) /\ UNCHANGED <<inFlight, waiters>>
  /\ UNCHANGED <<reason, requests, specCalls, chars, outcome, answered, delivered>>

\* A waiter goes on: a resolved one checks the signal and the slots again.
Resume(c) ==
  /\ \/ call[c] = "woken" /\ reason = None /\ TakeSlot(c)
     \/ /\ (call[c] = "woken" /\ reason # None) \/ call[c] = "rejected"
        /\ Fails(c)
        /\ UNCHANGED <<inFlight, waiters>>
  /\ UNCHANGED <<reason, requests, specCalls, chars, outcome, answered, delivered>>

\* The dispatcher's result arrives while the budget is active: it is charged
\* and delivered, or it exceeds the budget and ends the execution.
Deliver(c, n) ==
  /\ call[c] = "flying" /\ reason = None
  /\ chars' = chars + n
  /\ Release
  /\ \/ /\ chars + n <= MaxChars
        /\ call' = Woken([call EXCEPT ![c] = "delivered"])
        /\ delivered' = delivered + n
        /\ UNCHANGED <<reason, outcome>>
     \/ /\ chars + n > MaxChars
        /\ Abort("responses")
        /\ call' = Woken(Rejected([call EXCEPT ![c] = "failed"]))
        /\ UNCHANGED delivered
  /\ UNCHANGED <<requests, specCalls, answered>>

\* The dispatcher fails, its result is not serializable, or the budget was
\* aborted meanwhile.
DispatchFails(c) ==
  /\ call[c] = "flying"
  /\ Release
  /\ call' = Woken([call EXCEPT ![c] = "failed"])
  /\ UNCHANGED <<reason, requests, specCalls, chars, outcome, answered, delivered>>

\* codemode.spec(); past an abort it only throws.
SpecCall ==
  /\ Mode # "widget" /\ reason = None
  /\ \/ /\ specCalls < MaxSpecCalls
        /\ specCalls' = specCalls + 1
        /\ UNCHANGED <<reason, outcome, call>>
     \/ /\ specCalls >= MaxSpecCalls
        /\ Abort("spec")
        /\ call' = Rejected(call)
        /\ UNCHANGED specCalls
  /\ UNCHANGED <<requests, inFlight, chars, waiters, answered, delivered>>

-----------------------------------------------------------------------------
(* The tool call around them: Promise.race([run, stopped]) and its finally. *)

Deadline ==
  /\ ~answered /\ reason = None
  /\ Abort("timeout")
  /\ call' = Rejected(call)
  /\ UNCHANGED <<requests, specCalls, inFlight, chars, waiters, answered, delivered>>

\* The script returns or throws, possibly leaving requests behind.
ScriptEnds ==
  /\ outcome = None
  /\ outcome' = "script"
  /\ UNCHANGED <<reason, requests, specCalls, inFlight, chars, waiters, call,
                 answered, delivered>>

Finish ==
  /\ outcome # None /\ ~answered
  /\ answered' = TRUE
  /\ Abort("finished")
  /\ call' = Rejected(call)
  /\ UNCHANGED <<requests, specCalls, inFlight, chars, waiters, delivered>>

Settle(c) == (\E n \in Sizes : Deliver(c, n)) \/ DispatchFails(c)

Next ==
  \/ \E c \in Calls : \/ Request(c) \/ RequestOverLimit(c) \/ RequestAfterAbort(c)
                      \/ Resume(c) \/ Settle(c)
  \/ SpecCall \/ Deadline \/ ScriptEnds \/ Finish

Spec == Init /\ [][Next]_vars

\* The event loop resumes what it can, and an upstream request always ends: it
\* has a timeout of its own.  No deadline helps.
FairSpec == Spec /\ \A c \in Calls : WF_vars(Resume(c)) /\ WF_vars(Settle(c))

-----------------------------------------------------------------------------
(* Properties.                                                             *)

\* However the requests of a script interleave, they never exceed a limit:
\* no more upstream requests at once, in all, and no more characters handed
\* over (acquireSlot, countRequest, chargeResponse).
WithinLimits ==
  /\ Cardinality(In("flying")) <= MaxConcurrency
  /\ requests <= MaxRequests
  /\ delivered <= MaxChars

\* No wake-up is lost: while a request waits, the slots are all taken or
\* promised to a waiter that has yet to run, also when a new request overtakes
\* that waiter and it has to wait again (acquireSlot's loop).
NoLostWakeup ==
  reason = None /\ In("waiting") # {}
    => inFlight + Cardinality(In("woken")) >= MaxConcurrency

\* Once the signal has a reason, a limit, the deadline or the end of the tool
\* call, no request leaves for Qasir and none is handed a result, even if it
\* had been woken or was in flight at that moment.
NothingAfterAbort ==
  [][reason # None => \A c \in Calls : call'[c] \in {"flying", "delivered"} => call[c] = call'[c]]_vars

\* After the tool call has answered nothing of it is left running: the signal
\* is aborted and no request of it waits for a slot.
NothingLeftBehind == answered => reason # None /\ In("waiting") = {}

\* Every request of a script ends, without the deadline's help.
EveryCallSettles ==
  \A c \in Calls : call[c] # "idle" ~> call[c] \in {"delivered", "failed"}

\* The tool call answers by its deadline whatever the script does: all it takes
\* is that the timer fires and that the race, once decided, is left.
TheToolAnswers == WF_vars(Deadline) /\ WF_vars(Finish) => <>answered
=============================================================================
