---------------------------- MODULE WorkerProofs ----------------------------
(***************************************************************************)
(* Theorems about Dispatch, OwnerGate, the Worker of both, and Login.      *)
(*                                                                         *)
(* The first three are for any calls and operations, any browsers,         *)
(* networks, clients and simultaneous requests, any limits, secrets and    *)
(* deployments.                                                            *)
(*                                                                         *)
(* Dispatch: every step of a call replaces the record of that call by one  *)
(* that is well typed and at home (CallStepOK); what is proved of the      *)
(* dispatcher follows from that and from what a report leaves behind       *)
(* (RetiredInv).                                                           *)
(*                                                                         *)
(* OwnerGate: its properties rest on three invariants.  What a cookie and  *)
(* a request stand for was proved (ProofInv), what a token may do was      *)
(* ticked (ConsentInv), and the count of a network and the guesses that    *)
(* are about to be counted for it are guesses it made (GuessInv).          *)
(*                                                                         *)
(* Login, for any Set-Cookie lines, any answers of Qasir, logins of any    *)
(* length, and any MAX_COOKIES.                                            *)
(*                                                                         *)
(* The jar is a function of the history (JarOK): every cookie in it is the *)
(* one of a line that counts and that no later line replaced, and unless   *)
(* the jar was too small each such line that has not ended has its cookie. *)
(* That says of the jar alone what CookiesAreDue says of every host.       *)
(***************************************************************************)
EXTENDS Worker, Login, FiniteSetTheorems, TLAPS

-----------------------------------------------------------------------------
(* The dispatcher.                                                         *)

\* A call that has sent something did so with a token, at the host of its
\* operation, and reports a rejection only of an operation that sends the token.
CallOK(x) ==
  /\ x.pc \in {"lookup", "found"} => x.op \in Ops
  /\ x.pc \in {"wait", "body", "report", "mark"} =>
       x.op \in Ops /\ x.tok \in Tokens /\ x.at = Host[x.op]
  /\ x.pc \in {"report", "mark"} => TokenAuth(x.op)

CallInv == \A c \in Calls : CallOK(call[c])

\* A retired token is neither the stored one nor a static one in use.
RetiredInv ==
  \A p \in Providers : stored \notin dead[p] /\ (Static \in dead[p] => expired[p])

DispatchInv == TypeOK /\ CallInv /\ RetiredInv

\* The steps that belong to one call and leave the session alone, and the two of
\* a report.
Step(c) ==
  \/ \E o \in Ops : Start(c, o)
  \/ Refuse(c) \/ Lookup(c) \/ Prepare(c) \/ Upstream(c)
  \/ CallerAborts(c) \/ Deadline(c) \/ Aborted(c) \/ ReportLost(c)
Reports(c) == Report(c) \/ Mark(c)

-----------------------------------------------------------------------------
LEMMA ZerosInRange == 0 \in 0 .. MaxRedirects /\ 0 \in 0 .. MaxBytes
  BY ConstantsAssumption

\* A call that ends keeps nothing.
LEMMA EndsOK ==
  ASSUME NEW c \in Calls, NEW code \in Codes \cup {"ok"}, Ends(c, code)
  PROVE  \E r \in Call : Set(c, r) /\ CallOK(r) /\ r.pc = "done"
<1> DEFINE r == [Idle EXCEPT !.pc = "done", !.result = code]
<1>1. r \in Call /\ r.pc = "done"
  BY ZerosInRange DEF Call, Idle
<1>2. CallOK(r)
  BY DEF CallOK, Idle
<1> QED
  BY <1>1, <1>2 DEF Ends

LEMMA AbortCodeOK == ASSUME NEW c PROVE AbortCode(c) \in Codes
  BY DEF AbortCode, Codes

\* What departs has been looked at by guardedFetch.
LEMMA DepartOK ==
  ASSUME NEW c \in Calls, NEW r \in Call, r.op \in Ops, r.tok \in Tokens, r.at = Host[r.op],
         Depart(c, r)
  PROVE  \E s \in Call : Set(c, s) /\ CallOK(s) /\ (s.pc = "wait" => ~(r.cut \/ r.late))
<1>1. CASE r.cut \/ r.late
  BY <1>1, EndsOK, AbortCodeOK DEF Depart
<1>2. CASE ~(r.cut \/ r.late)
  <2> DEFINE s == [r EXCEPT !.pc = "wait"]
  <2>1. s \in Call /\ CallOK(s)
    BY DEF Call, CallOK
  <2> QED
    BY <1>2, <2>1 DEF Depart
<1> QED
  BY <1>1, <1>2

LEMMA RejectedOK ==
  ASSUME NEW c \in Calls, call[c] \in Call, CallOK(call[c]), call[c].pc \in {"wait", "body"},
         Rejected(c)
  PROVE  \E s \in Call : Set(c, s) /\ CallOK(s) /\ s.pc \in {"report", "done"}
<1>1. CASE TokenAuth(call[c].op)
  <2> DEFINE s == [call[c] EXCEPT !.pc = "report", !.hop = 0]
  <2>1. s \in Call /\ CallOK(s) /\ s.pc = "report"
    BY <1>1, ZerosInRange DEF Call, CallOK
  <2> QED
    BY <1>1, <2>1 DEF Rejected
<1>2. CASE ~TokenAuth(call[c].op)
  BY <1>2, EndsOK DEF Rejected, Codes
<1> QED
  BY <1>1, <1>2

\* A request departs only if no signal has fired.
Unfired(c, s) ==
  s.pc = "wait" /\ (call[c].pc # "wait" \/ s.hop # call[c].hop) => ~(call[c].cut \/ call[c].late)

\* Each step of a call gives it a record that is well typed and at home, and
\* what departs departs before the signals.
LEMMA CallStepOK ==
  ASSUME NEW c \in Calls, call[c] \in Call, CallOK(call[c]), stored \in Tokens \cup {None}, Step(c)
  PROVE  \E s \in Call : Set(c, s) /\ CallOK(s) /\ Unfired(c, s)
<1> USE DEF Unfired
<1>1. ASSUME NEW o \in Ops, Start(c, o) PROVE \E s \in Call : Set(c, s) /\ CallOK(s) /\ Unfired(c, s)
  <2> DEFINE s == [call[c] EXCEPT !.pc = "lookup", !.op = o]
  <2>1. s \in Call /\ CallOK(s) /\ s.pc = "lookup"
    BY DEF Call, CallOK
  <2> QED
    BY <1>1, <2>1 DEF Start
<1>2. CASE Refuse(c)
  BY <1>2, EndsOK DEF Refuse, Codes
<1>3. CASE Lookup(c)
  <2>1. PICK tok \in {stored, None} : Set(c, [call[c] EXCEPT !.pc = "found", !.found = tok])
    BY <1>3 DEF Lookup
  <2> DEFINE s == [call[c] EXCEPT !.pc = "found", !.found = tok]
  <2>2. s \in Call /\ CallOK(s) /\ s.pc = "found"
    BY <1>3 DEF Lookup, Call, CallOK
  <2> QED
    BY <2>1, <2>2
<1>12. CASE Prepare(c)
  <2> DEFINE o == call[c].op
             static == IF expired[ProviderOf[c]] THEN None ELSE Static
             tok == IF call[c].found # None THEN call[c].found ELSE static
             r == [call[c] EXCEPT !.found = None, !.tok = tok, !.at = Host[o]]
  <2>1. call[c].pc = "found" /\ o \in Ops /\ Host[o] \in Hosts
    BY <1>12, ConstantsAssumption DEF Prepare, CallOK
  <2>2. tok \in Tokens \cup {None}
    BY ConstantsAssumption DEF Call
  <2>3. \/ Ends(c, "QASIR_AUTH_EXPIRED")
        \/ tok # None /\ Depart(c, r)
    BY <1>12 DEF Prepare
  <2>4. CASE Ends(c, "QASIR_AUTH_EXPIRED")
    BY <2>4, EndsOK DEF Codes
  <2>5. CASE tok # None /\ Depart(c, r)
    <3> HIDE DEF tok
    <3>1. r \in Call /\ r.op = o /\ r.tok = tok /\ r.at = Host[o]
          /\ r.cut = call[c].cut /\ r.late = call[c].late
      BY <2>1, <2>2 DEF Call
    <3> HIDE DEF r
    <3> QED
      BY <2>1, <2>2, <2>5, <3>1, DepartOK
  <2> QED
    BY <2>3, <2>4, <2>5
<1>13. CASE ReportLost(c)
  <2> DEFINE s == [call[c] EXCEPT !.pc = "mark"]
  <2>1. s \in Call /\ CallOK(s) /\ s.pc = "mark"
    BY <1>13 DEF ReportLost, Call, CallOK
  <2> QED
    BY <1>13, <2>1 DEF ReportLost
<1>4. ASSUME NEW u \in Urls, Redirect(c, u)
      PROVE  \E s \in Call : Set(c, s) /\ CallOK(s) /\ Unfired(c, s)
  <2>1. call[c].pc = "wait" /\ call[c].op \in Ops /\ call[c].tok \in Tokens
        /\ call[c].at = Host[call[c].op]
    BY <1>4 DEF Redirect, CallOK
  <2>2. CASE Rejected(c)
    BY <2>1, <2>2, RejectedOK
  <2>3. CASE Follows(c, u) /\ Depart(c, [call[c] EXCEPT !.at = u.host, !.hop = @ + 1])
    <3> DEFINE r == [call[c] EXCEPT !.at = u.host, !.hop = @ + 1]
    <3>0. call[c].hop + 1 \in 0 .. MaxRedirects /\ u.host \in Hosts /\ u.host = call[c].at
      <4>1. call[c].hop \in 0 .. MaxRedirects
        BY DEF Call
      <4>2. call[c].hop < MaxRedirects /\ u.host \in Hosts /\ u.host = call[c].at
        BY <2>3 DEF Follows
      <4> QED
        BY <4>1, <4>2, ConstantsAssumption
    <3>1. r \in Call /\ r.op = call[c].op /\ r.tok = call[c].tok /\ r.at = Host[call[c].op]
          /\ r.cut = call[c].cut /\ r.late = call[c].late
      BY <2>1, <3>0 DEF Call
    <3> HIDE DEF r
    <3>2. Depart(c, r)
      BY <2>3 DEF r
    <3> QED
      BY <2>1, <3>1, <3>2, DepartOK
  <2>4. CASE Ends(c, "REDIRECT_NOT_ALLOWED")
    BY <2>4, EndsOK DEF Codes
  <2> QED
    BY <1>4, <2>2, <2>3, <2>4 DEF Redirect
<1>5. CASE RedirectNowhere(c) \/ Denied(c) \/ BodyEnds(c)
  BY <1>5, EndsOK DEF RedirectNowhere, Denied, BodyEnds, Codes
<1>6. CASE Unauthorized(c)
  BY <1>6, RejectedOK DEF Unauthorized
<1>7. CASE Respond(c)
  <2>1. ASSUME NEW st \in {"ok", "error", "redirect"},
               Set(c, [call[c] EXCEPT !.pc = "body", !.status = st, !.hop = 0])
        PROVE  \E s \in Call : Set(c, s) /\ CallOK(s) /\ Unfired(c, s)
    <3> DEFINE s == [call[c] EXCEPT !.pc = "body", !.status = st, !.hop = 0]
    <3>1. s \in Call /\ CallOK(s) /\ s.pc = "body"
      BY <1>7, ZerosInRange DEF Respond, Call, CallOK
    <3> QED
      BY <2>1, <3>1
  <2> QED
    BY <1>7, <2>1, EndsOK DEF Respond, Codes
<1>8. CASE FetchFails(c) \/ BodyFails(c) \/ Aborted(c)
  BY <1>8, EndsOK, AbortCodeOK DEF FetchFails, BodyFails, Aborted, Codes
<1>9. ASSUME NEW n \in 1 .. MaxBytes + 1, Chunk(c, n)
      PROVE  \E s \in Call : Set(c, s) /\ CallOK(s) /\ Unfired(c, s)
  <2>1. CASE call[c].got + n > MaxBytes
    BY <1>9, <2>1, EndsOK DEF Chunk, Codes
  <2>2. CASE ~(call[c].got + n > MaxBytes)
    <3> DEFINE s == [call[c] EXCEPT !.got = @ + n]
    <3>1. s \in Call /\ CallOK(s) /\ s.pc = "body"
      BY <1>9, <2>2, ConstantsAssumption DEF Chunk, Call, CallOK
    <3> QED
      BY <1>9, <2>2, <3>1 DEF Chunk
  <2> QED
    BY <2>1, <2>2
<1>10. CASE CallerAborts(c)
  <2> DEFINE s == [call[c] EXCEPT !.cut = TRUE]
  <2>1. s \in Call /\ CallOK(s) /\ s.pc = call[c].pc /\ s.hop = call[c].hop
    BY DEF Call, CallOK
  <2> QED
    BY <1>10, <2>1 DEF CallerAborts
<1>11. CASE Deadline(c)
  <2> DEFINE s == [call[c] EXCEPT !.late = TRUE]
  <2>1. s \in Call /\ CallOK(s) /\ s.pc = call[c].pc /\ s.hop = call[c].hop
    BY DEF Call, CallOK
  <2> QED
    BY <1>11, <2>1 DEF Deadline
<1> HIDE DEF Unfired
<1> QED
  BY <1>1, <1>2, <1>3, <1>4, <1>5, <1>6, <1>7, <1>8, <1>9, <1>10, <1>11,
     <1>12, <1>13 DEF Step, Upstream

\* None of these steps touches the session.
LEMMA StepKeepsSession ==
  ASSUME NEW c \in Calls, Step(c)
  PROVE  NoSession
BY DEF Step, Start, Refuse, Lookup, Prepare, Upstream, Redirect, RedirectNowhere, Unauthorized,
       Denied, Respond, FetchFails, Chunk, BodyEnds, BodyFails, CallerAborts, Deadline, Aborted,
       ReportLost

-----------------------------------------------------------------------------
LEMMA DispatchInit == Init => DispatchInv
  BY ConstantsAssumption
  DEF Init, DispatchInv, TypeOK, CallInv, RetiredInv, CallOK, Call, Idle

\* The invariant is inductive.
LEMMA DispatchNext == DispatchInv /\ [Next]_vars => DispatchInv'
<1> SUFFICES ASSUME DispatchInv, [Next]_vars PROVE DispatchInv'
  OBVIOUS
<1>1. /\ stored \in Tokens \cup {None} /\ expired \in [Providers -> BOOLEAN]
      /\ call \in [Calls -> Call] /\ saves \in Nat /\ dead \in [Providers -> SUBSET Tokens]
      /\ \A c \in Calls : CallOK(call[c])
      /\ RetiredInv
  BY DEF DispatchInv, TypeOK, CallInv
<1>2. ASSUME NEW c \in Calls, NEW s \in Call, Set(c, s), CallOK(s)
      PROVE  call' \in [Calls -> Call] /\ CallInv'
  BY <1>1, <1>2 DEF Set, CallInv
<1>3. ASSUME NEW c \in Calls, Step(c) PROVE DispatchInv'
  <2>1. PICK s \in Call : Set(c, s) /\ CallOK(s)
    BY <1>1, <1>3, CallStepOK
  <2>2. NoSession
    BY <1>3, StepKeepsSession
  <2> QED
    BY <1>1, <1>2, <2>1, <2>2 DEF DispatchInv, TypeOK, RetiredInv, NoSession
<1>4. ASSUME NEW c \in Calls, Report(c) PROVE DispatchInv'
  <2> DEFINE s == [call[c] EXCEPT !.pc = "mark"]
  <2>1. s \in Call /\ CallOK(s) /\ Set(c, s)
    BY <1>1, <1>4 DEF Report, Call, CallOK
  <2> HIDE DEF s
  <2>2. call' \in [Calls -> Call] /\ CallInv'
    BY <1>2, <2>1
  <2>3. stored' \in {stored, None} /\ UNCHANGED <<expired, saves, dead>>
    BY <1>4 DEF Report, Cleared
  <2>4. \A p \in Providers : None \notin dead[p]
    BY <1>1, ConstantsAssumption
  <2> QED
    BY <1>1, <2>2, <2>3, <2>4 DEF DispatchInv, TypeOK, RetiredInv
<1>8. ASSUME NEW c \in Calls, Mark(c) PROVE DispatchInv'
  <2> DEFINE p == ProviderOf[c]  tok == call[c].tok
  <2>1. p \in Providers /\ tok \in Tokens
    BY <1>1, <1>8, ConstantsAssumption DEF Mark, CallOK
  <2>2. call' \in [Calls -> Call] /\ CallInv'
    BY <1>2, <1>8, EndsOK DEF Mark, Codes
  <2>3. expired' = [expired EXCEPT ![p] = @ \/ tok = Static] /\ UNCHANGED <<stored, saves>>
    BY <1>8 DEF Mark, StaticAfter
  <2>4. dead' = [dead EXCEPT ![p] = IF stored = tok THEN @ ELSE @ \cup {tok}]
    BY <1>8 DEF Mark
  <2>5. TypeOK'
    BY <1>1, <2>1, <2>2, <2>3, <2>4 DEF TypeOK
  <2>6. ASSUME NEW q \in Providers
        PROVE  stored \notin dead'[q] /\ (Static \in dead'[q] => expired'[q])
    <3>1. CASE q = p
      BY <1>1, <2>1, <2>3, <2>4, <3>1 DEF RetiredInv
    <3>2. CASE q # p
      BY <1>1, <2>1, <2>3, <2>4, <3>2 DEF RetiredInv
    <3> QED
      BY <3>1, <3>2
  <2> QED
    BY <2>2, <2>3, <2>5, <2>6 DEF DispatchInv, RetiredInv
<1>5. ASSUME NEW t \in Tokens, Connects(t) PROVE DispatchInv'
  BY <1>1, <1>5, ConstantsAssumption DEF Connects, DispatchInv, TypeOK, CallInv, RetiredInv
<1>6. CASE Disconnects
  BY <1>1, <1>6, ConstantsAssumption DEF Disconnects, DispatchInv, TypeOK, CallInv, RetiredInv
<1>7. CASE UNCHANGED vars
  BY <1>1, <1>7 DEF vars, DispatchInv, TypeOK, CallInv, RetiredInv
<1> QED
  BY <1>3, <1>4, <1>5, <1>6, <1>7, <1>8 DEF Next, Step

LEMMA DispatchInvariant == Spec => []DispatchInv
  BY DispatchInit, DispatchNext, PTL DEF Spec

-----------------------------------------------------------------------------
\* Every reachable state of the dispatcher is well typed; in particular no chain
\* of redirects is longer than MaxRedirects and no body than MaxBytes.
THEOREM DispatchTypeCorrect == Spec => []TypeOK
<1>1. DispatchInv => TypeOK
  BY DEF DispatchInv
<1> QED
  BY <1>1, DispatchInvariant, PTL

\* A request's credentials are shown to no host but its operation's, however
\* long the chain of redirects.
THEOREM StaysHome == Spec => []CredentialsStayHome
<1>1. DispatchInv => CredentialsStayHome
  BY DEF DispatchInv, CallInv, CallOK, CredentialsStayHome
<1> QED
  BY <1>1, DispatchInvariant, PTL

\* Nothing departs once the caller's signal or the deadline has fired.
THEOREM NothingLate == Spec => NothingSentAfterAbort
<1> DEFINE A == \A c \in Calls :
                  /\ call'[c].pc = "wait"
                  /\ call[c].pc # "wait" \/ call'[c].hop # call[c].hop
                  => ~(call[c].cut \/ call[c].late)
<1>1. DispatchInv /\ [Next]_vars => [A]_vars
  <2> SUFFICES ASSUME DispatchInv, Next PROVE A
    OBVIOUS
  <2>1. call \in [Calls -> Call] /\ stored \in Tokens \cup {None} /\ \A c \in Calls : CallOK(call[c])
    BY DEF DispatchInv, TypeOK, CallInv
  <2>2. ASSUME NEW d \in Calls, Step(d) PROVE A
    <3>1. PICK s \in Call : Set(d, s) /\ Unfired(d, s)
      BY <2>1, <2>2, CallStepOK
    <3> QED
      BY <2>1, <3>1 DEF Set, Unfired
  <2>3. ASSUME NEW d \in Calls, Reports(d) PROVE A
    <3>1. PICK s : Set(d, s) /\ s.pc # "wait"
      <4>1. CASE Mark(d)
        BY <4>1, EndsOK DEF Mark, Codes
      <4>2. CASE Report(d)
        <5>1. [call[d] EXCEPT !.pc = "mark"].pc = "mark"
          BY <2>1 DEF Call
        <5> QED
          BY <4>2, <5>1 DEF Report
      <4> QED
        BY <2>3, <4>1, <4>2 DEF Reports
    <3> QED
      BY <2>1, <3>1 DEF Set
  <2>4. CASE UNCHANGED call
    BY <2>4
  <2> QED
    BY <2>2, <2>3, <2>4 DEF Next, Step, Reports, Connects, Disconnects
<1> QED
  BY <1>1, DispatchInvariant, PTL DEF Spec, NothingSentAfterAbort

\* A rejection ends the use of its token and of nothing else, whatever reads and
\* reports of other calls fall between a call's steps.
THEOREM RejectionsExact == Spec => RejectionsAreExact
<1>1. DispatchInv /\ [Next]_vars
        => [\A c \in Calls : OnlyTheRejectedSession(c) /\ RetiredToken(c)]_vars
  <2> SUFFICES ASSUME DispatchInv, Next, NEW c \in Calls
               PROVE  OnlyTheRejectedSession(c) /\ RetiredToken(c)
    OBVIOUS
  <2>1. call \in [Calls -> Call] /\ stored \in Tokens \cup {None} /\ \A d \in Calls : CallOK(call[d])
    BY DEF DispatchInv, TypeOK, CallInv
  <2>2. OnlyTheRejectedSession(c)
    <3> SUFFICES ASSUME call'[c] # call[c], stored # None, stored' = None
                 PROVE  stored = call[c].tok /\ TokenAuth(call[c].op)
      BY DEF OnlyTheRejectedSession
    <3>1. ASSUME NEW d \in Calls, Step(d) \/ Mark(d) PROVE FALSE
      BY <3>1, StepKeepsSession DEF NoSession, Mark
    <3>2. ASSUME NEW d \in Calls, Report(d)
          PROVE  d = c /\ stored = call[d].tok /\ TokenAuth(call[d].op)
      BY <2>1, <3>2 DEF Report, Cleared, CallOK, Set
    <3> QED
      BY <3>1, <3>2 DEF Next, Step, Connects, Disconnects
  <2> DEFINE p == ProviderOf[c]
  <2>3. p \in Providers /\ stored \notin dead[p] /\ (Static \in dead[p] => expired[p])
        /\ None \notin dead[p]
    BY ConstantsAssumption DEF DispatchInv, TypeOK, RetiredInv
  <2>4. ASSUME call'[c] # call[c] PROVE Step(c) \/ Reports(c)
    <3>1. ASSUME NEW d \in Calls, Step(d) PROVE d = c
      <4>1. PICK s \in Call : Set(d, s)
        BY <2>1, <3>1, CallStepOK
      <4> QED
        BY <2>1, <2>4, <4>1 DEF Set
    <3>2. ASSUME NEW d \in Calls, Reports(d) PROVE d = c
      BY <2>1, <2>4, <3>2 DEF Reports, Report, Mark, Ends, Set
    <3> QED
      BY <2>4, <3>1, <3>2 DEF Next, Step, Reports, Connects, Disconnects
  <2>5. ASSUME call[c].pc = "lookup", call'[c].pc = "found"
        PROVE  call'[c].found \notin dead[p]
    <3>1. Lookup(c)
      <4>1. Step(c)
        BY <2>4, <2>5 DEF Reports, Report, Mark
      <4>2. ~(Refuse(c) \/ Prepare(c) \/ Upstream(c) \/ Aborted(c) \/ ReportLost(c))
            /\ \A o \in Ops : ~Start(c, o)
        BY <2>5 DEF Refuse, Start, Prepare, Aborted, ReportLost, Upstream, Redirect,
                    RedirectNowhere, Unauthorized, Denied, Respond, FetchFails, Chunk,
                    BodyEnds, BodyFails
      <4>3. ~CallerAborts(c) /\ ~Deadline(c)
        BY <2>1, <2>5 DEF CallerAborts, Deadline, Set, Call
      <4> QED
        BY <4>1, <4>2, <4>3 DEF Step
    <3>2. PICK tok \in {stored, None} : Set(c, [call[c] EXCEPT !.pc = "found", !.found = tok])
      BY <3>1 DEF Lookup
    <3>3. call'[c].found = tok
      BY <2>1, <3>2 DEF Set, Call
    <3> QED
      BY <2>3, <3>2, <3>3
  <2>6. ASSUME call[c].pc = "found", call'[c].pc = "wait", call'[c].tok \in dead[p]
        PROVE  call'[c].tok = call[c].found
    <3>1. Prepare(c)
      <4>1. Step(c)
        BY <2>4, <2>6 DEF Reports, Report, Mark
      <4>2. ~(Refuse(c) \/ Lookup(c) \/ Upstream(c) \/ Aborted(c) \/ ReportLost(c) \/ Deadline(c))
            /\ \A o \in Ops : ~Start(c, o)
        BY <2>6 DEF Refuse, Start, Lookup, Aborted, ReportLost, Deadline, Upstream, Redirect,
                    RedirectNowhere, Unauthorized, Denied, Respond, FetchFails, Chunk,
                    BodyEnds, BodyFails
      <4>3. ~CallerAborts(c)
        BY <2>1, <2>6 DEF CallerAborts, Set, Call
      <4> QED
        BY <4>1, <4>2, <4>3 DEF Step
    <3> DEFINE static == IF expired[p] THEN None ELSE Static
               tok == IF call[c].found # None THEN call[c].found ELSE static
    <3>2. \A code : ~Ends(c, code)
      BY <2>1, <2>6 DEF Ends, Set, Idle
    <3>3. Depart(c, [call[c] EXCEPT !.found = None, !.tok = tok, !.at = Host[call[c].op]])
      BY <3>1, <3>2 DEF Prepare
    <3>4. call'[c].tok = tok
      BY <2>1, <3>2, <3>3 DEF Depart, Set, Call
    <3> QED
      BY <2>3, <2>6, <3>4
  <2> QED
    BY <2>2, <2>5, <2>6 DEF RetiredToken
<1> QED
  BY <1>1, DispatchInvariant, PTL DEF Spec, RejectionsAreExact

-----------------------------------------------------------------------------
(* The owner's pages.                                                      *)

\* A request under way says where it comes from, under which secrets, and,
\* where it is about to grant access, for whom.
Placed ==
  \A r \in Requests :
    /\ req[r].pc # "idle" => req[r].from \in Browsers /\ req[r].under \in Rotations
    /\ req[r].pc \in {"peek", "compare", "count"} => req[r].kind # "owner"
    /\ req[r].pc = "grant" => req[r].kind = "authorize"
    /\ req[r].kind = "authorize" => req[r].client \in Clients

\* A cookie was given to a browser that had proved itself, and a request that
\* got past the password comes from one.
ProofInv ==
  /\ \A b \in Browsers : jar[b] # Absent => <<b, jar[b]>> \in proved
  /\ OwnerActsAreProved

\* What is granted was ticked, and what a token holds was ticked for its client.
ConsentInv ==
  /\ \A r \in Requests : req[r].granted \subseteq req[r].ticked
  /\ \A k \in Clients : token[k] \subseteq consented[k]

\* How many requests from network n stand at pc.
At(q, pc, n) == {r \in Requests : q[r].pc = pc /\ NetworkOf[q[r].from] = n}
Num(q, pc, n) == Cardinality(At(q, pc, n))

\* The guesses a network made in this window were counted, wait to be counted, or
\* their count was lost.  Once its bucket is full no further request passes the
\* peek, so those that compare now are the last.
GuessInv ==
  \A n \in Networks :
    /\ failures[n] + Num(req, "count", n) <= wrong[n]
    /\ failures[n] < MaxFailures => wrong[n] <= failures[n] + Num(req, "count", n) + died[n]
    /\ failures[n] = MaxFailures =>
         wrong[n] + Num(req, "compare", n) <= MaxFailures + Cardinality(Requests) - 1 + died[n]

-----------------------------------------------------------------------------
(* Types.                                                                  *)

\* Zero counts a failure and numbers the first secrets.
LEMMA ZeroFailures == 0 \in 0 .. MaxFailures /\ 0 \in Rotations
  BY GateAssumption DEF Rotations

\* A count of failures stays in its range (Count).
LEMMA NextFailure ==
  ASSUME NEW f \in 0 .. MaxFailures
  PROVE  (IF f < MaxFailures THEN f + 1 ELSE f) \in 0 .. MaxFailures
  BY GateAssumption

\* Where a request is not.
LEMMA NoRequestOK == NoRequest \in Request
  BY ZeroFailures DEF NoRequest, Request

\* What is granted are scopes, and scopes that were ticked.
LEMMA GrantedOK ==
  ASSUME NEW k \in Clients, NEW ticked
  PROVE  Granted(k, ticked) \subseteq Scopes /\ Granted(k, ticked) \subseteq ticked
  BY GateAssumption DEF Granted, Offered, Scopes

LEMMA InitTyped == GateInit => GateTypeOK /\ Placed
<1> SUFFICES ASSUME GateInit PROVE GateTypeOK /\ Placed
  OBVIOUS
<1>1. GateTypeOK
  BY ZeroFailures, NoRequestOK DEF GateInit, GateTypeOK
<1>2. Placed
  BY DEF GateInit, Placed, NoRequest
<1> QED
  BY <1>1, <1>2

\* The conjunct of GateTypeOK about requests, kept together with Placed.
RequestsTyped == req \in [Requests -> Request] /\ Placed

\* Each action puts one request where a request may be.
LEMMA RequestStep ==
  ASSUME GateTypeOK, Placed, GateNext
  PROVE  RequestsTyped'
<1> DEFINE Was(r) == req[r]
<1>0. req \in [Requests -> Request] /\ \A r \in Requests : req[r] \in Request
  BY DEF GateTypeOK
<1>1. ASSUME NEW r \in Requests, NEW x \in Request, req' = [req EXCEPT ![r] = x],
             x.pc # "idle" => x.from \in Browsers /\ x.under \in Rotations,
             x.pc \in {"peek", "compare", "count"} => x.kind # "owner",
             x.pc = "grant" => x.kind = "authorize",
             x.kind = "authorize" => x.client \in Clients
      PROVE  RequestsTyped'
  <2>1. req' \in [Requests -> Request]
    BY <1>0, <1>1
  <2>2. \A s \in Requests : req'[s] = IF s = r THEN x ELSE req[s]
    BY <1>0, <1>1
  <2> QED
    BY <1>1, <2>1, <2>2 DEF Placed, RequestsTyped
<1>2. ASSUME NEW r \in Requests, Answered(r)
      PROVE  RequestsTyped'
  BY <1>1, <1>2, NoRequestOK DEF Answered, NoRequest
<1>3. ASSUME NEW r \in Requests, NEW pc \in {"compare", "count"}, Goes(r, pc),
             req[r].pc \in {"peek", "compare"}
      PROVE  RequestsTyped'
  <2> DEFINE x == [req[r] EXCEPT !.pc = pc]
  <2>1. x \in Request
    BY <1>0, <1>3 DEF Request
  <2>2. /\ x.pc = pc /\ x.from = req[r].from /\ x.under = req[r].under
        /\ x.kind = req[r].kind /\ x.client = req[r].client
    BY <1>0, <1>3 DEF Request
  <2>3. req' = [req EXCEPT ![r] = x]
    BY <1>0, <1>3 DEF Goes
  <2> HIDE DEF x
  <2> QED
    BY <1>1, <1>3, <2>1, <2>2, <2>3 DEF Placed
<1>4. ASSUME UNCHANGED req PROVE RequestsTyped'
  BY <1>0, <1>4 DEF Placed, RequestsTyped
<1>5. ASSUME NEW r \in Requests, NEW b \in Browsers, Login(r, b)
      PROVE  RequestsTyped'
  <2> DEFINE x == [NoRequest EXCEPT !.pc = "peek", !.from = b, !.under = secrets]
  <2>1. secrets \in Rotations
    BY <1>5 DEF Login, GateTypeOK
  <2>2. x \in Request
    BY <2>1, NoRequestOK DEF Request
  <2>3. x.pc = "peek" /\ x.from = b /\ x.under = secrets /\ x.kind = "login"
    BY DEF NoRequest
  <2>4. req' = [req EXCEPT ![r] = x]
    BY <1>5 DEF Login
  <2> HIDE DEF x
  <2> QED
    BY <1>1, <2>1, <2>2, <2>3, <2>4
<1>6. ASSUME NEW r \in Requests, NEW b \in Browsers, OwnerPage(r, b)
      PROVE  RequestsTyped'
  <2> DEFINE x == [NoRequest EXCEPT !.pc = "act", !.kind = "owner", !.from = b, !.under = secrets]
  <2>1. secrets \in Rotations
    BY <1>6 DEF OwnerPage, ReadOwner, GateTypeOK
  <2>2. x \in Request
    BY <2>1, NoRequestOK DEF Request
  <2>3. x.pc = "act" /\ x.from = b /\ x.under = secrets /\ x.kind = "owner"
    BY DEF NoRequest
  <2>4. req' = [req EXCEPT ![r] = x]
    BY <1>6 DEF OwnerPage
  <2> HIDE DEF x
  <2> QED
    BY <1>1, <2>1, <2>2, <2>3, <2>4
<1>7. ASSUME NEW r \in Requests, NEW b \in Browsers, NEW k \in Clients, NEW ticked \in Ticks,
             Authorize(r, b, k, ticked)
      PROVE  RequestsTyped'
  <2> DEFINE x == [NoRequest EXCEPT !.pc = IF ReadOwner(b) THEN "grant" ELSE "peek",
                     !.kind = "authorize", !.from = b, !.under = secrets, !.client = k,
                     !.ticked = ticked, !.granted = Granted(k, ticked)]
  <2>1. secrets \in Rotations
    BY <1>7 DEF Authorize, GateTypeOK
  <2>2. ticked \subseteq Scopes /\ Granted(k, ticked) \subseteq Scopes
    BY GateAssumption, GrantedOK
  <2>3. x \in Request
    BY <2>1, <2>2, NoRequestOK DEF Request
  <2>4. x.pc \in {"grant", "peek"} /\ x.from = b /\ x.under = secrets
        /\ x.kind = "authorize" /\ x.client = k
    BY DEF NoRequest
  <2>5. req' = [req EXCEPT ![r] = x]
    BY <1>7 DEF Authorize
  <2> HIDE DEF x
  <2> QED
    BY <1>1, <2>1, <2>3, <2>4, <2>5
<1>8. ASSUME NEW r \in Requests, RightPassword(r)
      PROVE  RequestsTyped'
  <2> DEFINE x == [req[r] EXCEPT !.pc = IF req[r].kind = "login" THEN "cookie" ELSE "grant",
                                 !.fresh = TRUE]
  <2>1. x \in Request
    BY <1>0 DEF Request
  <2>2. /\ x.pc = (IF req[r].kind = "login" THEN "cookie" ELSE "grant")
        /\ x.from = req[r].from /\ x.under = req[r].under
        /\ x.kind = req[r].kind /\ x.client = req[r].client
    BY <1>0 DEF Request
  <2>3. req' = [req EXCEPT ![r] = x]
    BY <1>0, <1>8 DEF RightPassword
  <2>4. req[r].kind \in {"login", "authorize"} /\ req[r].pc = "compare"
    BY <1>0, <1>8 DEF RightPassword, Placed, Request
  <2> HIDE DEF x
  <2> QED
    BY <1>1, <2>1, <2>2, <2>3, <2>4 DEF Placed
<1>9. CASE \E r \in Requests, b \in Browsers :
             \/ Login(r, b) \/ OwnerPage(r, b)
             \/ \E k \in Clients, ticked \in Ticks : Authorize(r, b, k, ticked)
  BY <1>5, <1>6, <1>7, <1>9
<1>10. CASE \E r \in Requests : \/ Peek(r) \/ RightPassword(r) \/ WrongPassword(r) \/ Count(r)
                               \/ LoggedIn(r) \/ Approve(r) \/ Act(r) \/ Dies(r)
  <2> PICK r \in Requests : \/ Peek(r) \/ RightPassword(r) \/ WrongPassword(r) \/ Count(r)
                            \/ LoggedIn(r) \/ Approve(r) \/ Act(r) \/ Dies(r)
    BY <1>10
  <2>1. CASE Peek(r)
    BY <1>2, <1>3, <2>1 DEF Peek
  <2>2. CASE WrongPassword(r)
    BY <1>3, <2>2 DEF WrongPassword
  <2>3. CASE Count(r) \/ LoggedIn(r) \/ Approve(r) \/ Act(r) \/ Dies(r)
    BY <1>2, <2>3 DEF Count, LoggedIn, Approve, Act, Dies
  <2> QED
    BY <1>8, <2>1, <2>2, <2>3
<1>11. CASE (\E b \in Browsers : CookieGone(b)) \/ (\E n \in Networks : WindowEnds(n))
            \/ (\E s \in Rotations \cup {Absent}, m \in BOOLEAN : Deploy(s, m))
  BY <1>4, <1>11 DEF CookieGone, WindowEnds, Deploy
<1> QED
  BY <1>9, <1>10, <1>11 DEF GateNext

\* The other variables keep their types.
LEMMA TypeStep ==
  ASSUME GateTypeOK, Placed, GateNext
  PROVE  GateTypeOK'
<1>1. req' \in [Requests -> Request]
  BY RequestStep DEF RequestsTyped
<1>2. \A r \in Requests : req[r].pc # "idle" => Net(r) \in Networks
  BY DEF Placed, Net, Networks
<1>3. (secrets \in Rotations \cup {Absent} /\ mutations \in BOOLEAN)'
  BY DEF GateTypeOK, GateNext, Deployment, Login, Authorize, OwnerPage, Peek, RightPassword,
         WrongPassword, Count, LoggedIn, Approve, Act, Dies, CookieGone, WindowEnds, Deploy
<1>4. (failures \in [Networks -> 0 .. MaxFailures])'
  <2>1. ASSUME NEW r \in Requests, Count(r)
        PROVE  failures' \in [Networks -> 0 .. MaxFailures]
    BY <1>2, <2>1, NextFailure DEF GateTypeOK, Count
  <2>2. ASSUME NEW n \in Networks, WindowEnds(n)
        PROVE  failures' \in [Networks -> 0 .. MaxFailures]
    BY <2>2, ZeroFailures DEF GateTypeOK, WindowEnds
  <2>3. CASE UNCHANGED failures
    BY <2>3 DEF GateTypeOK
  <2> QED
    BY <2>1, <2>2, <2>3
       DEF GateNext, Guesses, Login, Authorize, OwnerPage, Peek, RightPassword, WrongPassword,
           LoggedIn, Approve, Act, Dies, CookieGone, Deploy
<1>5. (wrong \in [Networks -> Nat])'
  <2>1. ASSUME NEW r \in Requests, WrongPassword(r)
        PROVE  wrong' \in [Networks -> Nat]
    BY <1>2, <2>1 DEF GateTypeOK, WrongPassword
  <2>2. ASSUME NEW n \in Networks, WindowEnds(n)
        PROVE  wrong' \in [Networks -> Nat]
    <3> DEFINE waiting == {r \in Requests : req[r].pc = "count" /\ Net(r) = n}
    <3>1. IsFiniteSet(waiting)
      BY GateAssumption, FS_Subset
    <3>2. Cardinality(waiting) \in Nat
      BY <3>1, FS_CardinalityType
    <3>3. wrong' = [wrong EXCEPT ![n] = Cardinality(waiting)]
      BY <2>2 DEF WindowEnds
    <3> QED
      BY <3>2, <3>3 DEF GateTypeOK
  <2>3. CASE UNCHANGED wrong
    BY <2>3 DEF GateTypeOK
  <2> QED
    BY <2>1, <2>2, <2>3
       DEF GateNext, Guesses, Login, Authorize, OwnerPage, Peek, RightPassword, Count,
           LoggedIn, Approve, Act, Dies, CookieGone, Deploy
<1>6. (died \in [Networks -> Nat])'
  <2>1. ASSUME NEW r \in Requests, Dies(r)
        PROVE  died' \in [Networks -> Nat]
    BY <1>2, <2>1 DEF GateTypeOK, Dies
  <2>2. ASSUME NEW n \in Networks, WindowEnds(n)
        PROVE  died' \in [Networks -> Nat]
    BY <2>2 DEF GateTypeOK, WindowEnds
  <2>3. CASE UNCHANGED died
    BY <2>3 DEF GateTypeOK
  <2> QED
    BY <2>1, <2>2, <2>3
       DEF GateNext, Guesses, Login, Authorize, OwnerPage, Peek, RightPassword, WrongPassword,
           Count, LoggedIn, Approve, Act, CookieGone, Deploy
<1>7. (jar \in [Browsers -> Rotations \cup {Absent}])'
  <2>1. ASSUME NEW r \in Requests, LoggedIn(r) \/ Approve(r)
        PROVE  jar' \in [Browsers -> Rotations \cup {Absent}]
    BY <2>1 DEF GateTypeOK, Placed, LoggedIn, Approve
  <2>2. ASSUME NEW b \in Browsers, CookieGone(b)
        PROVE  jar' \in [Browsers -> Rotations \cup {Absent}]
    BY <2>2 DEF GateTypeOK, CookieGone
  <2>3. CASE UNCHANGED jar
    BY <2>3 DEF GateTypeOK
  <2> QED
    BY <2>1, <2>2, <2>3
       DEF GateNext, Login, Authorize, OwnerPage, Peek, RightPassword, WrongPassword, Count,
           Act, Dies, WindowEnds, Deploy
<1>8. (proved \in SUBSET (Browsers \X Rotations))'
  <2>1. ASSUME NEW r \in Requests, RightPassword(r)
        PROVE  proved' \in SUBSET (Browsers \X Rotations)
    BY <2>1 DEF GateTypeOK, Placed, RightPassword
  <2>2. CASE UNCHANGED proved
    BY <2>2 DEF GateTypeOK
  <2> QED
    BY <2>1, <2>2
       DEF GateNext, Login, Authorize, OwnerPage, Peek, WrongPassword, Count, LoggedIn, Approve,
           Act, Dies, CookieGone, WindowEnds, Deploy
<1>9. (token \in [Clients -> SUBSET Scopes] /\ consented \in [Clients -> SUBSET Scopes])'
  <2>1. ASSUME NEW r \in Requests, Approve(r)
        PROVE  (token \in [Clients -> SUBSET Scopes] /\ consented \in [Clients -> SUBSET Scopes])'
    <3>1. req[r].granted \subseteq Scopes /\ req[r].ticked \subseteq Scopes
          /\ req[r].client \in Clients
      BY <2>1 DEF GateTypeOK, Request, Placed, Approve
    <3> QED
      BY <2>1, <3>1 DEF GateTypeOK, Approve, Consents
  <2>2. CASE UNCHANGED Consents
    BY <2>2 DEF GateTypeOK, Consents
  <2> QED
    BY <2>1, <2>2
       DEF GateNext, Login, Authorize, OwnerPage, Peek, RightPassword, WrongPassword, Count,
           LoggedIn, Act, Dies, CookieGone, WindowEnds, Deploy
<1> QED
  BY <1>1, <1>3, <1>4, <1>5, <1>6, <1>7, <1>8, <1>9 DEF GateTypeOK

-----------------------------------------------------------------------------
(* Proofs of the password and of consent.                                  *)

\* A step of the password or the cookie keeps what they stand for.
LEMMA ProofStep ==
  ASSUME GateTypeOK, Placed, ProofInv, GateNext
  PROVE  ProofInv'
<1>0. req \in [Requests -> Request] /\ jar \in [Browsers -> Rotations \cup {Absent}]
      /\ NoRequest.pc = "idle"
  BY DEF GateTypeOK, NoRequest
<1>1. ASSUME NEW r \in Requests, NEW b \in Browsers, Login(r, b)
      PROVE  ProofInv'
  BY <1>0, <1>1 DEF Login, ProofInv, OwnerActsAreProved, NoRequest
<1>2. ASSUME NEW r \in Requests, NEW b \in Browsers, OwnerPage(r, b)
      PROVE  ProofInv'
  BY <1>0, <1>2 DEF OwnerPage, ReadOwner, ProofInv, OwnerActsAreProved, NoRequest
<1>3. ASSUME NEW r \in Requests, NEW b \in Browsers, NEW k \in Clients, NEW ticked \in Ticks,
             Authorize(r, b, k, ticked)
      PROVE  ProofInv'
  BY <1>0, <1>3 DEF Authorize, ReadOwner, ProofInv, OwnerActsAreProved, NoRequest
<1>4. ASSUME NEW r \in Requests, RightPassword(r)
      PROVE  ProofInv'
  BY <1>0, <1>4 DEF RightPassword, ProofInv, OwnerActsAreProved
<1>5. ASSUME NEW r \in Requests, Peek(r) \/ WrongPassword(r)
      PROVE  ProofInv'
  <2>1. UNCHANGED <<jar, proved>>
    BY <1>5 DEF Peek, WrongPassword
  <2>2. \A s \in Requests \ {r} : req'[s] = req[s]
    BY <1>0, <1>5 DEF Peek, WrongPassword, Goes, Answered
  <2>3. req'[r].pc \in {"idle", "compare", "count"}
    <3>1. CASE Answered(r)
      BY <1>0, <3>1 DEF Answered
    <3>2. ASSUME NEW pc \in {"compare", "count"}, Goes(r, pc)
          PROVE  req'[r].pc = pc
      BY <1>0, <3>2 DEF Goes, GateTypeOK, Request
    <3> QED
      BY <1>5, <3>1, <3>2 DEF Peek, WrongPassword
  <2> QED
    BY <2>1, <2>2, <2>3 DEF ProofInv, OwnerActsAreProved
<1>6. ASSUME NEW r \in Requests, Count(r) \/ Act(r) \/ Dies(r)
      PROVE  ProofInv'
  BY <1>0, <1>6 DEF Count, Act, Dies, Answered, ProofInv, OwnerActsAreProved
<1>7. ASSUME NEW r \in Requests, LoggedIn(r) \/ Approve(r)
      PROVE  ProofInv'
  <2>1. <<req[r].from, req[r].under>> \in proved /\ proved' = proved /\ Answered(r)
    BY <1>7 DEF LoggedIn, Approve, ProofInv, OwnerActsAreProved
  <2>2. jar' \in {jar, [jar EXCEPT ![req[r].from] = req[r].under]}
    BY <1>7 DEF LoggedIn, Approve
  <2>3. \A b \in Browsers : jar'[b] # Absent => <<b, jar'[b]>> \in proved'
    BY <1>0, <2>1, <2>2 DEF ProofInv
  <2>4. OwnerActsAreProved'
    BY <1>0, <2>1 DEF Answered, ProofInv, OwnerActsAreProved
  <2> QED
    BY <2>3, <2>4 DEF ProofInv
<1>8. ASSUME NEW b \in Browsers, CookieGone(b)
      PROVE  ProofInv'
  BY <1>0, <1>8 DEF CookieGone, ProofInv, OwnerActsAreProved
<1>9. CASE (\E n \in Networks : WindowEnds(n))
           \/ (\E s \in Rotations \cup {Absent}, m \in BOOLEAN : Deploy(s, m))
  BY <1>9 DEF WindowEnds, Deploy, ProofInv, OwnerActsAreProved
<1> QED
  BY <1>1, <1>2, <1>3, <1>4, <1>5, <1>6, <1>7, <1>8, <1>9 DEF GateNext

\* Consent is asked before it is granted, and a token is drawn from a grant.
LEMMA ConsentStep ==
  ASSUME GateTypeOK, Placed, ConsentInv, GateNext
  PROVE  ConsentInv'
<1>0. req \in [Requests -> Request]
      /\ token \in [Clients -> SUBSET Scopes] /\ consented \in [Clients -> SUBSET Scopes]
  BY DEF GateTypeOK
<1>1. ASSUME NEW r \in Requests, Answered(r)
      PROVE  \A s \in Requests : req'[s].granted \subseteq req'[s].ticked
  BY <1>0, <1>1 DEF Answered, NoRequest, ConsentInv
<1>2. ASSUME NEW r \in Requests, NEW pc, Goes(r, pc)
      PROVE  \A s \in Requests : req'[s].granted \subseteq req'[s].ticked
  BY <1>0, <1>2 DEF Goes, Request, ConsentInv
<1>3. ASSUME NEW r \in Requests, NEW b \in Browsers, NEW k \in Clients, NEW ticked \in Ticks,
             Authorize(r, b, k, ticked)
      PROVE  \A s \in Requests : req'[s].granted \subseteq req'[s].ticked
  <2> DEFINE x == [NoRequest EXCEPT !.pc = IF ReadOwner(b) THEN "grant" ELSE "peek",
                     !.kind = "authorize", !.from = b, !.under = secrets, !.client = k,
                     !.ticked = ticked, !.granted = Granted(k, ticked)]
  <2>1. x.ticked = ticked /\ x.granted = Granted(k, ticked)
    BY DEF NoRequest
  <2>2. req' = [req EXCEPT ![r] = x]
    BY <1>3 DEF Authorize
  <2>3. x.granted \subseteq x.ticked
    BY <2>1, GrantedOK
  <2> HIDE DEF x
  <2> QED
    BY <1>0, <2>2, <2>3 DEF ConsentInv
<1>4. ASSUME NEW r \in Requests, NEW b \in Browsers, Login(r, b) \/ OwnerPage(r, b)
      PROVE  \A s \in Requests : req'[s].granted \subseteq req'[s].ticked
  BY <1>0, <1>4 DEF Login, OwnerPage, NoRequest, ConsentInv
<1>5. ASSUME NEW r \in Requests, RightPassword(r)
      PROVE  \A s \in Requests : req'[s].granted \subseteq req'[s].ticked
  BY <1>0, <1>5 DEF RightPassword, Request, ConsentInv
<1>6. ASSUME NEW r \in Requests, Approve(r)
      PROVE  \A k \in Clients : token'[k] \subseteq consented'[k]
  <2>1. req[r].granted \subseteq req[r].ticked /\ req[r].client \in Clients
    BY <1>6 DEF Approve, Placed, ConsentInv
  <2>2. CASE req[r].granted = {}
    BY <1>6, <2>2 DEF Approve, Consents, ConsentInv
  <2>3. CASE req[r].granted # {}
    <3>1. consented' = [consented EXCEPT ![req[r].client] = @ \cup req[r].ticked]
          /\ token' \in {token} \cup {[token EXCEPT ![req[r].client] = s] : s \in SUBSET req[r].granted}
      BY <1>6, <2>3 DEF Approve
    <3> QED
      BY <1>0, <2>1, <3>1 DEF ConsentInv
  <2> QED
    BY <2>2, <2>3
<1>7. ASSUME UNCHANGED Consents
      PROVE  \A k \in Clients : token'[k] \subseteq consented'[k]
  BY <1>7 DEF Consents, ConsentInv
<1>8. CASE \E r \in Requests, b \in Browsers :
             \/ Login(r, b) \/ OwnerPage(r, b)
             \/ \E k \in Clients, ticked \in Ticks : Authorize(r, b, k, ticked)
  BY <1>3, <1>4, <1>7, <1>8 DEF ConsentInv, Login, OwnerPage, Authorize
<1>9. CASE \E r \in Requests : \/ Peek(r) \/ RightPassword(r) \/ WrongPassword(r) \/ Count(r)
                              \/ LoggedIn(r) \/ Approve(r) \/ Act(r) \/ Dies(r)
  <2> PICK r \in Requests : \/ Peek(r) \/ RightPassword(r) \/ WrongPassword(r) \/ Count(r)
                            \/ LoggedIn(r) \/ Approve(r) \/ Act(r) \/ Dies(r)
    BY <1>9
  <2>1. \A s \in Requests : req'[s].granted \subseteq req'[s].ticked
    BY <1>1, <1>2, <1>5 DEF Peek, WrongPassword, Count, LoggedIn, Approve, Act, Dies
  <2>2. Approve(r) \/ UNCHANGED Consents
    BY DEF Peek, RightPassword, WrongPassword, Count, LoggedIn, Act, Dies
  <2> QED
    BY <1>6, <1>7, <2>1, <2>2 DEF ConsentInv
<1>10. CASE (\E b \in Browsers : CookieGone(b)) \/ (\E n \in Networks : WindowEnds(n))
            \/ (\E s \in Rotations \cup {Absent}, m \in BOOLEAN : Deploy(s, m))
  BY <1>7, <1>10 DEF CookieGone, WindowEnds, Deploy, ConsentInv
<1> QED
  BY <1>8, <1>9, <1>10 DEF GateNext

-----------------------------------------------------------------------------
(* The limit on guesses.                                                   *)

\* The requests from a network that stand at one place are finitely many, and no
\* more than all; those at two places together neither.
LEMMA AtFinite ==
  ASSUME NEW q, NEW pc, NEW n
  PROVE  IsFiniteSet(At(q, pc, n)) /\ Num(q, pc, n) \in Nat
<1>1. At(q, pc, n) \subseteq Requests
  BY DEF At
<1>2. IsFiniteSet(At(q, pc, n))
  BY <1>1, GateAssumption, FS_Subset
<1> QED
  BY <1>2, FS_CardinalityType DEF Num

LEMMA AtMost ==
  ASSUME NEW q, NEW n
  PROVE  Cardinality(Requests) \in Nat
         /\ Num(q, "count", n) + Num(q, "compare", n) <= Cardinality(Requests)
<1> DEFINE A == At(q, "count", n)
           B == At(q, "compare", n)
<1>1. IsFiniteSet(A) /\ IsFiniteSet(B) /\ Num(q, "count", n) = Cardinality(A)
      /\ Num(q, "compare", n) = Cardinality(B)
  BY AtFinite DEF Num
<1>2. A \cap B = {} /\ A \cup B \subseteq Requests
  BY DEF At
<1>3. Cardinality(A \cup B) = Cardinality(A) + Cardinality(B) - Cardinality(A \cap B)
  BY <1>1, FS_Union
<1>4. Cardinality(A \cap B) = 0
  BY <1>2, FS_EmptySet
<1>5. Cardinality(A \cup B) <= Cardinality(Requests) /\ Cardinality(Requests) \in Nat
  BY <1>2, GateAssumption, FS_Subset, FS_CardinalityType
<1>6. Cardinality(A) \in Nat /\ Cardinality(B) \in Nat
  BY <1>1, FS_CardinalityType
<1> QED
  BY <1>1, <1>3, <1>4, <1>5, <1>6

\* Whether r stands at pc and comes from n.
Stands(q, r, pc, n) == q[r].pc = pc /\ NetworkOf[q[r].from] = n

\* A request that moves is counted where it arrives and no longer where it left.
LEMMA AtMove ==
  ASSUME NEW q, NEW p, NEW r \in Requests, \A s \in Requests \ {r} : p[s] = q[s],
         NEW pc, NEW n
  PROVE  /\ (Stands(p, r, pc, n) <=> Stands(q, r, pc, n)) => Num(p, pc, n) = Num(q, pc, n)
         /\ Stands(p, r, pc, n) /\ ~Stands(q, r, pc, n) => Num(p, pc, n) = Num(q, pc, n) + 1
         /\ ~Stands(p, r, pc, n) /\ Stands(q, r, pc, n) => Num(p, pc, n) = Num(q, pc, n) - 1
<1> DEFINE A == At(q, pc, n)
           B == At(p, pc, n)
           R == {s \in Requests \ {r} : Stands(q, s, pc, n)}
<1>1. R \subseteq Requests /\ r \notin R
  OBVIOUS
<1>2. IsFiniteSet(R)
  BY <1>1, GateAssumption, FS_Subset
<1>3. Cardinality(R \cup {r}) = Cardinality(R) + 1 /\ Cardinality(R) \in Nat
  BY <1>1, <1>2, FS_AddElement, FS_CardinalityType
<1>4. A = IF Stands(q, r, pc, n) THEN R \cup {r} ELSE R
  BY DEF At, Stands
<1>5. B = IF Stands(p, r, pc, n) THEN R \cup {r} ELSE R
  BY DEF At, Stands
<1> QED
  BY <1>3, <1>4, <1>5 DEF Num

\* Peeking, comparing, counting, a lost count and a new window keep the sums.
LEMMA GuessStep ==
  ASSUME GateTypeOK, Placed, GuessInv, GateNext
  PROVE  GuessInv'
<1> DEFINE Safe(n) == /\ failures[n] + Num(req, "count", n) <= wrong[n]
                      /\ failures[n] < MaxFailures =>
                           wrong[n] <= failures[n] + Num(req, "count", n) + died[n]
                      /\ failures[n] = MaxFailures =>
                           wrong[n] + Num(req, "compare", n)
                             <= MaxFailures + Cardinality(Requests) - 1 + died[n]
<1>0. req \in [Requests -> Request] /\ NoRequest.pc = "idle"
  BY DEF GateTypeOK, NoRequest
<1>t. ASSUME NEW n \in Networks
      PROVE  /\ failures[n] \in 0 .. MaxFailures /\ wrong[n] \in Nat /\ died[n] \in Nat
             /\ MaxFailures \in Nat \ {0} /\ Cardinality(Requests) \in Nat
             /\ Num(req, "count", n) \in Nat /\ Num(req, "compare", n) \in Nat
             /\ Num(req', "count", n) \in Nat /\ Num(req', "compare", n) \in Nat
             /\ Num(req, "count", n) + Num(req, "compare", n) <= Cardinality(Requests)
             /\ Safe(n)
  BY GateAssumption, AtFinite, AtMost DEF GateTypeOK, GuessInv
<1>n. \A r \in Requests : req[r].pc # "idle" => Net(r) \in Networks
  BY DEF Placed, Net, Networks
<1>m. ASSUME NEW r \in Requests, \A s \in Requests \ {r} : req'[s] = req[s],
             NEW pc \in {"count", "compare"}, NEW n \in Networks
      PROVE  /\ (Stands(req', r, pc, n) <=> Stands(req, r, pc, n))
                 => Num(req', pc, n) = Num(req, pc, n)
             /\ Stands(req', r, pc, n) /\ ~Stands(req, r, pc, n)
                 => Num(req', pc, n) = Num(req, pc, n) + 1
             /\ ~Stands(req', r, pc, n) /\ Stands(req, r, pc, n)
                 => Num(req', pc, n) = Num(req, pc, n) - 1
  BY <1>m, AtMove
\* A request that goes from where no guess is compared to where none is.
<1>1. ASSUME NEW r \in Requests, \A s \in Requests \ {r} : req'[s] = req[s],
             req'[r].pc \notin {"compare", "count"}, req[r].pc # "count",
             UNCHANGED Guesses
      PROVE  GuessInv'
  <2> SUFFICES ASSUME NEW n \in Networks PROVE Safe(n)'
    BY DEF GuessInv
  <2>1. Num(req', "count", n) = Num(req, "count", n)
    BY <1>1, <1>m DEF Stands
  <2>2. Num(req', "compare", n) <= Num(req, "compare", n)
    <3>1. \/ Num(req', "compare", n) = Num(req, "compare", n)
          \/ Num(req', "compare", n) = Num(req, "compare", n) - 1
      BY <1>1, <1>m DEF Stands
    <3> QED
      BY <1>t, <3>1
  <2> QED
    BY <1>1, <1>t, <2>1, <2>2 DEF Guesses
<1>2. ASSUME NEW r \in Requests, Answered(r)
      PROVE  (\A s \in Requests \ {r} : req'[s] = req[s]) /\ req'[r].pc = "idle"
  BY <1>0, <1>2 DEF Answered
<1>3. ASSUME NEW r \in Requests, NEW pc \in {"compare", "count"}, Goes(r, pc)
      PROVE  (\A s \in Requests \ {r} : req'[s] = req[s])
             /\ req'[r].pc = pc /\ req'[r].from = req[r].from
  BY <1>0, <1>3 DEF Goes, Request
<1>4. ASSUME NEW r \in Requests, NEW b \in Browsers,
             \/ Login(r, b) \/ OwnerPage(r, b)
             \/ \E k \in Clients, ticked \in Ticks : Authorize(r, b, k, ticked)
      PROVE  GuessInv'
  <2>1. \A s \in Requests \ {r} : req'[s] = req[s]
    BY <1>0, <1>4 DEF Login, OwnerPage, Authorize
  <2>2. req'[r].pc \in {"peek", "act", "grant"} /\ req[r].pc = "idle"
    BY <1>0, <1>4 DEF Login, OwnerPage, Authorize, NoRequest
  <2>3. UNCHANGED Guesses
    BY <1>4 DEF Login, OwnerPage, Authorize
  <2> QED
    BY <1>1, <2>1, <2>2, <2>3
<1>5. ASSUME NEW r \in Requests, Peek(r)
      PROVE  GuessInv'
  <2>1. CASE failures[Net(r)] >= MaxFailures
    <3>1. Answered(r)
      BY <1>5, <1>n, <1>t, <2>1 DEF Peek
    <3> QED
      BY <1>1, <1>2, <1>5, <3>1 DEF Peek
  <2>2. CASE failures[Net(r)] < MaxFailures
    <3>1. /\ \A s \in Requests \ {r} : req'[s] = req[s]
          /\ req'[r].pc = "compare" /\ req'[r].from = req[r].from /\ req[r].pc = "peek"
          /\ UNCHANGED <<failures, wrong, died>>
      BY <1>3, <1>5, <2>2 DEF Peek, Guesses
    <3> SUFFICES ASSUME NEW n \in Networks PROVE Safe(n)'
      BY DEF GuessInv
    <3>2. Num(req', "count", n) = Num(req, "count", n)
      BY <1>m, <3>1 DEF Stands
    <3>3. failures[n] = MaxFailures => n # Net(r)
      BY <2>2, GateAssumption
    <3>4. failures[n] = MaxFailures => Num(req', "compare", n) = Num(req, "compare", n)
      BY <1>m, <3>1, <3>3 DEF Stands, Net
    <3> QED
      BY <1>t, <3>1, <3>2, <3>4
  <2> QED
    BY <1>5, <1>n, <1>t, <2>1, <2>2 DEF Peek
<1>6. ASSUME NEW r \in Requests, WrongPassword(r)
      PROVE  GuessInv'
  <2>1. /\ \A s \in Requests \ {r} : req'[s] = req[s]
        /\ req'[r].pc = "count" /\ req'[r].from = req[r].from /\ req[r].pc = "compare"
        /\ UNCHANGED <<failures, died>> /\ wrong' = [wrong EXCEPT ![Net(r)] = @ + 1]
    BY <1>3, <1>6 DEF WrongPassword
  <2> SUFFICES ASSUME NEW n \in Networks PROVE Safe(n)'
    BY DEF GuessInv
  <2>2. wrong'[n] = IF n = Net(r) THEN wrong[n] + 1 ELSE wrong[n]
    BY <2>1 DEF GateTypeOK
  <2>3. Num(req', "count", n) = IF n = Net(r) THEN Num(req, "count", n) + 1
                                              ELSE Num(req, "count", n)
    BY <1>m, <2>1 DEF Stands, Net
  <2>4. Num(req', "compare", n) = IF n = Net(r) THEN Num(req, "compare", n) - 1
                                                ELSE Num(req, "compare", n)
    BY <1>m, <2>1 DEF Stands, Net
  <2> QED
    BY <1>t, <2>1, <2>2, <2>3, <2>4
<1>7. ASSUME NEW r \in Requests, Count(r)
      PROVE  GuessInv'
  <2>1. /\ \A s \in Requests \ {r} : req'[s] = req[s]
        /\ req'[r].pc = "idle" /\ req[r].pc = "count" /\ UNCHANGED <<wrong, died>>
        /\ failures' = [failures EXCEPT ![Net(r)] = IF @ < MaxFailures THEN @ + 1 ELSE @]
    BY <1>2, <1>7 DEF Count
  <2> SUFFICES ASSUME NEW n \in Networks PROVE Safe(n)'
    BY DEF GuessInv
  <2>2. failures'[n] = IF n = Net(r) /\ failures[n] < MaxFailures THEN failures[n] + 1
                       ELSE failures[n]
    BY <2>1 DEF GateTypeOK
  <2>3. Num(req', "count", n) = IF n = Net(r) THEN Num(req, "count", n) - 1
                                              ELSE Num(req, "count", n)
    BY <1>m, <2>1 DEF Stands, Net
  <2>4. Num(req', "compare", n) = Num(req, "compare", n)
    BY <1>m, <2>1 DEF Stands
  <2> QED
    BY <1>t, <2>1, <2>2, <2>3, <2>4
<1>8. ASSUME NEW r \in Requests, Dies(r)
      PROVE  GuessInv'
  <2>1. CASE req[r].pc # "count"
    BY <1>1, <1>2, <1>8, <2>1 DEF Dies, Guesses
  <2>2. CASE req[r].pc = "count"
    <3>1. /\ \A s \in Requests \ {r} : req'[s] = req[s]
          /\ req'[r].pc = "idle" /\ UNCHANGED <<failures, wrong>>
          /\ died' = [died EXCEPT ![Net(r)] = @ + 1]
      BY <1>2, <1>8, <2>2 DEF Dies
    <3> SUFFICES ASSUME NEW n \in Networks PROVE Safe(n)'
      BY DEF GuessInv
    <3>2. died'[n] = IF n = Net(r) THEN died[n] + 1 ELSE died[n]
      BY <3>1 DEF GateTypeOK
    <3>3. Num(req', "count", n) = IF n = Net(r) THEN Num(req, "count", n) - 1
                                                ELSE Num(req, "count", n)
      BY <1>m, <2>2, <3>1 DEF Stands, Net
    <3>4. Num(req', "compare", n) = Num(req, "compare", n)
      BY <1>m, <2>2, <3>1 DEF Stands
    <3> QED
      BY <1>t, <3>1, <3>2, <3>3, <3>4
  <2> QED
    BY <2>1, <2>2
<1>9. ASSUME NEW r \in Requests, RightPassword(r) \/ LoggedIn(r) \/ Approve(r) \/ Act(r)
      PROVE  GuessInv'
  <2>1. CASE RightPassword(r)
    <3>1. (\A s \in Requests \ {r} : req'[s] = req[s]) /\ req'[r].pc \in {"cookie", "grant"}
      BY <1>0, <2>1 DEF RightPassword, Request
    <3> QED
      BY <1>1, <2>1, <3>1 DEF RightPassword
  <2>2. CASE LoggedIn(r) \/ Approve(r) \/ Act(r)
    BY <1>1, <1>2, <2>2 DEF LoggedIn, Approve, Act
  <2> QED
    BY <1>9, <2>1, <2>2
<1>10. ASSUME NEW m \in Networks, WindowEnds(m)
       PROVE  GuessInv'
  <2> SUFFICES ASSUME NEW n \in Networks PROVE Safe(n)'
    BY DEF GuessInv
  <2>1. req' = req
    BY <1>10 DEF WindowEnds
  <2>2. CASE n # m
    <3>1. failures'[n] = failures[n] /\ wrong'[n] = wrong[n] /\ died'[n] = died[n]
      BY <1>10, <2>2 DEF WindowEnds, GateTypeOK
    <3> QED
      BY <1>t, <2>1, <3>1
  <2>3. CASE n = m
    <3>1. failures'[n] = 0 /\ died'[n] = 0 /\ wrong'[n] = Num(req, "count", n)
      BY <1>10, <2>3 DEF WindowEnds, GateTypeOK, Num, At, Net
    <3> QED
      BY <1>t, <2>1, <3>1
  <2> QED
    BY <2>2, <2>3
<1>11. CASE (\E b \in Browsers : CookieGone(b))
            \/ (\E s \in Rotations \cup {Absent}, m \in BOOLEAN : Deploy(s, m))
  BY <1>11 DEF CookieGone, Deploy, Guesses, GuessInv, Num, At
<1> QED
  BY <1>4, <1>5, <1>6, <1>7, <1>8, <1>9, <1>10, <1>11 DEF GateNext

-----------------------------------------------------------------------------
(* The theorems.                                                           *)

\* What all of them rest on.
GateInv == GateTypeOK /\ Placed /\ ProofInv /\ ConsentInv /\ GuessInv

LEMMA GateInvInit == GateInit => GateInv
<1> SUFFICES ASSUME GateInit PROVE GateInv
  OBVIOUS
<1>1. GateTypeOK /\ Placed
  BY InitTyped
<1>2. ProofInv /\ ConsentInv
  BY DEF GateInit, ProofInv, OwnerActsAreProved, ConsentInv, NoRequest
<1>3. ASSUME NEW n \in Networks
      PROVE  Num(req, "count", n) = 0 /\ failures[n] = 0 /\ wrong[n] = 0
  <2>1. At(req, "count", n) = {}
    BY DEF GateInit, NoRequest, At
  <2> QED
    BY <2>1, FS_EmptySet DEF GateInit, Num
<1>4. GuessInv
  <2> SUFFICES ASSUME NEW n \in Networks
               PROVE  /\ failures[n] + Num(req, "count", n) <= wrong[n]
                      /\ wrong[n] <= failures[n] + Num(req, "count", n) + died[n]
                      /\ failures[n] # MaxFailures
    BY DEF GuessInv
  <2>1. died[n] = 0
    BY DEF GateInit
  <2> QED
    BY <1>3, <2>1, GateAssumption
<1> QED
  BY <1>1, <1>2, <1>4 DEF GateInv

LEMMA GateInvNext == GateInv /\ [GateNext]_gateVars => GateInv'
<1>1. CASE GateInv /\ GateNext
  BY <1>1, RequestStep, TypeStep, ProofStep, ConsentStep, GuessStep DEF GateInv, RequestsTyped
<1>2. CASE GateInv /\ UNCHANGED gateVars
  <2>1. UNCHANGED <<secrets, mutations, failures, jar, req, token, wrong, died, proved, consented>>
    BY <1>2 DEF gateVars
  <2>2. GateTypeOK' /\ Placed'
    BY <1>2, <2>1 DEF GateInv, GateTypeOK, Placed
  <2>3. ProofInv' /\ ConsentInv'
    BY <1>2, <2>1 DEF GateInv, ProofInv, OwnerActsAreProved, ConsentInv
  <2>4. GuessInv'
    BY <1>2, <2>1 DEF GateInv, GuessInv, Num, At
  <2> QED
    BY <2>2, <2>3, <2>4 DEF GateInv
<1> QED
  BY <1>1, <1>2

LEMMA GateInvariant == GateSpec => []GateInv
<1> QED
  BY GateInvInit, GateInvNext, PTL DEF GateSpec

\* Every variable of the owner's pages keeps its type.
THEOREM GateTypeCorrect == GateSpec => []GateTypeOK
<1>1. GateInv => GateTypeOK
  BY DEF GateInv
<1> QED
  BY <1>1, GateInvariant, PTL

\* However many guesses are sent together, a window takes no more than the limit,
\* the requests that run beside and those whose count was lost; and a network is
\* locked out by its own guesses only (checkPassword).
THEOREM GuessesLimited == GateSpec => []GuessLimit
<1>1. ASSUME GateInv PROVE GuessLimit
  <2> SUFFICES ASSUME NEW n \in Networks
               PROVE  /\ wrong[n] <= MaxFailures + Cardinality(Requests) - 1 + died[n]
                      /\ failures[n] <= wrong[n]
    BY DEF GuessLimit, GuessesBounded, LockedOutByOwnGuesses
  <2>1. /\ failures[n] \in 0 .. MaxFailures /\ wrong[n] \in Nat /\ died[n] \in Nat
        /\ MaxFailures \in Nat \ {0}
    BY <1>1, GateAssumption DEF GateInv, GateTypeOK
  <2>2. /\ Num(req, "count", n) \in Nat /\ Num(req, "compare", n) \in Nat
        /\ Cardinality(Requests) \in Nat
        /\ Num(req, "count", n) + Num(req, "compare", n) <= Cardinality(Requests)
    BY AtFinite, AtMost
  <2>3. /\ failures[n] + Num(req, "count", n) <= wrong[n]
        /\ failures[n] < MaxFailures => wrong[n] <= failures[n] + Num(req, "count", n) + died[n]
        /\ failures[n] = MaxFailures =>
             wrong[n] + Num(req, "compare", n) <= MaxFailures + Cardinality(Requests) - 1 + died[n]
    BY <1>1 DEF GateInv, GuessInv
  <2>4. failures[n] <= wrong[n]
    BY <2>1, <2>2, <2>3
  <2>5. CASE failures[n] < MaxFailures
    <3>1. failures[n] <= MaxFailures - 1 /\ failures[n] \in Nat
      BY <2>1, <2>5
    <3>2. Num(req, "count", n) <= Cardinality(Requests)
      BY <2>2
    <3>3. wrong[n] <= failures[n] + Num(req, "count", n) + died[n]
      BY <2>3, <2>5
    <3> QED
      BY <2>1, <2>2, <2>4, <3>1, <3>2, <3>3
  <2>6. CASE failures[n] = MaxFailures
    <3>1. wrong[n] + Num(req, "compare", n) <= MaxFailures + Cardinality(Requests) - 1 + died[n]
      BY <2>3, <2>6
    <3> QED
      BY <2>1, <2>2, <2>4, <3>1
  <2> QED
    BY <2>1, <2>5, <2>6
<1> QED
  BY <1>1, GateInvariant, PTL

\* Whoever grants access, decides an approval or changes the Qasir session has
\* given, in this browser, the password of the deployment that serves him
\* (readOwner, checkPassword).
THEOREM OwnersProveThemselves == GateSpec => []OwnerActsAreProved
<1>1. GateInv => OwnerActsAreProved
  BY DEF GateInv, ProofInv
<1> QED
  BY <1>1, GateInvariant, PTL

\* A client reads only with a scope the owner ticked for it, and changes something
\* only with one that allows writes (handleAuthorize, createManujujayaServer).
THEOREM ConsentGiven == GateSpec => []WritesNeedConsent
<1>1. ASSUME GateInv PROVE WritesNeedConsent
  <2> SUFFICES ASSUME NEW k \in Clients
               PROVE  /\ Runs(k) # {} => consented[k] # {}
                      /\ "execute_mutation" \in Runs(k) =>
                           consented[k] \cap {"qasir:write", "qasir:admin"} # {}
    BY DEF WritesNeedConsent
  <2>1. token[k] \subseteq consented[k]
    BY <1>1 DEF GateInv, ConsentInv
  <2>2. ASSUME Runs(k) # {} PROVE consented[k] # {}
    <3>1. Principal(k) # {}
      BY <2>2 DEF Runs, HasScope
    <3> QED
      BY <2>1, <3>1 DEF Principal
  <2>3. ASSUME "execute_mutation" \in Runs(k)
        PROVE  consented[k] \cap {"qasir:write", "qasir:admin"} # {}
    <3>1. HasScope(Principal(k), "qasir:write")
      BY <2>3 DEF Runs
    <3>2. "qasir:admin" \in Principal(k) \/ "qasir:write" \in Principal(k)
      BY <3>1 DEF HasScope
    <3> QED
      BY <2>1, <3>2 DEF Principal
  <2> QED
    BY <2>2, <2>3
<1> QED
  BY <1>1, GateInvariant, PTL

-----------------------------------------------------------------------------
(* The Worker.                                                             *)

\* Whatever the dispatcher and the owner's pages do, in whatever order, each keeps
\* its state well formed.
THEOREM BothTypesCorrect == WorkerSpec => []BothTypeOK
<1>1. WorkerInit => DispatchInv /\ GateInv
  BY DispatchInit, GateInvInit DEF WorkerInit
<1>2. DispatchInv /\ GateInv /\ [WorkerNext]_<<vars, gateVars>> => DispatchInv' /\ GateInv'
  BY DispatchNext, GateInvNext DEF WorkerNext
<1>3. DispatchInv /\ GateInv => BothTypeOK
  BY DEF BothTypeOK, DispatchInv, GateInv
<1> QED
  BY <1>1, <1>2, <1>3, PTL DEF WorkerSpec

-----------------------------------------------------------------------------
(* The login: module Login.                                                *)

Entry == [line : Lines \cup {DeviceLine}, host : {"www", "shop"}, at : Nat]
LogOK == log \in Seq(Entry) /\ clock \in Nat

\* The cookie the i-th line of the history made.
CookieOf(i) ==
  [name |-> log[i].line.name, value |-> i, path |-> log[i].line.path,
   expires |-> IF log[i].line.maxAge = Nothing THEN log[i].line.expires
               ELSE log[i].at + log[i].line.maxAge,
   domain |-> LineDomain(i), hostOnly |-> log[i].line.domain = Nothing]

\* Its host may set it, and no later line has the same name, domain and path.
Current(i) ==
  Counts(i) /\ \A j \in i + 1 .. Len(log) : ~(Counts(j) /\ Key(i) = Key(j))

Keys == {Key(i) : i \in DOMAIN log}

JarOK(kept) ==
  /\ \A c \in kept : \E i \in 1 .. Len(log) : Current(i) /\ c = CookieOf(i)
  /\ Cardinality(Keys) <= MaxCookies =>
       \A i \in 1 .. Len(log) : Current(i) /\ ~Ended(i, clock) => CookieOf(i) \in kept

\* The login's context: it left www for its own store only, offers the outlets of
\* one merchant, and goes on with one of them.
ContextOK ==
  /\ ctx = [merchant |-> ctx.merchant, outlet |-> ctx.outlet, host |-> ctx.host, hop |-> ctx.hop]
  /\ ctx.host \in {"www", "shop"}
  /\ KeepsToItsStore
  /\ step = "select" => pending.merchant # Nothing
  /\ ctx.outlet # Nothing => ctx.merchant # Nothing

LoginInv ==
  /\ LogOK /\ ContextOK /\ JarOK(cookies)
  /\ step = "select" => JarOK(pending.cookies)

-----------------------------------------------------------------------------
(* The history.                                                            *)

KeyOf(c) == <<c.name, c.domain, c.path, c.hostOnly>>

LEMMA KeyOfCookie ==
  ASSUME NEW i
  PROVE  KeyOf(CookieOf(i)) = Key(i) /\ CookieOf(i).value = i
  BY DEF KeyOf, CookieOf, Key

LEMMA SameKey ==
  ASSUME NEW a, NEW b
  PROVE  Same(a, b) <=> KeyOf(a) = KeyOf(b)
  BY DEF Same, KeyOf

\* A line has ended when its cookie has expired.
LEMMA EndedExpires ==
  ASSUME LogOK, NEW i \in 1 .. Len(log), NEW t \in Nat
  PROVE  /\ CookieOf(i).expires \in Int \cup {Nothing}
         /\ Ended(i, t) <=> CookieOf(i).expires # Nothing /\ CookieOf(i).expires <= t
<1>1. /\ log[i].at \in Int /\ Nothing \notin Int
      /\ log[i].line.maxAge \in Int \cup {Nothing}
      /\ log[i].line.expires \in Int \cup {Nothing}
  <2>1. log[i] \in Entry
    BY DEF LogOK
  <2> DEFINE line == log[i].line
  <2>2. log[i].at \in Nat /\ line \in Lines \cup {DeviceLine}
    BY <2>1 DEF Entry
  <2>3. DeviceLine.maxAge = Nothing /\ DeviceLine.expires = Nothing
    BY DEF DeviceLine
  <2> HIDE DEF line
  <2>4. line.maxAge \in Int \cup {Nothing} /\ line.expires \in Int \cup {Nothing}
    BY <2>2, <2>3, LoginAssumption
  <2> QED
    BY <2>2, <2>4, LoginAssumption DEF line
<1>2. CookieOf(i).expires = IF log[i].line.maxAge = Nothing THEN log[i].line.expires
                            ELSE log[i].at + log[i].line.maxAge
  BY DEF CookieOf
<1> QED
  BY <1>1, <1>2 DEF Ended

\* Finitely many lines have finitely many keys.
LEMMA KeysFinite == ASSUME LogOK PROVE IsFiniteSet(Keys) /\ Cardinality(Keys) \in Nat
<1> DEFINE f == [i \in 1 .. Len(log) |-> Key(i)]
<1>1. Len(log) \in Nat /\ DOMAIN log = 1 .. Len(log)
  BY DEF LogOK
<1>2. IsFiniteSet(1 .. Len(log))
  BY <1>1, FS_Interval
<1>3. f \in Surjection(1 .. Len(log), Keys)
  BY <1>1 DEF Surjection, Keys
<1>4. IsFiniteSet(Keys)
  BY <1>2, <1>3, FS_Surjection
<1> QED
  BY <1>4, FS_CardinalityType

\* A new line leaves the old ones what they were, but for those it replaces.
LEMMA LineAdded ==
  ASSUME LogOK, NEW n \in Nat, n = Len(log) + 1, NEW e \in Entry, log' = Append(log, e), UNCHANGED clock
  PROVE  /\ LogOK' /\ Len(log') = n /\ log'[n] = e
         /\ \A i \in 1 .. Len(log) :
              /\ CookieOf(i)' = CookieOf(i) /\ Key(i)' = Key(i)
              /\ (Ended(i, clock)' <=> Ended(i, clock))
              /\ (Current(i)' <=> Current(i) /\ ~(Counts(n)' /\ Key(i) = Key(n)'))
         /\ (Current(n)' <=> Counts(n)')
         /\ Cardinality(Keys)' <= MaxCookies => Cardinality(Keys) <= MaxCookies
         /\ IsFiniteSet(Keys')
<1>1. /\ Len(log) \in Nat /\ Len(log') = n /\ log'[n] = e /\ LogOK'
      /\ \A i \in 1 .. Len(log) : log'[i] = log[i]
      /\ DOMAIN log = 1 .. Len(log) /\ DOMAIN log' = 1 .. n
  BY DEF LogOK
<1>2. \A i \in 1 .. Len(log) :
        /\ LineDomain(i)' = LineDomain(i) /\ (Counts(i)' <=> Counts(i))
        /\ (Ended(i, clock)' <=> Ended(i, clock))
  BY <1>1 DEF LineDomain, Counts, Ended
<1>3. \A i \in 1 .. Len(log) : CookieOf(i)' = CookieOf(i) /\ Key(i)' = Key(i)
  BY <1>1, <1>2 DEF CookieOf, Key
<1>4. ASSUME NEW i \in 1 .. Len(log)
      PROVE  Current(i)' <=> Current(i) /\ ~(Counts(n)' /\ Key(i) = Key(n)')
  <2>1. \A j : j \in i + 1 .. n <=> j = n \/ (j \in i + 1 .. Len(log) /\ j \in 1 .. Len(log))
    BY <1>1
  <2>2. Current(i)' <=> Counts(i)' /\ \A j \in i + 1 .. n : ~(Counts(j)' /\ Key(i)' = Key(j)')
    BY <1>1 DEF Current
  <2>3. \A j \in i + 1 .. Len(log) : (Counts(j)' <=> Counts(j)) /\ Key(j)' = Key(j)
    BY <1>2, <1>3, <2>1
  <2>4. (Counts(i)' <=> Counts(i)) /\ Key(i)' = Key(i)
    BY <1>2, <1>3
  <2>5. Current(i)' <=> /\ Counts(i) /\ ~(Counts(n)' /\ Key(i) = Key(n)')
                        /\ \A j \in i + 1 .. Len(log) : ~(Counts(j) /\ Key(i) = Key(j))
    BY <2>1, <2>2, <2>3, <2>4
  <2> QED
    BY <2>5 DEF Current
<1>5. Current(n)' <=> Counts(n)'
  BY <1>1 DEF Current
<1>6. Keys' = Keys \cup {Key(n)'}
  <2>1. Keys' = {Key(i)' : i \in DOMAIN log'}
    BY DEF Keys
  <2>2. \A i : i \in DOMAIN log' <=> i \in DOMAIN log \/ i = n
    BY <1>1
  <2>3. \A i \in DOMAIN log : Key(i)' = Key(i)
    BY <1>1, <1>3
  <2> QED
    BY <2>1, <2>2, <2>3 DEF Keys
<1>7. IsFiniteSet(Keys') /\ Cardinality(Keys') \in Nat /\ Cardinality(Keys) \in Nat
  BY <1>6, KeysFinite, FS_AddElement, FS_CardinalityType
<1>8. Cardinality(Keys) <= Cardinality(Keys')
  BY <1>6, <1>7, FS_Subset
<1>9. Cardinality(Keys)' = Cardinality(Keys')
  OBVIOUS
<1> QED
  BY <1>1, <1>2, <1>3, <1>4, <1>5, <1>7, <1>8, <1>9, LoginAssumption

-----------------------------------------------------------------------------
(* The jar.                                                                *)

\* Cookies of different keys, of which there are no more than MAX_COOKIES, all stay.
LEMMA NoneGivesWay ==
  ASSUME NEW all, \A c \in all : c.value \in Int,
         \A c, d \in all : KeyOf(c) = KeyOf(d) => c = d,
         NEW K, IsFiniteSet(K), Cardinality(K) <= MaxCookies, \A c \in all : KeyOf(c) \in K
  PROVE  {d \in all : Cardinality({e \in all : e.value > d.value}) < MaxCookies} = all
<1> DEFINE f == [c \in all |-> KeyOf(c)]
<1>1. f \in Injection(all, K)
  BY DEF Injection, IsInjective
<1>2. IsFiniteSet(all) /\ Cardinality(all) <= Cardinality(K)
  BY <1>1, FS_Injection
<1> SUFFICES ASSUME NEW d \in all
             PROVE  Cardinality({e \in all : e.value > d.value}) < MaxCookies
  OBVIOUS
<1> DEFINE newer == {e \in all : e.value > d.value}
<1>3. newer \in SUBSET all /\ d \notin newer
  OBVIOUS
<1>4. /\ Cardinality(newer) <= Cardinality(all) /\ Cardinality(newer) # Cardinality(all)
      /\ IsFiniteSet(newer)
  BY <1>2, <1>3, FS_Subset
<1>5. Cardinality(newer) \in Nat /\ Cardinality(all) \in Nat /\ Cardinality(K) \in Nat
  BY <1>2, <1>4, FS_CardinalityType
<1> QED
  BY <1>2, <1>4, <1>5, LoginAssumption

\* A jar's cookies differ in their keys: of two lines of one key the earlier is not
\* current.
LEMMA KeysDiffer ==
  ASSUME LogOK, NEW i \in 1 .. Len(log), NEW j \in 1 .. Len(log), Current(i), Current(j),
         Key(i) = Key(j)
  PROVE  i = j
<1>1. Len(log) \in Nat
  BY DEF LogOK
<1>2. CASE i < j
  BY <1>1, <1>2 DEF Current
<1>3. CASE j < i
  BY <1>1, <1>3 DEF Current
<1> QED
  BY <1>1, <1>2, <1>3

\* A jar that a line was applied to is that of the longer history.
LEMMA JarApplied ==
  ASSUME LogOK, NEW kept, JarOK(kept), NEW line \in Lines, NEW h \in {"www", "shop"},
         NEW n \in Nat, n = Len(log) + 1, UNCHANGED clock,
         log' = Append(log, [line |-> line, host |-> h, at |-> clock]),
         NEW next, next = ApplySetCookie(kept, line, h, n)
  PROVE  JarOK(next)' /\ LogOK'
<1> DEFINE e == [line |-> line, host |-> h, at |-> clock]
           Old == 1 .. Len(log)
<1>1. /\ e \in Entry /\ e.line = line /\ e.host = h /\ e.at = clock
      /\ Len(log) \in Nat /\ clock \in Nat
  BY DEF Entry, LogOK
<1>2. /\ LogOK' /\ Len(log') = n /\ log'[n] = e
      /\ \A i \in Old :
           /\ CookieOf(i)' = CookieOf(i) /\ Key(i)' = Key(i)
           /\ (Ended(i, clock)' <=> Ended(i, clock))
           /\ (Current(i)' <=> Current(i) /\ ~(Counts(n)' /\ Key(i) = Key(n)'))
      /\ (Current(n)' <=> Counts(n)')
      /\ (Cardinality(Keys)' <= MaxCookies => Cardinality(Keys) <= MaxCookies)
      /\ IsFiniteSet(Keys') /\ DOMAIN log' = 1 .. n
  BY <1>1, LineAdded DEF LogOK
<1> HIDE DEF e
<1>3. \A i : i \in 1 .. Len(log') <=> i \in Old \/ i = n
  BY <1>1, <1>2
<1> DEFINE c == Cookie(line, h, n)
<1>4. CookieOf(n)' = c
  BY <1>1, <1>2 DEF CookieOf, Cookie, Expiry, LineDomain
<1>5. Counts(n)' <=> ~(line.domain # Nothing /\ ~Within(h, line.domain))
  BY <1>1, <1>2 DEF Counts, Within
<1>6. Ended(n, clock)' <=> c.expires # Nothing /\ c.expires <= clock
  <2>1. LogOK' /\ n \in 1 .. Len(log') /\ clock' \in Nat
    BY <1>1, <1>2
  <2>2. log'[n].line.maxAge \in Int \cup {Nothing} /\ log'[n].line.expires \in Int \cup {Nothing}
    BY <1>1, <1>2, LoginAssumption
  <2>3. c.expires = IF line.maxAge = Nothing THEN line.expires ELSE clock + line.maxAge
    BY DEF Cookie, Expiry
  <2> QED
    BY <1>1, <1>2, <2>2, <2>3, LoginAssumption DEF Ended
<1>7. Key(n)' = KeyOf(c) /\ c.value = n
  BY <1>1, <1>2 DEF Key, KeyOf, Cookie, LineDomain
<1> HIDE DEF c
<1>8. \A x \in kept : \E i \in Old : Current(i) /\ x = CookieOf(i)
  BY DEF JarOK
<1>9. Cardinality(Keys) <= MaxCookies =>
        \A i \in Old : Current(i) /\ ~Ended(i, clock) => CookieOf(i) \in kept
  BY DEF JarOK
<1>10. \A i \in Old : KeyOf(CookieOf(i)) = Key(i)
  BY KeyOfCookie
\* What is left when the new cookie's predecessor is removed.
<1>11. \A x \in Remove(kept, c) : Counts(n)' => \E i \in Old : Current(i)' /\ x = CookieOf(i)'
  BY <1>2, <1>7, <1>8, <1>10, SameKey DEF Remove
<1>12. \A i \in Old : /\ Cardinality(Keys)' <= MaxCookies /\ Counts(n)'
                      /\ Current(i)' /\ ~Ended(i, clock)'
                      => CookieOf(i)' \in Remove(kept, c)
  BY <1>2, <1>7, <1>9, <1>10, SameKey DEF Remove
<1>13. JarOK(next)' <=>
         /\ \A x \in next : \E i \in 1 .. Len(log') : Current(i)' /\ x = CookieOf(i)'
         /\ Cardinality(Keys)' <= MaxCookies =>
              \A i \in 1 .. Len(log') : Current(i)' /\ ~Ended(i, clock)' => CookieOf(i)' \in next
  BY DEF JarOK
<1>14. CASE ~Counts(n)'
  <2>1. next = kept
    BY <1>5, <1>14 DEF ApplySetCookie
  <2> QED
    BY <1>2, <1>3, <1>8, <1>9, <1>13, <1>14, <2>1
<1>15. CASE Counts(n)' /\ Ended(n, clock)'
  <2>1. next = Remove(kept, c)
    BY <1>5, <1>6, <1>15 DEF ApplySetCookie, c
  <2> QED
    BY <1>2, <1>3, <1>11, <1>12, <1>13, <1>15, <2>1
<1>16. CASE Counts(n)' /\ ~Ended(n, clock)'
  <2> DEFINE all == Remove(kept, c) \cup {c}
  <2>1. next = Store(kept, c)
    BY <1>5, <1>6, <1>16 DEF ApplySetCookie, c
  <2>2. next = {d \in all : Cardinality({x \in all : x.value > d.value}) < MaxCookies}
    BY <2>1 DEF Store
  <2>3. \A x \in all : \E i \in 1 .. Len(log') : Current(i)' /\ x = CookieOf(i)'
    BY <1>2, <1>3, <1>4, <1>11, <1>16
  <2>4. \A i \in 1 .. Len(log') :
          Cardinality(Keys)' <= MaxCookies /\ Current(i)' /\ ~Ended(i, clock)' => CookieOf(i)' \in all
    BY <1>3, <1>4, <1>12, <1>16
  <2>5. Cardinality(Keys)' <= MaxCookies => next = all
    <3> SUFFICES ASSUME Cardinality(Keys)' <= MaxCookies PROVE next = all
      OBVIOUS
    <3>1. \A x \in all : x = c \/ \E i \in Old : Current(i)' /\ x = CookieOf(i)
      BY <1>2, <1>11, <1>16
    <3> HIDE DEF all
    <3>2. ASSUME NEW x \in all PROVE x.value \in Int /\ KeyOf(x) \in Keys'
      <4>1. \A i \in 1 .. n : Key(i)' \in Keys'
        BY <1>2 DEF Keys
      <4>2. CASE x = c
        BY <1>1, <1>7, <4>1, <4>2
      <4>3. ASSUME NEW i \in Old, x = CookieOf(i) PROVE x.value \in Int /\ KeyOf(x) \in Keys'
        BY <1>1, <1>2, <4>1, <4>3, KeyOfCookie
      <4> QED
        BY <3>1, <4>2, <4>3
    <3>3. ASSUME NEW x \in all, NEW y \in all, KeyOf(x) = KeyOf(y) PROVE x = y
      <4>1. \A i \in Old : Current(i)' => Current(i) /\ KeyOf(CookieOf(i)) # KeyOf(c)
        BY <1>2, <1>7, <1>10, <1>16
      <4>2. \A i, j \in Old : Current(i) /\ Current(j) /\ Key(i) = Key(j) => i = j
        BY KeysDiffer
      <4> QED
        BY <1>10, <3>1, <3>3, <4>1, <4>2
    <3>4. Cardinality(Keys') <= MaxCookies
      OBVIOUS
    <3>5. {d \in all : Cardinality({x \in all : x.value > d.value}) < MaxCookies} = all
      BY <1>2, <3>2, <3>3, <3>4, NoneGivesWay
    <3> QED
      BY <2>2, <3>5
  <2> HIDE DEF all
  <2>6. next \subseteq all
    BY <2>2
  <2>7. \A x \in next : \E i \in 1 .. Len(log') : Current(i)' /\ x = CookieOf(i)'
    BY <2>3, <2>6
  <2>8. Cardinality(Keys)' <= MaxCookies =>
          \A i \in 1 .. Len(log') : Current(i)' /\ ~Ended(i, clock)' => CookieOf(i)' \in next
    BY <2>4, <2>5
  <2> QED
    BY <1>2, <1>13, <2>7, <2>8
<1> QED
  BY <1>2, <1>14, <1>15, <1>16


-----------------------------------------------------------------------------
(* The steps.                                                              *)

\* A response leaves a jar of the history, whether it sets a cookie or not.
LEMMA ExchangeOK ==
  ASSUME LogOK, JarOK(cookies), ctx.host \in {"www", "shop"}, Exchange, UNCHANGED clock
  PROVE  LogOK' /\ JarOK(cookies)'
<1>1. CASE UNCHANGED <<cookies, log>>
  BY <1>1 DEF LogOK, JarOK, Current, Counts, Key, LineDomain, Keys, CookieOf, Ended
<1>2. ASSUME NEW line \in Lines,
             log' = Append(log, [line |-> line, host |-> ctx.host, at |-> clock]),
             cookies' = ApplySetCookie(cookies, line, ctx.host, Len(log) + 1)
      PROVE  LogOK' /\ JarOK(cookies)'
  <2> DEFINE n == Len(log) + 1
             h == ctx.host
  <2>1. n \in Nat
    BY DEF LogOK
  <2>2. \A x : x = ApplySetCookie(cookies, line, h, n) => JarOK(x)' /\ LogOK'
    BY <1>2, <2>1, JarApplied
  <2> QED
    BY <1>2, <2>2 DEF JarOK
<1> QED
  BY <1>1, <1>2 DEF Exchange

\* A jar may forget what has expired, and keeps being one as time passes.
LEMMA LiveOK == LogOK /\ JarOK(cookies) => JarOK(Live(cookies, clock))
<1> SUFFICES ASSUME LogOK, JarOK(cookies) PROVE JarOK(Live(cookies, clock))
  OBVIOUS
<1>1. ASSUME NEW i \in 1 .. Len(log), ~Ended(i, clock), CookieOf(i) \in cookies
      PROVE  CookieOf(i) \in Live(cookies, clock)
  <2>1. CookieOf(i).expires \in Int \cup {Nothing} /\ clock \in Int
    BY EndedExpires DEF LogOK
  <2>2. CookieOf(i).expires = Nothing \/ CookieOf(i).expires > clock
    BY <1>1, <2>1, EndedExpires DEF LogOK
  <2> QED
    BY <1>1, <2>2 DEF Live
<1>2. Live(cookies, clock) \subseteq cookies
  BY DEF Live
<1> QED
  BY <1>1, <1>2 DEF JarOK

LEMMA TimePasses ==
  ASSUME LogOK, NEW kept, JarOK(kept), clock' = clock + 1, UNCHANGED log
  PROVE  LogOK' /\ JarOK(kept)'
<1>1. LogOK'
  BY DEF LogOK
<1>2. ASSUME NEW i \in 1 .. Len(log) PROVE Ended(i, clock) => Ended(i, clock)'
  <2>1. CookieOf(i).expires \in Int \cup {Nothing} /\ clock \in Int /\ clock + 1 \in Nat
    BY EndedExpires DEF LogOK
  <2>2. \A t \in {clock, clock + 1} :
          Ended(i, t) <=> CookieOf(i).expires # Nothing /\ CookieOf(i).expires <= t
    BY <2>1, EndedExpires DEF LogOK
  <2>3. Ended(i, clock)' <=> Ended(i, clock + 1)
    BY DEF Ended
  <2> QED
    BY <2>1, <2>2, <2>3, LoginAssumption
<1>3. \A i \in 1 .. Len(log) : (Current(i)' <=> Current(i)) /\ CookieOf(i)' = CookieOf(i)
  BY DEF Current, Counts, Key, LineDomain, CookieOf
<1>4. Keys' = Keys
  BY DEF Keys, Key, LineDomain
<1> QED
  BY <1>1, <1>2, <1>3, <1>4 DEF JarOK

\* The first line is the device's own.
LEMMA StartOK ==
  ASSUME StartLogin, LogOK
  PROVE  LogOK' /\ JarOK(cookies)'
<1> DEFINE e == [line |-> DeviceLine, host |-> "www", at |-> clock]
<1>1. /\ log' = <<e>> /\ clock' = clock /\ clock \in Nat
      /\ cookies' = {Cookie(DeviceLine, "www", 1)}
  BY DEF StartLogin, LogOK
<1>2. e \in Entry
  BY <1>1 DEF Entry
<1>3. LogOK' /\ Len(log') = 1 /\ log'[1] = e
  BY <1>1, <1>2 DEF LogOK
<1>4. /\ e.line = DeviceLine /\ e.host = "www" /\ DeviceLine.domain = Nothing
      /\ DeviceLine.maxAge = Nothing
  BY DEF DeviceLine
<1>5. CookieOf(1)' = Cookie(DeviceLine, "www", 1)
  BY <1>3, <1>4 DEF CookieOf, Cookie, Expiry, LineDomain
<1>6. Current(1)'
  BY <1>3, <1>4 DEF Current, Counts
<1>7. \A i \in 1 .. Len(log') : i = 1
  BY <1>3
<1> QED
  BY <1>1, <1>3, <1>5, <1>6, <1>7 DEF JarOK

LEMMA InitOK == LoginInit => LoginInv
<1> SUFFICES ASSUME LoginInit PROVE LoginInv
  OBVIOUS
<1>1. log = <<>> /\ clock = 0 /\ cookies = {} /\ Len(log) = 0 /\ step = "idle"
  BY DEF LoginInit
<1>2. LogOK
  BY <1>1 DEF LogOK
<1>3. JarOK(cookies)
  BY <1>1 DEF JarOK
<1>4. ContextOK
  BY <1>1 DEF LoginInit, NoContext, ContextOK, KeepsToItsStore
<1> QED
  BY <1>1, <1>2, <1>3, <1>4 DEF LoginInv

\* A login whose page is at its store, that offers no choice and whose outlet is
\* that of the draft is where it may be.
LEMMA ResolveOK ==
  ASSUME ContextOK, step # "select", step # "page", NEW a, Resolve(a)
  PROVE  ContextOK'
<1> USE DEF ContextOK, KeepsToItsStore, GoesTo
<1> DEFINE one == a.ok /\ NextStep(a) = "select_merchant" /\ Matches(a) # {} /\ ctx.merchant = Nothing
           two == /\ a.ok /\ NextStep(a) = "select_outlet" /\ ctx.outlet = Nothing
                  /\ Offering(a) # Nothing /\ ctx.merchant \in {Nothing, Offering(a)}
           three == a.ok /\ NextStep(a) = "redirect" /\ a.url = "shop"
<1>1. CASE one
  <2>1. ctx' = [ctx EXCEPT !.merchant = Matched(a)] /\ step' = "merchant" /\ pending' = pending
    BY <1>1 DEF Resolve
  <2>2. /\ ctx'.outlet = ctx.outlet /\ ctx'.host = ctx.host
        /\ ctx' = [merchant |-> ctx'.merchant, outlet |-> ctx'.outlet, host |-> ctx'.host, hop |-> ctx'.hop]
    BY <2>1
  <2> QED
    BY <1>1, <2>1, <2>2
<1>2. CASE two
  <2>1. /\ pending' = [merchant |-> Offering(a), outlets |-> a.outlets,
                       cookies |-> Live(cookies', clock)]
        /\ step' = "select" /\ ctx' = ctx
    BY <1>2 DEF Resolve
  <2> QED
    BY <1>2, <2>1
<1>3. CASE three
  <2>1. ctx' = [ctx EXCEPT !.host = a.url] /\ step' = "page" /\ pending' = pending
    BY <1>3 DEF Resolve
  <2> QED
    BY <1>3, <2>1
<1>4. CASE ~one /\ ~two /\ ~three
  <2>1. step' = "error" /\ ctx' = ctx /\ pending' = pending
    BY <1>4 DEF Resolve, Errs
  <2> QED
    BY <2>1
<1> QED
  BY <1>1, <1>2, <1>3, <1>4

\* What an answer saves with a choice of outlets is the jar after the answer.
LEMMA DraftOK ==
  ASSUME NEW a, Resolve(a), step' = "select"
  PROVE  pending'.cookies = Live(cookies', clock)
  BY DEF Resolve, GoesTo, Errs

LEMMA NextOK == LoginInv /\ [LoginNext]_loginVars => LoginInv'
<1> SUFFICES ASSUME LoginInv, [LoginNext]_loginVars PROVE LoginInv'
  OBVIOUS
<1>0. LogOK /\ ContextOK /\ JarOK(cookies) /\ (step = "select" => JarOK(pending.cookies))
      /\ ctx.host \in {"www", "shop"}
  BY DEF LoginInv, ContextOK
<1>1. CASE StartLogin
  <2>1. LogOK' /\ JarOK(cookies)'
    BY <1>0, <1>1, StartOK
  <2>2. ContextOK' /\ step' # "select"
    BY <1>0, <1>1 DEF StartLogin, GoesTo, ContextOK, KeepsToItsStore
  <2> QED
    BY <2>1, <2>2 DEF LoginInv
<1>2. CASE Tick
  <2>1. clock' = clock + 1 /\ UNCHANGED <<step, ctx, cookies, pending, log>>
    BY <1>2 DEF Tick
  <2>2. \A x : JarOK(x) => LogOK' /\ JarOK(x)'
    BY <1>0, <2>1, TimePasses
  <2>3. JarOK(cookies)' /\ (step' = "select" => JarOK(pending.cookies)')
    BY <1>0, <2>1, <2>2 DEF JarOK
  <2>4. ContextOK'
    BY <1>0, <2>1 DEF ContextOK, KeepsToItsStore
  <2> QED
    BY <1>0, <2>2, <2>3, <2>4 DEF LoginInv
<1>3. ASSUME NEW s \in {"connected", "paste", "error"}, PageRead(s) PROVE LoginInv'
  <2>1. LogOK' /\ JarOK(cookies)'
    BY <1>0, <1>3, ExchangeOK DEF PageRead
  <2>2. ContextOK' /\ step' # "select"
    BY <1>0, <1>3 DEF PageRead, GoesTo, ContextOK, KeepsToItsStore
  <2> QED
    BY <2>1, <2>2 DEF LoginInv
<1>4. ASSUME NEW h \in Landings, PageMoves(h) PROVE LoginInv'
  <2>1. LogOK' /\ JarOK(cookies)'
    BY <1>0, <1>4, ExchangeOK DEF PageMoves
  <2>2. ContextOK' /\ step' # "select"
    <3>1. CASE h = "shop" /\ ctx.hop < MaxHops
      <4>1. ctx' = [ctx EXCEPT !.host = h, !.hop = @ + 1] /\ step' = step /\ pending' = pending
            /\ step = "page"
        BY <1>4, <3>1 DEF PageMoves
      <4> QED
        BY <1>0, <3>1, <4>1 DEF ContextOK, KeepsToItsStore
    <3>2. CASE ~(h = "shop" /\ ctx.hop < MaxHops)
      BY <1>0, <1>4, <3>2 DEF PageMoves, GoesTo, ContextOK, KeepsToItsStore
    <3> QED
      BY <3>1, <3>2
  <2> QED
    BY <2>1, <2>2 DEF LoginInv
<1>5. CASE Language \/ \E meta \in BOOLEAN : SignIn(meta)
  <2>1. LogOK' /\ JarOK(cookies)'
    BY <1>0, <1>5, ExchangeOK DEF Language, SignIn
  <2>2. step' \in {"login", "language", "error"} /\ UNCHANGED <<ctx, pending>>
    BY <1>5 DEF Language, SignIn, GoesTo
  <2>3. ContextOK'
    BY <1>0, <2>2 DEF ContextOK, KeepsToItsStore
  <2> QED
    BY <2>1, <2>2, <2>3 DEF LoginInv
<1>6. ASSUME NEW a \in Answers, QasirAnswers(a) PROVE LoginInv'
  <2>1. LogOK' /\ JarOK(cookies)' /\ clock' = clock
    BY <1>0, <1>6, ExchangeOK DEF QasirAnswers
  <2>2. ContextOK'
    BY <1>0, <1>6, ResolveOK DEF QasirAnswers
  <2>3. step' = "select" => JarOK(pending.cookies)'
    <3> SUFFICES ASSUME step' = "select" PROVE JarOK(pending.cookies)'
      OBVIOUS
    <3>1. pending'.cookies = Live(cookies', clock')
      BY <1>6, <2>1, DraftOK DEF QasirAnswers
    <3>2. JarOK(Live(cookies, clock))'
      BY <2>1, LiveOK, PTL
    <3> QED
      BY <3>1, <3>2 DEF JarOK
  <2> QED
    BY <2>1, <2>2, <2>3 DEF LoginInv
<1>7. ASSUME NEW o, Choose(o) PROVE LoginInv'
  <2>1. step = "select" /\ UNCHANGED <<pending, clock, log>> /\ step' \in {"outlet", "error"}
    BY <1>7 DEF Choose, GoesTo
  <2>2. cookies' \in {cookies, pending.cookies}
    BY <1>7 DEF Choose
  <2>3. LogOK' /\ JarOK(cookies)'
    BY <1>0, <2>1, <2>2
      DEF LogOK, JarOK, Current, Counts, Key, LineDomain, Keys, CookieOf, Ended
  <2>4. ContextOK'
    <3> DEFINE offered == [id |-> o, locked |-> FALSE] \in pending.outlets
    <3>1. CASE offered
      <4>1. ctx' = [merchant |-> pending.merchant, outlet |-> o, host |-> "www", hop |-> 0]
            /\ step' = "outlet"
        BY <1>7, <3>1 DEF Choose, GoesTo, NoContext
      <4> QED
        BY <1>0, <2>1, <3>1, <4>1 DEF ContextOK, KeepsToItsStore
    <3>2. CASE ~offered
      <4>1. ctx' = ctx /\ step' = "error"
        BY <1>7, <3>2 DEF Choose, GoesTo
      <4> QED
        BY <1>0, <2>1, <4>1 DEF ContextOK, KeepsToItsStore
    <3> QED
      BY <3>1, <3>2
  <2> QED
    BY <2>1, <2>3, <2>4 DEF LoginInv
<1>8. CASE UNCHANGED loginVars
  <2>1. UNCHANGED <<step, ctx, cookies, pending, clock, log>>
    BY <1>8 DEF loginVars
  <2>2. LogOK' /\ JarOK(cookies)' /\ (step' = "select" => JarOK(pending.cookies)')
    BY <1>0, <2>1 DEF LogOK, JarOK, Current, Counts, Key, LineDomain, Keys, CookieOf, Ended
  <2>3. ContextOK'
    BY <1>0, <2>1 DEF ContextOK, KeepsToItsStore
  <2> QED
    BY <2>2, <2>3 DEF LoginInv
<1> QED
  BY <1>1, <1>2, <1>3, <1>4, <1>5, <1>6, <1>7, <1>8 DEF LoginNext

-----------------------------------------------------------------------------
(* What a jar of the history says of every host.                           *)

LEMMA DueExactly ==
  ASSUME LogOK, JarOK(cookies), NEW h, NEW p
  PROVE  /\ Values(HeaderFor(cookies, h, p, clock)) \subseteq Due(h, p, clock)
         /\ Cardinality(Keys) <= MaxCookies =>
              Due(h, p, clock) \subseteq Values(HeaderFor(cookies, h, p, clock))
<1>1. clock \in Nat /\ DOMAIN log = 1 .. Len(log) /\ Nothing \notin Int
  BY LoginAssumption DEF LogOK
<1>2. ASSUME NEW i \in 1 .. Len(log)
      PROVE  /\ CookieOf(i).value = i
             /\ (CookieOf(i).expires = Nothing \/ CookieOf(i).expires > clock) <=> ~Ended(i, clock)
             /\ DomainMatches(h, CookieOf(i)) <=>
                  IF log[i].line.domain = Nothing THEN h = log[i].host
                  ELSE h = LineDomain(i) \/ LineDomain(i) = "qasir.id"
             /\ PathMatches(p, CookieOf(i)) <=> log[i].line.path \in {"/", p}
  <2>1. (CookieOf(i).expires = Nothing \/ CookieOf(i).expires > clock) <=> ~Ended(i, clock)
    BY <1>1, EndedExpires
  <2>2. /\ CookieOf(i).value = i /\ CookieOf(i).path = log[i].line.path
        /\ CookieOf(i).domain = LineDomain(i)
        /\ CookieOf(i).hostOnly <=> log[i].line.domain = Nothing
    BY DEF CookieOf
  <2>3. log[i].line.domain = Nothing => LineDomain(i) = log[i].host
    BY DEF LineDomain
  <2> QED
    BY <2>1, <2>2, <2>3 DEF DomainMatches, PathMatches, Within
<1>3. ASSUME NEW c \in HeaderFor(cookies, h, p, clock) PROVE c.value \in Due(h, p, clock)
  <2>1. PICK i \in 1 .. Len(log) : Current(i) /\ c = CookieOf(i)
    BY DEF JarOK, HeaderFor, Live
  <2>2. /\ DomainMatches(h, c) /\ PathMatches(p, c)
        /\ c.expires = Nothing \/ c.expires > clock
    BY DEF HeaderFor, Live
  <2> QED
    BY <1>1, <1>2, <2>1, <2>2 DEF Due, Current
<1>4. ASSUME Cardinality(Keys) <= MaxCookies, NEW i \in Due(h, p, clock)
      PROVE  i \in Values(HeaderFor(cookies, h, p, clock))
  <2>1. i \in 1 .. Len(log) /\ Current(i) /\ ~Ended(i, clock)
    BY <1>1 DEF Due, Current
  <2>2. CookieOf(i) \in cookies
    BY <1>4, <2>1 DEF JarOK
  <2>3. CookieOf(i) \in HeaderFor(cookies, h, p, clock)
    BY <1>2, <2>1, <2>2 DEF Due, HeaderFor, Live
  <2> QED
    BY <1>2, <2>1, <2>3 DEF Values
<1> QED
  BY <1>3, <1>4 DEF Values

\* At every moment of a login a host would be sent exactly the cookies that are
\* due to it, and the login keeps to the outlets of its own store: whatever lines
\* and answers Qasir sends, and however long the owner takes to choose
\* (cookie-jar.ts, login-flow.ts, login-continue.ts).
THEOREM KeepsToItself == LoginSpec => []LoginKeepsToItself
<1>1. LoginInit => LoginInv
  BY InitOK
<1>2. LoginInv /\ [LoginNext]_loginVars => LoginInv'
  BY NextOK
<1>3. LoginInv => LoginKeepsToItself
  BY DueExactly DEF LoginInv, ContextOK, LoginKeepsToItself, CookiesAreDue, Keys
<1> QED
  BY <1>1, <1>2, <1>3, PTL DEF LoginSpec
=============================================================================
