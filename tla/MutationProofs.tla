--------------------------- MODULE MutationProofs ---------------------------
(***************************************************************************)
(* Theorems about module Mutation, for any number of calls, approvals,     *)
(* changes and sessions and any lifetimes.  Everything rests on the        *)
(* inductive invariant Inv: an approved approval was granted and not yet   *)
(* sent, a call that has consumed one owns it alone until it sends, and    *)
(* what its lookups brought explains the credentials it has.               *)
(***************************************************************************)
EXTENDS Mutation, TLAPS

Busy(c) == call[c].pc # "idle"
Holds(c) == call[c].pc \in {"relookup", "prepare"}
Unsent(a) == \A x \in Changes : <<a, x>> \notin sent
Undecided(a) == \A x \in Changes : <<a, x>> \notin decisions

\* What a call that is not idle carries.
CallInv ==
  \A c \in Calls : Busy(c) => call[c].id \in Ids /\ call[c].change \in Changes

\* What the stored approvals say about the owner's decisions so far.
ApprovalInv ==
  \A a \in Ids :
    /\ approval[a].status # "none" => a \in used /\ approval[a].change \in Changes
    /\ approval[a].status = "pending" => Undecided(a)
    /\ approval[a].status = "approved" =>
         <<a, approval[a].change>> \in decisions /\ Unsent(a)
    /\ a \notin used => Undecided(a)
    /\ Undecided(a) => Unsent(a)

\* A call between consume() and its request is the only owner of its grant.
OwnsGrant(c) ==
  /\ <<call[c].id, call[c].change>> \in decisions
  /\ Unsent(call[c].id)
  /\ call[c].id \in used
  /\ approval[call[c].id].status \in {"consumed", "none"}

HolderInv ==
  /\ \A c \in Calls : Holds(c) => OwnsGrant(c)
  /\ \A c, d \in Calls : Holds(c) /\ Holds(d) /\ call[c].id = call[d].id => c = d

\* Requests are made for sent changes only, and one each but for a GET.
RequestInv ==
  /\ \A c \in Calls : call[c].pc = "fetch" => <<call[c].id, call[c].change>> \in sent
  /\ \A a \in Ids, x, y \in Changes : <<a, x>> \in sent /\ <<a, y>> \in sent => x = y
  /\ \A a \in Ids : Unsent(a) => requests[a] = 0
  /\ NonGetWritesAreNotReplayed

\* What the call would use if a lookup brought what the object held at the first.
AsHeld(r) == [r EXCEPT !.found = r.held]

\* Past preflight(), what the object held at the first lookup is usable, unless
\* that lookup missed it or the secrets that stood in for it were rejected.
SeenInv ==
  \A c \in Calls :
    LET r == call[c] IN
    /\ r.pc = "preflight" => r.lost \/ r.found = r.held
    /\ r.pc \in {"consume", "relookup", "prepare"} =>
         r.lost \/ (r.held.tok = None /\ r.expired) \/ Usable(AsHeld(r))

Inv == TypeOK /\ CallInv /\ ApprovalInv /\ HolderInv /\ RequestInv /\ SeenInv

\* A call that returns leaves a well-typed free slot.
LEMMA FreeTyped ==
  ASSUME TypeOK, NEW c \in Calls, Return(c)
  PROVE  call' \in [Calls -> Call]
<1>1. Free \in Call
  BY DEF Free, Call, Session, NoSession
<1> QED
  BY <1>1 DEF TypeOK, Return

\* Updating the fields of a call within their types gives a call.
LEMMA CallUpdates ==
  ASSUME NEW r \in Call
  PROVE  /\ \A s, h \in Session, e, b \in BOOLEAN :
              [r EXCEPT !.pc = "preflight", !.found = s, !.expired = e,
                        !.held = h, !.lost = b] \in Call
         /\ \A s \in Session, e, b \in BOOLEAN :
              [r EXCEPT !.pc = "prepare", !.found = s, !.expired = e, !.lost = b] \in Call
         /\ [r EXCEPT !.pc = "consume"] \in Call
         /\ \A t \in Tokens \cup {None} : [r EXCEPT !.pc = "fetch", !.tok = t] \in Call
BY DEF Call

\* The credentials of a call are a session.
LEMMA CredentialsTyped == ASSUME NEW r \in Call PROVE Credentials(r) \in Session
BY StaticAssumption DEF Credentials, Call, NoSession, Session

\* A lookup changes what a call has found; it stays the call it is, and holds its
\* approval if it held it before.
LEMMA LookupsChangeLittle ==
  ASSUME TypeOK, NEW c \in Calls, Lookup(c) \/ Relookup(c)
  PROVE  /\ call' \in [Calls -> Call]
         /\ \A d \in Calls : /\ call'[d].id = call[d].id /\ call'[d].change = call[d].change
                             /\ Busy(d)' <=> Busy(d)
                             /\ Holds(d)' <=> Holds(d)
                             /\ call'[d].pc = "fetch" <=> call[d].pc = "fetch"
         /\ UNCHANGED <<approval, alarm, now, enabled, session, history>>
<1> DEFINE Alike == \A d \in Calls :
             /\ call'[d].id = call[d].id /\ call'[d].change = call[d].change
             /\ Busy(d)' <=> Busy(d)
             /\ Holds(d)' <=> Holds(d)
             /\ call'[d].pc = "fetch" <=> call[d].pc = "fetch"
<1>1. session \in Session /\ NoSession \in Session /\ call[c] \in Call
  BY DEF TypeOK, Session, NoSession
<1>2. CASE Lookup(c)
  <2>1. PICK s \in {session, NoSession}, e \in Marks(call[c]) :
          call' = [call EXCEPT ![c].pc = "preflight", ![c].found = s, ![c].expired = e,
                               ![c].held = session, ![c].lost = (s # session)]
    BY <1>2 DEF Lookup
  <2>2. call' = [call EXCEPT ![c] = [call[c] EXCEPT !.pc = "preflight", !.found = s,
                                       !.expired = e, !.held = session,
                                       !.lost = (s # session)]]
    BY <2>1
  <2>3. s \in Session /\ e \in BOOLEAN /\ (s # session) \in BOOLEAN
    BY <1>1 DEF Marks, Call
  <2>4. [call[c] EXCEPT !.pc = "preflight", !.found = s, !.expired = e, !.held = session,
                        !.lost = (s # session)] \in Call
    BY <1>1, <2>3, CallUpdates
  <2>5. call' \in [Calls -> Call]
    BY <2>2, <2>4 DEF TypeOK
  <2>6. call[c].pc = "lookup"
    BY <1>2 DEF Lookup
  <2>7. Alike
    BY <2>2, <2>6 DEF TypeOK, Call, Busy, Holds
  <2> QED
    BY <1>2, <2>5, <2>7 DEF Lookup
<1>3. CASE Relookup(c)
  <2>1. PICK s \in {session, NoSession}, e \in Marks(call[c]) :
          call' = [call EXCEPT ![c].pc = "prepare", ![c].found = s, ![c].expired = e,
                               ![c].lost = @ \/ s # session]
    BY <1>3 DEF Relookup
  <2>2. call' = [call EXCEPT ![c] = [call[c] EXCEPT !.pc = "prepare", !.found = s,
                                       !.expired = e,
                                       !.lost = (call[c].lost \/ s # session)]]
    BY <2>1
  <2>3. s \in Session /\ e \in BOOLEAN /\ (call[c].lost \/ s # session) \in BOOLEAN
    BY <1>1 DEF Marks, Call
  <2>4. [call[c] EXCEPT !.pc = "prepare", !.found = s, !.expired = e,
                        !.lost = (call[c].lost \/ s # session)] \in Call
    BY <1>1, <2>3, CallUpdates
  <2>5. call' \in [Calls -> Call]
    BY <2>2, <2>4 DEF TypeOK
  <2>6. call[c].pc = "relookup"
    BY <1>3 DEF Relookup
  <2>7. Alike
    BY <2>2, <2>6 DEF TypeOK, Call, Busy, Holds
  <2> QED
    BY <1>3, <2>5, <2>7 DEF Relookup
<1> QED
  BY <1>2, <1>3

\* Every step keeps the types: a busy call carries a real approval id and a real
\* change, and a stored approval a real change.
LEMMA TypeStep ==
  TypeOK /\ CallInv /\ ApprovalInv /\ [Next]_vars => TypeOK'
<1> SUFFICES ASSUME TypeOK /\ CallInv /\ ApprovalInv, [Next]_vars PROVE TypeOK'
  OBVIOUS
<1> USE ConstantsAssumption DEF TypeOK, CallInv, Busy, Call, history
<1>1. ASSUME NEW c \in Calls, NEW a \in Ids, NEW x \in Changes, RequestApproval(c, a, x)
      PROVE  TypeOK'
  BY <1>1 DEF RequestApproval, Approval
<1>2. ASSUME NEW c \in Calls, NEW a \in Ids, NEW x \in Changes, Start(c, a, x)
      PROVE  TypeOK'
  <2>1. [Free EXCEPT !.pc = "lookup", !.id = a, !.change = x] \in Call
    BY DEF Free, Session, NoSession
  <2> QED
    BY <1>2, <2>1 DEF Start
<1>3. ASSUME NEW c \in Calls, Preflight(c)
      PROVE  TypeOK'
  <2>1. CASE call' = [call EXCEPT ![c].pc = "consume"]
    <3> HIDE DEF Call
    <3>1. [call[c] EXCEPT !.pc = "consume"] \in Call
      BY CallUpdates
    <3>2. call' = [call EXCEPT ![c] = [call[c] EXCEPT !.pc = "consume"]]
      BY <2>1
    <3>3. call' \in [Calls -> Call]
      BY <3>1, <3>2
    <3> QED
      BY <1>3, <3>3 DEF Preflight
  <2>2. CASE Return(c)
    BY <1>3, <2>2, FreeTyped DEF Preflight
  <2> QED
    BY <1>3, <2>1, <2>2 DEF Preflight
<1>4. ASSUME NEW c \in Calls, Consume(c)
      PROVE  TypeOK'
  <2>1. CASE Consumable(call[c].id, call[c].change)
    <3>1. approval' = [approval EXCEPT ![call[c].id].status = "consumed"]
      BY <1>4, <2>1 DEF Consume
    <3>2. call' = [call EXCEPT ![c].pc = "relookup"]
      BY <1>4, <2>1 DEF Consume
    <3>3. call[c].id \in Ids
      BY <1>4 DEF Consume
    <3>4. approval' \in [Ids -> Approval]
      BY <3>1, <3>3 DEF Approval
    <3>5. call' \in [Calls -> Call]
      BY <3>2
    <3> QED
      BY <1>4, <3>4, <3>5 DEF Consume
  <2>2. CASE ~Consumable(call[c].id, call[c].change)
    BY <1>4, <2>2, FreeTyped DEF Consume
  <2> QED
    BY <2>1, <2>2
<1>5. ASSUME NEW c \in Calls, Prepare(c)
      PROVE  TypeOK'
  <2>1. call' \in [Calls -> Call]
    <3> HIDE DEF Call
    <3>1. call' = [call EXCEPT ![c] = [call[c] EXCEPT !.pc = "fetch", !.tok = Credentials(call[c]).tok]]
      BY <1>5 DEF Prepare
    <3>2. Credentials(call[c]).tok \in Tokens \cup {None}
      BY CredentialsTyped DEF Session
    <3>3. [call[c] EXCEPT !.pc = "fetch", !.tok = Credentials(call[c]).tok] \in Call
      BY <3>2, CallUpdates
    <3> QED
      BY <3>1, <3>3
  <2>2. call[c].id \in Ids /\ call[c].change \in Changes
    BY <1>5 DEF Prepare
  <2>3. sent' \subseteq Ids \X Changes
    BY <1>5, <2>2 DEF Prepare
  <2>4. requests' \in [Ids -> Nat]
    BY <1>5, <2>2 DEF Prepare
  <2> QED
    BY <1>5, <2>1, <2>3, <2>4 DEF Prepare
<1>6. ASSUME NEW c \in Calls, PrepareFails(c)
      PROVE  TypeOK'
  BY <1>6, FreeTyped DEF PrepareFails
<1>7. ASSUME NEW c \in Calls, Answer(c)
      PROVE  TypeOK'
  BY <1>7, FreeTyped DEF Answer
<1>8. ASSUME NEW c \in Calls, AuthFailure(c)
      PROVE  TypeOK'
  <2> HIDE DEF Call
  <2>1. call' \in [Calls -> Call]
    BY <1>8, FreeTyped DEF AuthFailure
  <2>2. session' \in Session
    <3>1. NoSession \in Session
      BY DEF Session, NoSession
    <3> QED
      BY <1>8, <3>1 DEF AuthFailure
  <2> QED
    BY <1>8, <2>1, <2>2 DEF AuthFailure
<1>9. ASSUME NEW c \in Calls, Redirect(c)
      PROVE  TypeOK'
  <2>1. CASE UNCHANGED requests
    BY <1>9, <2>1, FreeTyped DEF Redirect
  <2>2. CASE /\ call' = [call EXCEPT ![c].hop = @ + 1]
             /\ requests' = [requests EXCEPT ![call[c].id] = @ + 1]
    <3>1. call' \in [Calls -> Call]
      BY <2>2
    <3>2. requests' \in [Ids -> Nat]
      BY <1>9, <2>2 DEF Redirect
    <3> QED
      BY <1>9, <3>1, <3>2 DEF Redirect
  <2> QED
    BY <1>9, <2>1, <2>2 DEF Redirect
<1>10. ASSUME NEW c \in Calls, Crash(c)
      PROVE  TypeOK'
  BY <1>10, FreeTyped DEF Crash
<1>11. ASSUME NEW a \in Ids, NEW verdict \in {"approved", "rejected"}, Decide(a, verdict)
      PROVE  TypeOK'
  <2> HIDE DEF Call
  <2>1. approval' \in [Ids -> Approval]
    BY <1>11 DEF Decide, Approval
  <2>2. decisions' \subseteq Ids \X Changes
    <3>1. CASE approval[a].change \in Changes
      BY <1>11, <3>1 DEF Decide
    <3>2. CASE approval[a].change = None
      BY <1>11, <3>2 DEF Decide, ApprovalInv
    <3> QED
      BY <3>1, <3>2 DEF Approval
  <2> QED
    BY <1>11, <2>1, <2>2 DEF Decide
<1>12. ASSUME NEW t \in Tokens, NEW cookie \in BOOLEAN, Connect(t, cookie)
      PROVE  TypeOK'
  BY <1>12 DEF Connect, Session
<1>13. CASE Disconnect
  BY <1>13 DEF Disconnect, Session, NoSession
<1>14. ASSUME NEW b \in BOOLEAN, SetEnabled(b)
      PROVE  TypeOK'
  BY <1>14 DEF SetEnabled
<1>15. CASE Alarm
  BY <1>15 DEF Alarm, Approval, NoApproval
<1>16. CASE Tick
  BY <1>16 DEF Tick
<1>17. CASE UNCHANGED vars
  BY <1>17 DEF vars
<1>18. ASSUME NEW c \in Calls, Lookup(c) \/ Relookup(c)
      PROVE  TypeOK'
  BY <1>18, LookupsChangeLittle
<1> HIDE DEF TypeOK, CallInv, Busy, Call, history
<1> QED
  BY <1>1, <1>2, <1>3, <1>4, <1>5, <1>6, <1>7, <1>8, <1>9, <1>10, <1>11, <1>12,
     <1>13, <1>14, <1>15, <1>16, <1>17, <1>18
  DEF Next, CallStep, OwnerStep

\* A call keeps the id and the change it started with until it returns.
LEMMA CallStepInv ==
  TypeOK /\ CallInv /\ [Next]_vars => CallInv'
<1> SUFFICES ASSUME TypeOK /\ CallInv, [Next]_vars PROVE CallInv'
  OBVIOUS
<1> USE ConstantsAssumption DEF TypeOK, CallInv, Busy, Call, history
<1>1. ASSUME NEW c \in Calls, NEW a \in Ids, NEW x \in Changes, Start(c, a, x)
      PROVE  CallInv'
  BY <1>1 DEF Start, Free
<1>2. ASSUME NEW c \in Calls, Preflight(c)
      PROVE  CallInv'
  BY <1>2 DEF Preflight, Return, Free
<1>3. ASSUME NEW c \in Calls, Consume(c)
      PROVE  CallInv'
  BY <1>3 DEF Consume, Return, Free, Consumable, Loads
<1>4. ASSUME NEW c \in Calls, Prepare(c)
      PROVE  CallInv'
  BY <1>4 DEF Prepare
<1>5. ASSUME NEW c \in Calls, Redirect(c)
      PROVE  CallInv'
  BY <1>5 DEF Redirect, Return, Free
<1>6. ASSUME NEW c \in Calls, Return(c)
      PROVE  CallInv'
  BY <1>6 DEF Return, Free
<1>7. CASE UNCHANGED call
  BY <1>7
<1>8. ASSUME NEW c \in Calls, Lookup(c) \/ Relookup(c)
      PROVE  CallInv'
  BY <1>8, LookupsChangeLittle
<1> HIDE DEF TypeOK, CallInv, Busy, Call, history
<1> QED
  BY <1>1, <1>2, <1>3, <1>4, <1>5, <1>6, <1>7, <1>8
  DEF Next, CallStep, OwnerStep, PrepareFails, Answer, AuthFailure, Crash,
      RequestApproval, Decide, Connect, Disconnect, SetEnabled, Alarm, Tick, vars,
      history

\* request(), decide(), consume() and the alarm keep the approvals in line with
\* the owner's decisions.
LEMMA ApprovalStep ==
  TypeOK /\ CallInv /\ ApprovalInv /\ HolderInv /\ [Next]_vars => ApprovalInv'
<1> SUFFICES ASSUME TypeOK /\ CallInv /\ ApprovalInv /\ HolderInv, [Next]_vars PROVE ApprovalInv'
  OBVIOUS
<1> USE ConstantsAssumption DEF TypeOK, CallInv, ApprovalInv, HolderInv, OwnsGrant,
                                Holds, Unsent, Undecided, Busy, Call, Approval,
                                NoApproval, history
<1>1. ASSUME NEW c \in Calls, NEW a \in Ids, NEW x \in Changes, RequestApproval(c, a, x)
      PROVE  ApprovalInv'
  BY <1>1 DEF RequestApproval
<1>2. ASSUME NEW c \in Calls, Consume(c)
      PROVE  ApprovalInv'
  <2>1. CASE Consumable(call[c].id, call[c].change)
    <3>1. approval' = [approval EXCEPT ![call[c].id].status = "consumed"]
      BY <1>2, <2>1 DEF Consume
    <3>2. approval[call[c].id].status = "approved" /\ call[c].id \in Ids
      BY <1>2, <2>1 DEF Consume, Consumable
    <3>3. \A a \in Ids : /\ approval'[a].change = approval[a].change
                         /\ a # call[c].id => approval'[a] = approval[a]
      BY <3>1, <3>2
    <3>4. approval'[call[c].id].status = "consumed"
      BY <3>1, <3>2
    <3>5. UNCHANGED <<used, decisions, sent>>
      BY <1>2 DEF Consume
    <3> QED
      BY <3>2, <3>3, <3>4, <3>5
  <2>2. CASE ~Consumable(call[c].id, call[c].change)
    BY <1>2, <2>2 DEF Consume
  <2> QED
    BY <2>1, <2>2
<1>3. ASSUME NEW c \in Calls, Prepare(c)
      PROVE  ApprovalInv'
  BY <1>3 DEF Prepare
<1>4. ASSUME NEW a \in Ids, NEW verdict \in {"approved", "rejected"}, Decide(a, verdict)
      PROVE  ApprovalInv'
  BY <1>4 DEF Decide, Loads
<1>5. CASE Alarm
  BY <1>5 DEF Alarm, Stale
<1>6. CASE UNCHANGED <<approval, used, decisions, sent>>
  BY <1>6
<1>7. ASSUME NEW c \in Calls, Lookup(c) \/ Relookup(c)
      PROVE  ApprovalInv'
  BY <1>7, LookupsChangeLittle
<1> HIDE DEF TypeOK, CallInv, ApprovalInv, HolderInv, OwnsGrant, Holds, Unsent,
             Undecided, Busy, Call, Approval, NoApproval, history
<1> QED
  BY <1>1, <1>2, <1>3, <1>4, <1>5, <1>6, <1>7
  DEF Next, CallStep, OwnerStep, Start, Preflight, PrepareFails, Answer, AuthFailure,
      Redirect, Crash, Connect, Disconnect, SetEnabled, Tick, vars, history

\* consume() gives a grant to one call only, and nobody takes it from that call.
LEMMA HolderStep ==
  TypeOK /\ CallInv /\ ApprovalInv /\ HolderInv /\ [Next]_vars => HolderInv'
<1> SUFFICES ASSUME TypeOK /\ CallInv /\ ApprovalInv /\ HolderInv, [Next]_vars PROVE HolderInv'
  OBVIOUS
<1> USE ConstantsAssumption DEF TypeOK, CallInv, ApprovalInv, HolderInv, OwnsGrant,
                                Holds, Unsent, Undecided, Busy, Call, Approval,
                                NoApproval, history
<1>1. ASSUME NEW c \in Calls, NEW a \in Ids, NEW x \in Changes, RequestApproval(c, a, x)
      PROVE  HolderInv'
  BY <1>1 DEF RequestApproval
<1>2. ASSUME NEW c \in Calls, NEW a \in Ids, NEW x \in Changes, Start(c, a, x)
      PROVE  HolderInv'
  BY <1>2 DEF Start, Free
<1>3. ASSUME NEW c \in Calls, Preflight(c)
      PROVE  HolderInv'
  <2>1. \A d \in Calls : Holds(d)' => Holds(d) /\ call'[d] = call[d]
    <3>1. CASE call' = [call EXCEPT ![c].pc = "consume"]
      BY <3>1
    <3>2. CASE Return(c)
      BY <3>2 DEF Return, Free
    <3> QED
      BY <1>3, <3>1, <3>2 DEF Preflight
  <2> QED
    BY <1>3, <2>1 DEF Preflight
<1>4. ASSUME NEW c \in Calls, Consume(c)
      PROVE  HolderInv'
  <2>1. CASE Consumable(call[c].id, call[c].change)
    <3>1. /\ approval' = [approval EXCEPT ![call[c].id].status = "consumed"]
          /\ call' = [call EXCEPT ![c].pc = "relookup"]
          /\ UNCHANGED <<used, decisions, sent>>
      BY <1>4, <2>1 DEF Consume
    <3>2. /\ call[c].id \in Ids
          /\ approval[call[c].id].status = "approved"
          /\ approval[call[c].id].change = call[c].change
      BY <1>4, <2>1 DEF Consume, Consumable
    <3>3. /\ <<call[c].id, call[c].change>> \in decisions
          /\ Unsent(call[c].id) /\ call[c].id \in used
      BY <3>2
    <3>4. \A d \in Calls : Holds(d) => call[d].id # call[c].id
      BY <3>2
    <3>5. \A d \in Calls \ {c} : call'[d] = call[d]
      BY <3>1
    <3>6. call'[c].id = call[c].id /\ call'[c].change = call[c].change
      BY <3>1
    <3>7. \A a \in Ids \ {call[c].id} : approval'[a] = approval[a]
      BY <3>1
    <3>8. approval'[call[c].id].status = "consumed"
      BY <3>1, <3>2
    <3>9. ASSUME NEW d \in Calls, Holds(d)'
          PROVE  OwnsGrant(d)'
      <4>1. CASE d = c
        BY <3>1, <3>3, <3>6, <3>8, <4>1
      <4>2. CASE d # c
        BY <3>1, <3>4, <3>5, <3>7, <3>9, <4>2
      <4> QED
        BY <4>1, <4>2
    <3>10. ASSUME NEW d \in Calls, NEW e \in Calls,
                  Holds(d)', Holds(e)', call'[d].id = call'[e].id
           PROVE  d = e
      BY <3>4, <3>5, <3>6, <3>10
    <3> QED
      BY <3>9, <3>10
  <2>2. CASE ~Consumable(call[c].id, call[c].change)
    <3>1. \A d \in Calls : Holds(d)' => Holds(d) /\ call'[d] = call[d]
      BY <1>4, <2>2 DEF Consume, Return, Free
    <3> QED
      BY <1>4, <2>2, <3>1 DEF Consume
  <2> QED
    BY <2>1, <2>2
<1>5. ASSUME NEW c \in Calls, Prepare(c)
      PROVE  HolderInv'
  BY <1>5 DEF Prepare
<1>6. ASSUME NEW c \in Calls, Redirect(c)
      PROVE  HolderInv'
  <2>1. \A d \in Calls : Holds(d)' => Holds(d) /\ call'[d] = call[d]
    <3>1. CASE call' = [call EXCEPT ![c].hop = @ + 1]
      BY <1>6, <3>1 DEF Redirect
    <3>2. CASE Return(c)
      BY <3>2 DEF Return, Free
    <3> QED
      BY <1>6, <3>1, <3>2 DEF Redirect
  <2> QED
    BY <1>6, <2>1 DEF Redirect
<1>7. ASSUME NEW a \in Ids, NEW verdict \in {"approved", "rejected"}, Decide(a, verdict)
      PROVE  HolderInv'
  BY <1>7 DEF Decide, Loads
<1>8. CASE Alarm
  BY <1>8 DEF Alarm, Stale
<1>9. ASSUME NEW c \in Calls, Return(c), UNCHANGED <<approval, used, decisions, sent>>
      PROVE  HolderInv'
  BY <1>9 DEF Return, Free
<1>10. CASE UNCHANGED <<call, approval, used, decisions, sent>>
  BY <1>10
<1>11. ASSUME NEW c \in Calls, Lookup(c) \/ Relookup(c)
      PROVE  HolderInv'
  BY <1>11, LookupsChangeLittle
<1> HIDE DEF TypeOK, CallInv, ApprovalInv, HolderInv, OwnsGrant, Holds, Unsent,
             Undecided, Busy, Call, Approval, NoApproval, history
<1> QED
  BY <1>1, <1>2, <1>3, <1>4, <1>5, <1>6, <1>7, <1>8, <1>9, <1>10, <1>11
  DEF Next, CallStep, OwnerStep, PrepareFails, Answer, AuthFailure, Crash, Connect,
      Disconnect, SetEnabled, Tick, vars, history

\* Only the owner of a grant makes its first request, and only a followed
\* redirect makes another.
LEMMA RequestStep ==
  TypeOK /\ CallInv /\ HolderInv /\ RequestInv /\ [Next]_vars => RequestInv'
<1> SUFFICES ASSUME TypeOK /\ CallInv /\ HolderInv /\ RequestInv, [Next]_vars PROVE RequestInv'
  OBVIOUS
<1> USE ConstantsAssumption DEF TypeOK, CallInv, HolderInv, OwnsGrant, RequestInv,
                                NonGetWritesAreNotReplayed, Holds, Unsent, Busy,
                                Call, history
<1>1. ASSUME NEW c \in Calls, NEW a \in Ids, NEW x \in Changes, Start(c, a, x)
      PROVE  RequestInv'
  BY <1>1 DEF Start, Free
<1>2. ASSUME NEW c \in Calls, Preflight(c)
      PROVE  RequestInv'
  <2>1. \A d \in Calls : call'[d].pc = "fetch" => call'[d] = call[d]
    BY <1>2 DEF Preflight, Return, Free
  <2>2. UNCHANGED <<sent, requests>>
    BY <1>2 DEF Preflight
  <2> QED
    BY <2>1, <2>2
<1>3. ASSUME NEW c \in Calls, Consume(c)
      PROVE  RequestInv'
  <2>1. \A d \in Calls : call'[d].pc = "fetch" => call'[d] = call[d]
    BY <1>3 DEF Consume, Return, Free
  <2>2. UNCHANGED <<sent, requests>>
    BY <1>3 DEF Consume
  <2> QED
    BY <2>1, <2>2
<1>4. ASSUME NEW c \in Calls, Prepare(c)
      PROVE  RequestInv'
  <2> DEFINE b == call[c].id
             z == call[c].change
  <2>1. b \in Ids /\ z \in Changes /\ Unsent(b)
    <3>1. Busy(c) /\ Holds(c)
      BY <1>4 DEF Prepare
    <3>2. call[c].id \in Ids /\ call[c].change \in Changes
      BY <3>1
    <3>3. Unsent(call[c].id)
      BY <3>1
    <3> QED
      BY <3>2, <3>3
  <2>2. sent' = sent \cup {<<b, z>>}
    BY <1>4 DEF Prepare
  <2>3. requests' = [requests EXCEPT ![b] = @ + 1]
    BY <1>4 DEF Prepare
  <2>4. requests[b] = 0 /\ requests'[b] = 1
    BY <2>1, <2>3
  <2>5. call'[c].id = b /\ call'[c].change = z /\ \A d \in Calls \ {c} : call'[d] = call[d]
    BY <1>4 DEF Prepare
  <2>6. \A d \in Calls : call'[d].pc = "fetch" => <<call'[d].id, call'[d].change>> \in sent'
    BY <2>2, <2>5
  <2>7. \A a \in Ids, x, y \in Changes : <<a, x>> \in sent' /\ <<a, y>> \in sent' => x = y
    BY <2>1, <2>2
  <2>8. ASSUME NEW a \in Ids, Unsent(a)'
        PROVE  requests'[a] = 0
    <3>1. a # b
      BY <2>1, <2>2, <2>8
    <3>2. Unsent(a)
      BY <2>2, <2>8
    <3> QED
      BY <2>3, <3>1, <3>2
  <2>9. \A a \in Ids, x \in Changes : <<a, x>> \in sent' /\ Method[x] # "GET" => requests'[a] = 1
    BY <2>1, <2>2, <2>3, <2>4
  <2> QED
    BY <2>6, <2>7, <2>8, <2>9
<1>5. ASSUME NEW c \in Calls, Redirect(c)
      PROVE  RequestInv'
  <2>1. UNCHANGED sent /\ <<call[c].id, call[c].change>> \in sent
    BY <1>5 DEF Redirect
  <2>2. CASE UNCHANGED requests
    BY <1>5, <2>1, <2>2 DEF Redirect, Return, Free
  <2>3. CASE /\ Method[call[c].change] = "GET"
             /\ call' = [call EXCEPT ![c].hop = @ + 1]
             /\ requests' = [requests EXCEPT ![call[c].id] = @ + 1]
    <3>1. call[c].id \in Ids /\ call[c].change \in Changes
      BY <1>5 DEF Redirect
    <3>2. \A d \in Calls : /\ call'[d].pc = call[d].pc
                           /\ call'[d].id = call[d].id /\ call'[d].change = call[d].change
      BY <2>3
    <3>3. \A a \in Ids \ {call[c].id} : requests'[a] = requests[a]
      BY <2>3
    <3>4. ~Unsent(call[c].id)
      BY <2>1, <3>1
    <3>5. \A x \in Changes : <<call[c].id, x>> \in sent => Method[x] = "GET"
      BY <2>1, <2>3, <3>1
    <3> QED
      BY <2>1, <3>1, <3>2, <3>3, <3>4, <3>5
  <2> QED
    BY <1>5, <2>2, <2>3 DEF Redirect
<1>6. ASSUME NEW c \in Calls, Return(c), UNCHANGED <<sent, requests>>
      PROVE  RequestInv'
  BY <1>6 DEF Return, Free
<1>7. CASE UNCHANGED <<call, sent, requests>>
  BY <1>7
<1>8. ASSUME NEW c \in Calls, Lookup(c) \/ Relookup(c)
      PROVE  RequestInv'
  BY <1>8, LookupsChangeLittle
<1> HIDE DEF TypeOK, CallInv, HolderInv, OwnsGrant, RequestInv,
             NonGetWritesAreNotReplayed, Holds, Unsent, Busy, Call, history
<1> QED
  BY <1>1, <1>2, <1>3, <1>4, <1>5, <1>6, <1>7, <1>8
  DEF Next, CallStep, OwnerStep, PrepareFails, Answer, AuthFailure, Crash,
      RequestApproval, Decide, Connect, Disconnect, SetEnabled, Alarm, Tick, vars,
      history

\* A lookup that brought what the object held found what the object held; what
\* preflight() then took is what the call would still use, but for the secrets.
LEMMA SeenStep ==
  TypeOK /\ SeenInv /\ [Next]_vars => SeenInv'
<1> SUFFICES ASSUME TypeOK /\ SeenInv, [Next]_vars PROVE SeenInv'
  OBVIOUS
<1> DEFINE SeenBy(r) == /\ r.pc = "preflight" => r.lost \/ r.found = r.held
                        /\ r.pc \in {"consume", "relookup", "prepare"} =>
                             r.lost \/ (r.held.tok = None /\ r.expired) \/ Usable(AsHeld(r))
<1>0. \A c \in Calls : SeenBy(call[c])
  BY DEF SeenInv
<1>1. ASSUME NEW c \in Calls, SeenBy(call'[c]), \A d \in Calls \ {c} : call'[d] = call[d]
      PROVE  SeenInv'
  <2>1. \A d \in Calls : SeenBy(call'[d])
    BY <1>0, <1>1
  <2> QED
    BY <2>1 DEF SeenInv
<1>2. call \in [Calls -> Call]
  BY DEF TypeOK
<1>3. ASSUME NEW c \in Calls, NEW r, call' = [call EXCEPT ![c] = r], SeenBy(r)
      PROVE  SeenInv'
  <2>1. call'[c] = r /\ \A d \in Calls \ {c} : call'[d] = call[d]
    BY <1>2, <1>3
  <2>2. SeenBy(call'[c])
    BY <1>3, <2>1
  <2> QED
    BY <1>1, <2>1, <2>2
<1>4. ASSUME NEW c \in Calls, Return(c)
      PROVE  SeenInv'
  <2>1. SeenBy(Free)
    BY DEF Free
  <2> QED
    BY <1>3, <1>4, <2>1 DEF Return
<1>5. ASSUME NEW c \in Calls, NEW a \in Ids, NEW x \in Changes, Start(c, a, x)
      PROVE  SeenInv'
  <2> DEFINE r == [Free EXCEPT !.pc = "lookup", !.id = a, !.change = x]
  <2>1. SeenBy(r)
    BY DEF Free
  <2>2. call' = [call EXCEPT ![c] = r]
    BY <1>5 DEF Start
  <2> HIDE DEF r, SeenBy
  <2> QED
    BY <1>3, <2>1, <2>2
<1>6. ASSUME NEW c \in Calls, Lookup(c)
      PROVE  SeenInv'
  <2>1. PICK s \in {session, NoSession}, e \in Marks(call[c]) :
          call' = [call EXCEPT ![c].pc = "preflight", ![c].found = s, ![c].expired = e,
                               ![c].held = session, ![c].lost = (s # session)]
    BY <1>6 DEF Lookup
  <2> DEFINE r == [call[c] EXCEPT !.pc = "preflight", !.found = s, !.expired = e,
                                  !.held = session, !.lost = (s # session)]
  <2>2. SeenBy(r)
    BY <1>2 DEF Call
  <2>3. call' = [call EXCEPT ![c] = r]
    BY <2>1
  <2> HIDE DEF r, SeenBy
  <2> QED
    BY <1>3, <2>2, <2>3
<1>7. ASSUME NEW c \in Calls, Preflight(c)
      PROVE  SeenInv'
  <2>1. CASE Usable(call[c]) /\ call' = [call EXCEPT ![c].pc = "consume"]
    <3> DEFINE r == [call[c] EXCEPT !.pc = "consume"]
    <3>1. call[c].pc = "preflight" /\ call[c] \in Call
      BY <1>2, <1>7 DEF Preflight
    <3>2. /\ r.lost = call[c].lost /\ r.held = call[c].held /\ r.pc = "consume"
          /\ r.expired = call[c].expired /\ r.change = call[c].change
      BY <3>1 DEF Call
    <3>3. ASSUME call[c].found = call[c].held
          PROVE  Usable(AsHeld(r))
      <4>1. /\ AsHeld(r).found = call[c].found /\ AsHeld(r).expired = call[c].expired
            /\ AsHeld(r).change = call[c].change
        BY <3>1, <3>3 DEF AsHeld, Call
      <4> QED
        BY <2>1, <4>1 DEF Usable, Credentials
    <3>4. SeenBy(r)
      BY <1>0, <3>1, <3>2, <3>3
    <3>5. call' = [call EXCEPT ![c] = r]
      BY <2>1
    <3> HIDE DEF r, SeenBy
    <3> QED
      BY <1>3, <3>4, <3>5
  <2>2. CASE Return(c)
    BY <1>4, <2>2
  <2> QED
    BY <1>7, <2>1, <2>2 DEF Preflight
<1>8. ASSUME NEW c \in Calls, NEW r \in Call, call' = [call EXCEPT ![c] = r],
             call[c].pc \in {"consume", "relookup"}, call[c].lost => r.lost,
             r.held = call[c].held, call[c].expired => r.expired,
             r.change = call[c].change, r.pc \in {"relookup", "prepare"}
      PROVE  SeenInv'
  <2>1. call[c].lost \/ (call[c].held.tok = None /\ call[c].expired) \/ Usable(AsHeld(call[c]))
    BY <1>0, <1>8
  <2>2. CASE call[c].held.tok = None /\ r.expired
    BY <1>3, <1>8, <2>2
  <2>3. CASE call[c].held.tok # None \/ ~r.expired
    <3>1. /\ AsHeld(r).found = call[c].held /\ AsHeld(call[c]).found = call[c].held
          /\ AsHeld(r).expired = r.expired /\ AsHeld(call[c]).expired = call[c].expired
          /\ AsHeld(r).change = AsHeld(call[c]).change
      BY <1>2, <1>8 DEF AsHeld, Call
    <3>2. call[c].expired \in BOOLEAN /\ r.expired \in BOOLEAN
      BY <1>2 DEF Call
    <3>3. Credentials(AsHeld(r)) = Credentials(AsHeld(call[c]))
      BY <1>8, <2>3, <3>1, <3>2 DEF Credentials
    <3>4. Usable(AsHeld(call[c])) => Usable(AsHeld(r))
      BY <3>1, <3>3 DEF Usable
    <3>5. SeenBy(r)
      BY <1>8, <2>1, <2>3, <3>4
    <3> QED
      BY <1>3, <1>8, <3>5
  <2> QED
    BY <2>2, <2>3
<1>9. ASSUME NEW c \in Calls, Consume(c)
      PROVE  SeenInv'
  <2>1. CASE call' = [call EXCEPT ![c].pc = "relookup"]
    <3> DEFINE r == [call[c] EXCEPT !.pc = "relookup"]
    <3>1. /\ r \in Call /\ r.lost = call[c].lost /\ r.held = call[c].held
          /\ r.expired = call[c].expired /\ r.change = call[c].change /\ r.pc = "relookup"
      BY <1>2 DEF Call
    <3>2. call' = [call EXCEPT ![c] = r] /\ call[c].pc = "consume"
      BY <1>9, <2>1 DEF Consume
    <3> HIDE DEF r, SeenBy
    <3> QED
      BY <1>8, <3>1, <3>2
  <2> QED
    BY <1>4, <1>9, <2>1 DEF Consume
<1>10. ASSUME NEW c \in Calls, Relookup(c)
       PROVE  SeenInv'
  <2>1. PICK s \in {session, NoSession}, e \in Marks(call[c]) :
          call' = [call EXCEPT ![c].pc = "prepare", ![c].found = s, ![c].expired = e,
                               ![c].lost = @ \/ s # session]
    BY <1>10 DEF Relookup
  <2> DEFINE r == [call[c] EXCEPT !.pc = "prepare", !.found = s, !.expired = e,
                                  !.lost = (call[c].lost \/ s # session)]
  <2>2. s \in Session
    <3>1. NoSession \in Session
      BY DEF Session, NoSession
    <3> QED
      BY <3>1 DEF TypeOK
  <2>3. e \in BOOLEAN /\ (call[c].expired => e)
    BY <1>2 DEF Marks, Call
  <2>4. /\ r \in Call /\ (call[c].lost => r.lost) /\ r.held = call[c].held
        /\ (call[c].expired => r.expired) /\ r.change = call[c].change /\ r.pc = "prepare"
    BY <1>2, <2>2, <2>3 DEF Call
  <2>5. call' = [call EXCEPT ![c] = r] /\ call[c].pc = "relookup"
    BY <1>10, <2>1 DEF Relookup
  <2> HIDE DEF r, SeenBy
  <2> QED
    BY <1>8, <2>4, <2>5
<1>11. ASSUME NEW c \in Calls, Prepare(c)
       PROVE  SeenInv'
  <2> DEFINE r == [call[c] EXCEPT !.pc = "fetch", !.tok = Credentials(call[c]).tok]
  <2>1. call' = [call EXCEPT ![c] = r]
    BY <1>11 DEF Prepare
  <2>2. SeenBy(r)
    BY <1>2 DEF Call
  <2> HIDE DEF r, SeenBy
  <2> QED
    BY <1>3, <2>1, <2>2
<1>12. ASSUME NEW c \in Calls, Redirect(c)
       PROVE  SeenInv'
  <2>1. CASE call' = [call EXCEPT ![c].hop = @ + 1]
    <3> DEFINE r == [call[c] EXCEPT !.hop = @ + 1]
    <3>1. SeenBy(r)
      BY <1>2, <1>12 DEF Redirect, Call
    <3>2. call' = [call EXCEPT ![c] = r]
      BY <2>1
    <3> HIDE DEF r, SeenBy
    <3> QED
      BY <1>3, <3>1, <3>2
  <2> QED
    BY <1>4, <1>12, <2>1 DEF Redirect
<1>13. CASE UNCHANGED call
  BY <1>13 DEF SeenInv
<1> HIDE DEF SeenBy
<1> QED
  BY <1>4, <1>5, <1>6, <1>7, <1>9, <1>10, <1>11, <1>12, <1>13
  DEF Next, CallStep, OwnerStep, PrepareFails, Answer, AuthFailure, Crash,
      RequestApproval, Decide, Connect, Disconnect, SetEnabled, Alarm, Tick, vars,
      history

-----------------------------------------------------------------------------
\* The initial states satisfy the invariant: nothing is stored, granted or sent.
LEMMA InitInv == Init => Inv
<1> SUFFICES ASSUME Init PROVE Inv
  OBVIOUS
<1> USE DEF Init, Free
<1>1. TypeOK
  <2>1. Free \in Call /\ NoApproval \in Approval /\ NoSession \in Session
    BY DEF Call, Approval, NoApproval, Session, NoSession
  <2> QED
    BY <2>1 DEF TypeOK
<1>2. CallInv /\ SeenInv
  BY DEF CallInv, Busy, SeenInv
<1>3. ApprovalInv /\ HolderInv
  BY DEF ApprovalInv, HolderInv, Holds, Undecided, Unsent, NoApproval
<1>4. RequestInv
  BY DEF RequestInv, NonGetWritesAreNotReplayed, Unsent
<1> QED
  BY <1>1, <1>2, <1>3, <1>4 DEF Inv

\* The invariant is inductive.
LEMMA StepInv == Inv /\ [Next]_vars => Inv'
BY TypeStep, CallStepInv, ApprovalStep, HolderStep, RequestStep, SeenStep DEF Inv

\* The strengthened invariant holds of every reachable state.
THEOREM Invariance == Spec => []Inv
<1>1. Init => Inv
  BY InitInv
<1>2. Inv /\ [Next]_vars => Inv'
  BY StepInv
<1> QED
  BY <1>1, <1>2, PTL DEF Spec

\* The variables of the write path keep their types, for every instance.
THEOREM TypeCorrect == Spec => []TypeOK
<1>1. Inv => TypeOK
  BY DEF Inv
<1> QED
  BY <1>1, Invariance, PTL

\* A write that is not a GET is one HTTP request at most, for every instance:
\* whatever Qasir answers, whatever crashes, whoever presents the approval.
THEOREM NonGetWritesOnce == Spec => []NonGetWritesAreNotReplayed
<1>1. Inv => NonGetWritesAreNotReplayed
  BY DEF Inv, RequestInv
<1> QED
  BY <1>1, Invariance, PTL

-----------------------------------------------------------------------------
\* Every step of the write path is a grant, a use of a grant, or invisible to
\* the owner's promise.
LEMMA StepRefines == Inv /\ [Next]_vars => [Promise!Next]_<<decisions, sent>>
<1> SUFFICES ASSUME Inv, [Next]_vars, ~UNCHANGED <<decisions, sent>>
             PROVE  Promise!Next
  OBVIOUS
<1>1. ASSUME NEW a \in Ids, NEW verdict \in {"approved", "rejected"}, Decide(a, verdict)
      PROVE  Promise!Next
  <2> DEFINE x == approval[a].change
  <2>1. x \in Changes /\ Undecided(a)
    BY <1>1 DEF Decide, Inv, ApprovalInv
  <2>2. decisions' = decisions \cup {<<a, x>>} /\ UNCHANGED sent
    BY <1>1 DEF Decide
  <2>3. Promise!Grant(a, x)
    BY <2>1, <2>2 DEF Promise!Grant, Undecided
  <2> QED
    BY <2>1, <2>3 DEF Promise!Next
<1>2. ASSUME NEW c \in Calls, Prepare(c)
      PROVE  Promise!Next
  <2> DEFINE a == call[c].id
             x == call[c].change
  <2>1. Busy(c) /\ Holds(c)
    BY <1>2 DEF Prepare, Busy, Holds
  <2>2. a \in Ids /\ x \in Changes
    BY <2>1 DEF Inv, CallInv
  <2>3. <<a, x>> \in decisions /\ Unsent(a)
    BY <2>1 DEF Inv, HolderInv, OwnsGrant
  <2>4. sent' = sent \cup {<<a, x>>} /\ UNCHANGED decisions
    BY <1>2 DEF Prepare
  <2>5. Promise!Do(a, x)
    BY <2>3, <2>4 DEF Promise!Do, Unsent
  <2> QED
    BY <2>2, <2>5 DEF Promise!Next
<1>3. ASSUME NEW c \in Calls, CallStep(c), ~Prepare(c)
      PROVE  UNCHANGED <<decisions, sent>>
  BY <1>3 DEF CallStep, RequestApproval, Start, Lookup, Preflight, Consume, Relookup,
              PrepareFails, Answer, AuthFailure, Redirect, Crash, history
<1>4. CASE Next
  <2>1. \/ \E c \in Calls : Prepare(c)
        \/ \E a \in Ids, verdict \in {"approved", "rejected"} : Decide(a, verdict)
    BY <1>3, <1>4 DEF Next, OwnerStep, Connect, Disconnect, SetEnabled, Alarm, Tick, history
  <2> QED
    BY <1>1, <1>2, <2>1
<1> QED
  BY <1>4 DEF vars

\* The write path keeps the abstract promise to the owner: only changes the
\* owner granted reach Qasir, and each grant at most once.
THEOREM Refinement == Spec => ImplementsApprovedOnce
<1>1. Init => Promise!Init
  BY DEF Init, Promise!Init
<1>2. Inv /\ [Next]_vars => [Promise!Next]_<<decisions, sent>>
  BY StepRefines
<1> QED
  BY <1>1, <1>2, Invariance, PTL DEF Spec, ImplementsApprovedOnce, Promise!Spec

\* A rejected or consumed approval stays so: no decision, retry or collection
\* ever makes it usable again.
THEOREM Finality == Spec => DecisionsAreFinal
<1> DEFINE Final == \A a \in Ids : approval[a].status \in {"rejected", "consumed"} =>
                      approval'[a].status \in {approval[a].status, "none"}
<1>1. Inv /\ [Next]_vars => [Final]_vars
  <2> SUFFICES ASSUME Inv, Next PROVE Final
    OBVIOUS
  <2>1. TypeOK /\ \A a \in Ids : approval[a].status # "none" => a \in used
    BY DEF Inv, ApprovalInv
  <2>2. ASSUME NEW c \in Calls, CallStep(c) PROVE Final
    <3>1. ASSUME NEW a \in Ids, NEW x \in Changes, RequestApproval(c, a, x) PROVE Final
      BY <2>1, <3>1 DEF RequestApproval, TypeOK
    <3>2. CASE Consume(c)
      BY <2>1, <3>2 DEF Consume, Consumable, TypeOK, Approval
    <3>3. CASE UNCHANGED approval
      BY <3>3
    <3> QED
      BY <2>2, <3>1, <3>2, <3>3 DEF CallStep, Start, Lookup, Preflight, Relookup,
                                    Prepare, PrepareFails, Answer, AuthFailure, Redirect, Crash
  <2>3. ASSUME NEW a \in Ids, NEW verdict \in {"approved", "rejected"}, Decide(a, verdict)
        PROVE  Final
    BY <2>1, <2>3 DEF Decide, TypeOK, Approval
  <2>4. CASE Alarm
    BY <2>1, <2>4 DEF Alarm, TypeOK, NoApproval
  <2>5. CASE UNCHANGED approval
    BY <2>5
  <2> QED
    BY <2>2, <2>3, <2>4, <2>5 DEF Next, OwnerStep, Connect, Disconnect, SetEnabled, Tick
<1> QED
  BY <1>1, Invariance, PTL DEF Spec, DecisionsAreFinal

\* Once preflight() let a call pass, its approval is spent without contacting
\* Qasir only if the object held another session at dispatch()'s lookup, one of
\* the lookups missed what it held, or the secrets in its place were rejected.
THEOREM BurnedOnly == Spec => BurnedOnlyByLookup
<1> DEFINE Burn == \A c \in Calls : call[c].pc = "prepare" /\ burned' # burned /\ call'[c] # call[c]
                     => \/ call[c].found # call[c].held \/ call[c].lost
                        \/ call[c].held.tok = None /\ call[c].expired
<1>1. Inv /\ [Next]_vars => [Burn]_vars
  <2> SUFFICES ASSUME Inv, Next, NEW c \in Calls, call[c].pc = "prepare",
                      burned' # burned, call'[c] # call[c]
               PROVE  \/ call[c].found # call[c].held \/ call[c].lost
                      \/ call[c].held.tok = None /\ call[c].expired
    OBVIOUS
  <2>1. \E d \in Calls : PrepareFails(d)
    BY DEF Next, CallStep, OwnerStep, RequestApproval, Start, Lookup, Preflight, Consume,
           Relookup, Prepare, Answer, AuthFailure, Redirect, Crash, Decide,
           Connect, Disconnect, SetEnabled, Alarm, Tick, history
  <2>2. PrepareFails(c)
    BY <2>1 DEF PrepareFails, Return, Inv, TypeOK
  <2>3. ~Usable(call[c])
    BY <2>2 DEF PrepareFails
  <2>4. CASE call[c].found = call[c].held
    <3>1. /\ AsHeld(call[c]).found = call[c].found
          /\ AsHeld(call[c]).expired = call[c].expired
          /\ AsHeld(call[c]).change = call[c].change
      BY <2>4 DEF AsHeld, Inv, TypeOK, Call
    <3>2. ~Usable(AsHeld(call[c]))
      BY <2>3, <3>1 DEF Usable, Credentials
    <3> QED
      BY <3>2 DEF Inv, SeenInv
  <2> QED
    BY <2>4
<1> QED
  BY <1>1, Invariance, PTL DEF Spec, BurnedOnlyByLookup
=============================================================================
