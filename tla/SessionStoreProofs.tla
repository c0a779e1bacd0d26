------------------------- MODULE SessionStoreProofs -------------------------
(***************************************************************************)
(* Theorems about module SessionStore, for any callers, keys, deployments, *)
(* stored records and clock.  The inductive invariant is the type          *)
(* invariant, the two safety invariants and one fact about calls: a login  *)
(* being saved always carries an expiry for the alarm to cover.  The last  *)
(* sections have one for stores whose records one key opens, and one about *)
(* what saves and readers hold at the same time.                           *)
(***************************************************************************)
EXTENDS SessionStore, TLAPS

\* savePending() gave the record it is sealing an expiry.
SavingInv == \A c \in Calls : At(c, "savePending", "seal") => call[c].rec.exp \in Nat

\* What the alarm covers has an expiry.
PendingInv == IsV2(pending) => pending.exp \in Nat

Inv == TypeOK /\ SavingInv /\ PendingInv /\ OneDeviceId /\ AlarmCoversDeadlines

Pcs == {"idle", "seal", "open", "openPending", "hash"}

-----------------------------------------------------------------------------
(* What the operators return.                                              *)

\* Sealing changes how a record is stored, not what it says.
LEMMA SealFacts ==
  ASSUME TypeOK, NEW r \in Record
  PROVE  /\ Seal(r) \in Record /\ IsV2(Seal(r))
         /\ Seal(r).gen = r.gen /\ Seal(r).val = r.val /\ Seal(r).exp = r.exp
<1>1. env.key \in Keys \cup {None}
  BY DEF TypeOK, Environment
<1> QED
  BY <1>1 DEF Seal, Record, Formats, IsV2

\* The absent record is a record, and not one of this format.
LEMMA NoRecordFacts == NoRecord \in Record /\ ~IsV2(NoRecord)
BY DEF NoRecord, Record, Formats, IsV2

\* A reader leaves, deletes or re-seals the stored session.
LEMMA AfterOpenFacts ==
  ASSUME TypeOK, NEW r \in Record, NEW t
  PROVE  /\ SessionAfterOpen(r, t) \in Record
         /\ SessionAfterOpen(r, t) \in {NoRecord, session, Seal(session)}
         /\ PendingAfterOpen(r, t) \in {NoRecord, pending}
         /\ SweptPending \in {NoRecord, pending}
BY SealFacts, NoRecordFacts DEF SessionAfterOpen, PendingAfterOpen, SweptPending, TypeOK

\* A suspended or returned call is well typed.
LEMMA SuspendTyped ==
  ASSUME TypeOK, NEW c \in Calls, NEW o \in Methods, NEW p \in Pcs, NEW r \in Record,
         NEW t \in Tokens \cup {None}, Suspend(c, o, p, r, t)
  PROVE  call' \in [Calls -> Call]
<1>1. [op |-> o, pc |-> p, rec |-> r, tok |-> t, at |-> now] \in Call
  BY DEF Call, Pcs, TypeOK
<1> QED
  BY <1>1 DEF Suspend, TypeOK

\* A call that returns leaves its slot free and well typed.
LEMMA ReturnTyped ==
  ASSUME TypeOK, NEW c \in Calls, Return(c)
  PROVE  call' \in [Calls -> Call]
<1>1. Free \in Call
  BY NoRecordFacts DEF Free, Call
<1> QED
  BY <1>1 DEF Return, TypeOK

-----------------------------------------------------------------------------
(* Types.                                                                  *)

\* Every RPC, alarm and deployment keeps the types, and a login being saved
\* keeps its expiry.
LEMMA TypeStep == TypeOK /\ SavingInv /\ [Next]_vars => TypeOK' /\ SavingInv'
<1> SUFFICES ASSUME TypeOK, SavingInv, [Next]_vars PROVE TypeOK' /\ SavingInv'
  OBVIOUS
<1>1. /\ session \in Record /\ pending \in Record /\ NoRecord \in Record
      /\ device \in Devices \cup {None} /\ call \in [Calls -> Call] /\ now \in Nat
      /\ alarm \in Nat \cup {None} /\ told \subseteq Devices
      /\ saves \in Nat /\ deploys \in Nat /\ env \in Environment
      /\ rate \in [Buckets -> Bucket] /\ SweptPending \in Record
  BY NoRecordFacts, AfterOpenFacts DEF TypeOK
<1>2. \A c \in Calls : /\ call[c].rec \in Record /\ call[c].tok \in Tokens \cup {None}
                       /\ SessionAfterOpen(call[c].rec, call[c].at) \in Record
                       /\ PendingAfterOpen(call[c].rec, call[c].at) \in Record
  BY <1>1, AfterOpenFacts DEF Call
<1>3. None \in Tokens \cup {None} /\ {"getSession", "status", "saveSession", "clearIfToken",
        "savePending", "getPending", "getOrCreateDeviceId"} \subseteq Methods
  BY DEF Methods
<1>4. ASSUME NEW c \in Calls, Return(c)
      PROVE  call' \in [Calls -> Call] /\ SavingInv'
  <2>1. call' \in [Calls -> Call]
    BY <1>4, ReturnTyped
  <2>2. SavingInv'
    BY <1>1, <1>4 DEF Return, Free, SavingInv, At
  <2> QED
    BY <2>1, <2>2
<1>5. ASSUME NEW c \in Calls, NEW o \in Methods, NEW p \in Pcs, NEW r \in Record,
             NEW t \in Tokens \cup {None}, Suspend(c, o, p, r, t),
             o = "savePending" /\ p = "seal" => r.exp \in Nat
      PROVE  call' \in [Calls -> Call] /\ SavingInv'
  <2>1. call' \in [Calls -> Call]
    BY <1>5, SuspendTyped
  <2>2. SavingInv'
    BY <1>1, <1>5 DEF Suspend, SavingInv, At
  <2> QED
    BY <2>1, <2>2
<1> DEFINE CallTyped == call' \in [Calls -> Call] /\ SavingInv'
           Rest == /\ device' \in Devices \cup {None} /\ told' \subseteq Devices
                   /\ alarm' \in Nat \cup {None} /\ rate' \in [Buckets -> Bucket]
                   /\ saves' \in Nat
<1>6. ASSUME CallTyped, Rest, session' \in Record, pending' \in Record,
             UNCHANGED <<now, env, deploys>>
      PROVE  TypeOK' /\ SavingInv'
  BY <1>1, <1>6 DEF TypeOK
<1>7. UNCHANGED call => CallTyped
  BY <1>1 DEF SavingInv, At
<1>8. UNCHANGED <<device, told, alarm, rate, saves>> => Rest
  BY <1>1
<1>9. ASSUME NEW c \in Calls, NEW o \in {"status", "getPending"}, NEW q \in Record,
             ReadPending(c, o, q)
      PROVE  pending' \in Record /\ CallTyped
  BY <1>1, <1>3, <1>4, <1>5, <1>9 DEF ReadPending, Pcs
<1>10. ASSUME NEW c \in Calls, GetSession(c) \/ GetSessionOpened(c) \/ PendingOpened(c)
       PROVE  TypeOK' /\ SavingInv'
  <2>1. CallTyped
    BY <1>1, <1>3, <1>4, <1>5, <1>7, <1>10 DEF GetSession, GetSessionOpened, PendingOpened, Pcs
  <2>2. Rest /\ session' \in Record /\ pending' \in Record /\ UNCHANGED <<now, env, deploys>>
    BY <1>1, <1>2, <1>8, <1>10 DEF GetSession, GetSessionOpened, PendingOpened
  <2> QED
    BY <1>6, <2>1, <2>2
<1>11. ASSUME NEW c \in Calls, Status(c) \/ StatusOpened(c) \/ GetPending(c)
       PROVE  TypeOK' /\ SavingInv'
  <2>1. Rest /\ session' \in Record /\ UNCHANGED <<now, env, deploys>>
    BY <1>1, <1>2, <1>8, <1>11 DEF Status, StatusOpened, GetPending
  <2>2. CallTyped /\ pending' \in Record
    <3>1. CASE Status(c)
      BY <1>1, <1>3, <1>5, <1>9, <3>1 DEF Status, Pcs
    <3>2. CASE StatusOpened(c)
      BY <1>1, <1>4, <1>9, <3>2 DEF StatusOpened
    <3>3. CASE GetPending(c)
      BY <1>1, <1>9, <3>3 DEF GetPending
    <3> QED
      BY <1>11, <3>1, <3>2, <3>3
  <2> QED
    BY <1>6, <2>1, <2>2
<1>12. ASSUME NEW c \in Calls, NEW v \in Tokens, NEW d \in {None, device},
              NEW x \in SessionExpiries, SaveSession(c, v, d, x)
       PROVE  TypeOK' /\ SavingInv'
  <2> DEFINE r == Unsealed(v, d, x)
  <2>1. r \in Record
    BY <1>1, ConstantsAssumption DEF Unsealed, Record, Formats
  <2>2. CallTyped
    <3>1. Suspend(c, "saveSession", "seal", r, None)
      BY <1>12 DEF SaveSession
    <3> QED
      BY <1>3, <1>5, <2>1, <3>1 DEF Pcs
  <2>3. Rest /\ UNCHANGED <<session, pending, now, env, deploys>>
    BY <1>1, <1>12 DEF SaveSession
  <2> QED
    BY <1>1, <1>6, <2>2, <2>3
<1>13. ASSUME NEW c \in Calls, NEW v \in Tokens, SavePending(c, v)
       PROVE  TypeOK' /\ SavingInv'
  <2> DEFINE r == Unsealed(v, None, now + PendingTtl)
  <2>1. r \in Record /\ r.exp \in Nat
    BY <1>1, ConstantsAssumption DEF Unsealed, Record, Formats
  <2>2. CallTyped
    <3>1. Suspend(c, "savePending", "seal", r, None)
      BY <1>13 DEF SavePending
    <3> QED
      BY <1>3, <1>5, <2>1, <3>1 DEF Pcs
  <2>3. Rest /\ UNCHANGED <<session, pending, now, env, deploys>>
    BY <1>1, <1>13 DEF SavePending
  <2> QED
    BY <1>1, <1>6, <2>2, <2>3
<1>14. ASSUME NEW c \in Calls, SaveSessionSealed(c) \/ SavePendingSealed(c)
       PROVE  TypeOK' /\ SavingInv'
  <2>1. Seal(call[c].rec) \in Record
    BY <1>2, SealFacts
  <2>2. CallTyped
    BY <1>4, <1>14 DEF SaveSessionSealed, SavePendingSealed
  <2>3. SavePendingSealed(c) => call[c].rec.exp \in Nat
    BY DEF SavePendingSealed, SavingInv
  <2>4. session' \in Record /\ pending' \in Record /\ UNCHANGED <<now, env, deploys>>
    BY <1>1, <1>14, <2>1 DEF SaveSessionSealed, SavePendingSealed
  <2>5. Rest
    BY <1>1, <1>14, <2>3 DEF SaveSessionSealed, SavePendingSealed, ScheduleAlarm
  <2> QED
    BY <1>6, <2>2, <2>4, <2>5
<1>15. ASSUME NEW c \in Calls, NEW t \in Tokens, ClearIfToken(c, t)
       PROVE  TypeOK' /\ SavingInv'
  <2>1. CallTyped
    BY <1>1, <1>3, <1>5, <1>7, <1>15 DEF ClearIfToken, Pcs
  <2> QED
    BY <1>1, <1>6, <1>8, <1>15, <2>1 DEF ClearIfToken
<1>16. ASSUME NEW c \in Calls, ClearIfTokenOpened(c) \/ ClearIfTokenHashed(c)
       PROVE  TypeOK' /\ SavingInv'
  <2>1. CallTyped
    <3>1. CASE call' = [call EXCEPT ![c].pc = "hash"]
      <4>1. call' \in [Calls -> Call]
        BY <1>1, <3>1 DEF Call
      <4>2. SavingInv'
        BY <1>1, <3>1 DEF SavingInv, At, Call
      <4> QED
        BY <4>1, <4>2
    <3>2. CASE Return(c)
      BY <1>4, <3>2
    <3> QED
      BY <1>16, <3>1, <3>2 DEF ClearIfTokenOpened, ClearIfTokenHashed
  <2> QED
    BY <1>1, <1>2, <1>6, <1>8, <1>16, <2>1 DEF ClearIfTokenOpened, ClearIfTokenHashed
<1>17. ASSUME NEW c \in Calls, GetOrCreateDeviceId(c)
       PROVE  TypeOK' /\ SavingInv'
  <2>1. CallTyped
    BY <1>1, <1>3, <1>5, <1>7, <1>17 DEF GetOrCreateDeviceId, Pcs
  <2>2. Rest /\ session' \in Record /\ UNCHANGED <<pending, now, env, deploys>>
    BY <1>1, <1>17 DEF GetOrCreateDeviceId, StoreDevice
  <2> QED
    BY <1>1, <1>6, <2>1, <2>2
<1>18. ASSUME NEW c \in Calls, DeviceOpened(c)
       PROVE  TypeOK' /\ SavingInv'
  <2>1. CallTyped
    BY <1>4, <1>18 DEF DeviceOpened
  <2>2. call[c].rec.dev \in Devices \cup {None}
    BY <1>2 DEF Record
  <2>3. Rest /\ session' \in Record /\ UNCHANGED <<pending, now, env, deploys>>
    BY <1>1, <1>2, <1>18, <2>2 DEF DeviceOpened, StoreDevice
  <2> QED
    BY <1>1, <1>6, <2>1, <2>3
<1>19. CASE Clear \/ ClearPending
  BY <1>1, <1>6, <1>7, <1>8, <1>19 DEF Clear, ClearPending
<1>20. ASSUME NEW b \in Buckets, CountAttempt(b)
       PROVE  TypeOK' /\ SavingInv'
  <2>1. CurrentBucket(b).count \in Nat /\ CurrentBucket(b).resetAt \in Nat
    BY <1>1, ConstantsAssumption DEF CurrentBucket, Bucket
  <2>2. [CurrentBucket(b) EXCEPT !.count = @ + 1] \in Bucket
    BY <1>1, <1>20, <2>1, ConstantsAssumption DEF CurrentBucket, CountAttempt, Bucket
  <2>3. Rest
    BY <1>1, <1>20, <2>1, <2>2 DEF CountAttempt, ScheduleAlarm
  <2> QED
    BY <1>1, <1>6, <1>7, <1>20, <2>3 DEF CountAttempt
<1>21. CASE Alarm
  <2>1. NoBucket \in Bucket
    BY ConstantsAssumption DEF NoBucket, Bucket
  <2>2. \A d \in Deadlines : d \in Nat
    <3>1. Kept(pending) => pending.exp \in Nat
      BY <1>1 DEF Kept, Record
    <3> QED
      BY <1>1, <3>1 DEF Deadlines, LiveBuckets, Bucket
  <2>3. Rest
    BY <1>1, <1>21, <2>1, <2>2 DEF Alarm
  <2> QED
    BY <1>1, <1>6, <1>7, <1>21, <2>3 DEF Alarm
<1>22. CASE Tick
  BY <1>1, <1>22 DEF Tick, TypeOK, SavingInv, At
<1>23. ASSUME NEW e \in Environments, Deploy(e)
       PROVE  TypeOK' /\ SavingInv'
  <2>1. Free \in Call /\ e \in Environment
    BY NoRecordFacts, ConstantsAssumption DEF Free, Call
  <2> QED
    BY <1>1, <1>23, <2>1 DEF Deploy, TypeOK, SavingInv, At, Free
<1>24. CASE UNCHANGED vars
  BY <1>24 DEF vars, TypeOK, SavingInv, At
<1> QED
  BY <1>10, <1>11, <1>12, <1>13, <1>14, <1>15, <1>16, <1>17, <1>18, <1>19, <1>20, <1>21,
     <1>22, <1>23, <1>24 DEF Next, CallStep

-----------------------------------------------------------------------------
(* The device id and the alarm.                                            *)

\* getOrCreateDeviceId() gives every caller the id that is stored.
LEMMA DeviceStep == TypeOK /\ OneDeviceId /\ [Next]_vars => OneDeviceId'
<1> SUFFICES ASSUME TypeOK, OneDeviceId, [Next]_vars PROVE OneDeviceId'
  OBVIOUS
<1>1. told \subseteq {device} /\ (device = None => told = {})
  BY ConstantsAssumption DEF TypeOK, OneDeviceId
<1>2. ASSUME NEW d, StoreDevice(d), device \in {None, d}
      PROVE  OneDeviceId'
  BY <1>1, <1>2 DEF StoreDevice, OneDeviceId
<1>3. ASSUME NEW c \in Calls, GetOrCreateDeviceId(c)
      PROVE  OneDeviceId'
  BY <1>1, <1>2, <1>3 DEF GetOrCreateDeviceId, OneDeviceId
<1>4. ASSUME NEW c \in Calls, DeviceOpened(c)
      PROVE  OneDeviceId'
  BY <1>1, <1>2, <1>4 DEF DeviceOpened, OneDeviceId
<1>5. CASE UNCHANGED <<device, told>>
  BY <1>5 DEF OneDeviceId
<1> QED
  BY <1>3, <1>4, <1>5
  DEF Next, CallStep, GetSession, GetSessionOpened, Status, StatusOpened, GetPending,
      PendingOpened, SaveSession, SaveSessionSealed, SavePending, SavePendingSealed,
      ClearIfToken, ClearIfTokenOpened, ClearIfTokenHashed, Clear, ClearPending,
      CountAttempt, Alarm, Tick, Deploy, vars

\* Every deadline that is stored is covered by the alarm when it is stored, and
\* the alarm only moves forward past it when the deadline is gone.
LEMMA AlarmStep ==
  TypeOK /\ SavingInv /\ PendingInv /\ AlarmCoversDeadlines /\ [Next]_vars
    => PendingInv' /\ AlarmCoversDeadlines'
<1> SUFFICES ASSUME TypeOK, SavingInv, PendingInv, AlarmCoversDeadlines, [Next]_vars
             PROVE  PendingInv' /\ AlarmCoversDeadlines'
  OBVIOUS
<1>1. /\ rate \in [Buckets -> Bucket] /\ alarm \in Nat \cup {None} /\ now \in Nat
      /\ ~IsV2(NoRecord) /\ None \notin Nat
  BY NoRecordFacts, ConstantsAssumption DEF TypeOK
<1>2. ASSUME NEW c \in Calls, SavePendingSealed(c)
      PROVE  PendingInv' /\ AlarmCoversDeadlines'
  <2> DEFINE r == call[c].rec
  <2>1. r \in Record /\ r.exp \in Nat
    BY <1>2 DEF SavePendingSealed, SavingInv, TypeOK, Call
  <2>2. Seal(r).exp = r.exp
    BY <2>1, SealFacts
  <2>3. CASE CryptoThrows
    BY <1>2, <2>3 DEF SavePendingSealed, PendingInv, AlarmCoversDeadlines, IsV2
  <2>4. CASE ~CryptoThrows
    <3>1. pending' = Seal(r) /\ ScheduleAlarm(r.exp) /\ UNCHANGED rate
      BY <1>2, <2>4 DEF SavePendingSealed
    <3>2. /\ alarm' \in Nat /\ alarm' <= r.exp
          /\ alarm # None => alarm' <= alarm
      BY <1>1, <2>1, <3>1 DEF ScheduleAlarm
    <3>3. \A b \in Buckets : rate[b].resetAt \in Nat
      BY <1>1 DEF Bucket
    <3> QED
      BY <1>1, <2>1, <2>2, <3>1, <3>2, <3>3 DEF PendingInv, AlarmCoversDeadlines, IsV2
  <2> QED
    BY <2>3, <2>4
<1>3. ASSUME NEW b \in Buckets, CountAttempt(b)
      PROVE  PendingInv' /\ AlarmCoversDeadlines'
  <2> DEFINE reset == CurrentBucket(b).resetAt
  <2>1. reset \in Nat /\ \A e \in Buckets : rate[e].resetAt \in Nat
    BY <1>1, ConstantsAssumption DEF CurrentBucket, Bucket
  <2>2. UNCHANGED pending /\ ScheduleAlarm(reset)
    BY <1>3 DEF CountAttempt
  <2>3. rate'[b].resetAt = reset /\ \A e \in Buckets \ {b} : rate'[e] = rate[e]
    BY <1>1, <1>3 DEF CountAttempt, CurrentBucket, Bucket
  <2> HIDE DEF reset
  <2>4. /\ alarm' \in Nat /\ alarm' <= reset
        /\ alarm # None => alarm' <= alarm
    BY <1>1, <2>1, <2>2 DEF ScheduleAlarm
  <2>5. PendingInv'
    BY <2>2 DEF PendingInv, IsV2
  <2>6. IsV2(pending') => alarm' # None /\ alarm' <= pending'.exp
    BY <1>1, <2>2, <2>4 DEF AlarmCoversDeadlines, PendingInv
  <2>7. \A e \in Buckets : rate'[e].count > 0 => alarm' # None /\ alarm' <= rate'[e].resetAt
    BY <1>1, <2>1, <2>3, <2>4 DEF AlarmCoversDeadlines
  <2> QED
    BY <2>5, <2>6, <2>7 DEF AlarmCoversDeadlines, IsV2
<1>4. CASE Alarm
  <2>1. pending' = SweptPending /\ SweptPending \in {NoRecord, pending}
    BY <1>4 DEF Alarm, SweptPending
  <2>2. IsV2(pending') => pending' = pending /\ Kept(pending)
    BY <1>1, <2>1 DEF SweptPending
  <2>3. \A b \in Buckets : rate'[b].count > 0 => b \in LiveBuckets /\ rate'[b] = rate[b]
    BY <1>4 DEF Alarm, NoBucket
  <2>4. \A d \in Deadlines : d \in Nat /\ alarm' # None /\ alarm' <= d
    <3>1. \A d \in Deadlines : d \in Nat
      BY <1>1 DEF Deadlines, LiveBuckets, Bucket, Kept, PendingInv
    <3> QED
      BY <1>1, <1>4, <3>1 DEF Alarm
  <2>5. Kept(pending) => pending.exp \in Deadlines
    BY DEF Deadlines
  <2>6. \A b \in LiveBuckets : rate[b].resetAt \in Deadlines
    BY DEF Deadlines
  <2> QED
    BY <2>2, <2>3, <2>4, <2>5, <2>6 DEF PendingInv, AlarmCoversDeadlines, IsV2
<1>5. CASE UNCHANGED <<rate, alarm>> /\ pending' \in {NoRecord, pending}
  BY <1>1, <1>5 DEF PendingInv, AlarmCoversDeadlines, IsV2
<1>6. SweptPending \in {NoRecord, pending} /\
      \A c \in Calls : PendingAfterOpen(call[c].rec, call[c].at) \in {NoRecord, pending}
  BY DEF SweptPending, PendingAfterOpen
<1>7. ASSUME NEW c \in Calls, ~SavePendingSealed(c), CallStep(c)
      PROVE  UNCHANGED <<rate, alarm>> /\ pending' \in {NoRecord, pending}
  BY <1>6, <1>7
  DEF CallStep, GetSession, GetSessionOpened, Status, StatusOpened, GetPending, ReadPending,
      PendingOpened, SaveSession, SaveSessionSealed, SavePending, ClearIfToken,
      ClearIfTokenOpened, ClearIfTokenHashed, GetOrCreateDeviceId, DeviceOpened
<1> QED
  BY <1>2, <1>3, <1>4, <1>5, <1>7
  DEF Next, Clear, ClearPending, Tick, Deploy, vars

-----------------------------------------------------------------------------
\* What an earlier build may have left satisfies the invariant: no login of
\* this format, no bucket, no alarm, no device id.
LEMMA InitInv == Init => Inv
<1> SUFFICES ASSUME Init PROVE Inv
  OBVIOUS
<1>1. TypeOK
  <2>1. Free \in Call /\ NoBucket \in Bucket
    BY NoRecordFacts, ConstantsAssumption DEF Free, Call, NoBucket, Bucket
  <2> QED
    BY <2>1, ConstantsAssumption DEF Init, TypeOK
<1>2. ~IsV2(pending)
  BY ConstantsAssumption DEF Init, IsV2
<1>3. SavingInv /\ PendingInv /\ OneDeviceId /\ AlarmCoversDeadlines
  BY <1>2 DEF Init, SavingInv, At, Free, PendingInv, OneDeviceId, AlarmCoversDeadlines, NoBucket
<1> QED
  BY <1>1, <1>3 DEF Inv

\* The strengthened invariant holds of every reachable state.
THEOREM Invariance == Spec => []Inv
<1>1. Init => Inv
  BY InitInv
<1>2. Inv /\ [Next]_vars => Inv'
  BY TypeStep, DeviceStep, AlarmStep DEF Inv
<1> QED
  BY <1>1, <1>2, PTL DEF Spec

\* The storage of the object and the calls in flight keep their types.
THEOREM TypeCorrect == Spec => []TypeOK
<1>1. Inv => TypeOK
  BY DEF Inv
<1> QED
  BY <1>1, Invariance, PTL

\* One device id for ever, whatever callers race to create it.
THEOREM DeviceIdIsUnique == Spec => []OneDeviceId
<1>1. Inv => OneDeviceId
  BY DEF Inv
<1> QED
  BY <1>1, Invariance, PTL

\* No stored deadline is without an alarm at or before it.
THEOREM DeadlinesAreCovered == Spec => []AlarmCoversDeadlines
<1>1. Inv => AlarmCoversDeadlines
  BY DEF Inv
<1> QED
  BY <1>1, Invariance, PTL

\* Readers only ever write back the very session that is stored.
THEOREM NoResurrection == Spec => ReadersNeverResurrect
<1> DEFINE Kin == session' # session /\ session' # NoRecord =>
             \/ \E c \in Calls : call[c].op = "saveSession" /\ call[c].rec.gen = session'.gen
             \/ session'.gen = session.gen /\ session'.val = session.val
<1>1. Inv /\ [Next]_vars => [Kin]_vars
  <2> SUFFICES ASSUME Inv, Next, session' # session, session' # NoRecord
               PROVE  \/ \E c \in Calls : /\ call[c].op = "saveSession"
                                          /\ call[c].rec.gen = session'.gen
                      \/ session'.gen = session.gen /\ session'.val = session.val
    OBVIOUS
  <2>1. TypeOK /\ session \in Record /\ \A c \in Calls : call[c].rec \in Record
    BY DEF Inv, TypeOK, Call
  <2>2. Seal(session).gen = session.gen /\ Seal(session).val = session.val
    BY <2>1, SealFacts
  <2>3. \A c \in Calls : SessionAfterOpen(call[c].rec, call[c].at)
                           \in {NoRecord, session, Seal(session)}
    BY <2>1, AfterOpenFacts
  <2>4. ASSUME NEW c \in Calls, CallStep(c), ~SaveSessionSealed(c)
        PROVE  session' = Seal(session)
    BY <2>3, <2>4
    DEF CallStep, GetSession, GetSessionOpened, Status, StatusOpened, GetPending, PendingOpened,
        SaveSession, SavePending, SavePendingSealed, ClearIfToken, ClearIfTokenOpened,
        ClearIfTokenHashed, GetOrCreateDeviceId, DeviceOpened
  <2>5. ASSUME NEW c \in Calls, SaveSessionSealed(c)
        PROVE  call[c].op = "saveSession" /\ call[c].rec.gen = session'.gen
    BY <2>1, <2>5, SealFacts DEF SaveSessionSealed, At
  <2>6. \E c \in Calls : CallStep(c)
    BY DEF Next, Clear, ClearPending, CountAttempt, Alarm, Tick, Deploy
  <2> QED
    BY <2>2, <2>4, <2>5, <2>6
<1> QED
  BY <1>1, Invariance, PTL DEF Spec, ReadersNeverResurrect

-----------------------------------------------------------------------------
\* A bucket that counts nothing has no window, as if it were absent.
RateInv == \A b \in Buckets : rate[b].count = 0 => rate[b].resetAt = 0

LEMMA RateStep == TypeOK /\ RateInv /\ [Next]_vars => RateInv'
<1> SUFFICES ASSUME TypeOK, RateInv, [Next]_vars PROVE RateInv'
  OBVIOUS
<1>1. ASSUME NEW b \in Buckets, CountAttempt(b) PROVE RateInv'
  <2>1. rate'[b].count # 0 /\ \A e \in Buckets \ {b} : rate'[e] = rate[e]
    BY <1>1, ConstantsAssumption DEF CountAttempt, CurrentBucket, TypeOK, Bucket
  <2> QED
    BY <2>1 DEF RateInv
<1>2. CASE Alarm
  BY <1>2 DEF Alarm, RateInv, NoBucket
<1>3. ASSUME NEW c \in Calls, CallStep(c) PROVE UNCHANGED rate
  BY <1>3
  DEF CallStep, GetSession, GetSessionOpened, Status, StatusOpened, GetPending, PendingOpened,
      SaveSession, SaveSessionSealed, SavePending, SavePendingSealed, ClearIfToken,
      ClearIfTokenOpened, ClearIfTokenHashed, GetOrCreateDeviceId, DeviceOpened
<1>4. CASE UNCHANGED rate
  BY <1>4 DEF RateInv
<1> QED
  BY <1>1, <1>2, <1>3, <1>4 DEF Next, Clear, ClearPending, Tick, Deploy, vars

\* Attempts are not handed back before the window ends: checkRateLimit() only
\* adds to a live bucket and alarm() prunes only the others.
THEOREM AttemptsKept == Spec => AttemptsAreNotForgotten
<1> DEFINE Counting == \A b \in Buckets :
                         rate[b].resetAt > now =>
                           /\ rate'[b].resetAt = rate[b].resetAt
                           /\ rate'[b].count >= rate[b].count
<1>1. Init => RateInv
  BY DEF Init, RateInv, NoBucket
<1>2. Spec => []RateInv
  BY <1>1, RateStep, TypeCorrect, PTL DEF Spec
<1>3. TypeOK /\ RateInv /\ [Next]_vars => [Counting]_vars
  <2> SUFFICES ASSUME TypeOK, RateInv, [Next]_vars, NEW b \in Buckets, rate[b].resetAt > now
               PROVE  rate'[b].resetAt = rate[b].resetAt /\ rate'[b].count >= rate[b].count
    OBVIOUS
  <2>1. rate[b] \in Bucket /\ now \in Nat /\ rate[b].count \in Nat /\ rate[b].resetAt \in Nat
    BY DEF TypeOK, Bucket
  <2>2. ASSUME NEW e \in Buckets, CountAttempt(e)
        PROVE  rate'[b].resetAt = rate[b].resetAt /\ rate'[b].count >= rate[b].count
    <3>1. CASE e = b
      <4>1. rate'[b] = [rate[b] EXCEPT !.count = @ + 1]
        BY <2>2, <3>1 DEF CountAttempt, CurrentBucket, TypeOK
      <4> QED
        BY <2>1, <4>1 DEF Bucket
    <3>2. CASE e # b
      <4>1. rate'[b] = rate[b]
        BY <2>2, <3>2 DEF CountAttempt, TypeOK
      <4> QED
        BY <2>1, <4>1
    <3> QED
      BY <3>1, <3>2
  <2>3. CASE Alarm
    <3>1. rate[b].count > 0
      BY <2>1 DEF RateInv
    <3>2. rate'[b] = rate[b]
      BY <2>3, <3>1 DEF Alarm, LiveBuckets
    <3> QED
      BY <2>1, <3>2
  <2>4. ASSUME NEW c \in Calls, CallStep(c) PROVE UNCHANGED rate
    BY <2>4
    DEF CallStep, GetSession, GetSessionOpened, Status, StatusOpened, GetPending, PendingOpened,
        SaveSession, SaveSessionSealed, SavePending, SavePendingSealed, ClearIfToken,
        ClearIfTokenOpened, ClearIfTokenHashed, GetOrCreateDeviceId, DeviceOpened
  <2>5. CASE UNCHANGED rate
    BY <2>1, <2>5
  <2> QED
    BY <2>2, <2>3, <2>4, <2>5 DEF Next, Clear, ClearPending, Tick, Deploy, vars
<1> QED
  BY <1>2, <1>3, TypeCorrect, PTL DEF Spec, AttemptsAreNotForgotten

-----------------------------------------------------------------------------
(* With one key, and no other in storage, every session can be opened, and *)
(* none is lost but for a reason of its own.                               *)

\* A stored session the key k opens, of this format or without an expiry.
Readable(k, r) ==
  /\ r.fmt \in {"sealed", "v1"} /\ r.key = k /\ r.good
  /\ IsLegacy(r) => r.exp = None

OneKey(k, q) ==
  /\ Environments = {[key |-> k, require |-> q]}
  /\ \A r \in StoredSessions : r = NoRecord \/ Readable(k, r)

ReadInv(k, q) ==
  /\ env = [key |-> k, require |-> q]
  /\ session = NoRecord \/ Readable(k, session)
  /\ \A c \in Calls :
       /\ call[c].pc = "open" => /\ Readable(k, call[c].rec)
                                 /\ ~HasExpired(call[c].rec, call[c].at)
       /\ call[c].op = "saveSession" /\ call[c].pc = "seal" => call[c].rec.good

\* Opening a readable record deletes nothing.
LEMMA OpenKeeps ==
  ASSUME NEW k \in Keys, NEW q \in BOOLEAN, TypeOK, ReadInv(k, q), NEW c \in Calls,
         call[c].pc = "open"
  PROVE  LET s == SessionAfterOpen(call[c].rec, call[c].at)
         IN  s = session \/ (s = Seal(session) /\ session # NoRecord)
<1> DEFINE r == call[c].rec
<1>1. ~Refused(r, call[c].at)
  <2>1. env.key = k /\ k # None /\ Readable(k, r) /\ ~HasExpired(r, call[c].at)
    BY ConstantsAssumption DEF ReadInv
  <2> HIDE DEF r
  <2> QED
    BY <2>1 DEF Refused, Readable
<1>2. r # NoRecord
  BY DEF ReadInv, Readable, NoRecord
<1> QED
  BY <1>1, <1>2 DEF SessionAfterOpen

\* What is sealed with the key is readable.
LEMMA SealReadable ==
  ASSUME NEW k \in Keys, NEW q \in BOOLEAN, TypeOK, ReadInv(k, q), NEW r \in Record, r.good
  PROVE  Readable(k, Seal(r)) /\ Seal(r) # NoRecord
<1>1. env.key = k /\ k # None
  BY ConstantsAssumption DEF ReadInv
<1>2. Seal(r).fmt = "sealed" /\ Seal(r).key = k /\ Seal(r).good
  BY <1>1 DEF Seal, Record
<1> QED
  BY <1>2 DEF Readable, IsLegacy, NoRecord

\* A reader that starts holds the stored session, which has not expired.
LEMMA ReadStep ==
  ASSUME NEW k \in Keys, NEW q \in BOOLEAN, OneKey(k, q)
  PROVE  TypeOK /\ ReadInv(k, q) /\ [Next]_vars => ReadInv(k, q)'
<1> SUFFICES ASSUME TypeOK, ReadInv(k, q), [Next]_vars PROVE ReadInv(k, q)'
  OBVIOUS
<1> DEFINE CallOK(x) ==
      /\ x.pc = "open" => Readable(k, x.rec) /\ ~HasExpired(x.rec, x.at)
      /\ x.op = "saveSession" /\ x.pc = "seal" => x.rec.good
<1>1. /\ env = [key |-> k, require |-> q] /\ session \in Record
      /\ session = NoRecord \/ Readable(k, session)
      /\ \A c \in Calls : CallOK(call[c]) /\ call[c].rec \in Record
  BY DEF ReadInv, TypeOK, Call
<1>2. SUFFICES /\ env' = env
               /\ session' = NoRecord \/ Readable(k, session')
               /\ \A c \in Calls : CallOK(call'[c])
  BY <1>1 DEF ReadInv
<1>3. ~Gone(session) => Readable(k, session) /\ ~HasExpired(session, now)
  BY <1>1, ConstantsAssumption DEF Gone, Readable, IsLegacy, IsV2, HasExpired
<1>4. \A c \in Calls : call[c].pc = "open" =>
        LET s == SessionAfterOpen(call[c].rec, call[c].at) IN s = NoRecord \/ Readable(k, s)
  BY <1>1, OpenKeeps, SealReadable DEF Readable
<1>5. CallOK(Free)
  BY DEF Free
<1>6. ASSUME NEW c \in Calls, CallStep(c)
      PROVE  /\ session' = NoRecord \/ Readable(k, session')
             /\ \A d \in Calls : CallOK(call'[d])
  <2>1. ASSUME Return(c) PROVE \A d \in Calls : CallOK(call'[d])
    BY <1>1, <1>5, <2>1 DEF Return, TypeOK
  <2>2. ASSUME NEW o, NEW t, Suspend(c, o, "open", session, t), ~Gone(session)
        PROVE  \A d \in Calls : CallOK(call'[d])
    BY <1>1, <1>3, <2>2 DEF Suspend, TypeOK
  <2>3. ASSUME NEW o, NEW t, NEW r, Suspend(c, o, "openPending", r, t)
        PROVE  \A d \in Calls : CallOK(call'[d])
    BY <1>1, <2>3 DEF Suspend, TypeOK
  <2>4. ASSUME NEW o, NEW t, NEW r, Suspend(c, o, "seal", r, t), r.good
        PROVE  \A d \in Calls : CallOK(call'[d])
    BY <1>1, <2>4 DEF Suspend, TypeOK
  <2>5. CASE GetSession(c)
    BY <1>1, <2>2, <2>5 DEF GetSession
  <2>6. ASSUME NEW t \in Tokens, ClearIfToken(c, t)
        PROVE  /\ session' = NoRecord \/ Readable(k, session')
               /\ \A d \in Calls : CallOK(call'[d])
    BY <1>1, <2>2, <2>6 DEF ClearIfToken
  <2>7. CASE GetOrCreateDeviceId(c)
    BY <1>1, <2>2, <2>7 DEF GetOrCreateDeviceId
  <2>8. CASE Status(c)
    BY <1>1, <2>1, <2>2, <2>3, <2>8 DEF Status, ReadPending
  <2>9. CASE GetPending(c)
    BY <1>1, <2>1, <2>3, <2>9 DEF GetPending, ReadPending
  <2>10. CASE PendingOpened(c) \/ SavePendingSealed(c)
    BY <1>1, <2>1, <2>10 DEF PendingOpened, SavePendingSealed
  <2>11. CASE GetSessionOpened(c) \/ DeviceOpened(c)
    BY <1>4, <2>1, <2>11 DEF GetSessionOpened, DeviceOpened, At
  <2>12. CASE StatusOpened(c)
    BY <1>4, <2>1, <2>3, <2>12 DEF StatusOpened, ReadPending, At
  <2>13. CASE ClearIfTokenOpened(c)
    <3>1. ASSUME call' = [call EXCEPT ![c].pc = "hash"]
          PROVE  \A d \in Calls : CallOK(call'[d])
      BY <1>1, <3>1 DEF TypeOK, Call
    <3> QED
      BY <1>4, <2>1, <2>13, <3>1 DEF ClearIfTokenOpened, At
  <2>14. CASE ClearIfTokenHashed(c)
    BY <1>1, <2>1, <2>14 DEF ClearIfTokenHashed
  <2>15. ASSUME NEW v \in Tokens, NEW d \in {None, device}, NEW x \in SessionExpiries,
                SaveSession(c, v, d, x)
         PROVE  /\ session' = NoRecord \/ Readable(k, session')
                /\ \A e \in Calls : CallOK(call'[e])
    BY <1>1, <2>4, <2>15 DEF SaveSession, Unsealed
  <2>16. ASSUME NEW v \in Tokens, SavePending(c, v)
         PROVE  /\ session' = NoRecord \/ Readable(k, session')
                /\ \A e \in Calls : CallOK(call'[e])
    BY <1>1, <2>4, <2>16 DEF SavePending, Unsealed
  <2>17. CASE SaveSessionSealed(c)
    BY <1>1, <2>1, <2>17, SealReadable DEF SaveSessionSealed, At
  <2> QED
    BY <1>6, <2>5, <2>6, <2>7, <2>8, <2>9, <2>10, <2>11, <2>12, <2>13, <2>14, <2>15, <2>16, <2>17
    DEF CallStep
<1>7. ASSUME NEW c \in Calls, CallStep(c) PROVE env' = env
  BY <1>7
  DEF CallStep, GetSession, GetSessionOpened, Status, StatusOpened, GetPending, PendingOpened,
      SaveSession, SaveSessionSealed, SavePending, SavePendingSealed, ClearIfToken,
      ClearIfTokenOpened, ClearIfTokenHashed, GetOrCreateDeviceId, DeviceOpened
<1>8. CASE Clear
  BY <1>1, <1>8 DEF Clear
<1>9. CASE UNCHANGED <<session, env, call>>
  BY <1>1, <1>9
<1>10. ASSUME NEW e \in Environments, Deploy(e)
       PROVE  /\ env' = env
              /\ session' = NoRecord \/ Readable(k, session')
              /\ \A c \in Calls : CallOK(call'[c])
  BY <1>1, <1>5, <1>10 DEF Deploy, OneKey
<1> HIDE DEF CallOK
<1> QED
  BY <1>6, <1>7, <1>8, <1>9, <1>10
  DEF Next, ClearPending, CountAttempt, Alarm, Tick, vars

\* With one key, a session disappears only because the owner disconnects, it
\* expired, or an upstream 401 was reported for its own token by a call that
\* had seen it; no reader and no late report takes another one along.
THEOREM NoOtherSessionIsLost ==
  ASSUME NEW k \in Keys, NEW q \in BOOLEAN, OneKey(k, q)
  PROVE  Spec => SessionLostOnlyForItsOwnReason
<1>1. Init => ReadInv(k, q)
  BY ConstantsAssumption DEF Init, ReadInv, OneKey, Free
<1>2. Spec => []ReadInv(k, q)
  BY <1>1, ReadStep, TypeCorrect, PTL DEF Spec
<1>3. TypeOK /\ ReadInv(k, q) /\ [Next]_vars
        => [session # NoRecord /\ session' = NoRecord => LossIsJustified]_vars
  <2> SUFFICES ASSUME TypeOK, ReadInv(k, q), Next, session # NoRecord, session' = NoRecord
               PROVE  LossIsJustified
    OBVIOUS
  <2>1. session \in Record /\ \A c \in Calls : call[c] \in Call
    BY DEF TypeOK
  <2>2. Gone(session) => HasExpired(session, now)
    BY DEF Gone
  <2>3. \A c \in Calls : call[c].pc = "open" =>
          SessionAfterOpen(call[c].rec, call[c].at) # NoRecord
    <3> SUFFICES ASSUME NEW c \in Calls, call[c].pc = "open"
                 PROVE  SessionAfterOpen(call[c].rec, call[c].at) # NoRecord
      OBVIOUS
    <3>1. session.good
      BY DEF ReadInv, Readable
    <3> QED
      BY <2>1, <3>1, OpenKeeps, SealReadable
  <2>4. ASSUME NEW c \in Calls, SaveSessionSealed(c) PROVE FALSE
    <3>1. call[c].rec.good /\ call[c].rec \in Record
      BY <2>1, <2>4 DEF ReadInv, SaveSessionSealed, At, Call
    <3> QED
      BY <2>4, <3>1, SealReadable DEF SaveSessionSealed
  <2>5. ASSUME NEW c \in Calls, ClearIfTokenHashed(c) PROVE LossIsJustified
    <3>1. /\ call[c].rec.val = call[c].tok /\ session = call[c].rec
          /\ At(c, "clearIfToken", "hash") /\ call'[c] = Free
      BY <2>5 DEF ClearIfTokenHashed, Return, TypeOK
    <3> QED
      BY <3>1 DEF LossIsJustified
  <2>6. ASSUME NEW c \in Calls, CallStep(c), ~ClearIfTokenHashed(c)
        PROVE  HasExpired(session, now)
    BY <2>2, <2>3, <2>4, <2>6
    DEF CallStep, GetSession, GetSessionOpened, Status, StatusOpened, GetPending, PendingOpened,
        SaveSession, SavePending, SavePendingSealed, ClearIfToken, ClearIfTokenOpened,
        GetOrCreateDeviceId, DeviceOpened, At
  <2> QED
    BY <2>5, <2>6
    DEF Next, LossIsJustified, ClearPending, CountAttempt, Alarm, Tick, Deploy
<1> QED
  BY <1>2, <1>3, TypeCorrect, PTL DEF Spec, SessionLostOnlyForItsOwnReason

\* Whatever keys come and go and whatever earlier builds left, a session
\* disappears for a reason of its own or under a read that no key of its
\* deployment could finish (#drop).
THEOREM LossesAreExplained == Spec => SessionLostOnlyToKnownCauses
<1>1. TypeOK /\ [Next]_vars
        => [session # NoRecord /\ session' = NoRecord => LossIsJustified \/ UnreadableReadEnds]_vars
  <2> SUFFICES ASSUME TypeOK, Next, session # NoRecord, session' = NoRecord
               PROVE  LossIsJustified \/ UnreadableReadEnds
    OBVIOUS
  <2>1. session \in Record /\ \A c \in Calls : call[c] \in Call /\ call[c].rec \in Record
    BY DEF TypeOK, Call
  <2>2. Gone(session) => LossIsJustified
    BY DEF Gone, LossIsJustified
  <2>3. ASSUME NEW r \in Record PROVE Seal(r) # NoRecord
    <3>1. Seal(r).fmt \in {"sealed", "plain"} /\ NoRecord.fmt = "none"
      BY <2>3 DEF Seal, Record, NoRecord
    <3> QED
      BY <3>1
  <2>4. ASSUME NEW c \in Calls, SessionAfterOpen(call[c].rec, call[c].at) = NoRecord
        PROVE  Refused(call[c].rec, call[c].at)
    BY <2>1, <2>3, <2>4 DEF SessionAfterOpen, Opens
  <2>5. ASSUME NEW c \in Calls, Return(c), call[c].pc = "open" PROVE call'[c].pc # "open"
    BY <2>5 DEF Return, Free, TypeOK
  <2>6. ASSUME NEW c \in Calls,
               GetSessionOpened(c) \/ DeviceOpened(c) \/ ClearIfTokenOpened(c) \/ StatusOpened(c)
        PROVE  UnreadableReadEnds
    <3>1. call[c].pc = "open" /\ Refused(call[c].rec, call[c].at)
      BY <2>4, <2>6
      DEF GetSessionOpened, DeviceOpened, ClearIfTokenOpened, StatusOpened, At
    <3>2. ~Opens(call[c].rec, call[c].at)
      BY <3>1 DEF Opens
    <3>3. call'[c].pc # "open"
      BY <2>5, <2>6, <3>1, <3>2
      DEF GetSessionOpened, DeviceOpened, ClearIfTokenOpened, StatusOpened, ReadPending, Suspend,
          TypeOK
    <3> QED
      BY <3>1, <3>3 DEF UnreadableReadEnds
  <2>7. ASSUME NEW c \in Calls, ClearIfTokenHashed(c) PROVE LossIsJustified
    <3>1. /\ call[c].rec.val = call[c].tok /\ session = call[c].rec
          /\ At(c, "clearIfToken", "hash") /\ call'[c] = Free
      BY <2>7 DEF ClearIfTokenHashed, Return, TypeOK
    <3> QED
      BY <3>1 DEF LossIsJustified
  <2>8. ASSUME NEW c \in Calls, SaveSessionSealed(c) PROVE FALSE
    BY <2>1, <2>3, <2>8 DEF SaveSessionSealed
  <2>9. ASSUME NEW c \in Calls, CallStep(c) PROVE LossIsJustified \/ UnreadableReadEnds
    BY <2>2, <2>6, <2>7, <2>8, <2>9
    DEF CallStep, GetSession, Status, GetPending, PendingOpened, SaveSession, SavePending,
        SavePendingSealed, ClearIfToken, GetOrCreateDeviceId
  <2> QED
    BY <2>9 DEF Next, LossIsJustified, ClearPending, CountAttempt, Alarm, Tick, Deploy
<1> QED
  BY <1>1, TypeCorrect, PTL DEF Spec, SessionLostOnlyToKnownCauses

-----------------------------------------------------------------------------
(* No two saves look alike, so what a report compares is the session it is *)
(* about or one that was saved since.                                      *)

Saving(c) == At(c, "saveSession", "seal")
Holds(c) == call[c].pc \in {"open", "hash"}

\* A session being saved differs from the stored one, from those that readers
\* hold and from every other being saved.
GenInv ==
  /\ session.gen <= saves
  /\ \A c \in Calls :
       /\ Holds(c) => call[c].rec.gen <= saves
       /\ Saving(c) => call[c].rec.gen \in 1 .. saves /\ session.gen # call[c].rec.gen
  /\ \A c, d \in Calls :
       Saving(c) /\ c # d /\ (Saving(d) \/ Holds(d)) => call[c].rec.gen # call[d].rec.gen

\* Whoever holds a record of this format holds the stored one, or the stored
\* one comes from another save.
HeldInv ==
  \A c \in Calls :
    Holds(c) /\ IsV2(call[c].rec) /\ session # NoRecord /\ session.gen = call[c].rec.gen
      => session = call[c].rec

\* Readers write nothing but the deletion or the re-sealing of a legacy record.
LEMMA ReaderWrites ==
  ASSUME NEW r, NEW t
  PROVE  LET s == SessionAfterOpen(r, t)
         IN  s \in {NoRecord, session} \/ (IsLegacy(session) /\ s = Seal(session))
BY DEF SessionAfterOpen

\* Calls that save nothing and hold only what they held, or the session that
\* is stored and stays.
Reading ==
  /\ saves' = saves
  /\ session' \in {NoRecord, session} \/ (IsLegacy(session) /\ session' = Seal(session))
  /\ \A d \in Calls :
       /\ Saving(d)' => call'[d] = call[d]
       /\ Holds(d)' => \/ Holds(d) /\ call'[d].rec = call[d].rec
                       \/ ~Saving(d)' /\ call'[d].rec = session /\ session' = session

\* Such a step keeps both invariants: what it re-seals, no reader held sealed.
LEMMA ReadingKeeps == TypeOK /\ GenInv /\ HeldInv /\ Reading => GenInv' /\ HeldInv'
<1> SUFFICES ASSUME TypeOK, GenInv, HeldInv, Reading PROVE GenInv' /\ HeldInv'
  OBVIOUS
<1>1. /\ saves \in Nat /\ session \in Record /\ session.gen \in Nat
      /\ \A d \in Calls : call[d].rec \in Record /\ call[d].rec.gen \in Nat
  BY DEF TypeOK, Call, Record
<1>2. saves' = saves /\ session'.gen \in {0, session.gen}
  BY <1>1, SealFacts DEF Reading, NoRecord
<1>3. \A d \in Calls : Saving(d)' => Saving(d) /\ call'[d] = call[d]
  BY DEF Reading, Saving, At
<1>4. \A d \in Calls : Holds(d)' => \/ Holds(d) /\ call'[d].rec = call[d].rec
                                    \/ call'[d].rec = session /\ session' = session
  BY DEF Reading
<1>5. \A d \in Calls : ~(Saving(d) /\ Holds(d))
  BY DEF Saving, Holds, At
<1>6. \A d \in Calls : Holds(d)' => call'[d].rec.gen <= saves
  BY <1>4 DEF GenInv
<1>7. \A d \in Calls : Saving(d)' => /\ call'[d].rec.gen \in 1 .. saves
                                     /\ session'.gen # call'[d].rec.gen
  BY <1>1, <1>2, <1>3 DEF GenInv
<1>8. ASSUME NEW c \in Calls, NEW d \in Calls, Saving(c)', c # d, Saving(d)' \/ Holds(d)'
      PROVE  call'[c].rec.gen # call'[d].rec.gen
  <2>1. Saving(c) /\ call'[c] = call[c] /\ session.gen # call[c].rec.gen
    BY <1>3, <1>8 DEF GenInv
  <2>2. CASE Saving(d)'
    BY <1>3, <1>8, <2>1, <2>2 DEF GenInv
  <2>3. CASE Holds(d)'
    BY <1>4, <1>8, <2>1, <2>3 DEF GenInv
  <2> QED
    BY <1>8, <2>2, <2>3
<1>9. GenInv'
  BY <1>1, <1>2, <1>6, <1>7, <1>8 DEF GenInv
<1>10. ASSUME NEW d \in Calls, Holds(d)', IsV2(call'[d].rec), session' # NoRecord,
              session'.gen = call'[d].rec.gen
       PROVE  session' = call'[d].rec
  <2>1. CASE call'[d].rec = session /\ session' = session
    BY <2>1
  <2>2. CASE Holds(d) /\ call'[d].rec = call[d].rec
    <3>1. session' = session \/ (IsLegacy(session) /\ session'.gen = session.gen)
      BY <1>1, <1>10, SealFacts DEF Reading
    <3>2. IsLegacy(session) => session # NoRecord /\ ~IsV2(session)
      BY DEF IsLegacy, IsV2, NoRecord
    <3>3. session = call[d].rec
      BY <1>10, <2>2, <3>1, <3>2 DEF HeldInv
    <3> QED
      BY <1>10, <2>2, <3>1, <3>2, <3>3
  <2> QED
    BY <1>4, <1>10, <2>1, <2>2
<1>11. HeldInv'
  BY <1>10 DEF HeldInv, IsV2
<1> QED
  BY <1>9, <1>11

\* A save that ends puts a session that nobody holds.
LEMMA SavingKeeps ==
  ASSUME TypeOK, GenInv, HeldInv, NEW c \in Calls, SaveSessionSealed(c)
  PROVE  GenInv' /\ HeldInv'
<1>1. /\ saves \in Nat /\ session \in Record /\ session.gen \in Nat
      /\ call \in [Calls -> Call]
      /\ \A d \in Calls : call[d].rec \in Record /\ call[d].rec.gen \in Nat
  BY DEF TypeOK, Call, Record
<1>2. Saving(c) /\ saves' = saves /\ call' = [call EXCEPT ![c] = Free]
  BY DEF SaveSessionSealed, Saving, Return
<1>3. ~Saving(c)' /\ ~Holds(c)' /\ \A d \in Calls \ {c} : call'[d] = call[d]
  BY <1>1, <1>2 DEF Free, Saving, Holds, At
<1>4. \A d \in Calls : d # c => (Saving(d)' <=> Saving(d)) /\ (Holds(d)' <=> Holds(d))
  BY <1>3 DEF Saving, Holds, At
<1>5. CASE session' = session
  <2>1. Reading
    BY <1>2, <1>3, <1>4, <1>5 DEF Reading
  <2> QED
    BY <2>1, ReadingKeeps
<1>6. CASE session' = Seal(call[c].rec)
  <2>1. session'.gen = call[c].rec.gen /\ call[c].rec.gen <= saves
    BY <1>1, <1>2, <1>6, SealFacts DEF GenInv
  <2>2. \A d \in Calls : Saving(d)' \/ Holds(d)' =>
          d # c /\ call'[d] = call[d] /\ session'.gen # call'[d].rec.gen
    BY <1>2, <1>3, <1>4, <2>1 DEF GenInv
  <2>3. GenInv'
    BY <1>2, <1>3, <1>4, <2>1, <2>2 DEF GenInv
  <2>4. HeldInv'
    BY <2>2 DEF HeldInv
  <2> QED
    BY <2>3, <2>4
<1> QED
  BY <1>5, <1>6 DEF SaveSessionSealed

\* A save that begins, of a session or of a pending login, is a new one.
LEMMA BeginningKeeps ==
  ASSUME TypeOK, GenInv, HeldInv, NEW c \in Calls, NEW o, NEW r, r.gen = saves + 1,
         Suspend(c, o, "seal", r, None), saves' = saves + 1, session' = session
  PROVE  GenInv' /\ HeldInv'
<1>1. /\ saves \in Nat /\ session.gen \in Nat /\ call \in [Calls -> Call]
      /\ \A d \in Calls : call[d].rec.gen \in Nat
  BY DEF TypeOK, Call, Record
<1>2. /\ call'[c].pc = "seal" /\ call'[c].rec = r
      /\ \A d \in Calls \ {c} : call'[d] = call[d]
  BY <1>1 DEF Suspend
<1>3. ~Holds(c)' /\ \A d \in Calls \ {c} : (Saving(d)' <=> Saving(d)) /\ (Holds(d)' <=> Holds(d))
  BY <1>2 DEF Saving, Holds, At
<1>4. \A d \in Calls \ {c} : Saving(d) \/ Holds(d) => call[d].rec.gen <= saves
  BY <1>1 DEF GenInv
<1>5. GenInv'
  <2>1. session'.gen <= saves' /\ session'.gen # saves + 1
    BY <1>1 DEF GenInv
  <2>2. \A d \in Calls : Holds(d)' => call'[d].rec.gen <= saves'
    BY <1>1, <1>2, <1>3, <1>4
  <2>3. \A d \in Calls : Saving(d)' => /\ call'[d].rec.gen \in 1 .. saves'
                                       /\ session'.gen # call'[d].rec.gen
    <3> SUFFICES ASSUME NEW d \in Calls, Saving(d)'
                 PROVE  call'[d].rec.gen \in 1 .. saves' /\ session'.gen # call'[d].rec.gen
      OBVIOUS
    <3>1. CASE d = c
      BY <1>1, <1>2, <2>1, <3>1
    <3>2. CASE d # c
      BY <1>1, <1>2, <1>3, <3>2 DEF GenInv
    <3> QED
      BY <3>1, <3>2
  <2>4. ASSUME NEW d \in Calls, NEW e \in Calls, Saving(d)', d # e, Saving(e)' \/ Holds(e)'
        PROVE  call'[d].rec.gen # call'[e].rec.gen
    <3>1. CASE d = c
      BY <1>1, <1>2, <1>3, <1>4, <2>4, <3>1
    <3>2. CASE e = c
      BY <1>1, <1>2, <1>3, <1>4, <2>4, <3>2
    <3>3. CASE d # c /\ e # c
      BY <1>2, <1>3, <2>4, <3>3 DEF GenInv
    <3> QED
      BY <3>1, <3>2, <3>3
  <2> QED
    BY <2>1, <2>2, <2>3, <2>4 DEF GenInv
<1>6. HeldInv'
  BY <1>2, <1>3 DEF HeldInv
<1> QED
  BY <1>5, <1>6

\* Every step reads, ends a save or begins one.
LEMMA HeldStep == TypeOK /\ GenInv /\ HeldInv /\ [Next]_vars => GenInv' /\ HeldInv'
<1> SUFFICES ASSUME TypeOK, GenInv, HeldInv, [Next]_vars PROVE GenInv' /\ HeldInv'
  OBVIOUS
<1>1. call \in [Calls -> Call]
  BY DEF TypeOK
<1> DEFINE Fits(d) == /\ Saving(d)' => call'[d] = call[d]
                      /\ Holds(d)' => \/ Holds(d) /\ call'[d].rec = call[d].rec
                                      \/ ~Saving(d)' /\ call'[d].rec = session /\ session' = session
           Writes == /\ saves' = saves
                     /\ \/ session' \in {NoRecord, session}
                        \/ IsLegacy(session) /\ session' = Seal(session)
<1>2. Writes /\ (\A d \in Calls : Fits(d)) => GenInv' /\ HeldInv'
  BY ReadingKeeps DEF Reading
<1>3. ASSUME UNCHANGED call PROVE \A d \in Calls : Fits(d)
  BY <1>3 DEF Saving, Holds, At
<1>4. ASSUME NEW c \in Calls, Return(c) PROVE \A d \in Calls : Fits(d)
  BY <1>1, <1>4 DEF Return, Free, Saving, Holds, At
<1>5. ASSUME NEW c \in Calls, NEW o, NEW t, Suspend(c, o, "open", session, t), session' = session
      PROVE  \A d \in Calls : Fits(d)
  BY <1>1, <1>5 DEF Suspend, Saving, Holds, At
<1>6. ASSUME NEW c \in Calls, NEW o, NEW r, NEW t, Suspend(c, o, "openPending", r, t)
      PROVE  \A d \in Calls : Fits(d)
  BY <1>1, <1>6 DEF Suspend, Saving, Holds, At
<1>7. ASSUME NEW c \in Calls, NEW o, NEW q, ReadPending(c, o, q)
      PROVE  \A d \in Calls : Fits(d)
  BY <1>4, <1>6, <1>7 DEF ReadPending
<1>8. ASSUME NEW c \in Calls,
             GetSessionOpened(c) \/ StatusOpened(c) \/ DeviceOpened(c) \/ ClearIfTokenOpened(c)
      PROVE  Writes
  BY <1>8, ReaderWrites DEF GetSessionOpened, StatusOpened, DeviceOpened, ClearIfTokenOpened
<1>9. ASSUME NEW c \in Calls, ClearIfTokenOpened(c) PROVE \A d \in Calls : Fits(d)
  <2>1. CASE call' = [call EXCEPT ![c].pc = "hash"]
    BY <1>1, <1>9, <2>1 DEF ClearIfTokenOpened, Call, Saving, Holds, At
  <2>2. CASE Return(c)
    BY <1>4, <2>2
  <2> QED
    BY <1>9, <2>1, <2>2 DEF ClearIfTokenOpened
<1> HIDE DEF Fits
<1>10. ASSUME NEW c \in Calls, GetSession(c) \/ Status(c) \/ GetOrCreateDeviceId(c)
       PROVE  GenInv' /\ HeldInv'
  <2>1. Writes
    BY <1>10 DEF GetSession, Status, GetOrCreateDeviceId
  <2>2. \A d \in Calls : Fits(d)
    BY <1>3, <1>5, <1>7, <1>10 DEF GetSession, Status, GetOrCreateDeviceId
  <2> QED
    BY <1>2, <2>1, <2>2
<1>11. ASSUME NEW c \in Calls, NEW t \in Tokens, ClearIfToken(c, t) PROVE GenInv' /\ HeldInv'
  <2>1. Writes
    BY <1>11 DEF ClearIfToken
  <2>2. \A d \in Calls : Fits(d)
    BY <1>3, <1>5, <1>11 DEF ClearIfToken
  <2> QED
    BY <1>2, <2>1, <2>2
<1>12. ASSUME NEW c \in Calls,
              GetSessionOpened(c) \/ StatusOpened(c) \/ DeviceOpened(c) \/ ClearIfTokenOpened(c)
       PROVE  GenInv' /\ HeldInv'
  <2>1. \A d \in Calls : Fits(d)
    BY <1>4, <1>7, <1>9, <1>12 DEF GetSessionOpened, StatusOpened, DeviceOpened
  <2> QED
    BY <1>2, <1>8, <1>12, <2>1
<1>13. ASSUME NEW c \in Calls,
              GetPending(c) \/ PendingOpened(c) \/ SavePendingSealed(c) \/ ClearIfTokenHashed(c)
       PROVE  GenInv' /\ HeldInv'
  <2>1. Writes
    BY <1>13 DEF GetPending, PendingOpened, SavePendingSealed, ClearIfTokenHashed
  <2>2. \A d \in Calls : Fits(d)
    BY <1>4, <1>7, <1>13 DEF GetPending, PendingOpened, SavePendingSealed, ClearIfTokenHashed
  <2> QED
    BY <1>2, <2>1, <2>2
<1>14. ASSUME NEW c \in Calls, NEW v \in Tokens, NEW d \in {None, device},
              NEW x \in SessionExpiries, SaveSession(c, v, d, x)
       PROVE  GenInv' /\ HeldInv'
  BY <1>14, BeginningKeeps DEF SaveSession, Unsealed
<1>15. ASSUME NEW c \in Calls, NEW v \in Tokens, SavePending(c, v)
       PROVE  GenInv' /\ HeldInv'
  BY <1>15, BeginningKeeps DEF SavePending, Unsealed
<1>16. ASSUME NEW c \in Calls, CallStep(c) PROVE GenInv' /\ HeldInv'
  BY <1>10, <1>11, <1>12, <1>13, <1>14, <1>15, <1>16, SavingKeeps DEF CallStep
<1>17. CASE Clear
  BY <1>2, <1>3, <1>17 DEF Clear
<1>18. CASE UNCHANGED <<session, call, saves>>
  BY <1>2, <1>3, <1>18
<1>19. ASSUME NEW e \in Environments, Deploy(e) PROVE GenInv' /\ HeldInv'
  <2>1. \A d \in Calls : Fits(d)
    BY <1>19 DEF Deploy, Fits, Free, Saving, Holds, At
  <2> QED
    BY <1>2, <1>19, <2>1 DEF Deploy
<1> QED
  BY <1>16, <1>17, <1>18, <1>19 DEF Next, ClearPending, CountAttempt, Alarm, Tick, vars

\* A report that ends leaves nothing of the session it is about: what is stored
\* by then is gone, another save, or the very record the report compares with.
THEOREM ReportsClear == Spec => ReportedSessionIsCleared
<1> DEFINE Cleared == \A c \in Calls :
             /\ At(c, "clearIfToken", "hash") /\ call'[c].pc = "idle" /\ deploys' = deploys
             /\ IsV2(call[c].rec) /\ call[c].rec.val = call[c].tok
             => session'.gen # call[c].rec.gen \/ session' = NoRecord
<1>1. Init => GenInv /\ HeldInv
  BY ConstantsAssumption DEF Init, GenInv, HeldInv, Free, Saving, Holds, At
<1>2. Spec => [](GenInv /\ HeldInv)
  BY <1>1, HeldStep, TypeCorrect, PTL DEF Spec
<1>3. TypeOK /\ HeldInv /\ [Next]_vars => [Cleared]_vars
  <2> SUFFICES ASSUME TypeOK, HeldInv, Next, deploys' = deploys, NEW c \in Calls,
                      At(c, "clearIfToken", "hash"), call'[c].pc = "idle",
                      IsV2(call[c].rec), call[c].rec.val = call[c].tok
               PROVE  session'.gen # call[c].rec.gen \/ session' = NoRecord
    OBVIOUS
  <2>1. call \in [Calls -> Call] /\ deploys \in Nat
    BY DEF TypeOK
  <2>2. ASSUME NEW d \in Calls, d # c, CallStep(d) PROVE call'[c] = call[c]
    BY <2>1, <2>2
    DEF CallStep, GetSession, GetSessionOpened, Status, StatusOpened, GetPending, PendingOpened,
        SaveSession, SaveSessionSealed, SavePending, SavePendingSealed, ClearIfToken,
        ClearIfTokenOpened, ClearIfTokenHashed, GetOrCreateDeviceId, DeviceOpened, ReadPending,
        Suspend, Return
  <2>3. CallStep(c) => ClearIfTokenHashed(c)
    BY DEF CallStep, GetSession, GetSessionOpened, Status, StatusOpened, GetPending, PendingOpened,
        SaveSession, SaveSessionSealed, SavePending, SavePendingSealed, ClearIfToken,
        ClearIfTokenOpened, GetOrCreateDeviceId, DeviceOpened, At, May
  <2>4. ClearIfTokenHashed(c)
    BY <2>1, <2>2, <2>3
    DEF Next, Clear, ClearPending, CountAttempt, Alarm, Tick, Deploy, At
  <2>5. session # NoRecord /\ session.gen = call[c].rec.gen => session = call[c].rec
    BY DEF HeldInv, Holds, At
  <2> QED
    BY <2>4, <2>5 DEF ClearIfTokenHashed
<1> QED
  BY <1>2, <1>3, TypeCorrect, PTL DEF Spec, ReportedSessionIsCleared
=============================================================================
