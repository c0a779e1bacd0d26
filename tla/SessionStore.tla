---------------------------- MODULE SessionStore ----------------------------
(***************************************************************************)
(* The merchant-wide Durable Object that keeps the Qasir session           *)
(* (src/session/session-store.ts behind src/session/qasir-sessions-do.ts). *)
(*                                                                         *)
(* A Durable Object runs one event at a time and delivers none while a     *)
(* storage operation is pending, so a stretch of code whose only awaits    *)
(* are storage operations is one step.  Awaiting the key derivation, the   *)
(* encryption, the decryption or the hash of a token is not a storage      *)
(* operation: other RPCs run meanwhile (session-store.ts:171, 219, 239).   *)
(* Every RPC is therefore cut into steps exactly there: "seal" is a call   *)
(* waiting for an encryption, "open" and "openPending" one waiting for a   *)
(* decryption, "hash" one waiting for the hash of the token it opened.     *)
(***************************************************************************)
EXTENDS Naturals, FiniteSets

CONSTANTS
  None,             \* JavaScript's null and undefined
  Calls,            \* the RPCs that may be in flight together
  Ops,              \* the methods the callers of this instance use
  Tokens,           \* API tokens of sessions, drafts of pending logins
  Devices,          \* device ids
  Buckets,          \* hashed rate-limit keys
  Keys,             \* values SESSION_ENCRYPTION_KEY has had
  Environments,     \* deployments: [key, require], key = None when unset
  StoredSessions,   \* what an earlier build may have left under "session"
  StoredPendings,   \* what an earlier build may have left under "pending_auth"
  SessionExpiries,  \* expiresAt given to saveSession, None when absent
  PendingTtl,       \* PENDING_TTL_MS
  Window,           \* windowMs of the rate limit
  Limit,            \* limit of the rate limit
  MaxTime,          \* bound: the clock stops here
  MaxSaves,         \* bound: saveSession and savePending calls
  MaxDeploys        \* bound: restarts of the object

Formats == {"none", "sealed", "plain", "v1", "v1plain"}

\* A stored record.  `gen` stands for what makes the bytes of two saves differ
\* (the random IV, connectedAt, createdAt); 0 is a record of an earlier build.
\* `good` is false of a value that fails isStoredSession or isPendingState.
Record == [fmt : Formats, key : Keys \cup {None}, good : BOOLEAN,
           val : Tokens \cup {None}, dev : Devices \cup {None},
           exp : Nat \cup {None}, gen : Nat]

NoRecord == [fmt |-> "none", key |-> None, good |-> FALSE, val |-> None,
             dev |-> None, exp |-> None, gen |-> 0]

Environment == [key : Keys \cup {None}, require : BOOLEAN]

ASSUME ConstantsAssumption ==
  /\ None \notin Nat /\ None \notin Tokens /\ None \notin Devices
  /\ None \notin Keys
  /\ Environments \subseteq Environment
  /\ StoredSessions \subseteq Record
  /\ StoredPendings \subseteq {r \in Record : r.fmt \in {"none", "v1", "v1plain"}}
  /\ \A r \in StoredSessions \cup StoredPendings : r.gen = 0
  /\ SessionExpiries \subseteq Nat \cup {None}
  /\ PendingTtl \in Nat \ {0} /\ Window \in Nat \ {0} /\ Limit \in Nat \ {0}
  /\ MaxTime \in Nat /\ MaxSaves \in Nat /\ MaxDeploys \in Nat

VARIABLES
  session,   \* storage key "session"
  pending,   \* storage key "pending_auth"
  device,    \* storage key "device_id"
  rate,      \* storage keys "rate:<hash>"; count 0 is an absent bucket
  alarm,     \* the object's single alarm
  now,       \* Date.now()
  env,       \* SESSION_ENCRYPTION_KEY and REQUIRE_SESSION_ENCRYPTION
  call,      \* call[c] is the suspended RPC c
  saves,     \* history: saves started, the source of `gen`
  deploys,   \* history: restarts so far
  told       \* history: device ids returned to a caller

vars == <<session, pending, device, rate, alarm, now, env, call, saves, deploys, told>>

Bucket == [count : 0 .. Limit, resetAt : Nat]
NoBucket == [count |-> 0, resetAt |-> 0]

Methods == {"getSession", "status", "saveSession", "clear", "clearIfToken",
            "savePending", "getPending", "clearPending", "getOrCreateDeviceId",
            "checkRateLimit"}

Call == [op : Methods \cup {"none"},
         pc : {"idle", "seal", "open", "openPending", "hash"},
         rec : Record, tok : Tokens \cup {None}, at : Nat]

Free == [op |-> "none", pc |-> "idle", rec |-> NoRecord, tok |-> None, at |-> 0]

TypeOK ==
  /\ session \in Record /\ pending \in Record
  /\ device \in Devices \cup {None}
  /\ rate \in [Buckets -> Bucket]
  /\ alarm \in Nat \cup {None}
  /\ now \in Nat
  /\ env \in Environment
  /\ call \in [Calls -> Call]
  /\ saves \in Nat /\ deploys \in Nat
  /\ told \subseteq Devices

Init ==
  /\ session \in StoredSessions
  /\ pending \in StoredPendings
  /\ device = None
  /\ rate = [b \in Buckets |-> NoBucket]
  /\ alarm = None
  /\ now = 0
  /\ env \in Environments
  /\ call = [c \in Calls |-> Free]
  /\ saves = 0
  /\ deploys = 0
  /\ told = {}

-----------------------------------------------------------------------------
(* Reading and sealing records.                                            *)

IsV2(r) == r.fmt \in {"sealed", "plain"}
IsLegacy(r) == r.fmt \in {"v1", "v1plain"}
HasExpired(r, t) == r.exp # None /\ r.exp <= t

\* resolveSessionCrypto throws FORBIDDEN.
CryptoThrows == env.require /\ env.key = None

Seal(r) == [r EXCEPT !.fmt = IF env.key = None THEN "plain" ELSE "sealed",
                     !.key = env.key]

\* An encrypted record without a key is left for when the key returns.
LeftAlone(r) == r.fmt \in {"sealed", "v1"} /\ env.key = None

\* The reasons #open and #read have to delete a record read at time t.
Refused(r, t) ==
  \/ r.fmt \in {"sealed", "v1"} /\ r.key # env.key
  \/ r.fmt \in {"plain", "v1plain"} /\ env.require
  \/ ~r.good
  \/ HasExpired(r, t)

Opens(r, t) == ~CryptoThrows /\ ~LeftAlone(r) /\ ~Refused(r, t)

\* #read found nothing to open: no record, or a v2 record past its expiry.
Gone(r) == r = NoRecord \/ (IsV2(r) /\ HasExpired(r, now))

\* Mutant: a legacy record is re-sealed without asking whether it is still there.
SessionResealed(r, t) ==
  IF ~CryptoThrows /\ ~LeftAlone(r) /\ Refused(r, t) THEN NoRecord
  ELSE IF Opens(r, t) /\ IsLegacy(r) /\ env.key # None THEN Seal(r)
  ELSE session

\* The "session" key once #read has opened r, which it read at time t.  A
\* refused record is deleted whatever the key holds by now; a legacy one is
\* re-sealed only if it is still there.
SessionAfterOpen(r, t) ==
  IF ~CryptoThrows /\ ~LeftAlone(r) /\ Refused(r, t) THEN NoRecord
  ELSE IF Opens(r, t) /\ IsLegacy(r) /\ env.key # None /\ session = r THEN Seal(r)
  ELSE session

\* The same for "pending_auth", whose legacy records are dropped unread.
PendingAfterOpen(r, t) ==
  IF ~CryptoThrows /\ (IsLegacy(r) \/ (~LeftAlone(r) /\ Refused(r, t))) THEN NoRecord
  ELSE pending

\* #sweepPending keeps only v2 records that still have time to run.
Kept(r) == IsV2(r) /\ r.exp # None /\ r.exp > now
SweptPending == IF Kept(pending) THEN pending ELSE NoRecord

\* Mutant: the alarm is set without looking at the one already set.
SetAlarm(t) == alarm' = t

\* #scheduleAlarm only ever brings the alarm forward.
ScheduleAlarm(t) ==
  alarm' = IF alarm = None \/ alarm > t THEN t ELSE alarm

-----------------------------------------------------------------------------
(* The life of an RPC.                                                     *)

May(c, o) == o \in Ops /\ call[c].pc = "idle"
At(c, o, p) == call[c].op = o /\ call[c].pc = p
Suspend(c, o, p, r, t) ==
  call' = [call EXCEPT ![c] = [op |-> o, pc |-> p, rec |-> r, tok |-> t, at |-> now]]
Return(c) == call' = [call EXCEPT ![c] = Free]

\* getSession(): sweep the pending login, then #read the session.
GetSession(c) ==
  /\ May(c, "getSession")
  /\ pending' = SweptPending
  /\ \/ Gone(session) /\ session' = NoRecord /\ UNCHANGED call
     \/ /\ ~Gone(session)
        /\ Suspend(c, "getSession", "open", session, None)
        /\ UNCHANGED session
  /\ UNCHANGED <<device, rate, alarm, now, env, saves, deploys, told>>

GetSessionOpened(c) ==
  /\ At(c, "getSession", "open")
  /\ session' = SessionAfterOpen(call[c].rec, call[c].at)
  /\ Return(c)
  /\ UNCHANGED <<pending, device, rate, alarm, now, env, saves, deploys, told>>

\* #read of the pending login p on behalf of method o.
ReadPending(c, o, p) ==
  \/ Gone(p) /\ pending' = NoRecord /\ Return(c)
  \/ ~Gone(p) /\ pending' = p /\ Suspend(c, o, "openPending", p, None)

\* status(): getSession(), and getPending() when there is no session.
Status(c) ==
  /\ May(c, "status")
  /\ \/ Gone(session) /\ session' = NoRecord /\ ReadPending(c, "status", SweptPending)
     \/ /\ ~Gone(session)
        /\ pending' = SweptPending
        /\ Suspend(c, "status", "open", session, None)
        /\ UNCHANGED session
  /\ UNCHANGED <<device, rate, alarm, now, env, saves, deploys, told>>

StatusOpened(c) ==
  /\ At(c, "status", "open")
  /\ session' = SessionAfterOpen(call[c].rec, call[c].at)
  /\ IF CryptoThrows \/ Opens(call[c].rec, call[c].at)
     THEN Return(c) /\ UNCHANGED pending
     ELSE ReadPending(c, "status", pending)
  /\ UNCHANGED <<device, rate, alarm, now, env, saves, deploys, told>>

\* getPending().
GetPending(c) ==
  /\ May(c, "getPending")
  /\ ReadPending(c, "getPending", pending)
  /\ UNCHANGED <<session, device, rate, alarm, now, env, saves, deploys, told>>

PendingOpened(c) ==
  /\ call[c].pc = "openPending"
  /\ pending' = PendingAfterOpen(call[c].rec, call[c].at)
  /\ Return(c)
  /\ UNCHANGED <<session, device, rate, alarm, now, env, saves, deploys, told>>

\* The record a save is about to seal.
Unsealed(v, d, x) == [fmt |-> "none", key |-> None, good |-> TRUE, val |-> v, dev |-> d,
                      exp |-> x, gen |-> saves + 1]

\* saveSession(): seal the record, then put it and delete the pending login.
SaveSession(c, v, d, x) ==
  /\ May(c, "saveSession")
  /\ saves < MaxSaves
  /\ saves' = saves + 1
  /\ Suspend(c, "saveSession", "seal", Unsealed(v, d, x), None)
  /\ UNCHANGED <<session, pending, device, rate, alarm, now, env, deploys, told>>

SaveSessionSealed(c) ==
  /\ At(c, "saveSession", "seal")
  /\ IF CryptoThrows THEN UNCHANGED <<session, pending>>
     ELSE session' = Seal(call[c].rec) /\ pending' = NoRecord
  /\ Return(c)
  /\ UNCHANGED <<device, rate, alarm, now, env, saves, deploys, told>>

\* savePending(): the record expires PendingTtl after the call began.
SavePending(c, v) ==
  /\ May(c, "savePending")
  /\ saves < MaxSaves
  /\ saves' = saves + 1
  /\ Suspend(c, "savePending", "seal", Unsealed(v, None, now + PendingTtl), None)
  /\ UNCHANGED <<session, pending, device, rate, alarm, now, env, deploys, told>>

SavePendingSealed(c) ==
  /\ At(c, "savePending", "seal")
  /\ IF CryptoThrows THEN UNCHANGED <<pending, alarm>>
     ELSE pending' = Seal(call[c].rec) /\ ScheduleAlarm(call[c].rec.exp)
  /\ Return(c)
  /\ UNCHANGED <<session, device, rate, now, env, saves, deploys, told>>

\* clear() and clearPending(), each a single delete.
Clear ==
  /\ "clear" \in Ops
  /\ session' = NoRecord
  /\ UNCHANGED <<pending, device, rate, alarm, now, env, call, saves, deploys, told>>

ClearPending ==
  /\ "clearPending" \in Ops
  /\ pending' = NoRecord
  /\ UNCHANGED <<session, device, rate, alarm, now, env, call, saves, deploys, told>>

\* clearIfToken(): `before` and the record #read opens are read in one step.
ClearIfToken(c, t) ==
  /\ May(c, "clearIfToken")
  /\ \/ Gone(session) /\ session' = NoRecord /\ UNCHANGED call
     \/ /\ ~Gone(session)
        /\ Suspend(c, "clearIfToken", "open", session, t)
        /\ UNCHANGED session
  /\ UNCHANGED <<pending, device, rate, alarm, now, env, saves, deploys, told>>

ClearIfTokenOpened(c) ==
  /\ At(c, "clearIfToken", "open")
  /\ session' = SessionAfterOpen(call[c].rec, call[c].at)
  /\ IF Opens(call[c].rec, call[c].at)
     THEN call' = [call EXCEPT ![c].pc = "hash"]
     ELSE Return(c)
  /\ UNCHANGED <<pending, device, rate, alarm, now, env, saves, deploys, told>>

\* Mutant: clearIfToken() does not compare the record with the one it opened.
ClearIfTokenUnguarded(c) ==
  /\ At(c, "clearIfToken", "hash")
  /\ session' = IF call[c].rec.val = call[c].tok THEN NoRecord ELSE session
  /\ Return(c)
  /\ UNCHANGED <<pending, device, rate, alarm, now, env, saves, deploys, told>>

\* Mutant: clearIfToken() deletes the record only if it has changed.
ClearIfTokenInverted(c) ==
  /\ At(c, "clearIfToken", "hash")
  /\ session' = IF call[c].rec.val = call[c].tok /\ session # call[c].rec
                THEN NoRecord ELSE session
  /\ Return(c)
  /\ UNCHANGED <<pending, device, rate, alarm, now, env, saves, deploys, told>>

ClearIfTokenHashed(c) ==
  /\ At(c, "clearIfToken", "hash")
  /\ session' = IF call[c].rec.val = call[c].tok /\ session = call[c].rec
                THEN NoRecord ELSE session
  /\ Return(c)
  /\ UNCHANGED <<pending, device, rate, alarm, now, env, saves, deploys, told>>

\* getOrCreateDeviceId(): the stored id, else the session's, else a new one.
StoreDevice(d) == device' = d /\ told' = told \cup {d}

GetOrCreateDeviceId(c) ==
  /\ May(c, "getOrCreateDeviceId")
  /\ \/ device # None /\ StoreDevice(device) /\ UNCHANGED <<session, call>>
     \/ /\ device = None /\ Gone(session) /\ session' = NoRecord
        /\ \E d \in Devices : StoreDevice(d)
        /\ UNCHANGED call
     \/ /\ device = None /\ ~Gone(session)
        /\ Suspend(c, "getOrCreateDeviceId", "open", session, None)
        /\ UNCHANGED <<session, device, told>>
  /\ UNCHANGED <<pending, rate, alarm, now, env, saves, deploys>>

\* Mutant: the id another caller stored during the decryption is not read.
DeviceOpenedUnread(c) ==
  LET r == call[c].rec
      adopted == Opens(r, call[c].at) /\ r.dev # None
  IN
  /\ At(c, "getOrCreateDeviceId", "open")
  /\ session' = SessionAfterOpen(r, call[c].at)
  /\ \/ CryptoThrows /\ UNCHANGED <<device, told>>
     \/ ~CryptoThrows /\ adopted /\ StoreDevice(r.dev)
     \/ ~CryptoThrows /\ ~adopted /\ \E d \in Devices : StoreDevice(d)
  /\ Return(c)
  /\ UNCHANGED <<pending, rate, alarm, now, env, saves, deploys>>

DeviceOpened(c) ==
  LET r == call[c].rec
      adopted == Opens(r, call[c].at) /\ r.dev # None
  IN
  /\ At(c, "getOrCreateDeviceId", "open")
  /\ session' = SessionAfterOpen(r, call[c].at)
  /\ \/ CryptoThrows /\ UNCHANGED <<device, told>>
     \/ ~CryptoThrows /\ device # None /\ StoreDevice(device)
     \/ ~CryptoThrows /\ device = None /\ adopted /\ StoreDevice(r.dev)
     \/ /\ ~CryptoThrows /\ device = None /\ ~adopted
        /\ \E d \in Devices : StoreDevice(d)
  /\ Return(c)
  /\ UNCHANGED <<pending, rate, alarm, now, env, saves, deploys>>

\* checkRateLimit(): hashed first, so reading and counting is one step.
CurrentBucket(b) ==
  IF rate[b].resetAt > now THEN rate[b] ELSE [count |-> 0, resetAt |-> now + Window]

\* Mutant: the attempt is counted before the limit is compared.
CountAnyAttempt(b) ==
  /\ "checkRateLimit" \in Ops
  /\ rate' = [rate EXCEPT ![b] = [CurrentBucket(b) EXCEPT !.count = @ + 1]]
  /\ ScheduleAlarm(CurrentBucket(b).resetAt)
  /\ UNCHANGED <<session, pending, device, now, env, call, saves, deploys, told>>

CountAttempt(b) ==
  /\ "checkRateLimit" \in Ops
  /\ CurrentBucket(b).count < Limit
  /\ rate' = [rate EXCEPT ![b] = [CurrentBucket(b) EXCEPT !.count = @ + 1]]
  /\ ScheduleAlarm(CurrentBucket(b).resetAt)
  /\ UNCHANGED <<session, pending, device, now, env, call, saves, deploys, told>>

\* Mutant: alarm() prunes every bucket.
NoLiveBuckets == {}

\* The runtime clears the alarm, then runs alarm(), all storage operations.
LiveBuckets == {b \in Buckets : rate[b].count > 0 /\ rate[b].resetAt > now}
Deadlines == {rate[b].resetAt : b \in LiveBuckets} \cup
             (IF Kept(pending) THEN {pending.exp} ELSE {})

\* Mutant: alarm() does not set the next alarm.
AlarmOnce ==
  /\ alarm # None /\ alarm <= now
  /\ pending' = SweptPending
  /\ rate' = [b \in Buckets |-> IF b \in LiveBuckets THEN rate[b] ELSE NoBucket]
  /\ alarm' = None
  /\ UNCHANGED <<session, device, now, env, call, saves, deploys, told>>

Alarm ==
  /\ alarm # None /\ alarm <= now
  /\ pending' = SweptPending
  /\ rate' = [b \in Buckets |-> IF b \in LiveBuckets THEN rate[b] ELSE NoBucket]
  /\ \/ Deadlines = {} /\ alarm' = None
     \/ \E d \in Deadlines : (\A e \in Deadlines : d <= e) /\ alarm' = d
  /\ UNCHANGED <<session, device, now, env, call, saves, deploys, told>>

-----------------------------------------------------------------------------
(* The world around the object.                                            *)

Tick ==
  /\ now < MaxTime
  /\ now' = now + 1
  /\ UNCHANGED <<session, pending, device, rate, alarm, env, call, saves, deploys, told>>

\* A deployment (or an eviction, when e = env) loses the calls in flight and
\* keeps the storage and the alarm.
Deploy(e) ==
  /\ deploys < MaxDeploys
  /\ deploys' = deploys + 1
  /\ env' = e
  /\ call' = [c \in Calls |-> Free]
  /\ UNCHANGED <<session, pending, device, rate, alarm, now, saves, told>>

CallStep(c) ==
  \/ GetSession(c) \/ GetSessionOpened(c)
  \/ Status(c) \/ StatusOpened(c)
  \/ GetPending(c) \/ PendingOpened(c)
  \/ \E v \in Tokens, d \in {None, device}, x \in SessionExpiries : SaveSession(c, v, d, x)
  \/ SaveSessionSealed(c)
  \/ \E v \in Tokens : SavePending(c, v)
  \/ SavePendingSealed(c)
  \/ \E t \in Tokens : ClearIfToken(c, t)
  \/ ClearIfTokenOpened(c) \/ ClearIfTokenHashed(c)
  \/ GetOrCreateDeviceId(c) \/ DeviceOpened(c)

Next ==
  \/ \E c \in Calls : CallStep(c)
  \/ Clear \/ ClearPending
  \/ \E b \in Buckets : CountAttempt(b)
  \/ Alarm
  \/ Tick
  \/ \E e \in Environments : Deploy(e)

Spec == Init /\ [][Next]_vars

\* The runtime delivers a due alarm; callers and the owner owe nothing.
FairSpec == Spec /\ WF_vars(Alarm)

-----------------------------------------------------------------------------
(* Properties.                                                             *)

\* A session disappears for a reason that concerns that very session: the
\* owner disconnects, its own expiry passed, no key of this deployment opens
\* it, or an upstream 401 was reported for its token by a call that had seen
\* it.  In particular no read and no late 401 removes a session saved while
\* it was waiting for a decryption (clearIfToken, #read and #open).
LossIsJustified ==
  \/ Clear
  \/ HasExpired(session, now)
  \/ Refused(session, now)
  \/ \E c \in Calls : /\ At(c, "clearIfToken", "hash") /\ call'[c] = Free
                      /\ call[c].tok = session.val
                      /\ call[c].rec.gen = session.gen
SessionLostOnlyForItsOwnReason ==
  [][session # NoRecord /\ session' = NoRecord => LossIsJustified]_vars

\* What #drop takes from it: the read of a record no key opens deletes whatever
\* is stored when it ends.  There is no other exception, over restarts, changes
\* of the key and records of earlier builds.
UnreadableReadEnds ==
  \E c \in Calls : /\ call[c].pc = "open" /\ call'[c].pc # "open"
                  /\ Refused(call[c].rec, call[c].at)
SessionLostOnlyToKnownCauses ==
  [][session # NoRecord /\ session' = NoRecord => LossIsJustified \/ UnreadableReadEnds]_vars

\* Only saveSession connects: what a reader writes back is the session that
\* is stored, never one that was disconnected or replaced while the reader
\* decrypted it (the re-seal of a legacy record in #open).
ReadersNeverResurrect ==
  [][session' # session /\ session' # NoRecord =>
       \/ \E c \in Calls : call[c].op = "saveSession" /\ call[c].rec.gen = session'.gen
       \/ session'.gen = session.gen /\ session'.val = session.val]_vars

\* A report that runs to its end for the token of the session it opened
\* leaves no such session behind, unless it was saved again meanwhile; a
\* record of an earlier build is only re-sealed and goes with the next report
\* (clearIfToken, called after an upstream 401).
ReportedSessionIsCleared ==
  [][\A c \in Calls :
       /\ At(c, "clearIfToken", "hash") /\ call'[c].pc = "idle" /\ deploys' = deploys
       /\ IsV2(call[c].rec) /\ call[c].rec.val = call[c].tok
       => session'.gen # call[c].rec.gen \/ session' = NoRecord]_vars

\* Whatever callers race on getOrCreateDeviceId, all of them, for ever, are
\* given one device id, and it is the stored one.
OneDeviceId == \A d \in told : d = device

\* Every deadline in storage has an alarm at or before it, so that expired
\* login state and rate buckets do not linger at rest (savePending,
\* checkRateLimit, alarm and the deletes that leave the alarm alone).
AlarmCoversDeadlines ==
  /\ IsV2(pending) => alarm # None /\ alarm <= pending.exp
  /\ \A b \in Buckets : rate[b].count > 0 => alarm # None /\ alarm <= rate[b].resetAt

\* Expired login state is erased even if nobody calls the object again.
ExpiredPendingIsErased ==
  (IsV2(pending) /\ HasExpired(pending, now)) ~> ~(IsV2(pending) /\ HasExpired(pending, now))

\* Until its window ends a bucket only counts up and its end does not move:
\* no prune, restart or later attempt gives attempts back early.
AttemptsAreNotForgotten ==
  [][\A b \in Buckets :
       rate[b].resetAt > now =>
         /\ rate'[b].resetAt = rate[b].resetAt
         /\ rate'[b].count >= rate[b].count]_vars
=============================================================================
