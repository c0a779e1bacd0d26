--------------------------- MODULE MCSessionStore ---------------------------
(* Small instances of SessionStore for TLC. *)
EXTENDS SessionStore

CONSTANTS k1, k2, t1, t2, d1, d2

\* A session written by this build, and one written before sealing had AAD.
SealedWith(k) == [fmt |-> "sealed", key |-> k, good |-> TRUE, val |-> t1,
                  dev |-> None, exp |-> None, gen |-> 0]
LegacyWith(k, x) == [SealedWith(k) EXCEPT !.fmt = "v1", !.dev = d2, !.exp = x]
LegacyPlain(g) == [SealedWith(None) EXCEPT !.fmt = "v1plain", !.good = g]
LegacyPending == LegacyPlain(TRUE)

OneKey == {[key |-> k1, require |-> TRUE]}
AnyEnvironment == {[key |-> k1, require |-> TRUE], [key |-> k2, require |-> FALSE],
                   [key |-> None, require |-> FALSE], [key |-> None, require |-> TRUE]}

PendingEnvironments == {[key |-> k1, require |-> TRUE], [key |-> None, require |-> FALSE]}

NoStored == {NoRecord}
CurrentSessions == {NoRecord, SealedWith(k1)}
AnySession == {NoRecord, SealedWith(k1), SealedWith(k2), LegacyWith(k1, 1),
               LegacyPlain(TRUE), LegacyPlain(FALSE)}
RotatedSession == {SealedWith(k2)}
AnyPending == {NoRecord, LegacyPending}

NeverExpires == {None}
SomeExpire == {None, 1}

SessionOps == {"getSession", "saveSession", "clear", "clearIfToken", "getOrCreateDeviceId"}
CacheOps == {"getSession", "saveSession", "clearIfToken"}
PendingOps == {"savePending", "getPending", "clearPending", "status",
               "checkRateLimit"}

\* The operations on pending logins and on the rate limit, which share the alarm.
PendingStep(c) ==
  \/ Status(c) \/ StatusOpened(c)
  \/ GetPending(c) \/ PendingOpened(c)
  \/ \E v \in Tokens : SavePending(c, v)
  \/ SavePendingSealed(c)
PendingNext ==
  \/ \E c \in Calls : PendingStep(c)
  \/ ClearPending
  \/ \E b \in Buckets : CountAttempt(b)
  \/ Alarm
  \/ Tick
  \/ \E e \in Environments : Deploy(e)
PendingSpec == Init /\ [][PendingNext]_vars /\ WF_vars(Alarm)
=============================================================================
