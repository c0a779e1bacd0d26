---------------------------- MODULE BudgetProofs ----------------------------
(***************************************************************************)
(* Theorems about module Budget, for any number of requests, any limits    *)
(* and any result sizes.  The inductive invariant ties the counters of the *)
(* code to the requests themselves: #inFlight is the number of requests in *)
(* flight, and while the budget is active the queue holds exactly the      *)
(* requests that wait, each once.                                          *)
(***************************************************************************)
EXTENDS Budget, FiniteSetTheorems, TLAPS

\* #inFlight counts the requests in flight.
SlotInv == inFlight = Cardinality(In("flying")) /\ inFlight <= MaxConcurrency

\* While nothing was aborted, every character charged was handed over.
CharsInv ==
  /\ delivered <= MaxChars
  /\ reason = None => delivered = chars

\* While nothing was aborted, the queue lists the waiting requests, each once.
QueueInv ==
  reason = None =>
    /\ \A i \in 1 .. Len(waiters) : call[waiters[i]] = "waiting"
    /\ \A i, j \in 1 .. Len(waiters) : waiters[i] = waiters[j] => i = j
    /\ \A c \in In("waiting") : \E i \in 1 .. Len(waiters) : waiters[i] = c

\* An abort leaves nobody waiting, and an answered tool call is aborted.
AbortInv ==
  /\ reason # None => In("waiting") = {}
  /\ answered => reason # None

Inv ==
  /\ TypeOK /\ SlotInv /\ CharsInv /\ QueueInv /\ AbortInv
  /\ requests <= MaxRequests
  /\ NoLostWakeup

-----------------------------------------------------------------------------
(* How the number of requests at one place changes.                        *)

Count(f, p) == Cardinality({c \in Calls : f[c] = p})

\* Every set of requests is finite, so its size is a number.
LEMMA CountType ==
  ASSUME NEW f, NEW p
  PROVE  IsFiniteSet({c \in Calls : f[c] = p}) /\ Count(f, p) \in Nat
<1>1. {c \in Calls : f[c] = p} \in SUBSET Calls
  OBVIOUS
<1>2. IsFiniteSet({c \in Calls : f[c] = p})
  BY <1>1, FS_Subset, ConstantsAssumption
<1> QED
  BY <1>2, FS_CardinalityType DEF Count

\* Request c stands elsewhere in g than in f, and is the only one that does.
Moves(f, g, c) == g[c] # f[c] /\ \A d \in Calls \ {c} : g[d] = f[d]

\* A request that moves is counted where it arrives, no longer where it left,
\* and changes no other count.
LEMMA CountMove ==
  ASSUME NEW f, NEW g, NEW c \in Calls, Moves(f, g, c), NEW p
  PROVE  Count(g, p) = IF p = g[c] THEN Count(f, p) + 1
                       ELSE IF p = f[c] THEN Count(f, p) - 1 ELSE Count(f, p)
<1> DEFINE F == {d \in Calls : f[d] = p}
           G == {d \in Calls : g[d] = p}
<1>1. IsFiniteSet(F)
  BY CountType
<1>2. CASE p = g[c]
  <2>1. G = F \cup {c} /\ c \notin F
    BY <1>2 DEF Moves
  <2> QED
    BY <1>1, <1>2, <2>1, FS_AddElement DEF Count
<1>3. CASE p # g[c] /\ p = f[c]
  <2>1. G = F \ {c} /\ c \in F
    BY <1>3 DEF Moves
  <2> QED
    BY <1>1, <1>3, <2>1, FS_RemoveElement DEF Count
<1>4. CASE p # g[c] /\ p # f[c]
  <2>1. G = F
    BY <1>4 DEF Moves
  <2> QED
    BY <1>4, <2>1 DEF Count
<1> QED
  BY <1>2, <1>3, <1>4

\* Rejecting the waiters moves nobody but the waiters.
LEMMA CountRejected ==
  ASSUME NEW f \in [Calls -> Places], NEW p \in Places \ {"waiting", "rejected"}
  PROVE  /\ Rejected(f) \in [Calls -> Places]
         /\ Count(Rejected(f), p) = Count(f, p)
         /\ \A c \in Calls : Rejected(f)[c] # "waiting"
<1>1. {c \in Calls : Rejected(f)[c] = p} = {c \in Calls : f[c] = p}
  BY DEF Rejected
<1> QED
  BY <1>1 DEF Count, Rejected, Places

\* Releasing a slot moves nobody to or from a slot.
LEMMA WokenTyped ==
  ASSUME TypeOK, NEW f \in [Calls -> Places]
  PROVE  /\ Woken(f) \in [Calls -> Places]
         /\ Count(Woken(f), "flying") = Count(f, "flying")
<1>1. CASE waiters # <<>> /\ f[Head(waiters)] = "waiting"
  <2>1. Head(waiters) \in Calls
    BY <1>1 DEF TypeOK
  <2>2. Woken(f) = [f EXCEPT ![Head(waiters)] = "woken"]
    BY <1>1 DEF Woken
  <2>3. Moves(f, Woken(f), Head(waiters)) /\ Woken(f)[Head(waiters)] = "woken"
    BY <1>1, <2>1, <2>2 DEF Moves
  <2>4. Count(Woken(f), "flying") = Count(f, "flying")
    BY <1>1, <2>1, <2>3, CountMove
  <2> QED
    BY <2>1, <2>2, <2>4 DEF Places
<1>2. CASE ~(waiters # <<>> /\ f[Head(waiters)] = "waiting")
  BY <1>2 DEF Woken
<1> QED
  BY <1>1, <1>2

-----------------------------------------------------------------------------
(* The four things a step may do to the slots and the queue.               *)

SlotsAndQueue ==
  /\ call \in [Calls -> Places] /\ waiters \in Seq(Calls) /\ inFlight \in Nat
  /\ SlotInv /\ QueueInv /\ NoLostWakeup
  /\ reason # None => In("waiting") = {}

\* A request that takes a slot, or queues because there is none.
LEMMA TakeSlotStep ==
  ASSUME Inv, NEW c \in Calls, call[c] \in {"idle", "woken"},
         reason = None, UNCHANGED reason, TakeSlot(c)
  PROVE  SlotsAndQueue'
<1> USE DEF TypeOK
<1>1. call \in [Calls -> Places] /\ waiters \in Seq(Calls) /\ inFlight \in Nat
  BY DEF Inv
<1>2. \A i \in 1 .. Len(waiters) : waiters[i] \in Calls /\ waiters[i] # c
  BY <1>1 DEF Inv, QueueInv
<1>3. \A p \in Places : Count(call, p) = Cardinality(In(p)) /\ Count(call, p) \in Nat
  BY CountType DEF Count, In
<1>4. \A p \in Places : Cardinality(In(p))' = Count(call', p)
  BY DEF Count, In
<1>5. {"idle", "woken", "waiting", "flying"} \subseteq Places
  BY DEF Places
<1>6. CASE /\ inFlight >= MaxConcurrency
           /\ call' = [call EXCEPT ![c] = "waiting"]
           /\ waiters' = Append(waiters, c)
           /\ UNCHANGED inFlight
  <2>1. Count(call', "flying") = Count(call, "flying")
    <3>1. Moves(call, call', c) /\ call'[c] = "waiting"
      BY <1>1, <1>6 DEF Moves
    <3> QED
      BY <3>1, CountMove
  <2>2. SlotInv'
    BY <1>3, <1>4, <1>5, <1>6, <2>1 DEF SlotInv, Inv
  <2>3. QueueInv'
    <3>1. \A i \in 1 .. Len(waiters) : waiters'[i] = waiters[i] /\ call'[waiters[i]] = call[waiters[i]]
      BY <1>1, <1>2, <1>6
    <3>2. Len(waiters') = Len(waiters) + 1 /\ waiters'[Len(waiters')] = c /\ call'[c] = "waiting"
      BY <1>1, <1>6
    <3>3. \A i \in 1 .. Len(waiters') : i \in 1 .. Len(waiters) \/ i = Len(waiters')
      BY <1>1, <3>2
    <3>4. \A i \in 1 .. Len(waiters') : call'[waiters'[i]] = "waiting"
      BY <3>1, <3>2, <3>3 DEF Inv, QueueInv
    <3>5. \A i, j \in 1 .. Len(waiters') : waiters'[i] = waiters'[j] => i = j
      BY <1>2, <3>1, <3>2, <3>3 DEF Inv, QueueInv
    <3>6. ASSUME NEW d \in Calls, call'[d] = "waiting"
          PROVE  \E i \in 1 .. Len(waiters') : waiters'[i] = d
      <4>1. CASE d = c
        BY <1>1, <3>2, <4>1
      <4>2. CASE d # c
        <5>1. d \in In("waiting")
          BY <1>1, <1>6, <3>6, <4>2 DEF In
        <5>2. PICK i \in 1 .. Len(waiters) : waiters[i] = d
          BY <5>1 DEF Inv, QueueInv
        <5> QED
          BY <1>1, <3>1, <3>2, <5>2
      <4> QED
        BY <4>1, <4>2
    <3> QED
      BY <3>4, <3>5, <3>6 DEF QueueInv, In
  <2>4. NoLostWakeup'
    <3>1. Count(call', "woken") \in Nat
      BY CountType
    <3>2. Cardinality(In("woken"))' = Count(call', "woken")
      BY DEF Count, In
    <3>3. inFlight' >= MaxConcurrency
      BY <1>6
    <3>4. inFlight' + Count(call', "woken") >= MaxConcurrency
      BY <1>1, <1>6, <3>1, <3>3, ConstantsAssumption
    <3> QED
      BY <3>2, <3>4 DEF NoLostWakeup
  <2> QED
    BY <1>1, <1>5, <1>6, <2>2, <2>3, <2>4 DEF SlotsAndQueue
<1>7. CASE /\ inFlight < MaxConcurrency
           /\ call' = [call EXCEPT ![c] = "flying"]
           /\ inFlight' = inFlight + 1
           /\ UNCHANGED waiters
  <2>0. Moves(call, call', c) /\ call'[c] = "flying"
    BY <1>1, <1>7 DEF Moves
  <2>1. Count(call', "flying") = Count(call, "flying") + 1
    BY <2>0, CountMove
  <2>2. SlotInv'
    <3>1. inFlight' = Count(call', "flying")
      BY <1>7, <2>1 DEF SlotInv, Inv, Count, In
    <3>2. inFlight' <= MaxConcurrency
      BY <1>1, <1>7, ConstantsAssumption
    <3> QED
      BY <3>1, <3>2 DEF SlotInv, Count, In
  <2>3. QueueInv'
    BY <1>1, <1>2, <1>7 DEF QueueInv, Inv, In
  <2>4. In("waiting")' = In("waiting")
    BY <1>1, <1>7 DEF In
  <2>5. inFlight' + Count(call', "woken") >= inFlight + Count(call, "woken")
    <3>1. Count(call', "woken") >= Count(call, "woken") - 1
      BY <1>3, <1>5, <2>0, CountMove
    <3>2. Count(call', "woken") \in Nat
      BY CountType
    <3> QED
      BY <1>1, <1>3, <1>5, <1>7, <3>1, <3>2
  <2>6. NoLostWakeup'
    <3>1. Count(call', "woken") \in Nat
      BY CountType
    <3>2. Count(call, "woken") \in Nat
      BY CountType
    <3>3. In("waiting") # {} => inFlight + Count(call, "woken") >= MaxConcurrency
      BY DEF NoLostWakeup, Inv, Count, In
    <3>4. In("waiting") # {} => inFlight' + Count(call', "woken") >= MaxConcurrency
      BY <1>1, <1>7, <2>5, <3>1, <3>2, <3>3, ConstantsAssumption
    <3> QED
      BY <2>4, <3>4 DEF NoLostWakeup, Count, In
  <2> QED
    BY <1>1, <1>5, <1>7, <2>2, <2>3, <2>6 DEF SlotsAndQueue
<1> QED
  BY <1>6, <1>7 DEF TakeSlot

\* A request outside the slots and the queue that moves to where it ends.
LEMMA FailStep ==
  ASSUME Inv, NEW c \in Calls, call[c] \in {"idle", "woken", "rejected"},
         call[c] = "woken" => reason # None,
         UNCHANGED <<reason, inFlight, waiters>>, Fails(c)
  PROVE  SlotsAndQueue'
<1>1. call \in [Calls -> Places] /\ waiters \in Seq(Calls) /\ inFlight \in Nat
  BY DEF Inv, TypeOK
<1>2. call' = [call EXCEPT ![c] = "failed"] /\ call' \in [Calls -> Places]
  BY <1>1 DEF Fails, Places
<1>3. {"flying", "woken", "failed"} \subseteq Places
  BY DEF Places
<1>0. Moves(call, call', c) /\ call'[c] = "failed"
  BY <1>1, <1>2 DEF Moves
<1>4. Count(call', "flying") = Count(call, "flying")
  BY <1>0, CountMove
<1>5. reason = None => Count(call', "woken") = Count(call, "woken")
  BY <1>0, CountMove
<1>6. In("waiting")' = In("waiting")
  BY <1>1, <1>2 DEF In
<1>7. SlotInv'
  BY <1>4 DEF SlotInv, Inv, Count, In
<1>8. QueueInv'
  BY <1>1, <1>2, <1>6 DEF QueueInv, Inv
<1>9. NoLostWakeup'
  BY <1>5, <1>6 DEF NoLostWakeup, Inv, Count, In
<1> QED
  BY <1>1, <1>2, <1>6, <1>7, <1>8, <1>9 DEF SlotsAndQueue, Inv, AbortInv

\* A request in flight that ends and releases its slot, aborted or not.
LEMMA ReleaseStep ==
  ASSUME Inv, NEW c \in Calls, call[c] = "flying", NEW q \in {"delivered", "failed"},
         UNCHANGED reason, Release, call' = Woken([call EXCEPT ![c] = q])
  PROVE  SlotsAndQueue'
<1> DEFINE f == [call EXCEPT ![c] = q]
<1>1. call \in [Calls -> Places] /\ waiters \in Seq(Calls) /\ inFlight \in Nat /\ TypeOK
  BY DEF Inv, TypeOK
<1>2. f \in [Calls -> Places] /\ q \in Places /\ {"flying", "woken"} \subseteq Places
  BY <1>1 DEF Places
<1>3. Count(f, "flying") = Count(call, "flying") - 1 /\ Count(f, "woken") = Count(call, "woken")
  <2>1. Moves(call, f, c) /\ f[c] = q
    BY <1>1 DEF Moves
  <2> QED
    BY <2>1, CountMove
<1>4. call' \in [Calls -> Places] /\ Count(call', "flying") = Count(f, "flying")
  BY <1>1, <1>2, WokenTyped
<1>5. Count(call', "flying") \in Nat /\ Count(call, "woken") \in Nat /\ Count(call', "woken") \in Nat
  BY CountType
<1>6. inFlight = Count(call, "flying") /\ inFlight' = inFlight - 1
  BY DEF Release, SlotInv, Inv, Count, In
<1>7. SlotInv' /\ inFlight' \in Nat
  <2>1. inFlight' = Count(call', "flying") /\ inFlight' \in Nat
    BY <1>3, <1>4, <1>5, <1>6
  <2>2. inFlight' <= MaxConcurrency
    BY <1>1, <1>6, ConstantsAssumption DEF SlotInv, Inv
  <2> QED
    BY <2>1, <2>2 DEF SlotInv, Count, In
<1>8. waiters' \in Seq(Calls)
  BY <1>1 DEF Release
<1>9. CASE waiters = <<>> \/ reason # None
  <2>1. In("waiting") = {}
    BY <1>1, <1>9 DEF Inv, QueueInv, AbortInv
  <2>2. call' = f
    BY <1>1, <1>9, <2>1 DEF Woken, In
  <2>3. In("waiting")' = {}
    BY <1>1, <2>1, <2>2 DEF In
  <2>4. QueueInv' /\ NoLostWakeup'
    BY <1>9, <2>3 DEF QueueInv, NoLostWakeup, Release
  <2> QED
    BY <1>4, <1>7, <1>8, <2>3, <2>4 DEF SlotsAndQueue
<1>10. CASE waiters # <<>> /\ reason = None
  <2> DEFINE h == Head(waiters)
  <2>1. /\ h \in Calls /\ h = waiters[1] /\ 1 \in 1 .. Len(waiters)
        /\ waiters' = Tail(waiters) /\ Len(waiters') = Len(waiters) - 1
        /\ \A i \in 1 .. Len(waiters') : i + 1 \in 1 .. Len(waiters) /\ waiters'[i] = waiters[i + 1]
    BY <1>1, <1>10 DEF Release
  <2>2. call[h] = "waiting" /\ h # c /\ f[h] = "waiting"
    BY <1>1, <1>10, <2>1 DEF Inv, QueueInv
  <2>3. call' = [f EXCEPT ![h] = "woken"]
    BY <1>10, <2>2 DEF Woken
  <2>4. \A d \in Calls : call'[d] = "waiting" <=> call[d] = "waiting" /\ d # h
    BY <1>1, <2>1, <2>2, <2>3
  <2>5. QueueInv'
    <3>1. \A i \in 1 .. Len(waiters') : call'[waiters'[i]] = "waiting"
      <4> SUFFICES ASSUME NEW i \in 1 .. Len(waiters')
                   PROVE  call'[waiters'[i]] = "waiting"
        OBVIOUS
      <4>1. i + 1 \in 1 .. Len(waiters) /\ waiters'[i] = waiters[i + 1] /\ i + 1 # 1
        BY <2>1
      <4>2. call[waiters[i + 1]] = "waiting" /\ waiters[i + 1] # waiters[1] /\ waiters[i + 1] \in Calls
        BY <1>1, <1>10, <2>1, <4>1 DEF Inv, QueueInv
      <4> QED
        BY <2>1, <2>4, <4>1, <4>2
    <3>2. \A i, j \in 1 .. Len(waiters') : waiters'[i] = waiters'[j] => i = j
      <4> SUFFICES ASSUME NEW i \in 1 .. Len(waiters'), NEW j \in 1 .. Len(waiters'),
                          waiters'[i] = waiters'[j]
                   PROVE  i = j
        OBVIOUS
      <4>1. i + 1 = j + 1
        BY <1>10, <2>1 DEF Inv, QueueInv
      <4> QED
        BY <4>1
    <3>3. ASSUME NEW d \in Calls, call'[d] = "waiting"
          PROVE  \E i \in 1 .. Len(waiters') : waiters'[i] = d
      <4>1. d \in In("waiting") /\ d # h
        BY <2>4, <3>3 DEF In
      <4>2. PICK i \in 1 .. Len(waiters) : waiters[i] = d
        BY <1>10, <4>1 DEF Inv, QueueInv
      <4>3. i # 1 /\ i - 1 \in 1 .. Len(waiters') /\ (i - 1) + 1 = i
        BY <1>1, <2>1, <4>1, <4>2
      <4> QED
        BY <2>1, <4>2, <4>3
    <3> QED
      BY <3>1, <3>2, <3>3 DEF QueueInv, In
  <2>6. NoLostWakeup'
    <3>1. Count(call', "woken") = Count(call, "woken") + 1
      <4>1. Moves(f, call', h) /\ call'[h] = "woken"
        BY <1>2, <2>1, <2>2, <2>3 DEF Moves
      <4> QED
        BY <1>3, <2>1, <2>2, <4>1, CountMove
    <3>2. inFlight + Count(call, "woken") >= MaxConcurrency
      <4>1. h \in In("waiting")
        BY <2>1, <2>2 DEF In
      <4> QED
        BY <1>10, <4>1 DEF Inv, NoLostWakeup, Count, In
    <3>3. inFlight' + Count(call', "woken") >= MaxConcurrency
      BY <1>1, <1>5, <1>6, <3>1, <3>2
    <3> QED
      BY <3>3 DEF NoLostWakeup, Count, In
  <2> QED
    BY <1>4, <1>7, <1>8, <1>10, <2>5, <2>6 DEF SlotsAndQueue
<1> QED
  BY <1>9, <1>10

\* A step that aborts: whoever waits is rejected, and nobody waits any more.
LEMMA AbortStep ==
  ASSUME Inv, reason' # None,
         NEW f \in [Calls -> Places], Count(f, "flying") = Count(call, "flying"),
         call' = Rejected(f), UNCHANGED <<inFlight, waiters>>
  PROVE  SlotsAndQueue'
<1>1. /\ call' \in [Calls -> Places] /\ Count(call', "flying") = Count(call, "flying")
      /\ \A c \in Calls : call'[c] # "waiting"
  BY CountRejected DEF Places
<1>2. SlotInv'
  BY <1>1 DEF SlotInv, Inv, Count, In
<1> QED
  BY <1>1, <1>2 DEF SlotsAndQueue, QueueInv, NoLostWakeup, Inv, TypeOK, In

-----------------------------------------------------------------------------
\* The initial state: nothing counted, nobody in flight or waiting.
LEMMA InitInv == Init => Inv
<1> SUFFICES ASSUME Init PROVE Inv
  OBVIOUS
<1> USE DEF Init
<1>1. TypeOK
  <2>1. waiters \in Seq(Calls) /\ call \in [Calls -> Places]
    BY DEF Places
  <2> QED
    BY <2>1 DEF TypeOK
<1>2. \A p \in Places \ {"idle"} : In(p) = {} /\ Cardinality(In(p)) = 0
  BY FS_EmptySet DEF In
<1>3. SlotInv
  BY <1>2, ConstantsAssumption DEF SlotInv, Places
<1>4. CharsInv /\ requests <= MaxRequests
  BY ConstantsAssumption DEF CharsInv
<1>5. In("waiting") = {}
  BY <1>2 DEF Places
<1>6. QueueInv /\ AbortInv /\ NoLostWakeup
  BY <1>5 DEF QueueInv, AbortInv, NoLostWakeup
<1> QED
  BY <1>1, <1>3, <1>4, <1>6 DEF Inv

\* The invariant is inductive: each action is one of the steps above, and
\* charges, counts or aborts besides.
LEMMA StepInv == Inv /\ [Next]_vars => Inv'
<1> SUFFICES ASSUME Inv, [Next]_vars PROVE Inv'
  OBVIOUS
<1> DEFINE Counters == /\ reason \in Reasons \cup {None} /\ outcome \in Reasons \cup {None, "script"}
                       /\ requests \in Nat /\ specCalls \in Nat /\ chars \in Nat
                       /\ delivered \in Nat /\ answered \in BOOLEAN
                       /\ CharsInv /\ requests <= MaxRequests
                       /\ answered => reason # None
<1>1. ASSUME SlotsAndQueue', Counters'
      PROVE  Inv'
  BY <1>1 DEF SlotsAndQueue, Inv, TypeOK, AbortInv
<1>2. /\ Counters /\ SlotsAndQueue /\ call \in [Calls -> Places]
      /\ None \notin Reasons \cup {"script"} /\ "failed" \in Places /\ "flying" \in Places
  BY ConstantsAssumption DEF Inv, TypeOK, AbortInv, SlotsAndQueue, Reasons, Places
<1>3. ASSUME NEW c \in Calls, Request(c)
      PROVE  Inv'
  <2>1. Counters'
    BY <1>2, <1>3, ConstantsAssumption DEF Request, CharsInv
  <2>2. CASE TakeSlot(c)
    BY <1>1, <1>3, <2>1, <2>2, TakeSlotStep DEF Request
  <2>3. CASE Fails(c) /\ UNCHANGED <<inFlight, waiters>>
    BY <1>1, <1>3, <2>1, <2>3, FailStep DEF Request
  <2> QED
    BY <1>3, <2>2, <2>3 DEF Request
<1>4. ASSUME NEW c \in Calls, RequestOverLimit(c)
      PROVE  Inv'
  <2> DEFINE f == [call EXCEPT ![c] = "failed"]
  <2>1. f \in [Calls -> Places] /\ Moves(call, f, c) /\ f[c] = "failed" /\ call[c] = "idle"
    BY <1>2, <1>4 DEF RequestOverLimit, Moves
  <2> HIDE DEF f
  <2>2. Count(f, "flying") = Count(call, "flying")
    BY <2>1, CountMove
  <2>3. reason' # None /\ call' = Rejected(f) /\ UNCHANGED <<inFlight, waiters>>
    BY <1>2, <1>4 DEF RequestOverLimit, Abort, Reasons, f
  <2>4. SlotsAndQueue'
    BY <2>1, <2>2, <2>3, AbortStep
  <2>5. Counters'
    BY <1>2, <1>4 DEF RequestOverLimit, Abort, Reasons, CharsInv
  <2> QED
    BY <1>1, <2>4, <2>5
<1>5. ASSUME NEW c \in Calls, RequestAfterAbort(c)
      PROVE  Inv'
  <2>1. Counters'
    BY <1>2, <1>5 DEF RequestAfterAbort, CharsInv
  <2> QED
    BY <1>1, <1>5, <2>1, FailStep DEF RequestAfterAbort
<1>6. ASSUME NEW c \in Calls, Resume(c)
      PROVE  Inv'
  <2>1. Counters'
    BY <1>2, <1>6 DEF Resume, CharsInv
  <2>2. CASE call[c] = "woken" /\ reason = None /\ TakeSlot(c)
    BY <1>1, <1>6, <2>1, <2>2, TakeSlotStep DEF Resume
  <2>3. CASE /\ (call[c] = "woken" /\ reason # None) \/ call[c] = "rejected"
             /\ Fails(c) /\ UNCHANGED <<inFlight, waiters>>
    BY <1>1, <1>6, <2>1, <2>3, FailStep DEF Resume
  <2> QED
    BY <1>6, <2>2, <2>3 DEF Resume
<1>7. ASSUME NEW c \in Calls, NEW n \in Sizes, Deliver(c, n)
      PROVE  Inv'
  <2>1. n \in Nat /\ chars \in Nat /\ MaxChars \in Nat /\ delivered = chars
    BY <1>2, <1>7, ConstantsAssumption DEF Deliver, CharsInv
  <2>2. CASE chars + n <= MaxChars
    <3>1. SlotsAndQueue'
      <4>1. /\ call[c] = "flying" /\ UNCHANGED reason /\ Release
            /\ call' = Woken([call EXCEPT ![c] = "delivered"])
        BY <1>7, <2>1, <2>2, ConstantsAssumption DEF Deliver
      <4> QED
        BY <4>1, ReleaseStep
    <3>2. Counters'
      BY <1>2, <1>7, <2>1, <2>2 DEF Deliver, CharsInv
    <3> QED
      BY <1>1, <3>1, <3>2
  <2>3. CASE chars + n > MaxChars
    <3> DEFINE f == [call EXCEPT ![c] = "failed"]
    <3>1. /\ reason' # None /\ call' = Woken(Rejected(f)) /\ Release /\ call[c] = "flying"
      BY <1>2, <1>7, <2>1, <2>3 DEF Deliver, Abort, Reasons
    <3>2. /\ f \in [Calls -> Places] /\ Moves(call, f, c) /\ f[c] = "failed"
      BY <1>2, <3>1 DEF Moves
    <3> HIDE DEF f
    <3>3. Count(f, "flying") = Count(call, "flying") - 1
      BY <3>1, <3>2, CountMove
    <3>4. /\ Rejected(f) \in [Calls -> Places] /\ \A d \in Calls : Rejected(f)[d] # "waiting"
          /\ Count(Rejected(f), "flying") = Count(f, "flying")
      BY <1>2, <3>2, CountRejected
    <3>5. call' = Rejected(f)
      <4>1. waiters # <<>> => Head(waiters) \in Calls
        BY DEF Inv, TypeOK
      <4> QED
        BY <3>1, <3>4, <4>1 DEF Woken
    <3>6. Count(call', "flying") \in Nat
      BY CountType
    <3>7. SlotInv' /\ inFlight' \in Nat /\ waiters' \in Seq(Calls)
      <4>1. inFlight = Count(call, "flying") /\ inFlight \in Nat /\ inFlight <= MaxConcurrency
        BY DEF Inv, SlotInv, TypeOK, Count, In
      <4>2. inFlight' = Count(call', "flying") /\ inFlight' <= MaxConcurrency
        BY <3>1, <3>3, <3>4, <3>5, <4>1, ConstantsAssumption DEF Release
      <4> QED
        BY <3>1, <3>6, <4>2 DEF SlotInv, Count, In, Release, Inv, TypeOK
    <3>8. SlotsAndQueue'
      BY <3>1, <3>4, <3>5, <3>7 DEF SlotsAndQueue, QueueInv, NoLostWakeup, In
    <3>9. Counters'
      BY <1>2, <1>7, <2>1, <2>3, <3>1 DEF Deliver, Abort, Reasons, CharsInv
    <3> QED
      BY <1>1, <3>8, <3>9
  <2> QED
    BY <2>1, <2>2, <2>3
<1>8. ASSUME NEW c \in Calls, DispatchFails(c)
      PROVE  Inv'
  <2>1. Counters'
    BY <1>2, <1>8 DEF DispatchFails, CharsInv
  <2>2. SlotsAndQueue'
    BY <1>8, ReleaseStep DEF DispatchFails
  <2> QED
    BY <1>1, <2>1, <2>2
<1>9. CASE SpecCall
  <2>1. Counters'
    BY <1>2, <1>9 DEF SpecCall, Abort, Reasons, CharsInv
  <2>2. CASE UNCHANGED <<reason, call>>
    BY <1>1, <1>2, <1>9, <2>1, <2>2
    DEF SpecCall, SlotsAndQueue, SlotInv, QueueInv, NoLostWakeup, In
  <2>3. CASE Abort("spec") /\ call' = Rejected(call)
    <3>1. reason' # None /\ UNCHANGED <<inFlight, waiters>>
      BY <1>2, <1>9, <2>3 DEF SpecCall, Abort, Reasons
    <3> QED
      BY <1>1, <1>2, <2>1, <2>3, <3>1, AbortStep
  <2> QED
    BY <1>9, <2>2, <2>3 DEF SpecCall
<1>10. CASE Deadline
  <2>1. Counters'
    BY <1>2, <1>10 DEF Deadline, Abort, Reasons, CharsInv
  <2>2. reason' # None /\ call' = Rejected(call) /\ UNCHANGED <<inFlight, waiters>>
    BY <1>2, <1>10 DEF Deadline, Abort, Reasons
  <2> QED
    BY <1>1, <1>2, <2>1, <2>2, AbortStep
<1>11. CASE Finish
  <2>1. Counters'
    BY <1>2, <1>11 DEF Finish, Abort, Reasons, CharsInv
  <2>2. reason' # None /\ call' = Rejected(call) /\ UNCHANGED <<inFlight, waiters>>
    BY <1>2, <1>11 DEF Finish, Abort, Reasons
  <2> QED
    BY <1>1, <1>2, <2>1, <2>2, AbortStep
<1>12. CASE ScriptEnds \/ UNCHANGED vars
  <2>1. Counters'
    BY <1>2, <1>12 DEF ScriptEnds, vars, CharsInv
  <2>2. UNCHANGED <<reason, call, inFlight, waiters>>
    BY <1>12 DEF ScriptEnds, vars
  <2>3. SlotsAndQueue'
    BY <1>2, <2>2 DEF SlotsAndQueue, SlotInv, QueueInv, NoLostWakeup, In
  <2> QED
    BY <1>1, <2>1, <2>3
<1> QED
  BY <1>3, <1>4, <1>5, <1>6, <1>7, <1>8, <1>9, <1>10, <1>11, <1>12 DEF Next, Settle

\* The strengthened invariant holds of every reachable state.
THEOREM Invariance == Spec => []Inv
<1>1. Init => Inv
  BY InitInv
<1>2. Inv /\ [Next]_vars => Inv'
  BY StepInv
<1> QED
  BY <1>1, <1>2, PTL DEF Spec

\* The variables of a tool call's budget keep their types.
THEOREM TypeCorrect == Spec => []TypeOK
<1>1. Inv => TypeOK
  BY DEF Inv
<1> QED
  BY <1>1, Invariance, PTL

\* No script, however it interleaves its requests, exceeds a limit.
THEOREM LimitsHold == Spec => []WithinLimits
<1>1. Inv => WithinLimits
  BY DEF Inv, WithinLimits, SlotInv, CharsInv
<1> QED
  BY <1>1, Invariance, PTL

\* While a request waits, every slot is taken or promised to a waiter.
THEOREM WakeupsAreKept == Spec => []NoLostWakeup
<1>1. Inv => NoLostWakeup
  BY DEF Inv
<1> QED
  BY <1>1, Invariance, PTL

\* A tool call that has answered is aborted and has nobody waiting.
THEOREM AnswerEndsAll == Spec => []NothingLeftBehind
<1>1. Inv => NothingLeftBehind
  BY DEF Inv, NothingLeftBehind, AbortInv
<1> QED
  BY <1>1, Invariance, PTL

\* Past an abort no request starts and none is answered.
THEOREM AbortIsFinal == Spec => NothingAfterAbort
<1> DEFINE Stopped == reason # None =>
             \A c \in Calls : call'[c] \in {"flying", "delivered"} => call[c] = call'[c]
<1>1. Inv /\ [Next]_vars => [Stopped]_vars
  <2> SUFFICES ASSUME Inv, Next, reason # None, NEW c \in Calls,
                      call'[c] \in {"flying", "delivered"}
               PROVE  call[c] = call'[c]
    OBVIOUS
  <2>1. call \in [Calls -> Places]
    BY DEF Inv, TypeOK
  <2>2. ASSUME NEW d \in Calls,
               RequestAfterAbort(d) \/ Resume(d) \/ DispatchFails(d)
        PROVE  call[c] = call'[c]
    BY <2>1, <2>2 DEF RequestAfterAbort, Resume, Fails, DispatchFails, Woken
  <2>3. CASE SpecCall \/ Deadline \/ ScriptEnds \/ Finish
    BY <2>1, <2>3 DEF SpecCall, Deadline, ScriptEnds, Finish, Rejected
  <2> QED
    BY <2>2, <2>3 DEF Next, Settle, Request, RequestOverLimit, Deliver
<1> QED
  BY <1>1, Invariance, PTL DEF Spec, NothingAfterAbort
=============================================================================
