--------------------------- MODULE ConnectProofs ---------------------------
(***************************************************************************)
(* Theorems about module Connect, for any number of requests, users,       *)
(* addresses and hosts and any limits.  The inductive invariant counts a   *)
(* request that was admitted to a window and has not sent its PIN yet: a   *)
(* window's guesses and these requests together never exceed its attempts. *)
(***************************************************************************)
EXTENDS Connect, FiniteSetTheorems, TLAPS

\* The PIN posts of a request at each stage.
PinOK(q) ==
  /\ q.pc \notin {"idle", "lost", "disconnect"} => q.kind \in {"login", "outlet"}
  /\ q.pc \in {"count", "prepare"} => q.pins = 0
  /\ q.pc = "answer" => q.pins = (IF q.kind = "login" /\ q.merchant THEN 2 ELSE 1)
  /\ q.pc = "answer" /\ q.kind = "outlet" => q.merchant
  /\ q.pins <= (IF q.kind = "outlet" THEN 1 ELSE 2)
PinInv == \A r \in Requests : PinOK(req[r])

\* The requests that count in b's window and have not sent a PIN yet.
Charged(b) == {r \in Requests : b \in req[r].charged}

GuessInv == \A b \in Counters : guesses[b] + Cardinality(Charged(b)) <= count[b]

Inv == ConnectTypeOK /\ PinInv /\ GuessInv /\ NothingSavedElsewhere

\* A request at any stage is one of the records of its type.
LEMMA RequestType ==
  ASSUME ConnectTypeOK, NEW r \in Requests
  PROVE  req[r] \in Request
BY DEF ConnectTypeOK

LEMMA FreeType == FreeRequest \in Request /\ PinOK(FreeRequest)
BY ConnectAssumption DEF FreeRequest, Request, InFlow, PinOK

-----------------------------------------------------------------------------
(* Sizes of the sets of charged requests.                                  *)

\* The charged requests of a bucket are finitely many.
LEMMA ChargedFinite ==
  ASSUME NEW b
  PROVE  IsFiniteSet(Charged(b)) /\ Cardinality(Charged(b)) \in Nat
<1>1. Charged(b) \in SUBSET Requests
  BY DEF Charged
<1> QED
  BY <1>1, FS_Subset, FS_CardinalityType, ConnectAssumption

\* A step that charges nobody and takes no attempt back keeps GuessInv.
LEMMA NobodyCharged ==
  ASSUME ConnectTypeOK, GuessInv, ConnectTypeOK',
         \A b \in Counters : Charged(b)' \subseteq Charged(b) /\ count'[b] >= count[b],
         guesses' = guesses
  PROVE  GuessInv'
<1> SUFFICES ASSUME NEW b \in Counters
             PROVE  guesses[b] + Cardinality(Charged(b)') <= count'[b]
  BY DEF GuessInv
<1>1. Cardinality(Charged(b)') <= Cardinality(Charged(b)) /\ Cardinality(Charged(b)') \in Nat
  <2>1. Charged(b)' \in SUBSET Charged(b)
    OBVIOUS
  <2> QED
    BY <2>1, ChargedFinite, FS_Subset, FS_CardinalityType
<1>2. guesses[b] + Cardinality(Charged(b)) <= count[b]
  BY DEF GuessInv
<1> QED
  BY <1>1, <1>2, ChargedFinite DEF ConnectTypeOK

\* A step of one request that charges it in one bucket for one attempt more
\* keeps GuessInv.
LEMMA OneCharged ==
  ASSUME ConnectTypeOK, GuessInv, ConnectTypeOK', NEW r \in Requests, NEW b \in Counters,
         count' = [count EXCEPT ![b] = @ + 1],
         \A c \in Counters \ {b} : Charged(c)' \subseteq Charged(c),
         Charged(b)' \subseteq Charged(b) \cup {r},
         guesses' = guesses
  PROVE  GuessInv'
<1> SUFFICES ASSUME NEW c \in Counters
             PROVE  guesses[c] + Cardinality(Charged(c)') <= count'[c]
  BY DEF GuessInv
<1>1. guesses[c] + Cardinality(Charged(c)) <= count[c]
  BY DEF GuessInv
<1>2. CASE c = b
  <2>1. /\ IsFiniteSet(Charged(b) \cup {r})
        /\ Cardinality(Charged(b) \cup {r}) \in Nat
        /\ Cardinality(Charged(b) \cup {r}) <= Cardinality(Charged(b)) + 1
    <3>1. IsFiniteSet(Charged(b)) /\ Cardinality(Charged(b)) \in Nat
      BY ChargedFinite
    <3>2. /\ IsFiniteSet(Charged(b) \cup {r})
          /\ Cardinality(Charged(b) \cup {r})
               = IF r \in Charged(b) THEN Cardinality(Charged(b)) ELSE Cardinality(Charged(b)) + 1
      BY <3>1, FS_AddElement
    <3> QED
      BY <3>1, <3>2
  <2>2. Charged(b)' \in SUBSET (Charged(b) \cup {r})
    OBVIOUS
  <2>3. /\ Cardinality(Charged(b)') \in Nat
        /\ Cardinality(Charged(b)') <= Cardinality(Charged(b) \cup {r})
    BY <2>1, <2>2, FS_Subset, FS_CardinalityType
  <2>4. count'[b] = count[b] + 1
    BY DEF ConnectTypeOK
  <2> QED
    BY <1>1, <1>2, <2>1, <2>3, <2>4, ChargedFinite DEF ConnectTypeOK
<1>3. CASE c # b
  <2>1. Charged(c)' \in SUBSET Charged(c)
    BY <1>3
  <2>2. /\ Cardinality(Charged(c)') \in Nat
        /\ Cardinality(Charged(c)') <= Cardinality(Charged(c))
    BY <2>1, ChargedFinite, FS_Subset, FS_CardinalityType
  <2>3. count'[c] = count[c]
    BY <1>3 DEF ConnectTypeOK
  <2> QED
    BY <1>1, <2>2, <2>3, ChargedFinite DEF ConnectTypeOK
<1> QED
  BY <1>2, <1>3

\* A PIN post turns the requests' charges into guesses.
LEMMA PinPosted ==
  ASSUME ConnectTypeOK, GuessInv, ConnectTypeOK', NEW r \in Requests, NEW m \in BOOLEAN,
         PostPin(r, m), count' = count
  PROVE  GuessInv'
<1> SUFFICES ASSUME NEW b \in Counters
             PROVE  guesses'[b] + Cardinality(Charged(b)') <= count[b]
  BY DEF GuessInv
<1>1. guesses[b] + Cardinality(Charged(b)) <= count[b]
  BY DEF GuessInv
<1>2. Charged(b)' = Charged(b) \ {r}
  BY RequestType DEF Charged, PostPin, ConnectTypeOK, Request
<1>3. CASE b \in req[r].charged
  <2>1. r \in Charged(b)
    BY <1>3 DEF Charged
  <2>2. Cardinality(Charged(b)') = Cardinality(Charged(b)) - 1
    BY <1>2, <2>1, ChargedFinite, FS_RemoveElement
  <2>3. guesses'[b] = guesses[b] + 1
    BY <1>3 DEF PostPin
  <2> QED
    BY <1>1, <2>2, <2>3, ChargedFinite DEF ConnectTypeOK
<1>4. CASE b \notin req[r].charged
  <2>1. Charged(b)' = Charged(b)
    BY <1>2, <1>4 DEF Charged
  <2>2. guesses'[b] = guesses[b]
    BY <1>4 DEF PostPin
  <2> QED
    BY <1>1, <2>1, <2>2
<1> QED
  BY <1>3, <1>4

-----------------------------------------------------------------------------
(* What a step may do to a request.                                        *)

\* The record of the request r becomes q; everybody else stays.
Becomes(r, q) == req' = [req EXCEPT ![r] = q]

\* A request record that keeps the invariants of its own.
Sound(q) ==
  /\ q \in Request /\ PinOK(q)
  /\ q.pc \in {"page", "save"} => q.host = Merchant

\* Moving one request to a sound record keeps every request sound.
LEMMA OneMoves ==
  ASSUME ConnectTypeOK, PinInv, NothingSavedElsewhere, NEW r \in Requests, NEW q,
         Becomes(r, q), Sound(q)
  PROVE  /\ req' \in [Requests -> Request]
         /\ PinInv' /\ NothingSavedElsewhere'
         /\ q.charged \subseteq req[r].charged
              => \A b \in Counters : Charged(b)' \subseteq Charged(b)
         /\ \A b \in Counters :
              q.charged \subseteq req[r].charged \cup {b}
              => /\ Charged(b)' \subseteq Charged(b) \cup {r}
                 /\ \A c \in Counters \ {b} : Charged(c)' \subseteq Charged(c)
<1>1. req'[r] = q /\ \A d \in Requests \ {r} : req'[d] = req[d]
  BY DEF Becomes, ConnectTypeOK
<1>2. req' \in [Requests -> Request]
  BY DEF Becomes, ConnectTypeOK, Sound
<1>3. PinInv'
  BY <1>1 DEF PinInv, Sound
<1>4. NothingSavedElsewhere'
  BY <1>1 DEF NothingSavedElsewhere, Sound
<1> QED
  BY <1>1, <1>2, <1>3, <1>4 DEF Charged

-----------------------------------------------------------------------------
(* The inductive invariant, one group of actions at a time.                *)

\* What is left to show of a step that moves the request r and neither posts
\* a PIN nor counts.
LEMMA Moved ==
  ASSUME Inv, NEW r \in Requests, NEW q, Becomes(r, q), Sound(q),
         q.charged \subseteq req[r].charged,
         connected' \in BOOLEAN, draft' \in Users \cup {Nobody},
         UNCHANGED <<count, guesses>>
  PROVE  Inv'
<1>1. ConnectTypeOK /\ PinInv /\ GuessInv /\ NothingSavedElsewhere
  BY DEF Inv
<1>2. /\ req' \in [Requests -> Request] /\ PinInv' /\ NothingSavedElsewhere'
      /\ \A b \in Counters : Charged(b)' \subseteq Charged(b)
  BY <1>1, OneMoves
<1>3. ConnectTypeOK'
  BY <1>1, <1>2 DEF ConnectTypeOK
<1>4. \A b \in Counters : count'[b] >= count[b]
  BY <1>1 DEF ConnectTypeOK
<1>5. GuessInv'
  BY <1>1, <1>2, <1>3, <1>4, NobodyCharged
<1> QED
  BY <1>2, <1>3, <1>5 DEF Inv

\* Ending or losing a request, or moving it to a stage without a host of its
\* own, is such a step.
LEMMA EndedOrFailed ==
  ASSUME Inv, NEW r \in Requests, connected' \in BOOLEAN, draft' \in Users \cup {Nobody},
         UNCHANGED <<count, guesses>>,
         \/ End(r) \/ Lose(r)
         \/ GoTo(r, "clear") /\ req[r].pc \in InFlow
         \/ GoTo(r, "cleanup") /\ req[r].pc \in InFlow
         \/ GoTo(r, "savePending") /\ req[r].pc \in InFlow
  PROVE  Inv'
<1>1. req[r] \in Request /\ PinOK(req[r]) /\ ConnectTypeOK
  BY RequestType DEF Inv, PinInv
<1>2. CASE End(r)
  BY <1>2, FreeType, Moved DEF End, Becomes, Sound, FreeRequest
<1>3. CASE Lose(r)
  <2> DEFINE q == [FreeRequest EXCEPT !.pc = "lost"]
  <2>1. Becomes(r, q) /\ q \in Request /\ PinOK(q) /\ q.charged = {}
    BY <1>3, FreeType DEF Lose, Becomes, FreeRequest, Request, PinOK
  <2>2. q.pc = "lost"
    BY DEF FreeRequest
  <2> QED
    BY <2>1, <2>2, Moved DEF Sound
<1>4. ASSUME NEW p \in {"clear", "cleanup", "savePending"}, GoTo(r, p), req[r].pc \in InFlow
      PROVE  Inv'
  <2> DEFINE q == [req[r] EXCEPT !.pc = p]
  <2>1. Becomes(r, q)
    BY <1>4 DEF GoTo, Becomes
  <2>2. q \in Request /\ q.pc = p /\ q.charged = req[r].charged
    BY <1>1, <1>4 DEF Request, InFlow
  <2>3. PinOK(q)
    BY <1>1, <1>4 DEF PinOK, InFlow, Request
  <2> QED
    BY <2>1, <2>2, <2>3, Moved DEF Sound
<1> QED
  BY <1>2, <1>3, <1>4

\* A request that begins, or is admitted, has posted nothing.
LEMMA BeginKeepsInv ==
  ASSUME Inv, NEW r \in Requests, NEW k \in {"login", "outlet"}, NEW u \in Users, NEW ip \in Ips,
         Begin(r, k, u, ip)
  PROVE  Inv'
<1> DEFINE q == [FreeRequest EXCEPT !.pc = "count", !.kind = k, !.user = u, !.todo = {ip, u, Global}]
<1>1. Becomes(r, q) /\ UNCHANGED <<connected, draft, count, guesses>>
  BY DEF Begin, Becomes
<1>2. q \in Request /\ PinOK(q) /\ q.charged = {} /\ q.pc = "count"
  <2>1. {ip, u, Global} \in SUBSET Counters
    BY DEF Counters
  <2>2. q \in Request
    BY <2>1, FreeType DEF Request
  <2>3. q.pc = "count" /\ q.kind = k /\ q.pins = FreeRequest.pins /\ q.charged = FreeRequest.charged
    BY FreeType DEF Request
  <2>4. FreeRequest.pins = 0 /\ FreeRequest.charged = {}
    BY DEF FreeRequest
  <2> HIDE DEF q
  <2>5. PinOK(q)
    BY <2>3, <2>4 DEF PinOK
  <2> QED
    BY <2>2, <2>3, <2>4, <2>5
<1>3. connected' \in BOOLEAN /\ draft' \in Users \cup {Nobody}
  BY <1>1 DEF Inv, ConnectTypeOK
<1> QED
  BY <1>1, <1>2, <1>3, Moved DEF Sound

LEMMA AdmitKeepsInv ==
  ASSUME Inv, NEW r \in Requests, Admit(r)
  PROVE  Inv'
<1> DEFINE q == [req[r] EXCEPT !.pc = "prepare"]
<1>1. req[r] \in Request /\ PinOK(req[r]) /\ ConnectTypeOK
  BY RequestType DEF Inv, PinInv
<1>2. Becomes(r, q) /\ UNCHANGED <<connected, draft, count, guesses>>
  BY DEF Admit, GoTo, Becomes
<1>3. q \in Request /\ PinOK(q) /\ q.charged = req[r].charged /\ q.pc = "prepare"
  BY <1>1 DEF Request, PinOK, InFlow, Admit, AtStage
<1> QED
  BY <1>1, <1>2, <1>3, Moved DEF Sound, ConnectTypeOK

\* A counted attempt charges the request; a refused or failed one does not.
LEMMA CountKeepsInv ==
  ASSUME Inv, NEW r \in Requests, NEW b \in Counters, CountOne(r, b) \/ CountFails(r, b)
  PROVE  Inv'
<1> DEFINE t == req[r].todo \ {b}
           charged == [req[r] EXCEPT !.todo = t, !.charged = @ \cup {b}]
           refused == [req[r] EXCEPT !.todo = t, !.admitted = FALSE]
<1>1. /\ ConnectTypeOK /\ PinInv /\ GuessInv /\ NothingSavedElsewhere
      /\ req[r] \in Request /\ PinOK(req[r])
  BY RequestType DEF Inv, PinInv
<1>2. /\ Sound(charged) /\ charged.charged = req[r].charged \cup {b}
      /\ Sound(refused) /\ refused.charged = req[r].charged
  <2>1. charged \in Request /\ refused \in Request
    BY <1>1 DEF Request
  <2>2. charged.pc = "count" /\ refused.pc = "count" /\ PinOK(charged) /\ PinOK(refused)
    BY <1>1 DEF Request, PinOK, CountOne, CountFails, AtStage
  <2>3. charged.charged = req[r].charged \cup {b} /\ refused.charged = req[r].charged
    BY <1>1 DEF Request
  <2> QED
    BY <2>1, <2>2, <2>3 DEF Sound
<1>3. PICK q \in {charged, refused} :
        /\ Becomes(r, q) /\ UNCHANGED <<connected, draft, guesses>>
        /\ \/ count[b] < MaxAttempts[b] /\ count' = [count EXCEPT ![b] = @ + 1]
           \/ q = refused /\ UNCHANGED count
  BY DEF CountOne, CountFails, Becomes
<1>4. CASE count[b] < MaxAttempts[b] /\ count' = [count EXCEPT ![b] = @ + 1]
  <2>1. q.charged \subseteq req[r].charged \cup {b} /\ Sound(q)
    BY <1>2, <1>3
  <2>2. /\ req' \in [Requests -> Request] /\ PinInv' /\ NothingSavedElsewhere'
        /\ Charged(b)' \subseteq Charged(b) \cup {r}
        /\ \A c \in Counters \ {b} : Charged(c)' \subseteq Charged(c)
    BY <1>1, <1>3, <2>1, OneMoves
  <2>3. ConnectTypeOK'
    <3>1. MaxAttempts \in [Counters -> Nat]
      BY ConnectAssumption
    <3>a. count \in [Counters -> Nat] /\ \A c \in Counters : count[c] <= MaxAttempts[c]
      BY <1>1 DEF ConnectTypeOK
    <3>2. count' \in [Counters -> Nat] /\ \A c \in Counters : count'[c] <= MaxAttempts[c]
      BY <1>4, <3>1, <3>a
    <3> QED
      BY <1>1, <1>3, <2>2, <3>2 DEF ConnectTypeOK
  <2>4. GuessInv'
    BY <1>1, <1>3, <1>4, <2>2, <2>3, OneCharged
  <2> QED
    BY <2>2, <2>3, <2>4 DEF Inv
<1>5. CASE q = refused /\ UNCHANGED count
  <2>1. q.charged \subseteq req[r].charged /\ Sound(q)
    BY <1>2, <1>5
  <2> QED
    BY <1>1, <1>3, <1>5, <2>1, Moved DEF ConnectTypeOK
<1> QED
  BY <1>3, <1>4, <1>5

\* The PIN posts: the first of a request, and of a login the second one once
\* the merchant is known.
LEMMA PostKeepsInv ==
  ASSUME Inv, NEW r \in Requests, NEW m \in BOOLEAN, PostPin(r, m),
         UNCHANGED <<connected, draft, count>>,
         \/ AtStage(r, "prepare") /\ (m <=> req[r].kind = "outlet")
         \/ AtStage(r, "answer") /\ ~req[r].merchant /\ m
  PROVE  Inv'
<1> DEFINE q == [req[r] EXCEPT !.pc = "answer", !.merchant = m, !.pins = @ + 1, !.charged = {}]
<1>1. /\ ConnectTypeOK /\ PinInv /\ GuessInv /\ NothingSavedElsewhere
      /\ req[r] \in Request /\ PinOK(req[r])
  BY RequestType DEF Inv, PinInv
<1>2. Becomes(r, q)
  BY DEF PostPin, Becomes
<1>3. q \in Request /\ q.pc = "answer" /\ q.charged = {}
  <2>1. req[r].pins + 1 \in Nat
    BY <1>1 DEF Request
  <2> QED
    BY <1>1, <2>1 DEF Request, InFlow
<1>4. PinOK(q)
  <2>1. q.kind = req[r].kind /\ q.merchant = m /\ q.pins = req[r].pins + 1
    BY <1>1 DEF Request
  <2>a. req[r].kind \in {"login", "outlet"} /\ req[r].pins \in Nat
    BY <1>1 DEF Request, PinOK, AtStage
  <2> HIDE DEF q
  <2>2. CASE AtStage(r, "prepare")
    BY <1>1, <1>3, <2>1, <2>a, <2>2 DEF PinOK, AtStage
  <2>3. CASE AtStage(r, "answer")
    BY <1>1, <1>3, <2>1, <2>a, <2>3 DEF PinOK, AtStage
  <2> QED
    BY <2>2, <2>3
<1>5. req' \in [Requests -> Request] /\ PinInv' /\ NothingSavedElsewhere'
  BY <1>1, <1>2, <1>3, <1>4, OneMoves DEF Sound
<1>6. guesses' \in [Counters -> Nat]
  BY <1>1 DEF PostPin, ConnectTypeOK
<1>7. ConnectTypeOK'
  BY <1>1, <1>5, <1>6 DEF ConnectTypeOK
<1>8. GuessInv'
  BY <1>1, <1>7, PinPosted
<1> QED
  BY <1>5, <1>7, <1>8 DEF Inv

\* A page of the hand-off is on the merchant's host, and so is what it holds.
LEMMA PageKeepsInv ==
  ASSUME Inv, NEW r \in Requests, NEW h \in Hosts,
         Redirected(r, h) \/ PageMoves(r, h) \/ PageRead(r)
  PROVE  Inv'
<1> DEFINE first == [req[r] EXCEPT !.pc = "page", !.host = h]
           next == [req[r] EXCEPT !.host = h, !.hop = @ + 1]
           read == [req[r] EXCEPT !.pc = "save"]
<1>1. /\ ConnectTypeOK /\ NothingSavedElsewhere
      /\ req[r] \in Request /\ PinOK(req[r])
  BY RequestType DEF Inv, PinInv
<1>2. UNCHANGED <<connected, draft, count, guesses>>
  BY DEF Redirected, PageMoves, PageRead
<1>3. connected' \in BOOLEAN /\ draft' \in Users \cup {Nobody}
  BY <1>1, <1>2 DEF ConnectTypeOK
<1>4. CASE AtStage(r, "answer") /\ h = Merchant /\ Becomes(r, first)
  <2>1. /\ first \in Request /\ first.pc = "page" /\ first.host = Merchant
        /\ first.charged = req[r].charged /\ PinOK(first)
    BY <1>1, <1>4 DEF Request, InFlow, PinOK, AtStage
  <2> QED
    BY <1>2, <1>3, <1>4, <2>1, Moved DEF Sound
<1>5. CASE AtStage(r, "page") /\ h = Merchant /\ Becomes(r, next)
  <2>1. req[r].hop + 1 \in Nat
    BY <1>1 DEF Request
  <2>2. /\ next \in Request /\ next.host = Merchant
        /\ next.charged = req[r].charged
    BY <1>1, <1>5, <2>1 DEF Request
  <2>3. PinOK(next)
    BY <1>1, <1>5 DEF Request, InFlow, PinOK, AtStage
  <2> QED
    BY <1>2, <1>3, <1>5, <2>2, <2>3, Moved DEF Sound
<1>6. CASE AtStage(r, "page") /\ Becomes(r, read)
  <2>1. /\ read \in Request /\ read.pc = "save" /\ read.charged = req[r].charged
        /\ PinOK(read)
    BY <1>1, <1>6 DEF Request, InFlow, PinOK, AtStage
  <2>2. read.host = Merchant
    BY <1>1, <1>6 DEF Request, NothingSavedElsewhere, AtStage
  <2> QED
    BY <1>2, <1>3, <1>6, <2>1, <2>2, Moved DEF Sound
<1>7. CASE GoTo(r, "clear") /\ req[r].pc \in InFlow
  BY <1>2, <1>3, <1>7, EndedOrFailed
<1> QED
  BY <1>4, <1>5, <1>6, <1>7 DEF Redirected, PageMoves, PageRead, GoTo, Becomes, AtStage, InFlow

\* Disconnect takes over a request that is over.
LEMMA DisconnectKeepsInv ==
  ASSUME Inv, NEW r \in Requests, Disconnect(r)
  PROVE  Inv'
<1> DEFINE q == [req[r] EXCEPT !.pc = "disconnect"]
<1>1. ConnectTypeOK /\ req[r] \in Request /\ PinOK(req[r])
  BY RequestType DEF Inv, PinInv
<1>2. Becomes(r, q) /\ connected' = FALSE /\ UNCHANGED <<draft, count, guesses>>
  BY DEF Disconnect, GoTo, Becomes
<1>3. q \in Request /\ q.pc = "disconnect" /\ q.charged = req[r].charged /\ PinOK(q)
  BY <1>1 DEF Request, InFlow, PinOK
<1> QED
  BY <1>1, <1>2, <1>3, Moved DEF Sound, ConnectTypeOK

\* A window that ends forgets its attempts, its guesses and its charges.
LEMMA WindowEndsKeepsInv ==
  ASSUME Inv, NEW b \in Counters, WindowEnds(b)
  PROVE  Inv'
<1>1. ConnectTypeOK /\ PinInv /\ GuessInv /\ NothingSavedElsewhere
  BY DEF Inv
<1>2. \A r \in Requests :
        /\ req'[r] \in Request /\ req'[r].charged = req[r].charged \ {b}
        /\ req'[r].pc = req[r].pc /\ req'[r].kind = req[r].kind /\ req'[r].pins = req[r].pins
        /\ req'[r].merchant = req[r].merchant /\ req'[r].host = req[r].host
  <2> SUFFICES ASSUME NEW r \in Requests
               PROVE  /\ req'[r] \in Request /\ req'[r].charged = req[r].charged \ {b}
                      /\ req'[r].pc = req[r].pc /\ req'[r].kind = req[r].kind
                      /\ req'[r].pins = req[r].pins /\ req'[r].merchant = req[r].merchant
                      /\ req'[r].host = req[r].host
    OBVIOUS
  <2>1. req'[r] = [req[r] EXCEPT !.charged = @ \ {b}] /\ req[r] \in Request
    BY <1>1, RequestType DEF WindowEnds
  <2> QED
    BY <2>1 DEF Request
<1>3. ConnectTypeOK'
  <2>1. req' \in [Requests -> Request]
    BY <1>2 DEF WindowEnds
  <2>2. MaxAttempts \in [Counters -> Nat]
    BY ConnectAssumption
  <2>3. count' \in [Counters -> Nat] /\ guesses' \in [Counters -> Nat]
    BY <1>1 DEF ConnectTypeOK, WindowEnds
  <2>4. \A c \in Counters : count'[c] <= MaxAttempts[c]
    BY <1>1, <2>2 DEF ConnectTypeOK, WindowEnds
  <2> QED
    BY <1>1, <2>1, <2>3, <2>4 DEF ConnectTypeOK, WindowEnds
<1>4. PinInv'
  BY <1>1, <1>2 DEF PinInv, PinOK
<1>5. NothingSavedElsewhere'
  BY <1>1, <1>2 DEF NothingSavedElsewhere
<1>6. GuessInv'
  <2> SUFFICES ASSUME NEW c \in Counters
               PROVE  guesses'[c] + Cardinality(Charged(c)') <= count'[c]
    BY DEF GuessInv
  <2>1. CASE c = b
    <3>1. Charged(b)' = {}
      BY <1>2 DEF Charged
    <3>2. guesses'[b] = 0 /\ count'[b] = 0
      BY <1>1 DEF WindowEnds, ConnectTypeOK
    <3>3. Cardinality(Charged(b)') = 0
      BY <3>1, FS_EmptySet
    <3> QED
      BY <2>1, <3>2, <3>3
  <2>2. CASE c # b
    <3>1. Charged(c)' = Charged(c)
      BY <1>2, <2>2 DEF Charged
    <3>2. guesses'[c] = guesses[c] /\ count'[c] = count[c]
      BY <1>1, <2>2 DEF WindowEnds, ConnectTypeOK
    <3> QED
      BY <1>1, <3>1, <3>2 DEF GuessInv
  <2> QED
    BY <2>1, <2>2
<1> QED
  BY <1>3, <1>4, <1>5, <1>6 DEF Inv

-----------------------------------------------------------------------------
LEMMA InitInv == ConnectInit => Inv
<1> SUFFICES ASSUME ConnectInit PROVE Inv
  OBVIOUS
<1>1. \A r \in Requests : req[r] = FreeRequest
  BY DEF ConnectInit
<1>2. ConnectTypeOK
  <2>1. MaxAttempts \in [Counters -> Nat]
    BY ConnectAssumption
  <2> QED
    BY <2>1, FreeType DEF ConnectInit, ConnectTypeOK
<1>3. PinInv
  BY <1>1, FreeType DEF PinInv
<1>4. NothingSavedElsewhere
  BY <1>1 DEF NothingSavedElsewhere, FreeRequest
<1>5. GuessInv
  <2>1. \A b \in Counters : Charged(b) = {}
    BY <1>1 DEF Charged, FreeRequest
  <2> QED
    BY <2>1, FS_EmptySet DEF GuessInv, ConnectInit
<1> QED
  BY <1>2, <1>3, <1>4, <1>5 DEF Inv

\* What a request itself does keeps the invariant.
LEMMA ProceedKeepsInv ==
  ASSUME Inv, NEW r \in Requests, Proceed(r)
  PROVE  Inv'
<1>0. ConnectTypeOK /\ req[r] \in Request /\ PinOK(req[r])
  BY RequestType DEF Inv, PinInv
<1>1. ASSUME NEW b \in Counters, CountOne(r, b) \/ CountFails(r, b) PROVE Inv'
  BY <1>1, CountKeepsInv
<1>2. CASE Refuse(r)
  BY <1>0, <1>2, EndedOrFailed DEF Refuse, ConnectTypeOK
<1>3. CASE Admit(r)
  BY <1>3, AdmitKeepsInv
<1>4. CASE PrepareLogin(r)
  <2>1. CASE PostPin(r, FALSE)
    BY <1>4, <2>1, PostKeepsInv DEF PrepareLogin
  <2>2. CASE GoTo(r, "clear") /\ UNCHANGED guesses
    BY <1>0, <1>4, <2>2, EndedOrFailed DEF PrepareLogin, ConnectTypeOK, AtStage, InFlow
  <2> QED
    BY <1>4, <2>1, <2>2 DEF PrepareLogin
<1>5. CASE PrepareOutlet(r)
  <2>1. CASE PostPin(r, TRUE)
    BY <1>5, <2>1, PostKeepsInv DEF PrepareOutlet
  <2>2. CASE GoTo(r, "clear") /\ UNCHANGED guesses
    BY <1>0, <1>5, <2>2, EndedOrFailed DEF PrepareOutlet, ConnectTypeOK, AtStage, InFlow
  <2> QED
    BY <1>5, <2>1, <2>2 DEF PrepareOutlet
<1>6. CASE MerchantAsked(r)
  <2>1. CASE ~req[r].merchant /\ PostPin(r, TRUE)
    BY <1>6, <2>1, PostKeepsInv DEF MerchantAsked
  <2>2. CASE GoTo(r, "clear") /\ UNCHANGED guesses
    BY <1>0, <1>6, <2>2, EndedOrFailed DEF MerchantAsked, ConnectTypeOK, AtStage, InFlow
  <2> QED
    BY <1>6, <2>1, <2>2 DEF MerchantAsked
<1>7. CASE OutletAsked(r)
  BY <1>0, <1>7, EndedOrFailed DEF OutletAsked, ConnectTypeOK, AtStage, InFlow
<1>8. CASE AnswerUseless(r)
  BY <1>0, <1>8, EndedOrFailed DEF AnswerUseless, ConnectTypeOK, AtStage, InFlow
<1>9. ASSUME NEW h \in Hosts, Redirected(r, h) \/ PageMoves(r, h) PROVE Inv'
  BY <1>9, PageKeepsInv
<1>10. CASE PageRead(r)
  BY <1>10, PageKeepsInv, ConnectAssumption
<1>11. CASE StoreSession(r)
  BY <1>11, EndedOrFailed DEF StoreSession, Answered, AtStage, InFlow
<1>12. CASE SaveDraft(r)
  <2>1. draft' \in Users \cup {Nobody} /\ connected' \in BOOLEAN
    BY <1>0, <1>12 DEF SaveDraft, Request, ConnectTypeOK
  <2> QED
    BY <1>12, <2>1, EndedOrFailed DEF SaveDraft, Answered, AtStage, InFlow
<1>13. CASE ClearDraft(r)
  BY <1>0, <1>13, EndedOrFailed DEF ClearDraft, Answered, AtStage, InFlow, ConnectTypeOK
<1>14. CASE Throws(r)
  BY <1>0, <1>14, EndedOrFailed DEF Throws, ConnectTypeOK
<1>15. CASE Cleanup(r)
  BY <1>0, <1>15, EndedOrFailed DEF Cleanup, ConnectTypeOK
<1>16. CASE CleanupFails(r)
  BY <1>0, <1>16, EndedOrFailed DEF CleanupFails, ConnectTypeOK
<1>17. CASE Disconnected(r)
  BY <1>0, <1>17, EndedOrFailed DEF Disconnected, ConnectTypeOK
<1> QED
  BY <1>1, <1>2, <1>3, <1>4, <1>5, <1>6, <1>7, <1>8, <1>9, <1>10, <1>11, <1>12, <1>13, <1>14,
     <1>15, <1>16, <1>17 DEF Proceed

\* A step that touches neither the requests nor the windows keeps it.
LEMMA CellsKeepInv ==
  ASSUME Inv, connected' \in BOOLEAN, draft' \in Users \cup {Nobody},
         UNCHANGED <<count, req, guesses>>
  PROVE  Inv'
BY DEF Inv, ConnectTypeOK, PinInv, PinOK, GuessInv, Charged, NothingSavedElsewhere

LEMMA NextKeepsInv == Inv /\ [ConnectNext]_connectVars => Inv'
<1> SUFFICES ASSUME Inv, [ConnectNext]_connectVars PROVE Inv'
  OBVIOUS
<1>0. ConnectTypeOK
  BY DEF Inv
<1>1. ASSUME NEW r \in Requests, Proceed(r) PROVE Inv'
  BY <1>1, ProceedKeepsInv
<1>2. ASSUME NEW r \in Requests, Crash(r) PROVE Inv'
  BY <1>0, <1>2, EndedOrFailed DEF Crash, ConnectTypeOK
<1>3. ASSUME NEW r \in Requests, NEW ip \in Ips, StartOutlet(r, ip) PROVE Inv'
  <2>1. draft \in Users
    BY <1>0, <1>3 DEF StartOutlet, ConnectTypeOK
  <2> QED
    BY <1>3, <2>1, BeginKeepsInv DEF StartOutlet
<1>4. ASSUME NEW r \in Requests, NEW u \in Users, NEW ip \in Ips, StartLogin(r, u, ip) PROVE Inv'
  BY <1>4, BeginKeepsInv DEF StartLogin
<1>5. ASSUME NEW r \in Requests, Disconnect(r) PROVE Inv'
  BY <1>5, DisconnectKeepsInv
<1>6. CASE Paste \/ Cancel \/ SessionLost \/ PendingExpires \/ UNCHANGED connectVars
  BY <1>0, <1>6, CellsKeepInv DEF Paste, Cancel, SessionLost, PendingExpires, connectVars, ConnectTypeOK
<1>7. ASSUME NEW b \in Counters, WindowEnds(b) PROVE Inv'
  BY <1>7, WindowEndsKeepsInv
<1> QED
  BY <1>1, <1>2, <1>3, <1>4, <1>5, <1>6, <1>7 DEF ConnectNext, OwnerStep

\* Inv holds in every reachable state.
THEOREM Invariance == ConnectSpec => []Inv
BY InitInv, NextKeepsInv, PTL DEF ConnectSpec

\* Every reachable state of the connect flow is well typed; in particular no
\* bucket counts past its limit (checkRateLimit as pinAttemptAllowed uses it).
THEOREM TypeCorrect == ConnectSpec => []ConnectTypeOK
<1>1. Inv => ConnectTypeOK
  BY DEF Inv
<1> QED
  BY <1>1, Invariance, PTL

\* However the requests race, fail and crash, no window lets more of them send
\* a PIN than its limit, and none sends it more than twice.
THEOREM PinsLimited == ConnectSpec => []PinsWithinLimits
<1>1. Inv => PinsWithinLimits
  <2> SUFFICES ASSUME Inv PROVE PinsWithinLimits
    OBVIOUS
  <2>1. ASSUME NEW b \in Counters PROVE guesses[b] <= MaxAttempts[b]
    <3>1. guesses[b] + Cardinality(Charged(b)) <= count[b] /\ count[b] <= MaxAttempts[b]
      BY DEF Inv, GuessInv, ConnectTypeOK
    <3>2. guesses[b] \in Nat /\ count[b] \in Nat /\ MaxAttempts[b] \in Nat
      BY ConnectAssumption DEF Inv, ConnectTypeOK
    <3> QED
      BY <3>1, <3>2, ChargedFinite
  <2> QED
    BY <2>1 DEF PinsWithinLimits, Inv, PinInv, PinOK
<1> QED
  BY <1>1, Invariance, PTL

\* A session is only saved from a page that was read on the merchant's host.
THEOREM SavedFromMerchant == ConnectSpec => []NothingSavedElsewhere
<1>1. Inv => NothingSavedElsewhere
  BY DEF Inv
<1> QED
  BY <1>1, Invariance, PTL

\* A login that is over without an outlet question has cleared the pending
\* state in its last step (withPendingCleanup, respondLoginResult).
THEOREM NothingLeft == ConnectSpec => FlowsLeaveNothingBehind
<1> DEFINE Ends(r) == /\ req[r].pc \in InFlow \cup {"cleanup"} /\ req'[r].pc = "idle"
                      /\ req[r].pc # "savePending"
           Clean == \A r \in Requests : Ends(r) => draft' = Nobody
<1>1. ConnectTypeOK /\ [ConnectNext]_connectVars => Clean
  <2> SUFFICES ASSUME ConnectTypeOK, [ConnectNext]_connectVars, NEW r \in Requests, Ends(r)
               PROVE  draft' = Nobody
    OBVIOUS
  <2>1. req[r].pc # "idle" /\ (\A d \in Requests : req[d] \in Request)
    BY DEF InFlow, ConnectTypeOK
  <2>2. ASSUME NEW d \in Requests, NEW p, GoTo(d, p), p # "idle"
        PROVE  FALSE
    <3>1. req' = [req EXCEPT ![d] = [req[d] EXCEPT !.pc = p]] /\ req[d] \in Request
      BY <2>1, <2>2 DEF GoTo
    <3>2. [req[d] EXCEPT !.pc = p].pc = p
      BY <3>1 DEF Request
    <3> QED
      BY <2>1, <2>2, <3>1, <3>2 DEF ConnectTypeOK
  <2>3. ASSUME NEW d \in Requests, d # r, End(d)
        PROVE  FALSE
    BY <2>1, <2>3 DEF End, ConnectTypeOK
  <2>4. ASSUME NEW d \in Requests, Lose(d)
        PROVE  FALSE
    BY <2>1, <2>4 DEF Lose, FreeRequest, ConnectTypeOK
  <2>5. ASSUME NEW d \in Requests, Proceed(d)
        PROVE  draft' = Nobody
    <3>1. ASSUME NEW b \in Counters, CountOne(d, b) \/ CountFails(d, b) PROVE FALSE
      <4>1. req'[d].pc = req[d].pc /\ \A e \in Requests \ {d} : req'[e] = req[e]
        BY <2>1, <3>1 DEF CountOne, CountFails, ConnectTypeOK, Request
      <4> QED
        BY <2>1, <4>1
    <3>2. CASE Refuse(d) \/ Disconnected(d)
      <4>1. d # r
        BY <3>2 DEF Refuse, Disconnected, AtStage, InFlow
      <4> QED
        BY <2>3, <3>2, <4>1 DEF Refuse, Disconnected
    <3>3. CASE Admit(d) \/ OutletAsked(d) \/ AnswerUseless(d) \/ PageRead(d) \/ Throws(d)
      BY <2>2, <3>3 DEF Admit, OutletAsked, AnswerUseless, PageRead, Throws
    <3>4. ASSUME NEW m, PostPin(d, m) PROVE FALSE
      <4>1. req'[d].pc = "answer" /\ \A e \in Requests \ {d} : req'[e] = req[e]
        BY <2>1, <3>4 DEF PostPin, ConnectTypeOK, Request
      <4> QED
        BY <2>1, <4>1
    <3>5. CASE PrepareLogin(d) \/ PrepareOutlet(d) \/ MerchantAsked(d)
      BY <2>2, <3>4, <3>5 DEF PrepareLogin, PrepareOutlet, MerchantAsked
    <3>6. ASSUME NEW h \in Hosts, Redirected(d, h) \/ PageMoves(d, h) PROVE FALSE
      <4>1. CASE GoTo(d, "clear")
        BY <2>2, <4>1
      <4>2. CASE ~GoTo(d, "clear")
        <5>1. req'[d].pc = "page" /\ \A e \in Requests \ {d} : req'[e] = req[e]
          BY <2>1, <3>6, <4>2 DEF Redirected, PageMoves, ConnectTypeOK, Request, AtStage
        <5> QED
          BY <2>1, <5>1
      <4> QED
        BY <4>1, <4>2
    <3>7. CASE StoreSession(d) \/ ClearDraft(d) \/ Cleanup(d)
      BY <3>7 DEF StoreSession, ClearDraft, Cleanup
    <3>8. CASE SaveDraft(d)
      <4>1. d # r
        BY <3>8 DEF SaveDraft, AtStage
      <4> QED
        BY <2>2, <2>3, <3>8, <4>1 DEF SaveDraft, Answered
    <3>9. CASE CleanupFails(d)
      BY <2>4, <3>9 DEF CleanupFails
    <3> QED
      BY <2>5, <3>1, <3>2, <3>3, <3>5, <3>6, <3>7, <3>8, <3>9 DEF Proceed
  <2>6. ASSUME NEW d \in Requests, Crash(d) PROVE FALSE
    BY <2>4, <2>6 DEF Crash
  <2>7. ASSUME NEW d \in Requests, NEW k, NEW u, NEW ip, Begin(d, k, u, ip) PROVE FALSE
    BY <2>1, <2>7 DEF Begin, FreeRequest, ConnectTypeOK
  <2>8. ASSUME NEW d \in Requests, Disconnect(d) PROVE FALSE
    BY <2>2, <2>8 DEF Disconnect
  <2>9. CASE Paste \/ Cancel \/ SessionLost \/ PendingExpires \/ UNCHANGED connectVars
    BY <2>1, <2>9 DEF Paste, Cancel, SessionLost, PendingExpires, connectVars
  <2>10. ASSUME NEW b \in Counters, WindowEnds(b) PROVE FALSE
    <3>1. req'[r].pc = req[r].pc
      BY <2>1, <2>10 DEF WindowEnds, Request
    <3> QED
      BY <2>1, <3>1
  <2> QED
    BY <2>5, <2>6, <2>7, <2>8, <2>9, <2>10 DEF ConnectNext, OwnerStep, StartLogin, StartOutlet
<1> QED
  BY <1>1, TypeCorrect, PTL DEF ConnectSpec, FlowsLeaveNothingBehind
=============================================================================
