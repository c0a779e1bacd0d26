------------------------------ MODULE MCWorker ------------------------------
(***************************************************************************)
(* Small instances of Dispatch, OwnerGate, Connect and Login for TLC, side *)
(* by side: the initial state says which of them moves, `part`, so that    *)
(* their states add up instead of multiplying.  OwnerGate comes in two     *)
(* slices, guesses at the password and consent under changing deployments; *)
(* of Connect one request is followed to its end, and Login has its data.  *)
(***************************************************************************)
EXTENDS Worker, Login

CONSTANTS c1, c2, p1, pos, shop, t1, t2, b1, b2, n1, n2, r1, k1

MCProviderOf == [c \in Calls |-> p1]
MCHost == [o \in Ops |-> IF o = "page" THEN shop ELSE pos]
MCAuth == [o \in Ops |-> IF o = "page" THEN "cookie-csrf" ELSE "bearer"]
MCMethod == [o \in Ops |-> IF o = "confirm" THEN "POST" ELSE "GET"]
MCSafety == [o \in Ops |-> IF o = "confirm" THEN "write" ELSE "read"]
MCNetworkOf == [b \in Browsers |-> IF b = b1 THEN n1 ELSE n2]
MCAsked == [k \in Clients |-> {"qasir:read", "qasir:admin"}]
MCTicks == {{}, {"qasir:read"}, {"qasir:write"}, {"qasir:read", "qasir:admin"}}

VARIABLES
  part,   \* which module moves
  session, draft, count, login, guesses   \* Connect

connectVars == <<session, draft, count, login, guesses>>

C == INSTANCE Connect WITH
       Nobody <- None, Requests <- {r1}, Users <- {k1}, Ips <- {n1}, Global <- n2,
       MaxAttempts <- [b \in {k1, n1, n2} |-> 1],
       Hosts <- {shop, Foreign}, Merchant <- shop, MaxHops <- 3, req <- login, connected <- session

Line(name, domain, path, maxAge, expires) ==
  [name |-> name, domain |-> domain, path |-> path, maxAge |-> maxAge, expires |-> expires]
Says(ok, next) == [ok |-> ok, next |-> next, url |-> None, merchants |-> <<>>, merchant |-> None,
                   outlets |-> {[id |-> 5, locked |-> FALSE], [id |-> 6, locked |-> TRUE]}]

MCLines == {Line("sess", "qasir.id", "/", 1, None), Line("sess", "qasir.id", "/", None, 0),
            Line("xsrf", "qasir.id", "/api", 1, 0), Line("xsrf", "shop", "/api", None, None),
            Line("sess", "id", "/", None, None)}
MCAnswers == {Says(FALSE, "redirect"), Says(TRUE, "verify_otp"), Says(TRUE, "select_outlet"),
              [Says(TRUE, "redirect") EXCEPT !.url = "other"],
              [Says(TRUE, "none") EXCEPT !.url = "shop"],
              [Says(TRUE, "select_outlet") EXCEPT !.merchant = 1],
              [Says(TRUE, "select_outlet") EXCEPT !.merchant = 2],
              [Says(TRUE, "select_merchant") EXCEPT !.merchants = <<[id |-> 1, host |-> "other"]>>],
              [Says(TRUE, "select_merchant") EXCEPT
                 !.merchants = <<[id |-> 1, host |-> "other"], [id |-> 2, host |-> "shop"]>>]}

GuessNext ==
  \/ \E r \in Requests :
       \/ \E b \in Browsers : Login(r, b)
       \/ Peek(r) \/ RightPassword(r) \/ WrongPassword(r) \/ Count(r) \/ Dies(r)
  \/ \E n \in Networks : WindowEnds(n)

ConsentNext ==
  \/ Login(r1, b1) \/ OwnerPage(r1, b1) \/ CookieGone(b1)
  \/ \E k \in Clients, ticked \in Ticks : Authorize(r1, b1, k, ticked)
  \/ Peek(r1) \/ RightPassword(r1) \/ LoggedIn(r1) \/ Approve(r1) \/ Act(r1) \/ Dies(r1)
  \/ \E s \in Rotations \cup {Absent}, m \in BOOLEAN : Deploy(s, m)

MCInit ==
  /\ WorkerInit /\ C!ConnectInit /\ LoginInit
  /\ \/ part = "dispatch" /\ ~mutations /\ ~session
     \/ part = "guesses" /\ ~mutations /\ stored = None /\ ~session
     \/ part = "consent" /\ stored = None /\ ~session
     \/ part = "connect" /\ ~mutations /\ stored = None
     \/ part = "login" /\ ~mutations /\ stored = None /\ ~session
MCNext ==
  \/ part = "dispatch" /\ Next /\ UNCHANGED <<gateVars, connectVars, loginVars, part>>
  \/ part = "guesses" /\ GuessNext /\ UNCHANGED <<vars, connectVars, loginVars, part>>
  \/ part = "consent" /\ ConsentNext /\ UNCHANGED <<vars, connectVars, loginVars, part>>
  \/ part = "connect" /\ C!ConnectNext /\ UNCHANGED <<vars, gateVars, loginVars, part>>
  \/ part = "login" /\ LoginNext /\ UNCHANGED <<vars, gateVars, connectVars, part>>
MCSpec ==
  /\ MCInit /\ [][MCNext]_<<vars, gateVars, connectVars, loginVars, part>>
  /\ Fairness
  /\ WF_connectVars(C!Proceed(r1))

\* What the modules' steps wait for ends: a dispatch (EveryDispatchEnds) and a
\* request of the connect page (EveryRequestEnds), whatever Qasir answers.
RequestsEnd == EveryDispatchEnds /\ C!EveryRequestEnds
=============================================================================
