----------------------------- MODULE MCWidgets ------------------------------
(***************************************************************************)
(* Small instances of WidgetClient, Pages (Navigation and SearchBox),      *)
(* Views and Input for TLC, side by side: the initial state says which of  *)
(* them moves, `part`, so that their states add up instead of multiplying. *)
(***************************************************************************)
EXTENDS WidgetClient, Pages, Views, Input, Registry

CONSTANT Parts   \* the modules that may move

\* Values on both sides of every bound of a schema, of every type and pattern.
Scalars == {Null, Num(-3), Num(0), Num(7), Num(101), Num(200), Fraction, Bool(TRUE),
            Str(Digits(5)), Str(Digits(200)), Str(Zeros(9)), Str(Word("sales")), Str(Word("true")),
            Str(Prose), Str(Long)}

\* Bodies of a stock adjustment with one odd field in their second row.
Line(a, b) ==
  "stock" :> a @@ "outlet_id" :> Num(1) @@ "product_id" :> Num(2) @@ b :> a
Lines == {Arr(<<Obj(Line(Num(3), "variant_id")), Obj(Line(a, b))>>) :
            a \in Scalars, b \in {"variant_id", "other", "stock"}}
MCValues == [where \in {"path", "query", "body"} |->
               Scalars \cup IF where = "body" THEN Lines \cup {Arr(<<Num(1)>>)} ELSE {Obj(<<>>)}]
MCChanges == [o \in DOMAIN Registered |-> IF o = "purchases.items" THEN 2 ELSE 1]

\* The first row is the oldest.  Ages stand on both sides of buckets and of the
\* window; amounts are powers of two, so that sums tell their terms, and half of
\* some is paid.
R(known, kind, who, amount, paid, age, due) ==
  [known |-> known, kind |-> kind, who |-> who, amount |-> amount, paid |-> paid, age |-> age,
   due |-> due]
MCRow == << R(TRUE, "sales", 1, 2, 1, 731, -5), R(TRUE, "other", 2, 4, 0, 31, Nil),
            R(FALSE, "sales", 1, 8, 4, 30, 0), R(FALSE, "refund", 2, 16, 8, 8, -1),
            R(TRUE, "sales", 2, -32, 0, 7, 3), R(TRUE, "refund", 1, 64, 32, 0, Nil),
            R(TRUE, "sales", 1, 128, 0, 0, 2) >>
MCPageSize == [t \in AllTools |-> IF t \in Debts \cup {"pembelian"} THEN 1 ELSE 2]
MCScanPages == [t \in AllTools |-> CASE t = "pembelian" -> 2
                                     [] t \in Debts \cup {"velocity"} -> 4
                                     [] OTHER -> 1]

\* Around a Monday that begins a month.
MCMonthStart == [d \in 906 .. 908 |-> IF d = 906 THEN 877 ELSE 907]

VARIABLE part   \* which module moves

MCInit ==
  /\ part \in Parts
  /\ ClientInit /\ (part # "client" => openai = CHOOSE b \in OpenAi : TRUE)
  /\ B!SearchInit /\ (part # "search" => value = "")
  /\ IF part = "views" THEN ViewsInit
     ELSE /\ tool = "stok" /\ filter = Nil /\ block = TRUE /\ overlap = FALSE /\ born = 0
          /\ gone = {} /\ scan = Nil /\ view = Nil /\ more = <<>> /\ start = Nil
          /\ refetches = 0
  /\ IF part = "navigation" THEN NavigationInit
     ELSE /\ now = 906 /\ shown = 906 /\ place = Unset /\ search = Unset /\ asked = NoArgs
          /\ wanted = Unset
  /\ IF part = "input" THEN InputInit
     ELSE request = <<>> /\ answer = <<>> /\ changes = 0
MCNext ==
  \/ part = "client" /\ ClientNext /\ UNCHANGED <<navigationVars, viewsVars, inputVars, boxVars, part>>
  \/ part = "views" /\ ViewsNext /\ UNCHANGED <<clientVars, navigationVars, inputVars, boxVars, part>>
  \/ part = "input" /\ InputNext /\ UNCHANGED <<clientVars, navigationVars, viewsVars, boxVars, part>>
  \/ part = "navigation" /\ NavigationNext /\ UNCHANGED <<clientVars, viewsVars, inputVars, boxVars, part>>
  \/ part = "search" /\ B!SearchNext /\ UNCHANGED <<clientVars, navigationVars, viewsVars, inputVars, part>>
MCSpec ==
  /\ MCInit
  /\ [][MCNext]_<<clientVars, navigationVars, viewsVars, inputVars, boxVars, part>>
  /\ ClientFairness
=============================================================================
