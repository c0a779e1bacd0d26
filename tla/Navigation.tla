----------------------------- MODULE Navigation -----------------------------
(***************************************************************************)
(* The filters of the widget's six views: how the arguments of a tool call *)
(* become the search parameters of a route and the arguments of the next   *)
(* call (widgets/src/app/search.ts, lib/dates.ts), and the controls of the *)
(* routes that change them.                                                *)
(*                                                                         *)
(* A date is the number of its day in Asia/Jakarta, day 0 a Thursday as in *)
(* Date.UTC.  A text is its length without the blanks around it, and       *)
(* whether it has any.  Arguments and search parameters that are not there,*)
(* and dates that are no dates, are Unset.                                 *)
(***************************************************************************)
EXTENDS Integers

CONSTANTS
  Unset,
  Days,          \* bound: the days the widget is open on
  MonthStart,    \* MonthStart[d]: the first day of d's month
  Dates,         \* bound: dates the host and the viewer give
  Sizes,         \* bound: lengths of texts
  MaxText,       \* 100 characters of searchInput
  Orders, Statuses, Customers, Outlets

Fields == {"start_date", "end_date", "order", "search", "status", "customer_id", "outlet_id"}
Presets == {"hari_ini", "kemarin", "7_hari", "minggu_ini", "bulan_ini", "30_hari"}
Dated == {"penjualan", "produk", "transaksi"}
Places == Dated \cup {"stok", "pembelian", "piutang"}
MaxRange == 366          \* MAX_RANGE_DAYS
HistoryDays == 365       \* CUSTOMER_HISTORY_DAYS

ASSUME NavigationAssumption ==
  /\ Days \subseteq Int /\ Dates \subseteq Int
  /\ MonthStart \in [Days -> Int] /\ \A d \in Days : MonthStart[d] \in d - 30 .. d
  /\ Sizes \subseteq Nat /\ MaxText \in Nat \ {0}
  /\ "terlaris" \in Orders /\ "semua" \in Statuses
  /\ Unset \notin Int \cup Orders \cup Statuses \cup Customers \cup Outlets
  /\ Unset \notin Places \cup [size : Nat, blank : BOOLEAN]

Phrase(n, blank) == [size |-> n, blank |-> blank]
Trim(t) == Phrase(t.size, FALSE)
Slice(t) == Phrase(IF t.size > MaxText THEN MaxText ELSE t.size, t.blank)
Empty == Phrase(0, FALSE)
Phrases == {Phrase(n, b) : n \in Sizes, b \in BOOLEAN}

VARIABLES
  now,      \* today in Jakarta
  place,    \* the view the router is at, Unset before it is mounted
  search,   \* its search parameters
  shown,    \* `today` of the last rendering
  asked,    \* the arguments the view's query was last rendered with
  wanted    \* history: what the last control or the host asked for, and on which day

navigationVars == <<now, place, search, shown, asked, wanted>>

-----------------------------------------------------------------------------
(* Dates.                                                                  *)

SinceMonday(d) == (d + 3) % 7

PresetRange(key, today) ==
  CASE key = "hari_ini"   -> <<today, today>>
    [] key = "kemarin"    -> <<today - 1, today - 1>>
    [] key = "7_hari"     -> <<today - 6, today>>
    [] key = "minggu_ini" -> <<today - SinceMonday(today), today>>
    [] key = "bulan_ini"  -> <<MonthStart[today], today>>
    [] key = "30_hari"    -> <<today - 29, today>>

MatchOrder == <<"hari_ini", "kemarin", "7_hari", "30_hari", "minggu_ini", "bulan_ini">>
First(hits) ==
  IF hits = {} THEN "custom" ELSE MatchOrder[CHOOSE i \in hits : \A j \in hits : i <= j]

\* Mutant: the presets are told by their first day alone.
MatchStart(range, today) == First({i \in 1 .. 6 : PresetRange(MatchOrder[i], today)[1] = range[1]})

\* matchPreset; a range of no preset is custom.
MatchPreset(range, today) == First({i \in 1 .. 6 : PresetRange(MatchOrder[i], today) = range})

\* customRangeSchema, assertDateRange.
RangeOk(a, b) == a <= b /\ b - a + 1 <= MaxRange

-----------------------------------------------------------------------------
(* From arguments to search parameters and back.                           *)

\* The parameters of a view that are no dates.
Own(v) ==
  {"outlet_id"} \cup CASE v = "produk" -> {"order"}
                       [] v = "stok" -> {"search"}
                       [] v = "pembelian" -> {"status"}
                       [] v \in {"transaksi", "piutang"} -> {"customer_id"}
                       [] OTHER -> {}
Legal(f) == CASE f = "order" -> Orders [] f = "status" -> Statuses
              [] f = "customer_id" -> Customers [] f = "outlet_id" -> Outlets
Fallback(f) == CASE f = "order" -> "terlaris" [] f = "status" -> "semua" [] OTHER -> Unset
DefaultPreset(v) == IF v = "transaksi" THEN "hari_ini" ELSE "7_hari"

\* Every field of a schema is `.catch(fallback)`.
Parse(f, x) ==
  IF f = "search" THEN IF x = Unset THEN Empty ELSE Trim(x)
  ELSE IF x \in Legal(f) THEN x ELSE Fallback(f)

\* rangeSearch: a preset, with the dates of a custom one; nothing usable is the
\* default of the view's schema.
RangeSearch(v, a, b, today) ==
  IF a = Unset \/ b = Unset THEN <<DefaultPreset(v), Unset, Unset>>
  ELSE IF a > b THEN <<DefaultPreset(v), Unset, Unset>>
  ELSE IF MatchPreset(<<a, b>>, today) = "custom" THEN <<"custom", a, b>>
  ELSE <<MatchPreset(<<a, b>>, today), Unset, Unset>>

\* rangeArgs.
RangeArgs(range, today) ==
  IF range[1] = "custom" THEN <<range[2], range[3]>> ELSE PresetRange(range[1], today)

SearchFromToolArgs(v, args, today) ==
  [range |-> IF v \in Dated THEN RangeSearch(v, args["start_date"], args["end_date"], today) ELSE Unset,
   own |-> [f \in Own(v) |-> Parse(f, args[f])]]

NoArgs == [f \in Fields |-> Unset]

SentText(t) == IF Trim(t).size = 0 THEN Unset ELSE Slice(Trim(t))

ToolArgsFromSearch(v, s, today) ==
  [f \in Fields |->
     CASE v \in Dated /\ f = "start_date" -> RangeArgs(s.range, today)[1]
       [] v \in Dated /\ f = "end_date" -> RangeArgs(s.range, today)[2]
       [] f \in Own(v) -> IF f = "search" THEN SentText(s.own[f]) ELSE s.own[f]
       [] OTHER -> Unset]

-----------------------------------------------------------------------------
(* What the server makes of arguments: the schemas of contract.ts.         *)

LegalBut(v, args) ==
  /\ v \in Dated =>
       /\ args["start_date"] # Unset /\ args["end_date"] # Unset
       /\ args["start_date"] <= args["end_date"]
  /\ \A f \in Own(v) \ {"search"} : args[f] \in Legal(f) \cup {Unset}
  /\ v = "stok" => args["search"] = Unset \/ args["search"].size \in 1 .. MaxText
LegalArgs(v, args) ==
  LegalBut(v, args) /\ (v \in Dated => RangeOk(args["start_date"], args["end_date"]))

\* Arguments of the same meaning: defaults filled in, texts trimmed.
Meaning(v, args) ==
  [f \in Fields |-> IF f \notin Own(v) THEN args[f]
                    ELSE IF args[f] = Unset THEN Fallback(f)
                    ELSE IF f = "search" THEN Trim(args[f]) ELSE args[f]]

-----------------------------------------------------------------------------
\* A view is rendered with the day's `today`.
Renders(v, s) ==
  /\ place' = v /\ search' = s /\ shown' = now
  /\ asked' = ToolArgsFromSearch(v, s, now)
  /\ UNCHANGED now

\* What was wanted is remembered if the server takes it.
Wants(v, args, day) ==
  wanted' = IF LegalArgs(v, args) THEN [view |-> v, args |-> args, day |-> day] ELSE Unset

NavigationInit ==
  /\ now \in Days /\ shown = now
  /\ place = Unset /\ search = Unset /\ asked = NoArgs /\ wanted = Unset

\* startInitialView on the host's arguments, whatever the model sent.
OpensOn(v, args) ==
  /\ place = Unset
  /\ Renders(v, SearchFromToolArgs(v, args, now))
  /\ Wants(v, args, now)

\* startInitialView without them: the schemas' defaults.
OpensOnDefaults(v) ==
  /\ place = Unset
  /\ Renders(v, SearchFromToolArgs(v, NoArgs, now))
  /\ wanted' = Unset

\* A control of a rendered page uses the `today` of that rendering.
Goes(v, args) == Renders(v, SearchFromToolArgs(v, args, shown))
Leads(v, args) == Goes(v, args) /\ Wants(v, args, shown)

\* The arguments of place v that keep the outlet.
Outlet == [NoArgs EXCEPT !["outlet_id"] = asked["outlet_id"]]
WithRange(args, r) == [args EXCEPT !["start_date"] = r[1], !["end_date"] = r[2]]
AskedRange == <<asked["start_date"], asked["end_date"]>>

\* The labels of the presets, read as a calendar.
Promised(key, day) ==
  CASE key = "minggu_ini" -> <<CHOOSE d \in day - 6 .. day : d % 7 = 4, day>>
    [] OTHER -> PresetRange(key, day)

\* PresetRangePicker: only TransaksiPage gives it the `today` of the page.
Chip(key) ==
  /\ place \in Dated
  /\ Goes(place, WithRange(asked, PresetRange(key, IF place = "transaksi" THEN shown ELSE now)))
  /\ Wants(place, WithRange(asked, Promised(key, shown)), shown)

\* CustomRangeFields.
Custom(a, b) ==
  /\ place \in Dated /\ RangeOk(a, b)
  /\ Leads(place, WithRange(asked, <<a, b>>))

\* PenjualanPage: a day of the trend (its first or last), the ranking of its products, the debts.
TrendDay(f) ==
  /\ place = "penjualan"
  /\ Leads("transaksi", WithRange(Outlet, <<asked[f], asked[f]>>))
TopProducts ==
  /\ place = "penjualan"
  /\ Leads("produk", [WithRange(Outlet, AskedRange) EXCEPT !["order"] = "terlaris"])
OpenDebts == place = "penjualan" /\ Leads("piutang", Outlet)

\* ProdukPage.
Order(o) == place = "produk" /\ Leads("produk", [asked EXCEPT !["order"] = o])
ProductRow(name) ==
  place = "produk" /\ Leads("stok", [Outlet EXCEPT !["search"] = Slice(name)])

\* StokPage, PembelianPage.
Typed(text) == place = "stok" /\ Leads("stok", [Outlet EXCEPT !["search"] = text])
Status(s) == place = "pembelian" /\ Leads("pembelian", [Outlet EXCEPT !["status"] = s])

\* customerTransactionsArgs, from TransaksiPage and PiutangPage.
CustomerHistory(c) ==
  /\ place \in {"transaksi", "piutang"}
  /\ Leads("transaksi", [WithRange(Outlet, <<shown - (HistoryDays - 1), shown>>)
                          EXCEPT !["customer_id"] = c])
ClearCustomer ==
  /\ place = "transaksi" /\ asked["customer_id"] # Unset
  /\ Leads("transaksi", [asked EXCEPT !["customer_id"] = Unset])

\* PiutangPage: bucket and sort are not arguments; the rest is kept.
DebtFilters == place = "piutang" /\ Leads("piutang", asked)

\* The page is rendered again: data came, the window was resized.
Rerender == place # Unset /\ Renders(place, search) /\ UNCHANGED wanted

Midnight ==
  /\ now + 1 \in Days /\ now' = now + 1
  /\ UNCHANGED <<place, search, shown, asked, wanted>>

-----------------------------------------------------------------------------
\* Arguments of v's tool as the model may send them: any date, none, or junk.
Sent(f) == CASE f = "order" -> Orders [] f = "search" -> Phrases [] f = "status" -> Statuses
             [] f = "customer_id" -> Customers [] f = "outlet_id" -> Outlets
HostArgs(v) ==
  {[f \in Fields |-> CASE v \in Dated /\ f = "start_date" -> a [] v \in Dated /\ f = "end_date" -> b
                       [] f = "outlet_id" -> o [] f \in Own(v) -> x [] OTHER -> Unset] :
     a, b \in Dates \cup {Unset}, o \in Outlets \cup {Unset},
     x \in {Unset} \cup UNION {Sent(f) : f \in Own(v) \ {"outlet_id"}}}

NavigationNext ==
  \/ \E v \in Places :
       \/ OpensOnDefaults(v)
       \/ \E args \in HostArgs(v) : OpensOn(v, args)
  \/ \E key \in Presets : Chip(key)
  \/ \E a, b \in Dates : Custom(a, b)
  \/ \E f \in {"start_date", "end_date"} : TrendDay(f)
  \/ TopProducts \/ OpenDebts \/ ClearCustomer \/ DebtFilters \/ Rerender \/ Midnight
  \/ \E o \in Orders : Order(o)
  \/ \E t \in Phrases : ProductRow(t) \/ Typed(t)
  \/ \E s \in Statuses : Status(s)
  \/ \E c \in Customers : CustomerHistory(c)

NavigationSpec == NavigationInit /\ [][NavigationNext]_navigationVars

-----------------------------------------------------------------------------
(* Properties.                                                             *)

\* The view that answers the host's call or a control asks the server for
\* exactly what the call or the control said, also after any number of turns
\* through search parameters, unless midnight fell between the rendering with
\* the control and the one that answers it (searchFromToolArgs, rangeArgs).
AskedAsWanted ==
  wanted # Unset /\ shown = wanted.day =>
    place = wanted.view /\ Meaning(place, asked) = Meaning(place, wanted.args)

\* Whatever the host sent, the views ask for nothing the server refuses, on
\* the following days too; only a range of more than 366 days that came from the
\* host is asked for as it is.
AskedIsLegal ==
  place # Unset => LegalBut(place, asked) /\ (wanted # Unset => LegalArgs(place, asked))

\* Both: what the views ask for.
FiltersAreKept == AskedAsWanted /\ AskedIsLegal
=============================================================================
