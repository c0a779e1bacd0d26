------------------------------- MODULE Views --------------------------------
(***************************************************************************)
(* The data tools of the widgets (src/widgets/tools) and the lists the     *)
(* widget builds of their pages (widgets/src/bridge/useToolQuery.ts, the   *)
(* routes).  A list of Qasir is read page after page, by one tool call or  *)
(* at the viewer's request, while the shop goes on: rows appear at its     *)
(* head and shift the pages, and paid debts leave it.                      *)
(*                                                                         *)
(* A row is a number, newer ones are larger.  What the tools tell apart of *)
(* it is in Row: `kind` is the status of an order or a sale and the type   *)
(* of a stock movement, `who` the customer or the payment mode, `age` the  *)
(* days since the sale, `due` those until a debt falls due, `amount` the   *)
(* value of a sale and `paid` what was paid of a credit when it was read.  *)
(* A row that is not `known` lacks the id or the date its projection needs.*)
(***************************************************************************)
EXTENDS Integers, FiniteSets, Sequences, SequencesExt

CONSTANTS
  Nil,
  Tools,         \* bound: subset of AllTools
  Filters,       \* bound: kinds a purchase order is filtered by
  Row,           \* bound: the rows there will ever be, a function on 1..n
  Rows0,         \* bound: how many there may be at first
  PageSize,      \* PAGE_SIZE, a function on AllTools
  ScanPages,     \* the pages one call may read, a function on AllTools
  ScanDays,      \* the days since DEBT_SCAN_START_DATE
  MaxPage,       \* the last page a pager asks for
  Capacity,      \* rows a result may hold; a stand-in for STRUCTURED_MAX_CHARS
  DetailMax,     \* DEBT_DETAIL_MAX_INVOICES
  Focus,         \* the customer of customer_debt_detail
  MaxRefetches,  \* bound
  MaxPaid        \* bound: debts paid meanwhile

AllTools == {"pembelian", "stok", "produk", "transaksi", "riwayat", "piutang", "detail", "velocity"}
Debts == {"piutang", "detail"}
Pagers == {"pembelian", "stok", "produk", "transaksi", "riwayat"}

\* A scan ends before MAX_PAGE; lists come with the newest first.
ASSUME ViewsAssumption ==
  /\ Tools \subseteq AllTools /\ {MaxPage, Capacity, DetailMax, ScanDays} \subseteq Nat
  /\ PageSize \in [AllTools -> Nat \ {0}] /\ ScanPages \in [AllTools -> Nat \ {0}]
  /\ \A t \in AllTools : ScanPages[t] < MaxPage
  /\ Row \in Seq(ToSet(Row)) /\ Rows0 \subseteq 0..Len(Row)
  /\ Nil \notin Int \cup Filters \cup (Nat \X SUBSET Nat)
  /\ \A i \in DOMAIN Row :
       /\ Row[i].age \in Nat /\ {Row[i].amount, Row[i].paid} \subseteq Int /\ Row[i].due \in Int \cup {Nil}
       /\ \A j \in i..Len(Row) : Row[j].age <= Row[i].age

VARIABLES
  tool, filter,
  block,      \* whether Qasir's answers have a pagination block
  overlap,    \* whether the count+1 rows of an installment page overlap the next page
  born, gone, \* Qasir's list: the rows so far, the debts paid since
  scan,       \* a running tool call: its page and the rows read, or Nil
  view,       \* the result shown, or Nil
  more,       \* the pages loaded after it
  start,      \* history: <<born, gone>> when the first page was read
  refetches   \* history

viewsVars == <<tool, filter, block, overlap, born, gone, scan, view, more, start, refetches>>

Rows == DOMAIN Row

Upto(s, n) == SubSeq(s, 1, IF n < Len(s) THEN n ELSE Len(s))
Keep(s, S) == FoldLeft(LAMBDA kept, x : IF x \in S THEN Append(kept, x) ELSE kept, <<>>, s)
Sum(s, f) == SumFunction([k \in DOMAIN s |-> f[s[k]]])
Distinct(s) ==   \* the first of each
  LET first == Keep([k \in DOMAIN s |-> k], {k \in DOMAIN s : \A l \in 1..k - 1 : s[l] # s[k]}) IN
  [k \in DOMAIN first |-> s[first[k]]]

-----------------------------------------------------------------------------
(* Qasir's pages.                                                          *)

Manual == 0   \* the pseudo row before the first product

List(n, out) ==
  Keep([i \in 1..n |-> n + 1 - i],
       {i \in Rows \ out : /\ tool = "detail" => Row[i].who = Focus
                           /\ tool \in Debts => Row[i].age <= ScanDays})
Listed == List(born, gone)

Extra == IF tool \in Debts THEN 1 ELSE 0
Before(p) == (p - 1) * (PageSize[tool] + IF overlap THEN 0 ELSE Extra)
Through(p) == Before(p) + PageSize[tool] + Extra
PageOfList(p) == (IF tool = "produk" /\ p = 1 THEN <<Manual>> ELSE <<>>)
             \o SubSeq(Listed, Before(p) + 1, IF Through(p) < Len(Listed) THEN Through(p) ELSE Len(Listed))
HasNext(p) == Len(Listed) > Through(p)

\* The rows a projection keeps; that of a stock movement keeps them all.
Kept(i) == tool = "riwayat" \/ Row[i].known
Project(raw) == Upto(Keep(raw, {i \in Rows : Kept(i)}), PageSize[tool] + Extra)

\* Mutant: rows the projection drops make a page short.
CountedKept(raw) == Len(Project(raw))

\* The rows a page is taken to have: nextPageOf's rowsReturned.
Counted(raw) ==
  CASE tool = "transaksi" -> Len(Project(raw))
    [] tool = "produk" -> Len(Keep(raw, Rows))
    [] OTHER -> Len(raw)

\* nextPageOf.
NextPageOf(p, raw) ==
  IF p < MaxPage /\ (IF block THEN HasNext(p) ELSE Counted(raw) >= PageSize[tool]) THEN p + 1 ELSE Nil

\* What each tool makes of it: a debt scan follows the block alone and ends
\* without one, a short page of products and an empty one of orders are the last.
Following(p, raw) ==
  CASE tool \in Debts -> IF block /\ HasNext(p) /\ Project(raw) # <<>> THEN p + 1 ELSE Nil
    [] tool = "produk" /\ Counted(raw) < PageSize[tool] -> Nil
    [] tool = "pembelian" /\ raw = <<>> -> Nil
    [] OTHER -> NextPageOf(p, raw)

-----------------------------------------------------------------------------
(* capRows: the longest head that fits, by bisection.                      *)

Fits(n) == n <= Capacity

Longest(n) ==
  LET between[r \in (0..n) \X (0..n)] ==
        LET lo == r[1]  hi == r[2]  mid == (lo + hi + 1) \div 2 IN
        IF lo >= hi THEN lo ELSE IF Fits(mid) THEN between[<<mid, hi>>] ELSE between[<<lo, mid - 1>>] IN
  IF Fits(n) \/ n = 0 THEN n ELSE between[<<0, n - 1>>]

CapRows(s) == Upto(s, Longest(Len(s)))

-----------------------------------------------------------------------------
(* Debts (debts.ts).                                                       *)

Buckets == <<[min |-> 0, max |-> 7], [min |-> 8, max |-> 30], [min |-> 31, max |-> 90],
             [min |-> 91, max |-> 180], [min |-> 181, max |-> 365], [min |-> 366, max |-> 730],
             [min |-> 731, max |-> ScanDays]>>

\* agingBucket: the first whose upper bound is not exceeded.
AgingBucket(age) == CHOOSE b \in DOMAIN Buckets :
  /\ b = Len(Buckets) \/ age <= Buckets[b].max
  /\ \A c \in 1..b - 1 : age > Buckets[c].max
Late(i) == IF Row[i].due = Nil \/ Row[i].due >= 0 THEN 0 ELSE -Row[i].due
Amount == [i \in Rows |-> Row[i].amount]
Owed == [i \in Rows |-> Row[i].amount - Row[i].paid]   \* Qasir's remaining_debt
InBucket(b) == {i \in Rows : Row[i].age \in Buckets[b].min..Buckets[b].max}

\* bucketReceivable: what is owed of the sales of a bucket's dates, by Qasir's
\* report total_receivable.
Receivable(b) == Sum(Keep(Listed, InBucket(b)), Owed)

\* aggregateCustomers, one debt at a time.
OfOne(i) == [invoices |-> 1, credit |-> Amount[i], oldest |-> Row[i].age,
             bucket |-> AgingBucket(Row[i].age), due |-> Row[i].due,
             overdue |-> IF Late(i) > 0 THEN 1 ELSE 0, late |-> Late(i)]

\* Mutant: the bucket is that of the first debt read.
WithFirstBucket(c, i) ==
  LET one == OfOne(i) IN
  [c EXCEPT !.invoices = @ + 1, !.credit = @ + one.credit, !.overdue = @ + one.overdue,
            !.late = IF one.late > @ THEN one.late ELSE @,
            !.oldest = IF one.oldest > @ THEN one.oldest ELSE @]

With(c, i) ==
  LET one == OfOne(i)  older == one.oldest > c.oldest IN
  [c EXCEPT !.invoices = @ + 1, !.credit = @ + one.credit, !.overdue = @ + one.overdue,
            !.late = IF one.late > @ THEN one.late ELSE @,
            !.oldest = IF older THEN one.oldest ELSE @,
            !.bucket = IF older THEN one.bucket ELSE @,
            !.due = IF one.due # Nil /\ (@ = Nil \/ one.due < @) THEN one.due ELSE @]

ByCustomer(rows) ==
  FoldLeft(LAMBDA by, i : [c \in DOMAIN by \cup {Row[i].who} |->
                             IF c # Row[i].who THEN by[c]
                             ELSE IF c \in DOMAIN by THEN With(by[c], i) ELSE OfOne(i)],
           <<>>, rows)

\* S in a strict order of its members.
Ordered(S, before(_, _)) ==
  [k \in 1..Cardinality(S) |-> CHOOSE x \in S : Cardinality({y \in S : before(y, x)}) = k - 1]

\* Those with overdue debts first, then by credit.
Ranked(by) ==
  Ordered(DOMAIN by, LAMBDA a, b :
    LET lates(c) == by[c].overdue > 0 IN
    IF lates(a) # lates(b) THEN lates(a)
    ELSE by[a].credit > by[b].credit \/ (by[a].credit = by[b].credit /\ a < b))

BucketTotals(rows) ==
  [b \in DOMAIN Buckets |->
     LET in == Keep(rows, {i \in Rows : AgingBucket(Row[i].age) = b}) IN
     [invoices |-> Len(in), customers |-> Cardinality({Row[i].who : i \in ToSet(in)}),
      credit |-> Sum(in, Amount), receivable |-> Receivable(b)]]

\* customer_debt_detail: the customer's debts from the oldest.
Oldest(rows) ==
  Ordered({i \in ToSet(rows) : Row[i].who = Focus}, LAMBDA a, b :
    Row[a].age > Row[b].age \/ (Row[a].age = Row[b].age /\ a < b))
\* invoiceFromSale: what the receipt says by then.
Remaining == [i \in Rows |-> IF i \in gone \/ Owed[i] < 0 THEN 0 ELSE Owed[i]]

-----------------------------------------------------------------------------
(* Sales and stock (transactions.ts, stock.ts).                            *)

Window == 30
InWindow(i) == Row[i].age <= Window
Quantity == [i \in Rows |-> IF Amount[i] < 0 THEN -Amount[i] ELSE Amount[i]]
Sold(rows, kind) == Sum(Keep(rows, {i \in Rows : InWindow(i) /\ Row[i].kind = kind}), Quantity)

\* amountOf: refunds count as sales without an amount.
Paid == [i \in Rows |-> IF Row[i].kind = "refund" THEN 0 ELSE Amount[i]]
ModeTotals(rows) ==
  LET of(m) == Keep(rows, {i \in Rows : Row[i].who = m}) IN
  [m \in {Row[i].who : i \in ToSet(rows)} |-> [count |-> Len(of(m)), amount |-> Sum(of(m), Paid)]]

\* countStatuses, combinedStatusCounts.
OfKind(k) == {i \in Rows : Row[i].kind = k}
Counts(rows) == [k \in Filters |-> Len(Keep(rows, OfKind(k)))]

-----------------------------------------------------------------------------
(* A tool call.                                                            *)

Matching(rows) ==
  CASE filter # Nil -> Keep(rows, OfKind(filter))
    [] tool = "piutang" -> Ranked(ByCustomer(rows))
    [] tool = "detail" -> Upto(Oldest(rows), DetailMax)
    [] tool = "velocity" -> <<>>   \* it answers with totals alone
    [] OTHER -> rows

\* `whole` says that the scan was not stopped by its number of pages.
Result(rows, next, whole) ==
  [all |-> rows, rows |-> CapRows(Matching(rows)), next |-> IF tool \in Pagers THEN next ELSE Nil,
   truncated |-> \/ ~Fits(Len(Matching(rows)))
                 \/ tool \notin Pagers /\ ~whole
                 \/ tool = "detail" /\ Len(Oldest(rows)) > DetailMax,
   counts |-> Counts(rows), modes |-> ModeTotals(rows),
   buckets |-> IF tool = "piutang" THEN BucketTotals(rows) ELSE <<>>,
   customers |-> IF tool = "piutang" THEN ByCustomer(rows) ELSE <<>>,
   remaining |-> IF tool = "detail" THEN Sum(CapRows(Matching(rows)), Remaining) ELSE 0]

\* scanOpenCredit dedupes its rows, the other scans do not.
Joined(rows, page) == IF tool \in Debts THEN Distinct(rows \o page) ELSE rows \o page

Pages == IF tool = "pembelian" /\ filter = Nil THEN 1 ELSE ScanPages[tool]

Shows(result) ==
  /\ view' = result
  /\ more' = IF view # Nil /\ view.next = result.next THEN more ELSE <<>>

ReadPage ==
  /\ scan # Nil /\ scan.more
  /\ LET raw == PageOfList(scan.page)
         rows == Joined(scan.rows, Project(raw))
         next == Following(scan.page, raw)
         whole == \/ next = Nil
                  \/ tool = "velocity" /\ \E i \in ToSet(Project(raw)) : ~InWindow(i)
         ends == whole \/ scan.page = Pages IN
     IF ends /\ tool # "detail"
     THEN scan' = Nil /\ Shows(Result(rows, next, whole))
     ELSE /\ scan' = [page |-> scan.page + 1, rows |-> rows, more |-> ~ends, whole |-> whole]
          /\ UNCHANGED <<view, more>>
  /\ start' = IF start = Nil THEN <<born, gone>> ELSE start
  /\ UNCHANGED <<tool, filter, block, overlap, born, gone, refetches>>

\* The receipts of the debts found are read after them.
ReadReceipts ==
  /\ scan # Nil /\ ~scan.more
  /\ scan' = Nil /\ Shows(Result(scan.rows, Nil, scan.whole))
  /\ UNCHANGED <<tool, filter, block, overlap, born, gone, start, refetches>>

-----------------------------------------------------------------------------
(* The widget's list.                                                      *)

NextToLoad == IF more = <<>> THEN view.next ELSE more[Len(more)].next

\* useMorePages.loadMore.
LoadMore ==
  /\ view # Nil /\ NextToLoad # Nil
  /\ LET raw == PageOfList(NextToLoad) IN
     more' = Append(more, [rows |-> CapRows(Project(raw)), next |-> Following(NextToLoad, raw),
                           truncated |-> ~Fits(Len(Project(raw)))])
  /\ start' = IF start = Nil THEN <<born, gone>> ELSE start
  /\ UNCHANGED <<tool, filter, block, overlap, born, gone, scan, view, refetches>>

\* The view's own query is called again; the pages loaded stay as they are.
Refetch ==
  /\ view # Nil /\ scan = Nil /\ tool # "riwayat" /\ refetches < MaxRefetches
  /\ scan' = [page |-> 1, rows |-> <<>>, more |-> TRUE, whole |-> FALSE]
  /\ refetches' = refetches + 1
  /\ UNCHANGED <<tool, filter, block, overlap, born, gone, view, more, start>>

Later == FlattenSeq([k \in DOMAIN more |-> more[k].rows])

\* newPagedRows, uniqueBy, mergeTransactionDays; products are listed as they come.
NewLater == Keep(Distinct(Later), Rows \ ToSet(view.rows))
Shown ==
  LET rows == Distinct(view.rows \o Later)
      days == Distinct([k \in DOMAIN rows |-> Row[rows[k]].age]) IN
  CASE tool = "produk" -> view.rows \o Later
    [] tool = "pembelian" /\ filter # Nil -> Keep(rows, OfKind(filter))
    [] tool = "transaksi" -> FlattenSeq([d \in DOMAIN days |-> Keep(rows, {i \in Rows : Row[i].age = days[d]})])
    [] OTHER -> rows
ShownCounts == [k \in Filters |-> view.counts[k] + Counts(NewLater)[k]]

-----------------------------------------------------------------------------
(* The shop.                                                               *)

Appears ==
  /\ born < Len(Row) /\ born' = born + 1
  /\ UNCHANGED <<tool, filter, block, overlap, gone, scan, view, more, start, refetches>>

PaidOff(i) ==
  /\ tool \in Debts /\ i \in 1..born \ gone /\ Cardinality(gone) < MaxPaid
  /\ gone' = gone \cup {i}
  /\ UNCHANGED <<tool, filter, block, overlap, born, scan, view, more, start, refetches>>

ViewsInit ==
  /\ tool \in Tools
  /\ filter \in IF tool = "pembelian" THEN Filters \cup {Nil} ELSE {Nil}
  /\ block \in BOOLEAN
  /\ overlap \in IF tool \in Debts THEN BOOLEAN ELSE {FALSE}
  /\ born \in Rows0 /\ gone = {}
  /\ scan = IF tool = "riwayat" THEN Nil
            ELSE [page |-> 1, rows |-> <<>>, more |-> TRUE, whole |-> FALSE]
  /\ view = IF tool = "riwayat" THEN [rows |-> <<>>, next |-> 1, truncated |-> FALSE] ELSE Nil
  /\ more = <<>> /\ start = Nil /\ refetches = 0

ViewsNext == ReadPage \/ ReadReceipts \/ LoadMore \/ Refetch \/ Appears \/ \E i \in DOMAIN Row : PaidOff(i)
ViewsSpec == ViewsInit /\ [][ViewsNext]_viewsVars

-----------------------------------------------------------------------------
(* Properties.                                                             *)

Known == {i \in ToSet(List(start[1], start[2])) : Kept(i)}
Truncated == view.truncated \/ \E k \in DOMAIN more : more[k].truncated
Asked(i) ==
  CASE filter # Nil -> Row[i].kind = filter
    [] tool = "velocity" -> InWindow(i)
    [] OTHER -> TRUE

\* The pages read; behind the last one a pager may ask for there may be more.
PagesRead == Len(more) + IF tool = "riwayat" THEN 0 ELSE Pages

\* The rows of a full page behind which the end is taken to be: a debt scan goes
\* on without a pagination block at no page, and with one at none of which no row
\* can be read (scanOpenCredit); the sales count only the rows that can (fetchWebPage).
Misleads(page) ==
  \/ tool \in Debts /\ (~block \/ \A i \in page : ~Kept(i))
  \/ tool = "transaksi" /\ ~block /\ \E i \in page : ~Kept(i)

\* Such a page may be read with others behind it.
Overlooked ==
  \E n \in 0..Len(Listed) :
    /\ n + PageSize[tool] + Extra < Len(Listed)
    /\ Misleads({Listed[k] : k \in n + 1 .. n + PageSize[tool] + Extra})

Got == ToSet(IF tool \in Debts \cup {"velocity"} THEN view.all ELSE Shown)

\* Once nothing is left to load, every row Qasir had when the first page was
\* read is in the list or in the totals, however many rows appeared between the
\* pages; unless the result says it was cut, a row left the list since, the first
\* page was read again, the last page a pager may ask for was reached, or a page
\* of debts or sales was taken for the last one by what could be read of it
\* (nextPageOf, scanOpenCredit, stock_velocity's loop, useMorePages).
NothingIsMissed ==
  /\ view # Nil /\ start # Nil /\ NextToLoad = Nil
  /\ ~Truncated /\ gone = start[2] /\ refetches = 0 /\ PagesRead < MaxPage /\ ~Overlooked
  => \A i \in Known : Asked(i) => i \in Got

Quiet == start = <<born, gone>> /\ refetches = 0
Total(S, f) == SumFunctionOnSet(f, S)

\* Each debt is counted once although pages overlap and shift: the buckets, the
\* customers and the summary add up to the same debts, a customer's oldest
\* bucket is that of his oldest debt, and with nothing changing meanwhile
\* Qasir's own report on a bucket's dates is about the debts the scan put in it.
DebtsAddUp ==
  tool = "piutang" =>
    LET all == ToSet(view.all)  keys == DOMAIN Buckets  who == DOMAIN view.customers
        inBuckets(f) == Total(keys, [b \in keys |-> view.buckets[b][f]])
        ofCustomers(f) == Total(who, [c \in who |-> view.customers[c][f]]) IN
    /\ Cardinality(all) = inBuckets("invoices") /\ Cardinality(all) = ofCustomers("invoices")
    /\ Total(all, Amount) = inBuckets("credit") /\ Total(all, Amount) = ofCustomers("credit")
    /\ \A c \in who : LET debts == {i \in all : Row[i].who = c} IN
         /\ \A i \in debts : view.customers[c].bucket >= AgingBucket(Row[i].age)
         /\ \E i \in debts : view.customers[c].bucket = AgingBucket(Row[i].age)
         /\ view.customers[c].overdue = Cardinality({i \in debts : Late(i) > 0})
    /\ Quiet /\ ~view.truncated /\ ~Overlooked /\ (\A i \in ToSet(Listed) : Row[i].known) =>
         \A b \in keys :
           view.buckets[b].receivable = Total({i \in all : AgingBucket(Row[i].age) = b}, Owed)

\* The counts beside the status filters are those of the orders listed.
CountsAddUp ==
  tool = "pembelian" /\ filter = Nil /\ ~view.truncated =>
    \A k \in Filters : ShownCounts[k] = Cardinality({i \in ToSet(Shown) : Row[i].kind = k})

\* A complete reading counts no sale of the window too few, and each once with
\* nothing changing meanwhile.
SalesAddUp ==
  tool = "velocity" /\ ~view.truncated =>
    \A k \in {"sales", "refund"} :
      LET there == Total({i \in Known : InWindow(i) /\ Row[i].kind = k}, Quantity) IN
      Sold(view.all, k) >= there /\ (Quiet => Sold(view.all, k) = there)

\* The payment modes add up to the sales loaded.
ModesAddUp ==
  tool = "transaksi" =>
    /\ Total(DOMAIN view.modes, [m \in DOMAIN view.modes |-> view.modes[m].count]) = Len(view.all)
    /\ Total(DOMAIN view.modes, [m \in DOMAIN view.modes |-> view.modes[m].amount]) = Sum(view.all, Paid)

\* The figures of a result agree with each other and with Qasir's list, and a
\* head is cut no shorter than it must be.
ResultsAddUp ==
  view # Nil /\ tool # "riwayat" =>
    /\ DebtsAddUp /\ CountsAddUp /\ SalesAddUp /\ ModesAddUp
    /\ Len(view.rows) < Len(Matching(view.all)) => ~Fits(Len(view.rows) + 1)
=============================================================================
