------------------------------ MODULE Registry ------------------------------
(***************************************************************************)
(* The registered operations (src/registry/ops): what the dispatcher, the  *)
(* validator and the OpenAPI document read of an entry.  A path is known   *)
(* by its parameter, titles and tags are left out; `exposed` is true of    *)
(* all of them.                                                            *)
(***************************************************************************)
EXTENDS Naturals, TLC

\* A schema node; a bound or item schema that is not given is the empty set.
Schema(t) == [type |-> t, minimum |-> {}, maximum |-> {}, enum |-> {}, items |-> {},
              properties |-> <<>>, required |-> {}, closed |-> FALSE]
Object(props, req) ==
  [Schema("object") EXCEPT !.properties = props, !.required = req, !.closed = TRUE]
Array(item) == [Schema("array") EXCEPT !.items = {item}]

MaxPageSize == 100
PageParam == [Schema("integer") EXCEPT !.minimum = {1}]
CountParam == [PageParam EXCEPT !.maximum = {MaxPageSize}]
Strings(names) == [n \in names |-> Schema("string")]
Integers(names) == [n \in names |-> Schema("integer")]
Booleans(names) == [n \in names |-> Schema("boolean")]
PageOf == "page" :> PageParam
Paged == PageOf @@ "count" :> CountParam
DateRange == Strings({"start_date", "end_date", "outlet_ids"})

Read(host, auth, param, props, req) ==
  [method |-> "GET", host |-> host, auth |-> auth, kind |-> "json", safety |-> "read",
   param |-> param, schema |-> Object(props, req)]
Pos(param, props, req) == Read("pos", "bearer", param, props, req)
Ajax(props, req) == Read("merchant", "cookie-csrf", {}, props, req)
Page(props) == [Ajax(props, {}) EXCEPT !.kind = "html"]

CatalogOps ==
  "products.list" :> Pos({}, Paged @@ Strings({"name"}), {"page", "count"}) @@
  "products.searchAjax" :> Ajax(PageOf @@ Strings({"name"}), {"name"}) @@
  "customers.get" :> Pos({"customer_id"}, Integers({"customer_id"}), {"customer_id"}) @@
  "inventories.stockTurnover" :>
    Pos({}, Paged @@ Strings({"outlet_ids", "sort", "search"}), {"outlet_ids", "page", "count", "sort"})

StockHistories ==
  "inventories.stockHistories" :>
    Read("pos", "raw-token", {"inventory_id"},
         Integers({"inventory_id"}) @@ Paged @@ Strings({"outlet_ids", "type", "sort"}),
         {"inventory_id", "page", "count", "outlet_ids", "type"})

PurchaseOps ==
  "purchases.list" :> Pos({}, Paged @@ Strings({"outlet_ids"}), {"page", "count"}) @@
  "purchases.items" :>
    Pos({"purchase_id"}, Strings({"purchase_id"}) @@ Integers({"outlet_id"}), {"purchase_id", "outlet_id"}) @@
  "users.list" :>
    Pos({}, Paged @@ Strings({"name", "outlet_ids", "outlet_ids_filter"}) @@ Integers({"access"}),
        {"page", "count"})

OrderRead(param, props, req) == Read("order", "bearer", param, props, req)
OrderOps ==
  LET ranged == {"page", "count", "start_date", "end_date", "outlet_ids"}
      history == Paged @@ DateRange @@ Integers({"customer_id"}) IN
  "order.histories.web" :> OrderRead({}, history @@ Strings({"settle_by", "invoice_number"}), ranged) @@
  "order.histories.legacy" :> OrderRead({"sales_id"}, Integers({"sales_id"}), {"sales_id"}) @@
  "order.histories.installment" :> OrderRead({}, history, ranged)

SalesPaged ==
  Paged @@ DateRange @@
  Strings({"sort", "search", "ids", "discount_type", "trend_type", "comparison_start_date",
           "comparison_end_date", "country_code", "language_code"})
SalesTrend == [SalesPaged EXCEPT !["trend_type"].enum = {"sales", "profit"}]

ReportOps ==
  [o \in {"reports.summaries.sales", "reports.summaries.transaction",
          "reports.summaries.salesInsight", "reports.sales.paymentTypes"} |->
     Pos({}, DateRange, DOMAIN DateRange)] @@
  [o \in {"reports.summaries.salesTypes", "reports.summaries.paymentMethods",
          "reports.summaries.installment", "reports.summaries.discounts", "reports.orderTypes",
          "reports.categories", "reports.brands", "reports.employees", "reports.discounts",
          "reports.modifiers", "reports.topProducts", "reports.ingredients.summaries"} |->
     Pos({}, SalesPaged, DOMAIN DateRange)] @@
  "reports.sales.trend" :> Pos({}, SalesTrend, DOMAIN DateRange \cup {"trend_type"}) @@
  "reports.products" :> Pos({}, SalesPaged, DOMAIN DateRange \cup {"sort"}) @@
  "reports.promoInsight" :> Pos({}, <<>>, {}) @@
  "reports.merchants.visits" :> Pos({}, Strings({"date_from", "date_to"}), {"date_from", "date_to"}) @@
  "reports.merchants.visitTrending" :>
    Pos({}, Strings({"date_from", "date_to", "unit"}), {"date_from", "date_to"})

AttendanceOps ==
  "attendance.reports" :>
    Pos({}, PageOf @@ DateRange @@ Strings({"sort"}), {"page"} \cup DOMAIN DateRange)

PaymentOps ==
  [o \in {"payments.pending", "payments.pendingAttributes"} |->
     Read("payment", "bearer", {},
          IF o = "payments.pending"
          THEN PageOf @@ Strings({"start_date", "end_date", "invoice_number", "status"})
          ELSE Strings({"is_read", "status"}), {})]

ReminderOps ==
  "reminders.products" :> Pos({}, Paged @@ Strings({"outlet_ids", "type"}), {}) @@
  "customers.survey" :> Pos({}, Paged @@ DateRange, {}) @@
  "customers.surveySetting" :> Pos({}, <<>>, {})

PageOps ==
  "ingredients.listAjax" :> Ajax(Paged @@ Strings({"outlet_ids", "search", "status_stock"}), {}) @@
  "ingredients.recipesTotalAjax" :> Ajax(<<>>, {}) @@
  "suppliers.listHtml" :> Page(PageOf @@ Strings({"name", "phone", "location"})) @@
  "stockAdjustment.historyHtml" :>
    Page(PageOf @@ Strings({"searchdate", "variant", "sort", "type_product"}))

Post(safety, props, req) ==
  [Pos({}, props, req) EXCEPT !.method = "POST", !.safety = safety]

MutationOps ==
  "products.inventories.bulk" :>
    Post("destructive",
         "data" :> Array(Object(
            Integers({"variant_id", "product_id", "outlet_id", "stock", "stock_min"})
              @@ Strings({"notes"}) @@ Booleans({"track_stock"}),
            {"variant_id", "product_id", "outlet_id", "stock"})),
         {"data"}) @@
  "purchases.confirmation" :>
    Post("write",
         Strings({"purchase_id"}) @@ Integers({"outlet_id"}) @@ Booleans({"is_modified_price"})
           @@ "items" :> Array(Schema("object")),
         {"purchase_id", "outlet_id", "items"}) @@
  "purchases.cancel" :>
    [Read("merchant", "cookie-csrf", {"id"}, Strings({"id"}), {"id"}) EXCEPT !.safety = "destructive"]

Registered ==
  CatalogOps @@ StockHistories @@ PurchaseOps @@ OrderOps @@ ReportOps @@ AttendanceOps
    @@ PaymentOps @@ ReminderOps @@ PageOps @@ MutationOps
=============================================================================
