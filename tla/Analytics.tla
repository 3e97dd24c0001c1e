----------------------------- MODULE Analytics -----------------------------
(***************************************************************************)
(* The merchant's reports: revenue, orders, categories, products, counties *)
(* and payment methods, and the customers page, read from the orders and   *)
(* the payments that Settlement writes, in any state it can be in.         *)
(*                                                                         *)
(* Instants are integers.  A ratio is the whole part of what the code      *)
(* computes; the order of a report's lines matters only where it is cut.   *)
(***************************************************************************)
EXTENDS Settlement, Functions

CONSTANTS
  Now, Span,   \* the reports are of the last Span instants
  Bucket,      \* instants in one line of the sales chart: a day, or a month
  Created,     \* when each order is placed
  Total,       \* what its shopper pays for it, less coupon, with delivery
  Price,       \* price of one unit of each row
  Product,     \* the product each row is of
  Category,    \* the category of each product
  County,      \* the county each order goes to, None when it is blank
  Buyer        \* the account that placed each order, None for a guest

ASSUME AnalyticsAssumption ==
  /\ IsFiniteSet(Orders) /\ IsFiniteSet(Rows)
  /\ Now \in Nat /\ Span \in Nat /\ Bucket \in Nat \ {0}
  /\ Created \in [Orders -> Nat] /\ Total \in [Orders -> Nat]
  /\ Price \in [Rows -> Nat]
  /\ DOMAIN Product = Rows /\ DOMAIN Category = { Product[r] : r \in Rows }
  /\ DOMAIN County = Orders /\ DOMAIN Buyer = Orders
-----------------------------------------------------------------------------
(* The orders a report is of *)

CurrentRange == [ start |-> Now - Span, end |-> Now ]

(* getPreviousDateRange: as long, and ends just before the current one *)
PreviousRange ==
  LET end == CurrentRange.start - 1 IN [ start |-> end - Span, end |-> end ]

Placed == { o \in Orders : order[o] # "NONE" }

Eligible(range) ==
  { o \in Placed : /\ Created[o] \in range.start .. range.end
                   /\ order[o] # "CANCELLED" }

HasCompleted(o) == \E p \in Payments : payOrder[p] = o /\ pay[p] = "COMPLETED"

Settled(range) == { o \in Eligible(range) : HasCompleted(o) }

(* Faulty: the payments are joined, so an order counts once for each. *)
RevenueJoined(S) ==
  LET paid == { p \in Payments : payOrder[p] \in S /\ pay[p] = "COMPLETED" }
  IN  SumFunction([ p \in paid |-> Total[payOrder[p]] ])

Revenue(S) == SumFunctionOnSet(Total, S)
-----------------------------------------------------------------------------
(* Overview and growth *)

Percent(part, whole) == IF whole > 0 THEN (part * 100) \div whole ELSE 0

PaidOrderRate(settled, eligible) ==
  IF Percent(settled, eligible) > 100 THEN 100 ELSE Percent(settled, eligible)

Overview(range) ==
  LET S == Settled(range)
      n == Cardinality(S)
  IN  [ revenue |-> Revenue(S), orders |-> n,
        average |-> IF n > 0 THEN Revenue(S) \div n ELSE 0,
        rate |-> PaidOrderRate(n, Cardinality(Eligible(range))) ]

(* calculateGrowth, and the growth of one product *)
Growth(current, previous) ==
  IF previous = 0 THEN IF current > 0 THEN 100 ELSE 0
  ELSE ((current - previous) * 100) \div previous

GrowthComparison ==
  LET current == Overview(CurrentRange)
      previous == Overview(PreviousRange)
  IN  [ revenue |-> Growth(current.revenue, previous.revenue),
        orders |-> Growth(current.orders, previous.orders),
        average |-> Growth(current.average, previous.average),
        rate |-> Growth(current.rate, previous.rate) ]
-----------------------------------------------------------------------------
(* Reports with a line for each period, county, method, category, product *)

GroupedBy(S, key) ==
  [ g \in { key[o] : o \in S } |->
      LET group == { o \in S : key[o] = g }
      IN  [ revenue |-> Revenue(group), orders |-> Cardinality(group) ] ]

SalesData ==
  GroupedBy(Settled(CurrentRange), [ o \in Orders |-> Created[o] \div Bucket ])

RegionSales ==
  GroupedBy(Settled(CurrentRange),
            [ o \in Orders |-> IF County[o] = None THEN "Other" ELSE County[o] ])

PaymentMethodStats ==
  LET lines == GroupedBy(Settled(CurrentRange),
                         [ o \in Orders |-> IF o \in MpesaOrders THEN "MPESA" ELSE "CASH" ])
      total == SumFunction([ m \in DOMAIN lines |-> lines[m].revenue ])
  IN  [ m \in DOMAIN lines |->
          [ amount |-> lines[m].revenue, orders |-> lines[m].orders,
            percentage |-> Percent(lines[m].revenue, total) ] ]

Sold(r, S) == SumFunction([ o \in S |-> Qty[o][r] ])

ItemSales(rows, S) == SumFunction([ r \in rows |-> Price[r] * Sold(r, S) ])

SoldRows(S) == { r \in Rows : Sold(r, S) > 0 }

CategorySales ==
  LET S == Settled(CurrentRange)
      rows == SoldRows(S)
      total == ItemSales(rows, S)
      sales(c) == ItemSales({ r \in rows : Category[Product[r]] = c }, S)
  IN  [ c \in { Category[Product[r]] : r \in rows } |->
          [ sales |-> sales(c), percentage |-> Percent(sales(c), total) ] ]

(* The products that sold for most, at most limit and never over a hundred, a
   tie at the cut broken in some way: the lists there may be, as sets *)
TopProducts(limit) ==
  LET S == Settled(CurrentRange)
      before == Settled(PreviousRange)
      rows(d) == { r \in Rows : Product[r] = d }
      line(d) ==
        LET revenue == ItemSales(rows(d), S)
        IN  [ id |-> d, category |-> Category[d], revenue |-> revenue,
              sales |-> SumFunction([ r \in rows(d) |-> Sold(r, S) ]),
              growth |-> Growth(revenue, ItemSales(rows(d), before)) ]
      lines == { line(Product[r]) : r \in SoldRows(S) }
      n == Cardinality(lines)
      safeLimit == IF limit > 100 THEN 100 ELSE IF limit < 0 THEN 0 ELSE limit
  IN  { best \in SUBSET lines :
          /\ Cardinality(best) = IF n < safeLimit THEN n ELSE safeLimit
          /\ \A x \in best, y \in lines \ best : x.revenue >= y.revenue }
-----------------------------------------------------------------------------
(* getCustomers.  Unlike the reports it counts cancelled orders, at any time. *)

Spent == { o \in Placed : HasCompleted(o) }

Accounts == { Buyer[o] : o \in Placed } \ {None}

CustomerStatus(u) ==
  LET n == Cardinality({ o \in Spent : Buyer[o] = u })
  IN  IF n >= 10 THEN "vip" ELSE IF n > 0 THEN "active" ELSE "inactive"

CustomerRevenue == Revenue(Spent)

CustomerStats ==
  [ spent |-> [ u \in Accounts |-> Revenue({ o \in Spent : Buyer[o] = u }) ],
    status |-> [ u \in Accounts |-> CustomerStatus(u) ] ]
-----------------------------------------------------------------------------
(* The orders whose money the store keeps: a payment confirmed them and they
   were not cancelled since. *)
Earned ==
  { o \in Orders :
      /\ order[o] \notin { "NONE", "PENDING", "CANCELLED" }
      /\ \E p \in Payments : payOrder[p] = o /\ verdict[p] = "ORDER_CONFIRMED" }

EarnedIn(range) ==
  SumFunctionOnSet(Total, { o \in Earned : Created[o] \in range.start .. range.end })

(* What a report says in one of its columns, all lines together *)
TotalOf(lines, f) == SumFunction([ g \in DOMAIN lines |-> lines[g][f] ])

(* The charts and the tables add up to the overview; the best products to no
   more than the categories, and to as much when the list is not full; revenue
   shrinks when the store keeps less than it did; the customers page calls
   inactive those who paid nothing, and no others where every order costs
   something. *)
ReportsAddUp ==
  LET all == Overview(CurrentRange)
      page == CustomerStats
      matches(lines) ==
        \A f \in { "revenue", "orders" } : TotalOf(lines, f) = all[f]
  IN  /\ matches(SalesData) /\ matches(RegionSales)
      /\ TotalOf(PaymentMethodStats, "amount") = all.revenue
      /\ TopProducts(10) # {}
      /\ \A best \in TopProducts(10) :
           LET sold == SumFunction([ x \in best |-> x.revenue ])
           IN  /\ sold <= TotalOf(CategorySales, "sales")
               /\ Cardinality(best) < 10 => sold = TotalOf(CategorySales, "sales")
      /\ GrowthComparison.revenue < 0
           <=> EarnedIn(CurrentRange) < EarnedIn(PreviousRange)
      /\ \A u \in Accounts :
           /\ page.status[u] = "inactive" => page.spent[u] = 0
           /\ page.spent[u] = 0 /\ (\A o \in Spent : Total[o] > 0)
                => page.status[u] = "inactive"

(* The revenue of a period is that of the orders whose money the store keeps:
   each counts once, however many payments completed it, and in one of two
   adjoining periods; none counts whose money goes back.  The customers page
   differs by exactly the paid orders that were cancelled. *)
RevenueIsKept ==
  /\ \A range \in { CurrentRange, PreviousRange } :
       Overview(range).revenue = EarnedIn(range)
  /\ Settled(CurrentRange) \cap Settled(PreviousRange) = {}
  /\ CustomerRevenue =
       SumFunctionOnSet(Total, Earned \cup { o \in Spent : order[o] = "CANCELLED" })

(* Whatever requests are under way, the revenue reported is what the store keeps;
   the other reports, which read the same rows, are added up whenever no request
   is under way. *)
RevenueIsEarned ==
  /\ RevenueIsKept
  /\ (\A k \in Calls : At(k, "idle")) => ReportsAddUp
=============================================================================
