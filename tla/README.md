# A formal model of the shop platform's orders, payments and merchants

This directory holds TLA+ modules, TLC configurations and TLAPS proofs about
NovaTech, a multi-tenant shop platform: a Next.js frontend whose API routes call
a TypeScript backend (`src/backend`) over one Postgres database (Prisma). The
program is stateless between requests: everything it remembers is a row, and
everything hard about it comes from requests that interleave between two of
their SQL statements, from a payment provider that answers late, twice or not at
all, and from processes that die half-way.

## The system

| Part | State it keeps | Operations | Hard behaviours | What makes it correct |
| --- | --- | --- | --- | --- |
| **Shopper orders and stock** (`services/order.service.ts`, `controllers/orderController.ts`, `lib/order-idempotency.ts`) | `Order.status`, `Product.stock`, `Variant.stock`, `Coupon.usedCount`, unique `[tenantId, idempotencyKey]` | `createOrder`, `updateOrderStatus`, `cancelOrderAndRestoreInventory`, `cancelPendingOrder`, `finalizePendingOrderPayment` | concurrent checkouts, retried checkouts, cancellations of merchant and failed prompt racing, edits stored over another change, lock-order deadlocks | stock conserved and never oversold; one order per key; coupon within its limit; transactions end |
| **M-Pesa prompts** (`payments/mpesa/index.ts`, `payments/merchant-mpesa.ts`, `lib/daraja.ts`) | `Payment` rows of provider `mpesa` | initiate, verify (a poll of the provider) | the provider is asked between a read and a write; the push precedes its row | a payment is completed only if paid, stays so, and settles its order |
| **Manual shopper payments** (`payments/manual-shopper.ts`) | `Payment` rows of provider `mpesa-manual` | create (advisory lock), submit a receipt, approve or reject | two reviewers, two creations | one open payment of an order; a review is final |
| **Webhooks** (`payments/webhooks/index.ts`, the `stk-callback` route) | `Payment`, `WebhookReceipt` | STK callback, Stripe events, C2B | redelivery until answered, callback before the row, late failures | same as prompts |
| **Audit rows** (`recordOrderCommission` in `billing/service.ts`) | `Transaction` (zero commission) | upsert after settlement | crash between settlement and audit | in the end one for every settled payment |
| **SaaS billing** (same file, `billing/credits.ts`) | `Invoice`, `Payment`, `BillingRecord`, `BillingCredit`, `Subscription` | pay the setup fee or a period by prompt or receipt, apply and release credits, review receipts | a sequence of separate statements with swallowed errors; late failures; repeated requests | a fee or invoice is collected once; credit is neither lost nor doubled; what is approved is carried out |
| **Subscription lifecycle, retention** (`billing/lifecycle.ts`, `reminders.ts`, `retention/`) | `Subscription`, `Tenant`, `Store.publicationStatus`, reminder notifications | sweep, remind, delete; activate and restore; cancel | the sweep decides on a snapshot; several statements restore a tenant | unpaid access ends; who pays is served; data is deleted when due and not before |
| **Platform operations, publication** (`platform/operations`, `store/publish`, `store/rollback` routes) | same rows | suspend, reactivate, publish, roll back | races with payments and sweeps | only an operator lifts the platform's suspension |
| **Job lock** (`workers/job-lock.ts`, the cron route) | lease row | acquire, reclaim, release | lease expires under its holder; a run dies | one live run at a time, and always another one |
| **Merchant verification** (`manage/verification`, `platform/verification` routes, `lib/merchant-phone-otp*.ts`) | profile, phone code, evidence rows and files, `verificationStatus` | save, send and check a code, upload, review, decide, expire | codes of an old phone, guesses that race, files without rows, decisions on what has changed | a verified phone received its code; an approved merchant is verified; no file outlives its row |
| **Catalogue, inventory, cart** (`services/productService.ts`, `inventory.service.ts`, `cart.service.ts`, `lib/product-variant.ts`) | `Product`, `Variant`, `CartItem` | create, delete, restock; add, change, remove; reports and reorder suggestions | additions that race each other and the merchant; reports that each decide for themselves; rounding | one row per product and text of a selection, within the stock; reports agree; reordering settles |
| **Recommendations** (`services/recommendation.service.ts`) | - | lists of products | two columns of stock, hidden categories | what is shown can be ordered |
| **Analytics, customers** (`services/analytics.service.ts`, `getCustomers` in `controllers/adminDataController.ts`) | - | overview, growth, reports by period, county, method, category, product; the customers page | several completed payments of one order, refunds that are due, adjoining periods | reports count the money the store keeps, once, and add up |
| **Quota limits** (`billing/subscription.ts`), **rate limits, password and invitation tokens, Stripe, tenants, permissions, enquiries, support, reviews, pages, Android shell** | single rows or none | look-ups, CRUD, reports, user interface | see *Not modelled* | - |

How the parts interact. A checkout (`POST /api/orders`) creates an order and
takes its stock. For `MPESA` orders the shopper then asks for a prompt
(`POST /api/payments/mpesa/initiate`; the merchant's *payment route* decides
between a Daraja prompt and a manual transfer), and the checkout page polls
`verify` eight times. The provider calls `stk-callback`. Poll, callback and the
merchant's review of a receipt all end in `finalizePendingOrderPayment` (or the
transaction `reviewManualShopperReceipt` wraps around the same claim), which
confirms the order and writes on the payment what became of it
(`metadata.orderSettlement`). A prompt that failed cancels the pending order,
which gives its stock back. Merchants edit statuses meanwhile.

A merchant's money takes a second road through the same webhook: a setup fee or a
renewal is an invoice with a `Payment` of another kind, and its callback, or the
operator's review of a receipt, ends in `markBillingPaymentFromMpesa`. Activating
the subscription there restores the tenant and the store that the scheduled sweep
suspended. Whether a store's pages are shown depends on the tenant's and the
store's status, which sweeps, payments, cancellations, operators and the
merchant's publications all write.

## Modules

| Module | Models | Built on |
| --- | --- | --- |
| `OrderBook` | the abstract specification: orders and stock with every operation atomic | - |
| `FoldFacts` | facts about folds over finite sets: the sums reports and carts are made of | - |
| `Checkout` | `createOrder` and both cancellations, statement by statement under Postgres row locks | instantiates `OrderBook` as its abstraction |
| `CheckoutProofs` | what its carts take, its invariants and the refinement, proved | `Checkout`, `FoldFacts` |
| `Settlement` | prompts, callbacks, polls, transfers, reviews, edits, cancellations as interleaved requests | extends `OrderBook` |
| `SettlementProofs` | the book's invariants, its own types and verdicts, and the refinement, proved | `Settlement` |
| `Analytics` | the merchant's reports and the customers page, over the states of `Settlement` | extends `Settlement` |
| `PaymentProofs` | what becomes of payments, and the reports made of them, proved | `SettlementProofs`, `Analytics`, `FoldFacts` |
| `Billing` | what one merchant pays the platform: setup fee, periods, credit | - |
| `BillingProofs` | its types, one payment, what a paid invoice has, the credit, proved | `Billing` |
| `Tenancy` | the merchant's access: subscription, tenant, store, sweeps under a lease, payments, operators | - |
| `TenancyProofs` | its types, the lease, reminders, who is served and suspended, proved | `Tenancy` |
| `Verification` | the merchant's details, phone codes, evidence and the decision about them | - |
| `VerificationProofs` | its types, codes, evidence and approval, proved | `Verification` |
| `Inventory` | what stock means: selections, reports, reorder suggestions, lists for shoppers | - |
| `Catalogue` | the catalogue and a shopper's cart over time | extends `Inventory` |
| `CatalogueProofs` | its types, the cart, and what `Inventory` says of every catalogue, proved | `Catalogue` |
| `MCCheckout`, `MCSettlement`, `MCBilling`, `MCTenancy`, `MCVerification`, `MCCatalogue` | small instances for TLC | |

The modules meet where one hands to the next: `Settlement` and `Checkout` are two
refinements of one `OrderBook`; `Catalogue`'s `Order` is the effect of one of its
checkouts; `Billing` ends where a subscription is activated, which is
`Tenancy`'s `Activate`; a renewal's prompt is one step in `Tenancy` (`Prompt`,
`Declined`) because `Billing` has its statements.

Operators whose comment begins with "Faulty:" are plausible bugs. No behaviour
uses them; each names the mistake that one of the properties exists to catch
(the pairs are listed in `PROJECT.json`).

### OrderBook

`order[o]` is the status of an order (`"NONE"` before it is placed), `stock[r]`
the units of a product's or a variant's row. `Place`, `Advance` and `Cancel` are
what `createOrder`, `updateOrderStatus` with a settlement's confirmation, and the
two cancellations promise. `Transitions` is `ORDER_STATUS_TRANSITIONS`, and
`Cancellable` is derived from it as `cancelOrderAndRestoreInventory` does.
Quantities and stock are any natural numbers.

### Checkout

One `Attempt` is one `POST /api/orders`; a retry is another attempt with the same
`Key`. `pc[a]` is the statement it runs next: look up the key (`Begin`), read the
lines (`ReadLine`), read the coupon, insert the order, redeem the coupon,
decrement product rows and then variant rows (`Take`), commit. A `Cancel` reads
an order, claims it on the status it read, gives units back in the order of the
cart (`Give`) and commits (`Finish`).

The transactions run at READ COMMITTED, Postgres' default, which nothing in the
repository changes. The model keeps the committed values, and `holder` says which
open transaction has written each stock row, coupon, order row or index key: a
second writer waits until the first ends and then looks at the row again (a
conditional `UPDATE` re-evaluates its condition). An insertion with a key that an
open transaction has inserted waits in the same way. A transaction takes effect
when it commits. `Fail` is a rollback at any time: the five-second timeout of
Prisma's interactive transactions, a dead process, a broken connection. `Victim`
is Postgres' deadlock detection. A cart is a sequence of lines, each naming a
product row or the rows of the selected variants, so that the two orders the code
uses, merged maps for taking and cart lines for giving back, are both
computed from it. `requestedQuantities` sums the lines of a row, whereas the check
of available stock does not; both are modelled.

Prices, shipping, hidden categories, inactive or expired coupons and the minimum
order value only refuse a cart before anything is written; such a refusal has the
effect of `Fail` and is left out, as are notifications. A coupon without a usage
limit behaves as one that is never reached. One coupon is enough: an order
redeems at most one.

### Settlement

A request in progress is a record `call[k]`: the statement `pc` it runs next, on
whose behalf, the order or payment it is about, and the values it has read.
Everything a request has read stays in that record while others move on, so stale
writes appear where the code has them:

- `EditRead`/`EditStore`: `updateOrderStatus` checks the transition on a status it
  read, then updates the order by id alone.
- `InitiateCheck`/`StkPush`/`RecordPush`: look for a payment, prompt the phone,
  insert the row. A rejected push leaves a `FAILED` row.
- `VerifyRead`/`VerifyQuery`/`WriteStatus`: read the payment, ask the provider,
  store the answer without a condition. The route reads the newest payment and
  `verifyMpesaPayment` reads the same row by its reference a moment later; the two
  reads are one step.
- `CallbackRead`: the provider delivers a resolved push until it is answered with
  200; the early returns of `updatePaymentByProviderReference` are its disjuncts.
- `SettleClaim`, `SettleMiss`/`SettleReread`/`SettleStore`: the claim of
  `finalizePendingOrderPayment` locks the order row, so a claim that succeeds is
  one step with its verdict; one that fails holds nothing and reads the order again.
  An approval (`by = "review"`) claims the payment row first and holds it
  (`RowLocked`).
- `TransferCheck`, `TransferLock`, `TransferCreate`: the route checks that the order is
  payable; the transaction takes the advisory lock of the order and checks again; under
  the lock it looks for an open transfer and inserts one. The order's row is not locked,
  so that the order may be cancelled between the second check and the insertion.
- `Audit`: `recordOrderCommission` re-reads the payment.
- `Drop`: a process dies; `Throws`: the provider cannot be reached or a single
  statement fails.

A checkout and a cancellation are one step here, because `Checkout` implements
the same `OrderBook` actions (theorem `CheckoutsImplementBook`). Amount and
tenant mismatches, receipt codes, phone numbers, e-mails and the platform's own
credentials mode are left out: they refuse a request or decorate a row. The model
is of merchant-routed payments (the mode in which shopper checkout is enabled);
with platform credentials a paid callback without a row is refused instead of
answered, a difference noted at `CallbackRead`.

### Analytics

No state of its own: each report is a function of `Settlement`'s orders and payments,
and of what a placed order never changes (`Total`, `Created`, `County` and so on, as
constants). `Settled` is the condition all reports share: not cancelled, and some
completed payment. `RevenueIsEarned` compares them, in every state of `settlement`,
with what settlement decided (`RevenueIsKept`): the orders a payment confirmed and
nobody cancelled since. That the reports add up (`ReportsAddUp`) is looked at by TLC when
no request is in progress, since they read the same rows; the proof needs no such
restriction. `TopProducts` is the set of the lists the report may give, each as a set:
which of two products with equal revenue comes first, the sort leaves to the order of
the rows. Two of its sums are stated as
far as the code keeps them: a growth is rounded, so only its sign is compared, and an
order may cost nothing, in which case a customer who paid is active with nothing spent.
It also states the one difference the code
has: `getCustomers` does not leave out cancelled orders, so its revenue exceeds that of
the analytics by money that is to be refunded. An order paid on delivery has no payment
row, so no report counts it. The CSV export is a layout of the same reports.

### Billing

`inv` and `pay` are the tenant's invoices and payments in the order of their
creation; `fee` is `setupFeeStatus`, `plan` the status of the subscription,
`credit` what remains of the billing credits. `answer[p]` is what M-Pesa knows of
a prompt and `sent[p]` how often its result was delivered.

- `Start`, `Reserve`: `createSetupFeeMpesaPayment` and `createMpesaInvoicePayment`
  read what is payable, then reserve an invoice and a payment in one transaction
  under an advisory lock. `Usable` is the payment that is returned instead of a
  new one.
- `Find`, `Claim`, `Push`, `Store`: `initiateMpesaPayment` for a payment that exists
  already. `GivesUp`, `Unpay`, `Close` are what its two callers do with a refusal or
  an exception, statement by statement: the renewal gives the credit back.
- `Deliver`, `Update`: `updatePaymentByProviderReference`, whose early returns answer
  a callback that finds its payment settled, or does not find it.
- `Submit`, `Examine`, `Verdict`, `Settled`, `Reopen`, `Resume`: manual receipts and
  their reviews, which may be repeated until `manualBillingSettledAt` is set.
- `MarkInvoice` to `Activate`: `markBillingPaymentFromMpesa`. Each statement swallows
  its error (`Swallowed`) except the transaction of the setup fee (`FeeFails`).

One merchant is enough, since every statement is about one tenant. Amounts are
one `Price` for every invoice; VAT, plans, add-ons and destinations only change or
refuse the amount. Credit reserved for an invoice is one number, its rows being
treated together in one transaction.

### Tenancy

`sub`, `tenant` and `store` are the three rows; `tenant.due` is
`dataDeletionDueAt`, `released` remembers whether the merchant ever published, and
`withheld` that the store stayed closed because its merchant may not sell.
Time is `now`, in units of which a trial, a period, the grace and the retention
last a whole number; the lease, which lasts minutes, lapses by an event (`Lapse`).

- A run (`job[w]`) acquires the lease, then treats the sweeps in the order of the
  cron route. `Sweep` selects the rows and `Row` decides on what was selected
  (`Decision` is `lifecycleDecision`) and writes in a transaction; `Remind`, `Check`,
  `Notify`, `Record` are the reminders: a run looks for the notification of the stage,
  sends the messages, and records the notification in a later statement. `noticed` is
  what was recorded, `sent` counts what was sent; the messages of one dispatch are one
  step, since their errors are caught one by one. The tenant has an owner (without one
  `dispatchReminder` records nothing, and every run that finds the stage due sends to the
  store's WhatsApp number). `Retain`, `Reread`, `Scrub` the retention. `Fails` is an
  error of one statement, caught where the code catches it (`After`); `Crash` is a
  run that dies with its lease.
- A request (`call[k]`) is a payment's `Activate`, `ReadTenant`, `RestoreTenant`,
  `ReopenStore`; a cancellation, at once (`Quit`) or at the period's end
  (`FlagPeriodEnd`); an operator's `Suspend` or `Reactivate`, whose transaction acts on
  a store read before it; or a publication.

`Required` is the onboarding mode (`isMerchantVerificationRequired`). Where it is TRUE, a
payment (`Reopens`) and an operator (`Reactivate`) publish a suspended store again only if
`verificationStatus` is `APPROVED`; the module `Verification` has how that comes about, and here a
request may read either (`MaySell`). `Public` is of a merchant who may sell, the widest
case for `PlatformStands`. `PaidIsServed` says that a store which stays suspended after a
payment is one that was `withheld` in this way.

### Verification

`form` is the profile that was saved last, `otp` the stored code with its wrong
answers, `doc` the status of each evidence row and `object` the files in private
storage. `proof`, a history variable, is the phone that the code in force was sent
to. Saving, sending, checking, uploading, deciding and deleting are requests that
read, then write, as the routes do; `Cool` and `Expire` are the minute and the ten
minutes of a code. Both conditional updates of the code store ask `Still`: the code that
was read is still the stored one and has answers left. They compare its expiry with the
time at which the request began, so that a code which expires meanwhile is still
accepted. Rate
limits of the routes only refuse. The module is of the onboarding mode that
requires verification; in the light mode the routes answer 410 or 409.

### Inventory and Catalogue

`Inventory` has no state: it defines, over a catalogue, what a shopper may select
(`resolveVariantSelection`), what each of the merchant's five reports says and which
products each list shows. `Catalogue` lets a catalogue and a cart evolve: an addition
reads the stock, takes the advisory lock on its key, looks for its row and writes; a
change of quantity has no lock. A row keeps the selection as the shopper sent it, trimmed
(`Texts`), and both the key of the lock and the look-up compare that text; what it selects
(`Selection`) is resolved from it, in any order and case. So one selection that is sent as
two texts, "Color: Red / Size: M" and "Size: M / Color: Red", gets two rows, even one
request after the other: `CartLineOnce` is about the key, and `CartWithinStock` bounds each
row by itself. What a text selects is fixed: texts that resolve to nothing are refused by
`addCartItem` before its transaction, and a renamed variant is not modelled. In every reachable state the properties compare the
reports and lists of `Inventory` with each other and with what `createOrder` accepts
(`Accepts`), for the catalogue alone and beside `Others`, further products. What is
shown does not depend on the cart, so TLC compares the lists with `Accepts`
(`ShownIsOrderable`) when no request on the cart is under way; the theorem
`ShownAreOrderable` is of every state.

### Stale writes

`Settlement`, `Billing`, `Tenancy`, `Verification` and `Catalogue` each have a history
variable (`overtakes`, `stale`, `crossed`, `lowered`) that records one kind of event:
a write decided on values that another request has changed since, or, in
`Catalogue`, stock that was taken away. The code does not exclude these events,
since most of its updates are by identifier alone. A property that excepts them
says so in its comment: it states that nothing else breaks it. What happens with
them is stated by the properties that the code violates.

## Properties and runs

| Run | Instance | Properties |
| --- | --- | --- |
| `checkout` | a checkout sent twice with one key, a cart that lists the same rows in another order, a third cart, a cancellation; two mugs and one shirt, whose variants are two rows; a coupon with one use wanted by two carts | `TypeOK` no decrement makes stock negative; `CouponExact` `usedCount` is the number of orders placed with the coupon, within the limit; `OneOrderPerKey`; `ImplementsBook` the transactions look like the atomic order book; `TransactionsEnd` |
| `settlement` | two orders that want three of two units, one prompt, two transfers, a change of payment route, two concurrent requests; each order has a line of both rows, and one is placed at the edge of the reports' period | `TypeOK`; `StockConserved`; `BookSpec` every interleaving looks like the order book; `VerdictMatchesOrder` the verdict beside a payment stays true of its order; `OneOpenTransfer`; `RevenueIsEarned` the reports count the money the store keeps, once; `ReviewIsFinal` |
| `settlement_live` | one order, one prompt, two concurrent requests of which one may die, an edit stored over another change | `CompletedIsSettled` completed exactly with a verdict, and only when paid; `PaidSettles` a paid prompt with a row is completed for good; `PaidIsAudited` |
| `billing` | two payments of fee or renewal, two concurrent requests, results delivered twice, one stop, one failing statement; credit that pays part of an invoice | `TypeOK` a completed payment has its reference; `OnePayment` repeated requests do not collect twice; `CreditConserved`; `PaidInFull` a paid invoice has its payment and its credit; `FeeStaysPaid` |
| `billing_live` | one payment, credit that could pay all of it, one stop, one error | `ApprovedSettles` |
| `tenancy` | a platform that requires verification; a run, two concurrent requests, one payment, one stop; a trial, a period, grace and retention of one unit each, three units of time | `TypeOK`; `PaidIsServed`; `PlatformStands` |
| `tenancy_live` | two runs, a lease that lapses under its holder, one death or failing statement; no request, so that only the trial, its grace and the suspension are on the way | `OneLiveLease`; `NoticeOnce`; `AccessEnds`; `DueIsDeleted` |
| `verification` | two sets of details with two phones, a document, two codes, one wrong answer allowed, two concurrent requests, one stop or failure | `TypeOK`; `CodeProvesPhone`; `ApprovedIsVerified`; `EvidenceStored`; `GuessLimit`; `ArrivedCodeStands` |
| `catalogue` | a product with at most one variant, selected by either of two texts or by none, and two units of either, a cart of two rows, two concurrent requests; beside it none or another product of the same or another category | `TypeOK` a cart names products that exist; `CartLineOnce` one row for each product and text; `CartWithinStock`; `ReportsAgree`; `ReorderSettles`; `ShownIsOrderable` |

The modules state each property in full, with the code it is about.

`settlement` checks `CalmSpec`: behaviours in which no plain edit is stored after
another request changed the order it read. `tenancy` has `Races = FALSE` for the same
reason; with `TRUE` its properties hold as well, as they except stale writes, in a
state space that is several times as large.

Three runs look for violations of what the repository says of itself, and find them:

| Run | The claim | What the code does |
| --- | --- | --- |
| `settlement_oversell` | "Decrement stock atomically so concurrent checkouts cannot oversell" (`order.service.ts:189`) | an edit that read an order as `PENDING` stores its status over a cancellation that gave the unit back; a second order buys the unit, so that two live orders hold it |
| `tenancy_deleted` | data "is retained for 90 days after paid access ends" (`Merchant Store Agreement.md:194`) | a payment opens a suspended tenant again and leaves the deletion date of its suspension, at which the sweep deletes the data |
| `billing_twice` | a "one-time setup fee" (`mvp-policy.ts:5`) | between the statements that mark the invoice and the fee as paid, a second request opens another invoice |

Further statements are in the modules for a reader to add to a configuration; the
code violates each of them, and TLC finds how in a few seconds:
`Settlement!CompletedStays` (a poll that asked before the shopper paid stores
`PENDING` over `COMPLETED`), `PaidIsConfirmed` (the request dies between the push and
its row, or the callback comes before the row), `OnePrompt` (two initiations both
prompt); `Billing!CallbackStartsPilot` (an error between the callback's update and the
pilot is never made good); `Tenancy!OnlyReleasedIsPublic` (lifting a suspension
publishes a store that was a draft) and `GraceIsPublic` (the first days after a paid
period are `PAST_DUE`, which is not public).

### Bounds, and why they are enough

Two concurrent requests (`Calls`) are what every race in the list of hazards needs,
because the third party, the provider, the merchant's phone, the clock or an
operator, moves by itself. The statement-level races of two cancellations are in the
proof of `CheckoutsImplementBook`, for any number of them, and at the level of
requests in `settlement`. Two transfers of one order are needed for reviewers that
differ, two payments for one that fails late. `MaxSwitches = 1` lets an order have
payments of both routes. `MaxOvertakes` is zero (calm) or one, which is enough to
break every property of the order that can break. Stops are bounded by one: for a
safety property a request that dies is one that takes no further step, except that
its slot is free again. `settlement_live` has no change of route and one prompt:
with a second payment of the order, a callback that precedes its row is
acknowledged, and since polls ask about the newest payment only, nothing settles the
older one; that is `PaidIsConfirmed` again.

In `tenancy` a unit of time is a whole period, so that every boundary (equal, one
before, one after) is met within three; `tenancy_deleted` has periods of two, so that
a deletion can fall inside one. `tenancy` has `Required = TRUE`, in which a merchant may be
verified or not whenever it is read, so that it has the behaviours of the light mode too;
the other two have it `FALSE`. One wrong answer (`MaxTries`) is enough for two guesses that race
for the last one. In `catalogue` three texts (no selection, and
two for the variant) are what two rows of one selection need; stock is at most two and the warning at one, so that
nothing, little and enough all occur, and the sales are none, few and many; the
suggested quantities use the code's own constants.

`CHECK_DEADLOCK FALSE` is set where the system may really stop: all checkouts are
answered, all payments are made.

### Fairness

`Checkout!Fairness`: the server runs the statements of a transaction, and a row
lock is granted to its waiters in turn, which is Postgres' lock queue: strong
fairness of each actor's steps, since a wait ends when the lock is released
infinitely often. The deadlock detector is weakly fair. Rollbacks are not assumed.

`Settlement!Fairness`: a request that has begun goes on (weak), the provider
answers a query sooner or later (strong, as a request may also end in an error).
That polls keep coming and that the provider redelivers a callback until it is
answered is an assumption about the shopper's page and Safaricom, not about the
code: the page asks eight times. So `PaidSettles` says that no interleaving makes
settlement impossible, not that eight polls suffice.

`Billing!Fairness`: a request goes on (weak); an operator returns to an approval
that is unfinished (strong), because the review list keeps showing it.

`Tenancy!Fairness`: the scheduler keeps starting runs, a run keeps going, and ten
minutes pass (all weak). Nothing is assumed of the clock, merchants or operators, nor
that a run succeeds.

## Proofs

All proofs are checked by TLAPS without omissions, for any number of orders,
rows, requests, keys and payments.

- `FoldFacts`: `SumByKey` and the lemmas before it. The library's induction over finite
  sets takes an operator, which the provers cannot instantiate; that the proper subset
  is well-founded on them is a plain fact, and from it follows induction with a family
  of sets in the operator's place (`SubsetInduction`). The community modules define a
  fold as `CHOOSE` of a recursive function: `FoldExists` constructs one, subset by
  subset, so that it is what its recursion says. For sums over naturals the order of
  the terms does not matter (`SumRemove`), the sums of groups add up to the whole
  (`SumByKey`), and a best part of a set exists (`BestExist`).
- `CheckoutProofs`: `CartIsTaken`, `TypesHold`, `CheckoutsImplementBook`, `CouponHolds`,
  `KeysHold`. `CartIsTaken` is about what is computed from a cart before its first
  statement: the rows that the two `Map`s hold are rows, there is one at least, and
  every row that a line wants is among them, by induction over the positions that a
  fold has taken. It is what the steps need of a cart, and used to be assumed. None of the properties is inductive, because what makes a commit
  right was checked several statements earlier. The invariant `IInv` adds, for each
  open checkout, that the rows it has decremented so far are locked by it and still
  hold what it wants, that its key is locked and not yet placed, and that the
  coupon, once redeemed, is locked at the count that was read, which was below the
  limit; and for each cancellation that the order it has claimed is locked in the
  status it was read with. `OthersKeep` shows once that a statement which locks a
  free row, or gives its own locks back, disturbs no one else; only `Commit`,
  `Finish` and `Confirm` need an argument of their own. Nothing is assumed of the
  order in which rows are locked: safety does not depend on it.
- `SettlementProofs`: `BookCorrect`: the book conserves stock and never oversells. The
  invariant is types plus `StockConserved`; the step is a lemma on the cardinality of
  the units held (`UnitsOf`) when an order joins or leaves `Live`. Then
  `TypesHold` for all behaviours of the requests; for calm ones
  `VerdictsHold`, `ImplementsBook` and, through it and `BookCorrect`, `StockHolds`.
  `Shape` says what each request in progress must hold for its next statement to
  make sense (the payment exists and belongs to a placed order, and so on).
  `CalmInv` adds `VerdictMatchesOrder`, and `RequestsCalm`, which is why it is
  inductive: a verdict carried by a poll or a callback still fits the order it
  will be stored for, and a settlement that missed its claim is about an order
  that has left `PENDING`, and is cancelled if that is what it read.
- `PaymentProofs`: `PaymentsAreSettled`, `OneTransferIsOpen` and `ReviewsAreFinal`,
  for all behaviours, those with stale edits included. `Paid` adds to `Shape` what a
  request has learnt of its payment and nobody undoes (`Informed`: a poll that will
  store a verdict asked after the shopper had paid) and that two requests never insert
  one prompt's row nor hold one receipt's (`Exclusive`). `RevenueCountsWhatIsKept`
  is the whole of `RevenueIsEarned`. `PaymentsAreSettled` and `VerdictsHold` together say
  that in calm behaviours the orders the reports count are those whose money is kept
  (`RevenueKept`), whatever the totals. The rest holds in every state: each order has
  one day, one county, and each of its lines one category and product, so that by
  `SumByKey` each table adds up to the overview, and the best products to no more than
  the categories.
- `BillingProofs`: `BillingTyped`, `PaymentsAreOne`, `FeeIsKept`, `InvoicesArePaid`,
  `CreditIsConserved`. What a completed payment owes is recorded several statements
  later, so the invariants are about requests half-way. `Sound`: every payment is a
  prompt, a receipt or a credit with the columns of one (`Recorded`), every request
  stands where its payment's status lets it (`Progress`), and one request at most has
  claimed a prompt without storing the answer (`OneSender`). As long as nothing was
  decided on what has changed (`stale`), `Calm`: an approval in progress is on its
  receipt, an older payment of a kind is settled and failed ones have no request left
  (`Superseded`), a payment that is waited for has an open invoice. `PaidHas`,
  `Concluded` and `Released` relate the invoice to its payments and its credit while a
  result is recorded. Credit is counted unit by unit, as a set (`CreditUnits`), so that
  its conservation is about cardinalities and not about a sum.
- `TenancyProofs`: `TenancyTyped`, `LeasesExclude`, `RemindersAreOnce`,
  `PaymentIsServed`, `PlatformIsObeyed`, `DeletionIsDue`. `Leased`: only the owner of a
  lease that has not lapsed runs without being late. `Numbered`: no more runs are late
  than leases lapsed; what was sent and what is about to be sent of a stage is at most one
  more than lapses and faults; and while the stage is not recorded, each message is of a
  run that is about to record it or of one that stopped or failed before. `Served` is
  the middle of a restoration: a period that was paid is served, or a payment is
  between its statements;
  `ReasonKept` and `ClosureKept` say what a suspended tenant and a closed store must
  still show for that restoration to find them, or that the store was withheld.
  `DeletionIsDue` is about the gap between the sweep's second look at a tenant and the
  deletion: as long as runs do not overlap,
  nothing moves the date in between but a cancellation (`Doomed`). TLC shows that
  one can: two cancellations are requested, the first takes effect, and the second
  while its date's sweep is about to delete; it sets a new date, `now + Retention`, and
  the data is deleted at once. No run checks the property, which is stated beside its proof.
- `VerificationProofs`: `VerificationTyped`, `CodesProvePhones`, `GuessesAreLimited`,
  `ArrivedCodesStand`, `EvidenceIsStored`, `ApprovedAreVerified`. `Matching`: what
  requests have read of the phone is the profile's. `Undelivered`: each request that
  sends holds a code of its own that has not arrived, which is why releasing it
  deletes no other. `StorageOK`: a file without a row belongs to an upload in progress,
  and a row without a file is due for deletion. `Approving`: an approval in progress is
  of a verified phone.
- `CatalogueProofs`: `CatalogueTyped`, `CartLinesAreOnce`, `CartsAreWithinStock`, and
  of every state `ReorderingSettles`, `ReportsDoAgree`, `ShownAreOrderable`. `Single`:
  between its search and its write a request alone holds its key (`OneHolder`), so a
  row it did not find has not come (`Alone`); the key has the text of the selection, so
  the theorem is of texts. `Within`: what a request is to write was
  compared with stock that has not been lowered (`Promise`), and the row it found is
  still for the same, since an identifier is not used again. The last three do
  not depend on how the catalogue came about: they need only that stock is counted
  (`IsRow`) and that a selection is stocked when each of its variants is (`StockedIs`).
  That lemma needs a least element of a set of naturals (`Least`), which the library
  has by an induction theorem the provers cannot use; it is derived from the
  well-foundedness of the proper subset on finite sets instead.

Assumptions: the constants are of their kinds (`BookAssumption`,
`SettlementAssumption`, `CheckoutAssumption`, `AnalyticsAssumption`,
`BillingAssumption`, `TenancyAssumption`, `VerificationAssumption`,
`InventoryAssumption`, `CatalogueAssumption`); equal keys mean equal carts
(`SameKeySameCheckout`; the key is a digest of the checkout); and the
lines of a cart name rows (`CartAssumption`; what is taken for them is proved). The
reports are of finitely many orders and rows. Two are more than a
kind: `Tenancy` has finitely many `Workers` and some time to pass (`Horizon` is not
zero), and `Catalogue`'s `Others` count their stock as the database does.

What proving changed in the models. `PlatformStands` had no exception for a tenant
whose data is deleted: the lifecycle sweep selects subscriptions whatever their
tenant's `deletedAt` (`billing/lifecycle.ts:34-50`), and overwrites the reason of the
suspension with its own; three units of time were too few for TLC to get there. In the
other direction, `PaidIsServed` no longer excepts failing statements nor `OnePayment`
swallowed errors: the proofs do not need it, and TLC agrees.
`TopProducts` was sorted by a strict order, of which the definition says nothing when two
products tie, although TLC evaluates it: it is a set of possible lists now. The rows of a
cart are collected by folds, for the same values, since those have a recursion to reason
with.

Only model-checked: all liveness (`PaidSettles`, `PaidIsAudited`, `TransactionsEnd`,
`ApprovedSettles`, `AccessEnds`, `DueIsDeleted`), which is beyond the prover. The three runs that look for violations have
nothing to prove.

What to prove next: that an activation in `Billing` is a step of an abstract
subscription which `Tenancy` implements too; and, of runs that overlap, that what
`DeletionIsDue` leaves out is a deletion of a tenant suspended or cancelled meanwhile.

## Not modelled, and why

- **Card payments and Stripe** (`payments/cards`, the Stripe half of the webhooks and of
  `billing/service.ts`): dormant behind `STRIPE_SECRET_KEY` in a launch that takes
  M-Pesa only. `verifyCardPayment` has the shape of `verifyMpesaPayment`.
- **Quota limits**: a count before an insertion. Concurrent insertions pass a limit
  together; nothing in the repository promises otherwise.
- **Rate limits, password and invitation tokens**: one increment or one row each.
- **Add-ons, plan changes, outage credits, enquiry retention**: single statements
  beside what `Billing` and `Tenancy` model.
- **Renamed variants**: restoring stock resolves a variant by its name in today's
  catalogue, and a renamed one makes a cancellation throw. `Checkout` and `Settlement`
  take rows as fixed.
- **`workers/lifecycle.ts`** runs the sweeps without the lease; two such runs overlap as
  two runs of `Tenancy` do after a lapse.
- **Tenants, permissions, enquiries, support, reviews**: look-ups, and rows that one
  request changes by identifier.
- **Pages and the Android shell**, the larger part of the repository's lines: user
  interface, which calls the routes that are modelled.
