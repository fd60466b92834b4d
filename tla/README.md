# Formal models of PANELPRIMEPASAR

PANELPRIMEPASAR sells PasarGuard reseller accounts through a Telegram bot, with a web
admin panel for staff. This directory specifies the part of it where a mistake costs
somebody money or a service: orders, payments, discounts, wallets, the gateways, and the
delivery of paid orders through PasarGuard panels; the catalogue that staff edit while
customers order from it; the conversations of the bot, where messages and buttons race; who
among the staff may do what; and the row locks all of this takes. The modules are checked by
TLC and partly proved with TLAPS. Paths below are relative to `src/src/panelprimepasar/` unless they name
`README.md`, `docs/` or `tests/` of the repository.

## 1. The system

| Component | State it keeps | Operations | Interacts with |
|---|---|---|---|
| Orders (`services/orders.py`, `routers/customer.py`) | `orders` rows: status, price, discount, quota, kind | place; idempotent by key | every service below |
| Plans and customers (`admin_panel.py`, `routers/admin.py`) | plan rows, `is_blocked` | create, edit, toggle, delete; block | orders copy their terms |
| Payments (`services/payments.py`, `payment_callbacks.py`, `routers/payments.py`) | `payments` rows | create pending, verify, fail, approve a receipt, refuse one, cancel the order, settle a free order | gateways, orders, discounts, fulfillment |
| Discounts (`services/discounts.py`, `admin_panel.py`) | codes, `used_count`, one redemption row per order | reserve, redeem, release, release stale; create, edit, archive a code | orders, maintenance |
| Wallets (`services/wallets.py`) | balance, transactions unique per key | credit, debit, pay an order | orders, payments |
| Payment methods (`services/payment_methods.py`, `payments/providers.py`) | configured methods, encrypted credentials | start and verify a gateway payment, configure | four gateways |
| Fulfillment (`services/fulfillment.py`, `provisioning.py`, `subscriptions.py`) | account, subscription and job rows | provision, sync, repair an admin id, reissue, renew, top up | panels |
| Panels (`integrations/pasarguard.py`, `services/pasarguard_instances.py`) | health of instances; admins are external | ensure, modify, route | fulfillment |
| Maintenance (`services/maintenance.py`) | audit rows of warnings | clean up discounts, warn, expire | discounts, panels |
| Support (`services/support.py`) | tickets, messages | open, answer, close | customers, staff |
| Staff and web sessions (`services/admins.py`, `security/`) | staff rows, signed tokens | roles, passwords, revoke | web admin, bot |
| Web admin (`admin_panel.py`), staff bot (`routers/admin*.py`) | none of their own | call the services, then commit | all |

What is hard:

* **Concurrency.** Every Telegram update and web request has its own database session,
  and PostgreSQL runs them at READ COMMITTED. Services lock rows with
  `SELECT ... FOR UPDATE`, but most handlers have loaded the same row before, and
  SQLAlchemy's identity map does not refresh an object it already holds. A service can
  wait for a lock and then decide from what was true before it waited.
* **Order of events.** A gateway calls back late, twice, or never; staff decide about the
  same order meanwhile; the customer changes the price with a discount after starting a
  payment.
* **Editing what is in use.** Staff change plans and codes from forms that show an older
  row, while customers order from them; they suspend and demote colleagues whose signed
  tokens stay valid for hours.
* **Locks.** Handlers lock several rows, not all in the same order.
* **Partial failure.** Gateways and panels act before the database commits. A lost reply
  or a crash leaves the outside world ahead of the rows.
* **Retries.** Callbacks, staff buttons and the customer all retry. README.md:24 and
  docs/operations.md:122 promise that this is harmless.

What makes each part correct: an order is paid if and only if a payment of it is
verified, for the price it shows, once; discounts and uses of codes are neither lost nor
invented; the wallet is the sum of its transactions; what was decided about a payment
stays decided; an order has the price and the quota its plan offered; a paid order is
delivered once, on one panel, with the quota that was bought; a right ends when the row that
gave it changes; and handlers do not block each other, or we know which do.

`PROJECT.json` lists the components one by one, and under `hazards` what in this code is
hard to test, each with the property that would notice it.

## 2. The modules

| Module | What it is |
|---|---|
| `OrderLifecycle` | Abstract: the statuses one order may go through |
| `Checkout` | Orders until they are paid; every handler alone |
| `CheckoutProperties` | What `Checkout` promises, and what the documents promise that it does not keep |
| `CheckoutSessions` | The same services run by concurrent sessions over stale copies |
| `Fulfillment` | Delivery through the panels, with its properties; sessions included |
| `Gateways` | Payment methods, the invoices of the gateways, verification: why a callback finds a payment paid or not |
| `Conversations` | The bot's forms, the order of its routers, and the support tickets written through them |
| `Catalogue` | Plans, codes and blocked customers, edited while orders are placed, discounted and delivered |
| `Staff` | Staff rows, roles, tokens, and the requests that read and change them |
| `LockOrder` | The rows each handler locks, in its order, and who waits for whom |
| `SumTheorems` | Sums over finite sets, by induction: what the ledger's and the quotas' proofs rest on |
| `CheckoutProofs` | Theorems about `Checkout` and `CheckoutSessions` |
| `FulfillmentProofs` | Theorems about `Fulfillment` |
| `GatewaysProofs` | Theorems about `Gateways` |
| `ConversationsProofs` | Theorems about `Conversations` |
| `CatalogueProofs` | Theorems about `Catalogue` |
| `StaffProofs` | Theorems about `Staff` |
| `LockOrderProofs` | Theorems about `LockOrder` |
| `MCCheckout`, `MCCheckoutSessions`, `MCFulfillment`, `MCGateways`, `MCConversations`, `MCCatalogue`, `MCStaff`, `MCLockOrder` | Instances for TLC |

### How state and actions correspond to the code

`Checkout`'s variables are columns of committed rows: `status`, `price`, `discount` of
`orders`; the tables `payment`, `redemption` and `ledger` (wallet transactions, by
idempotency key); `used` and `balance`; and `captured`, the payments a gateway has
settled, which no table records. A service is an operator with the name of the Python
function in CamelCase. It takes a `row`, the session's copy of the order. A path on which
the Python code raises rolls its transaction back, so it is simply not enabled; the
exceptions are the gateway callback, where the money is captured although the database
rolls back, and the panels in `Fulfillment`.

`Flush` is SQLAlchemy's unit of work: a column is written only if the session changed its
copy. With a current copy it is an assignment; with a stale one it can be a lost write
or none.

| Code | Model |
|---|---|
| `checkout_handler`, `create_lifecycle_order` | `PlaceOrder`; `Shop` in `Fulfillment` |
| `discount_code_received` + `reserve_discount_for_order` + `settle_zero_price_order` | `ApplyDiscountCode` |
| `online_gateway_payment`, `receipt_received` + `create_pending_payment` | `StartGatewayPayment`, `SubmitReceipt` |
| `payment_callback` + `verify_external_payment` + `verify_payment` / `fail_payment` | `CallbackPaid`, `CallbackNotPaid` |
| approve, refuse, cancel (bot and web) | `ApproveManualOrder`, `RejectPendingManualPayment`, `CancelUnpaidOrder` |
| `wallet_pay`, `credit_customer_wallet` | `PayOrderWithWallet`, `CreditWallet` |
| `release_stale_discount_reservations` | `ReleaseStaleDiscounts` |
| `fulfill_paid_order` | `FulfillPaidOrder` in `Checkout`, which only needs its effect on the status; `Fulfillment` in full |
| `configure_payment_method` after `update_payment_method` or `create_payment_method` | `LoadPaymentMethod` then `ConfigurePaymentMethod`; `CreatePaymentMethod` |
| `delete_payment_method` | `DeletePaymentMethod` |
| `start_external_payment` + `build_payment_provider` + a provider's `create_intent` | `StartExternalPayment` in `Gateways` |
| `payment_callback` + `verify_external_payment` + a provider's `verify` | `CallbackPaid`, `CallbackNotPaid` in `Gateways` |
| `build_dispatcher` and the filters of the message handlers | `Routers`, `Handles` |
| buttons that start or end a form | `Press` |
| a message: choosing its handler; running it | `Receive`; `Handle` |
| `create_plan`, `update_plan`, `delete_plan` (web); `plan_price`, `plan_toggle` (bot) | `CreatePlan`, `EditPlan`, `DeletePlan`; `CreatePlanByForm`, `TogglePlan` |
| `set_customer_blocked`; `CustomerAccessMiddleware` | `SetCustomerBlocked`; the guards on `blocked` |
| `create_discount`, `update_discount`, `archive_discount` | `CreateDiscount`; `LoadDiscount` then `UpdateDiscount`; `ArchiveDiscount` |
| `checkout_handler` and the lifecycle forms: the plan is read, then the order inserted | `LoadPlan` then `PlaceOrder` in `Catalogue` |
| `_authenticate_web_admin`, `require_web_permission`; `get_admin_role`, `admin_has_permission` | the same names in `Staff` |
| `create_staff` + `upsert_web_staff_admin` | `create_staff`, `upsert_web_staff_admin`, `Commit` |
| `set_staff_status`, `change_staff_password`; `staff_toggle`, `staff_add_telegram_id` | the same names, then `Commit` |
| `admin_login`, `create_session_token`, `verify_session_token` | `admin_login` then `CommitLogin`; `tokens`, `Expire` |
| `SELECT ... FOR UPDATE`, flushed `UPDATE`s, `COMMIT` | `Ask`, `Grant`, `End` over the stages of a handler |
| `create_ticket`, `add_customer_message`, `add_staff_message`, `close_ticket`, `close_ticket_by_staff` | `CreateTicket`, `AddCustomerMessage`, `AddStaffMessage`, `CloseTicket` |

`CheckoutSessions` gives each session two steps: load (order, payment or wallet; with or
without a lock, as the handler does) and finish (the service and its commit). Between
them any other session may run, within the row locks. A session may also end without
effect: an exception, a deadlock PostgreSQL resolved against it, a crash.

`Fulfillment` gives each session three steps: load the order, load the account and choose
the panel, then lock, call the panel and commit. The call may fail, succeed with its
reply lost, or succeed before a crash. A reseller (account, subscription, username) is
named by the order that created it, which is unique in every table. The environment
(`Shop`) takes its steps from `OrderLifecycle`: it places, pays and cancels orders, and with
`AllowRepay` pays one a second time. `Checkout` implements that life cycle with
`AllowRepay = TRUE`. The runs of `Fulfillment` set `AllowRepay = FALSE`: they show delivery
under a shop in which an order is paid once, which is less than `Checkout` may do. The theorems
`TypeCorrect`, `AdminsStayUnique`, `Pinning`, `DeliveriesFollowLifecycle` and `ActiveStaysServed`
hold for either value; `QuotaStaysPaidFor` needs `FALSE`, since a top-up that is paid twice
is delivered twice. `Shop` does not contain what sessions from stale copies do to a status
either (a paid order canceled), because that is no step of the life cycle.

`Gateways` keeps what `Checkout` abstracts: a payment's reference, the invoice behind it,
and the method a callback builds its client from. An invoice belongs to a terminal (the
service, its sandbox or not, the merchant's account), and a gateway knows the invoices of
the terminal that asks. The four clients differ in the codes they take for "paid", in
whether the reference is a number, and in whether their sandbox has one merchant for
everybody; what a gateway answers the second time is external, and for NextPay unknown.
`PaidIsNotFailed` is what `Checkout` assumes when its `CallbackNotPaid` does not touch a
payment the gateway captured; `Gateways` says when that holds. Saving a method is a load
and a flush of the columns that differ from it, so that two editors may mix their columns.

`Conversations` takes two steps for a message, because the dispatcher runs every update in
a task of its own: the handler is chosen by the form's state, and the handler reads the
form's data later. In between, buttons and other messages of the same user may run, and
Redis may forget the form. A handler that clears the form late is the step that handled
the message, then whatever came between, then `Expire`. The writes of a handler to Redis
(clear, data, state) are one step. `update_data` merges: the subject of a new ticket, the role
of new staff and the steps of a plan's form leave the form's other keys alone (`SetState`,
`SupportNewSubject`), where the buttons that start a form clear it first (`SetForm`). So a form
that became another one while its message was handled can hold a ticket and a subject at
once. `about` stands for the keys `ticket_id` and `order_id`, of which a form never holds both.
Handlers that only show something are not followed. A ticket is loaded by the lock of its
writer, so there is no stale copy of it.

`Catalogue` is about what an order keeps of the catalogue. An order copies the terms of its
plan, a redemption the amount of its code, and neither is looked up again. `LoadPlan` and
`PlaceOrder` are the two moments of the customer's tap: the plan may be edited, stopped or
deleted in between, and a block that arrives then is too late. `offered` is history: every
pair of price and quota a plan has shown while it was active; `delivered` is what panels were
told. Saving a code is a load and a flush of the columns that differ (`Merged`), while a use
of it locks the row. The statuses are those of `OrderLifecycle`; payments are `Checkout`'s.

`Staff` keeps the rows of `staff_admins` and what outlives a change of them: tokens, which
name a row and the role it had and are revoked by nothing, a half-filled form, and requests
in progress. A request holds `saw`, the row it loaded, and `now`, the same object with its
assignments; `Written` are the columns in which they differ. The owner has no row: his
Telegram ids and the API key come from the settings, and `Owner`, the token without a row,
stands for the key too.

`LockOrder` forgets what the services compute. A handler is a sequence of stages, each the
rows it may lock there, written down from the order of the statements; it may skip a stage
(an absent row, an early return) but not the first. `Ask` names the next row, `Grant` gives
it when nobody holds it, `End` is commit, rollback, or the victim's abort. The clean-up takes
whatever is free in its first statement, as `SKIP LOCKED` does, and then waits for codes.

Definitions whose comment begins with "Faulty" are plausible bugs. They are not part of
any specification; replacing the definition that follows by them shows that a property
notices.

## 3. What is checked

| Run | Instance | Question | Result |
|---|---|---|---|
| `MCCheckout` | 2 orders of one customer, price 2, a 50 % code and a full one used at most once, 3 payments, 1 gateway, 1 manual method, 3 keys, fair maintenance | Do the rows agree after every sequence of handlers, is every step one of the life cycle, and does every reservation end? | holds |
| `MCCheckoutSessions` | 1 order, 3 payments, 2 sessions | What survives stale copies? | holds |
| `MCFulfillment` | 2 resellers, a renewal and a top-up of one of them, 2 panels, 2 ids, 1 session | Do retries, lost replies and repairs keep accounts pinned, backed, apart and within what was paid? | holds |
| `MCGateways` | 1 order, 1 method that may be Zibal, NextPay or a manual card, 2 accounts, 2 payments, 2 invoices, 1 editor | Does only a settled invoice pay an order, does no paid one fail, can every saved method be used? | holds |
| `MCConversations` | a customer and a member of staff, 2 tickets with 3 messages in all, 2 messages handled at a time, 1 order | Do tickets say who wrote what and who is waited for, whatever happens to the forms? | holds |
| `MCCatalogue` | 2 orders of 1 plan with 2 prices and 2 quotas, a code of a fixed amount, 1 session | Do orders keep what was offered, and codes their count, while both are edited? | holds |
| `MCStaff` | the owner, a member of staff, 2 rows, 1 username, 2 requests, 1 token | Does every request decide by the rows as they are, and does no change of them get lost? | holds |
| `MCLockOrder` | 3 sessions over a new order with a payment, a renewal, 2 codes, a wallet, a service | Which handlers can block each other? | three explained cycles |
| `MCCapturedPayment` | 1 order, 1 code | Is captured money always credited? | violated |
| `MCWalletRace` | 1 order, 2 sessions | Is the balance the sum of its transactions? | violated |
| `MCDuplicateReseller` | 1 reseller, 2 panels | Does a retry create a second reseller? | violated |
| `MCQuotaReset` | 1 reseller, 1 top-up | Does a repeated fulfillment keep top-ups? | violated |

**Properties of `Checkout`.** `PriceSplit` and `UsedCountExact` say that nothing of a
price or of a code's uses is lost or invented by apply, release, clean-up and cancel.
`PaidIffVerified`, `SettledAtFinalPrice`, `DiscountFollowsOrder` and
`ClosedOrdersHaveNoPending` relate an order's status to its payments and its redemption.
`LedgerExplainsBalance` and `DebitMatchesPayment` are the wallet's accounting.
`PaymentsAreFinal` and `PaidPriceIsFrozen` say what no step may take back, and
`ImplementsLifecycle` that the whole module implements `OrderLifecycle`.

**Under concurrency** `UsedCountExact`, `DebitMatchesPayment`, `PaymentsAreFinal` and
`PaidHasItsPayment` survive, because the rows they depend on are loaded by the lock
(codes, redemptions, payments) or guarded by a unique key. The properties that depend on
the order's or the wallet's copy do not: in `MCCheckout`, where handlers run alone,
`LedgerExplainsBalance` can only show a credit or a debit that is done twice or halfway; that
it fails for two sessions is `MCWalletRace`.

**Properties of `Fulfillment`.** `AccountsStayPinned` (docs/operations.md:130-132),
`ActiveHasAdmin` and `AdminsAreUnique` (the repair of id collisions), `QuotaIsPaidFor` (no
retry adds a top-up twice) and `FollowsLifecycle`.

**Properties of `Gateways`.** `VerifiedIsSettled` (docs/operations.md:110: a callback's
parameters prove nothing), `PaidIsNotFailed` (repeated verifications after lost replies,
while the method is reconfigured), `MethodsFit` (no save leaves a method that cannot be
built) and, within `TypeOK`, that a payment's method exists.

**Properties of `Conversations`.** `StatusTellsLastWriter` and `ClosedIsFinal` hold although
forms are opened long before they are answered, `WrittenByOwner` although the data may be
another form's by then (`TypeOK` says the same of a new ticket's subject), and
`MenuIsNotAMessage` is about the order of the routers.

**Properties of `Catalogue`.** `SoldAsOffered`: the undiscounted price and the quota of an
order were offered together, at one moment, by its plan, and what is delivered for it is that
quota, although the plan, the code and the discount change in between. `UsesSurviveEdits`: a
code that is saved from an old form does not take its `used_count` back to the form's.
`TypeOK` includes that the plan of an order is never deleted. A limit is not among them: it is
compared with a copy of the count (`admin_panel.py:2110`), so it may end below the uses.

**Properties of `Staff`.** `RightsAreCurrent`: a request begins only by the right its row gives
now, whatever the token says, and managing staff is the owner's, whichever of the two ways a
row was made. `ChangesStand`: of two requests over the same row, neither puts back what it
read before the other changed it; a password saved from an old copy does not undo a
suspension. `TypeOK` says that no row ever has the owner's role.

**Property of `LockOrder`.** `CyclesExplained`: whoever blocks each other, one of three things
is among them. A payment callback locks the payment before the order, everybody else the order
before its payments; a renewal or top-up locks the subscription before the account,
provisioning the account before the subscription; two clean-ups take codes in no order. All
three happen in the instance (leaving any of them out makes TLC find it). PostgreSQL ends each
by failing one transaction, and the callback may be the one, after its gateway was asked. Two
clean-ups need two processes: the Dockerfile starts one, so theirs waits for a deployment
that runs more.

**The violations** are disagreements between the code and its documents, quoted in
`PROJECT.json`. In short:

1. `MCCapturedPayment`: a discount applied after a gateway payment started makes that payment
   impossible to verify, after the gateway has taken the money.
2. `MCWalletRace`: two concurrent changes of a wallet lose one.
3. `MCDuplicateReseller`: a panel's reply lost while creating a reseller, then a retry routed
   to another panel, leaves two admins.
4. `MCQuotaReset`: a repeated callback of a paid reseller order resets the quota to the
   plan's and drops delivered top-ups.

The models have three more such behaviours, which are no runs of their own. A gateway payment
and a receipt can both be verified, because `verify_payment` does not look at the order's
status; the life cycle is therefore instantiated with `AllowRepay = TRUE` in `Checkout`. A
cancellation that loaded its order before it was paid cancels it, and two sessions that
fulfill one top-up can add it twice: both decide from a copy older than their lock, as the
wallet does. So the properties that these break are not among those of `CheckoutSessions`,
and `MCFulfillment` has one session.

### Bounds

* Two orders are enough for everything that relates orders: a code's last use, the wallet
  both pay from. Two sessions are enough for a stale copy: one that loaded, one that
  changed the row.
* `PaymentIds` caps the rows of the payments table. Three allow a gateway payment, a
  receipt and the payment that settles the order.
* The 50 % code on price 2 leaves 1 to pay; the other covers the price, and so settles the
  order. Each may be used once, so the two orders compete.
* `Amounts = {2}` is the price: a wallet can pay one order per credit. `Keys` holds the two
  orders' keys and a free one, and staff may type any of them, as the web form allows.
* `AllowRepay = FALSE` in `MCFulfillment`: with `TRUE`, TLC finds `QuotaIsPaidFor` violated by a
  top-up that is paid and delivered twice, and the instance grows past ten million states; the other
  properties are proved for either value. `Catalogue` fixes `FALSE` too: `SoldAsOffered` and
  `UsesSurviveEdits` do not look at whether an order was paid before.
* Two panels and two ids per panel are the least that allow a retry on another panel, a
  lost admin and an id handed out again. Panels hand out any free id. The resellers' plans
  and the top-up have quota 1, the renewal quota 0: unlimited, which absorbs the top-up.
* Rows are checked as database states; TLC explores every reachable one of these
  instances. Deadlock checking is off where the instance really stops: every order ends
  paid or canceled, and no payment or invoice is left. Conversations, edits, requests of staff
  and handlers that lock rows never end, so the runs of `Conversations`, `Catalogue`, `Staff`
  and `LockOrder` are checked for deadlock. (A cycle of row locks is no deadlock to TLC,
  because its victim ends.)
* `SYMMETRY` is used for the two sessions of `MCCheckoutSessions`, the tickets and the
  messages being handled of `MCConversations`, the orders of `MCCatalogue`, the rows and the
  requests of `MCStaff`, the sessions and the codes of `MCLockOrder`; none of them has a
  liveness property.
* Zibal and NextPay are the clients that differ most: Zibal reads numbers, has a public
  sandbox and one code for a repeated verification, NextPay has no sandbox and no such
  code; the manual card has no credentials. Two accounts are what replacing credentials
  needs, two payments and invoices what a lost reply, then another attempt, needs.
  `MCGateways` has one editor because `MethodsFit` fails with two: one makes a Zibal method
  a sandbox, the other, who loaded it before, makes it NextPay, and the row is a NextPay
  sandbox, which `_validate_credentials` refuses.
* One plan with two prices and two quotas makes every mixture of an old and a new offer
  visible. A code of amount 1 takes half of one price and settles the other, and its value may
  be edited away (null, which is 0) before its discount is given back. `Limits` is empty in
  `MCCatalogue`: codes have no limit there, which only allows more uses; a code at its limit is
  in `MCCheckout`. One session is enough for a stale plan or code,
  because what overtakes it (editing a plan, using a code) takes one step.
* `Given`, `Invited` and `Asked` leave out roles, ids and permissions that are alike: two
  roles differ in the right that is asked for, one is the owner's, which must be refused. Two
  rows are needed for a row made by each side of the same person; two requests for a stale
  copy; one token (`MaxTokens`) at a time can be older than the row.
* Three sessions hold every cycle of two, with one to start in between, and cycles of three.
  `LockOrderProofs` has any number.
* Two messages at a time are enough for one to be handled from a form that another has
  changed; three rows of messages are two tickets and an answer to one of them, or one ticket
  that is answered and written to again. `Inputs` has a text and
  one button of the menu, the one whose router comes last before the support router.

### Fairness

Only `MaintenanceRuns` is fair, weakly. `subscription_maintenance_loop` catches every
exception and repeats for ever, `release_stale_discount_reservations` runs first in each
cycle, and every reservation is older than `discount_reservation_max_age_hours` in the
end. The clean-up skips locked rows, but handlers of `Checkout` hold locks only within a
step. No customer, gateway or member of staff is assumed to do anything.

## 4. What is proved

`CheckoutProofs` proves, for any finite set of orders and any codes, payments, customers,
keys and sessions that satisfy the assumptions of `Checkout`, of handlers that run alone:

* `TypeCorrect`, `PriceIsSplit`, `UsedCountIsExact`, `PaidMeansVerified`,
  `VerifiedAtFinalPrice`, `DiscountsFollowOrders`, `NothingPendingOnceClosed`: the
  invariants of `MCCheckout` of the corresponding names;
* `LedgersExplainBalances` and `DebitsMatchPayments`: the wallet's accounting,
  `LedgerExplainsBalance` and `DebitMatchesPayment`;
* `PaymentsStayFinal`, `PriceStaysFrozen`: its action properties;
* `CheckoutImplementsLifecycle`: the refinement of `OrderLifecycle`;

and of concurrent sessions, as `CheckoutSessions` has them:

* `SessionsTypeCorrect`, `SessionsCountUses`, `SessionsMatchDebits`,
  `PaidOrdersHavePayments`: `TypeOK`, `UsedCountExact`, `DebitMatchesPayment` and
  `PaidHasItsPayment`;
* `SessionsKeepPayments`: `PaymentsAreFinal`;
* `WalletsApartExplainBalances`: `LedgerExplainsBalance`, while no two sessions have one
  customer's wallet loaded.

The assumptions are those named in `Checkout`: prices are natural numbers, percentages are
between 1 and 100, limits and values are positive, an order's wallet key is its own, and
the kinds of payment method are disjoint.

The argument for handlers alone. None of the invariants is inductive alone: to see that
`PaidIffVerified` survives a callback one needs that a canceled order has nothing pending
(`ClosedOrdersHaveNoPending`); to see that `SettledAtFinalPrice` survives a release one
needs that the redemption of a paid order is not reserved (`DiscountFollowsOrder`); and
that the release gives back the right amount is `PriceSplit`. `IInv` is the conjunction of
all of them, with the types and `NothingBeforeOrder`: an order that was not placed has no
payment and no redemption. Each action has a lemma that it preserves `IInv`, under it one
step for each part the action can disturb; `StepIInv` assembles them. The action
properties and the refinement follow from one lemma, `StepProps`, over `IInv` and
`NeverPending` (no order waits in "pending", so that setting "awaiting_payment" does
nothing).

The argument for sessions. A session decides from a copy of its order that can be out of
date in every column. `Copies(o)` are all the rows it could hold: any row of the right
types, except that a copy that shows the order as paid means that a payment of it is
verified. That exception is needed (fulfillment decides by the copy), and it is kept,
because verified payments stay so. `CopyNext` is every service over any such copy, a
superset of the steps of `Checkout` (`StepIsCopyStep`) and of `CheckoutSessions`
(`SessionStep`). Types, `UsedCountExact`, `DebitMatchesPayment`, `PaidHasItsPayment` and
the finality of payments are each shown of `CopyNext` once (`CopyTyped`, `CopyUses`,
`CopyDebits`, `CopyPaid`, `CopyFinal`), and hold in both modules: they depend on what is read
under a lock (the code, the redemption, the payments) and not on the copy. `SInv` adds
`SessionsHold`, that what each session holds is such a copy. The uses of a code are counted
with the cardinality theorems for the orders that hold it: reserving adds one, cancel and
clean-up remove those they release. For `DebitMatchesPayment`: paying from the wallet requires
that no payment of the order is verified, so the key holds no debit yet and the debit and its
payment are new together; every other step verifies only payments of another method, and the
keys of the orders are distinct.

A wallet's balance is a sum over its ledger. `SumTheorems` shows that such a sum does not
depend on the order it is taken in, by induction on the subsets of a finite set (a smallest
counterexample, from the library's theorem that strict inclusion is well-founded); a run has
inserted finitely many entries (`LedgerRows`), whatever `Keys` is. A step that inserts one
entry and changes the balance it knows by that amount then keeps `LedgerExplainsBalance`
(`FreshWallet`), whatever it believes of the order. With sessions one must know that the copy
of the balance is current (`BalancesCopied`), which only another session with the same wallet
could disturb: the hypothesis `WalletsApart`. Without it the property fails, as `MCWalletRace`
shows.

`FulfillmentProofs` proves, for any number of resellers, orders, panels, admin ids and
concurrent sessions that satisfy `FulfillmentAssumption` (there are finitely many orders, a
reseller's order creates it, a renewal or top-up names one, quotas are natural numbers, and
the absent id is no admin's):

* `TypeCorrect`: the type invariant;
* `AdminsStayUnique`: `AdminsAreUnique`;
* `Pinning`: the action property `AccountsStayPinned`;
* `DeliveriesFollowLifecycle`: `FollowsLifecycle`, while no two sessions work on one order
  (`OrdersApart`);
* `QuotaStaysPaidFor`: `QuotaIsPaidFor`, while no two sessions work on one reseller
  (`ResellersApart`) and no order is paid twice;
* `ActiveStaysServed`: `ActiveHasAdmin`, while no two sessions call one panel at a time
  (`PanelsApart`);
* `OneSessionSuffices`: all three, if there are not two sessions, which is what
  `MCFulfillment` checks on its instance.

The three hypotheses are what the code does not enforce, and none can be left out: with two
sessions and without it, TLC finds each of the properties violated. A session delivers an
order that another has just delivered and fails on it afterwards; two add to the quota that
both copied, or the top-up twice; one activates a subscription from a copy of an account whose
admin another has since given up as a collision. The theorems say that nothing else, no lost
reply, crash, retry or repair, can break them.

The argument. `AdminsAreUnique` is kept because inserting an account looks its admin up
first, repairs the row it finds and refuses an id it cannot resolve, while a reissue that
would collide is refused by the unique index. Pinning needs to know what a session chose
*before* it waited for its locks: `IInv` therefore says of every ready session that the
panel it chose is the panel of the account it saw, and that this account still exists and
is still there. No step of another session may break that, which is pinning itself, so the
two are proved together (`StepIInv`): `RowsOK` for the tables, `SessionsOK` for the copies,
with one lemma per service for the rows and one per kind of step for the sessions.

The other three properties each need one more invariant over the tables and the copies.
`LifeInv`: an account exists only for an order that was paid, and an order that a session
still sees as deliverable is paid and not yet completed. `QuotaInv`, stronger than
`QuotaIsPaidFor`: a renewal or top-up backs a quota only once it is delivered, so that
delivering it again has nothing to add; the quotas of top-ups are summed with `SumTheorems`.
`AdminInv`: an active subscription's account has an admin, and a session that is about to
activate one still sees the admin that the account has.

`GatewaysProofs` proves, for any numbers of orders, methods, payments, invoices, accounts and
editors:

* `TypeCorrect`, `VerifiedMeansSettled`, `PaidStaysUnfailed`: `TypeOK`, `VerifiedIsSettled`
  and the action property `PaidIsNotFailed`;
* `OneEditorKeepsMethodsFit`: `MethodsFit`, if there are not two editors.

The argument. A verified payment is settled because its invoice was settled by the same
callback and a settled invoice stays so; that it is not another payment's needs that every
payment has an invoice of its own (`OwnInvoice`), which holds because a new payment takes
an invoice that did not exist. `PaidIsNotFailed` is then a fact about the four clients'
codes against the gateways' answers, and about `Close`, which leaves `payable`. With one
editor, the row that was loaded is the row that is written, so that what was validated is
what is stored.

`ConversationsProofs` proves, for any numbers of users, tickets and messages handled at a
time, `TypeCorrect`, `StatusIsExact`, `CustomersWriteTheirOwn`, `MenuStaysOut` and
`ClosedStaysClosed`: `TypeOK`, `StatusTellsLastWriter`, `WrittenByOwner`, `MenuIsNotAMessage`
and `ClosedIsFinal`. The assumptions are those named in the module: what users send is a text,
a photo or something of the menu, and the ids of tickets are not those of orders.

The argument. Whatever a step is, it leaves a ticket alone, closes it, creates it, or
appends one message with the status that belongs to its writer (`Stepped`, `AllSteps`); and
each of these keeps what the ticket's status and messages say (`TicketOK`,
`TicketSteps`), and a press of the menu is none of those messages, because the router of its
button comes before those of the forms. The form enters only through the guards of the services, which is why its
races do not matter.

`CatalogueProofs` proves, for any plans, codes, customers and sessions and any finite set of
orders, from `CatalogueAssumption` (orders name a plan and a customer, prices and quotas are
natural, values and limits positive): `TypeCorrect`, `AlwaysSoldAsOffered` and
`UsesAlwaysSurviveEdits`.

The argument. `IInv` adds to the two properties that the copy a session orders from was
offered (`CopiesOffered`) and that an order's discount is the amount of its redemption
(`AmountsAgree`), without which giving back a discount could not be seen to restore the
price. `ActiveOffered`, that an active plan's row is in `offered`, is what loading it needs.
Edits touch neither copies nor redemptions; `UsesSurviveEdits` moves by one with the set
of holders.

`StaffProofs` proves, for any rows, people, tokens and requests, from `StaffAssumption` (only
that the bounds are subsets and `None` is none of the values): `TypeCorrect`,
`RightsAreAlwaysCurrent`, `ChangesAlwaysStand`.

The argument. A request that writes has loaded an existing row or a blank object
(`HasLoaded`), rows are never deleted, so a commit has a row to write to and writes only
columns it changed. That rights are current then follows from how a request authenticates, and
that nobody but the owner manages staff from `TypeOK`: no row has his role, and no other role
has that permission.

`LockOrderProofs` proves, for any number of sessions, orders, payments, codes, wallets and
services, from `LockOrderAssumption`: `TypeCorrect` and `CyclesAlwaysExplained`.

The argument. `IInv` says that what a session holds lies in the stages up to its own, and that
it got its first row before any other. Take a set in which each waits for another, with no
callback, no pair of change and provision, and at most one clean-up. Nobody waits for a
payment: whoever holds it holds its order too, which the waiting session must hold. So nobody
waits for a code, since those who hold one could only wait for payments, or for codes in the
clean-up, which is alone; and so on through redemptions, wallets, accounts and subscriptions
to the orders, which are asked for first, by sessions that hold nothing anyone could wait for.

Only model-checked: `StaleReservationsEnd`, because liveness under fairness is out of the
prover's reach; and the four violations, which are counterexamples. Every other property of
a run is a theorem, with the hypotheses named above.

## 5. What is not modelled, and why

* Amounts are natural numbers, without the currency columns: one currency is configured.
* `provisioning_jobs` records attempts and decides nothing.
* The delivery of credentials, pages, keyboards and messages: no row depends on them.
* The start of a discount code's window, which only delays its use, and several currencies
  or customers of a code: they add guards to applying it. In `Checkout` codes are always open
  and customers never blocked; `Catalogue` has those guards, and there they only remove steps.
* Editing PasarGuard instances (`admin_panel.py:1758-1874`): a panel's credentials and weight
  are behind `Fulfillment`'s free choice of a panel, and its address is part of its identity.
* Passwords, hashes and the signature of tokens: who logs in knows hers, and a token that
  verifies was issued.
* Waits on a unique index (two sessions that insert one key) and the locks of tickets, taken
  one at a time: `LockOrder` has rows that exist.
* Quota and input conversions (`services/quota.py`, the parsing of forms): pure functions of
  one argument, for which the repository has unit tests; the models take the numbers they
  return.
* A remote call and its commit are one step of `Fulfillment`, with the outcomes named
  above; two calls for one admin that overtake each other on the network are not modelled.
* Of the gateways: the conversion of amounts (a gateway that answers another amount raises,
  which is no step), slugs, the rotation of the master key, and the uniqueness of transaction
  ids.
* Of the bot, in `Conversations`: blocked customers, and what the plan and staff forms store. What receipt
  and discount forms do to orders is in `Checkout`, what plan forms do in `Catalogue`, what
  the staff form does in `Staff`; here they only compete for messages.
* The maintenance of subscriptions: `expire_due_subscriptions` and the warnings select on
  `expires_at`, which no code sets any more (`services/provisioning.py:239`,
  `subscriptions.py:188`), so that they find no row, and the locks they would take
  (`services/maintenance.py:78-88`) are never asked for.
* Sessions that create the same wallet, or insert the same key, at once: the unique
  constraint aborts one of them, which is `Abort`.

## 6. Plan

Done: `OrderLifecycle`, `Checkout`, `CheckoutSessions`, `Fulfillment`, `Gateways`,
`Conversations`, `Catalogue`, `Staff`, `LockOrder`, and the proofs of their safety
properties. A model of the maintenance of subscriptions was planned and dropped, because that
code finds no rows; one of the conversions, because they have no state.

What is left, in this order:

1. `CheckoutSessions`: the properties that stale copies break (`PaidIffVerified`,
   `PriceSplit`, `SettledAtFinalPrice`), as theorems about sessions that do not overlap on
   one order. The handlers that lock without loading overlap too, so the hypothesis must be
   about steps.
2. `Fulfillment`: weaker hypotheses than `OrdersApart` and `ResellersApart`, which only speak
   of sessions between their lock and the commit, if the load is made to count as a lock does.
3. `MethodsFit` with editors of different methods, as `OneEditorKeepsMethodsFit` has one.
