------------------------------ MODULE Checkout ------------------------------
(***************************************************************************)
(* Orders until they are paid: placing, discounts, the payment methods,    *)
(* the wallet, staff decisions and the clean-up of stale discounts         *)
(* (services/orders.py, payments.py, discounts.py, wallets.py,             *)
(* payment_methods.py and the handlers that call them).                    *)
(*                                                                         *)
(* The variables are the committed rows of the database.  A service        *)
(* function is an operator over a `row`: the copy of the orders row that   *)
(* its SQLAlchemy session holds.  SELECT ... FOR UPDATE does not refresh   *)
(* an object the session has already loaded, so that copy can be older     *)
(* than the locked row; CheckoutSessions passes such copies.  Here every   *)
(* handler runs alone and passes Row(o), the committed row.                *)
(*                                                                         *)
(* A path on which the code raises rolls its transaction back: it changes  *)
(* nothing, so it is an action that is not enabled.                        *)
(*                                                                         *)
(* A definition whose comment begins with "Faulty" is not part of the      *)
(* model: it is the definition below it with a bug in it, and shows that   *)
(* a property would notice that bug.                                       *)
(***************************************************************************)
EXTENDS Naturals, FiniteSets

CONSTANTS
    Orders,         \* orders customers may place
    Customers,
    Owner,          \* the customer of each order
    ListPrice,      \* the plan's price, copied into each order
    Codes,          \* discount codes
    Kind,           \* "fixed" or "percent", per code
    Value,          \* value_amount or value_percent, per code
    MaxUses,        \* max_uses, per code
    PaymentIds,     \* bound: how many payment rows exist; creation order
    Gateways,       \* online payment methods
    ManualMethods,  \* manual payment methods: the bare receipt and cards
    Receipt,        \* the manual method without a payment_method_id
    Keys,           \* idempotency keys of wallet transactions
    WalletKey,      \* the key "wallet:order:<id>" of each order
    Amounts         \* bound: amounts staff credit to a wallet

ASSUME OrdersAssumption ==
    /\ IsFiniteSet(Orders)
    /\ Owner \in [Orders -> Customers]
    /\ ListPrice \in [Orders -> Nat]
ASSUME CodesAssumption ==
    /\ Kind \in [Codes -> {"fixed", "percent"}]
    /\ Value \in [Codes -> Nat \ {0}]
    /\ \A c \in Codes : Kind[c] = "percent" => Value[c] \in 1..100
    /\ MaxUses \in [Codes -> Nat \ {0}]
ASSUME PaymentsAssumption ==
    /\ PaymentIds \subseteq Nat
    /\ Receipt \in ManualMethods
    /\ Gateways \cap ManualMethods = {}
    /\ {"wallet", "discount"} \cap (Gateways \cup ManualMethods) = {}
ASSUME WalletAssumption ==
    /\ WalletKey \in [Orders -> Keys]
    /\ \A o1, o2 \in Orders : WalletKey[o1] = WalletKey[o2] => o1 = o2
    /\ Amounts \subseteq Nat \ {0}

VARIABLES
    status,      \* orders.status
    price,       \* orders.price_amount
    discount,    \* orders.discount_amount
    payment,     \* the payments table
    redemption,  \* the discount_redemptions table, unique per order
    used,        \* discount_codes.used_count
    balance,     \* wallets.balance
    ledger,      \* the wallet_transactions table, unique per key
    captured     \* payments the gateway has confirmed and settled

vars == <<status, price, discount, payment, redemption, used, balance,
          ledger, captured>>
discountVars == <<price, discount, redemption, used>>
walletVars == <<balance, ledger>>

-----------------------------------------------------------------------------
(* Rows *)

Unpaid == {"pending", "awaiting_payment"}
Settled == {"paid", "provisioning", "completed", "failed"}
OrderStatus == {"absent", "canceled"} \cup Unpaid \cup Settled
Methods == Gateways \cup ManualMethods \cup {"wallet", "discount"}

NoPayment == [status |-> "none"]
Payment == [order : Orders, via : Methods, amount : Nat,
            status : {"pending", "verified", "failed"}]
NoRedemption == [status |-> "none"]
Redemption == [status : {"reserved", "redeemed", "released"},
               code : Codes, amount : Nat]
NoEntry == [kind |-> "none"]
Entry == [kind : {"credit", "debit"}, customer : Customers, amount : Nat]

Row(o) == [status |-> status[o], price |-> price[o], discount |-> discount[o]]

\* The unit of work writes a column only if the session changed its copy.
Flush(stored, seen, new) == IF new = seen THEN stored ELSE new

SetStatus(o, row, s) ==
    status' = [status EXCEPT ![o] = Flush(@, row.status, s)]

PaymentsOf(o, st) ==
    {p \in PaymentIds : payment[p].status = st /\ payment[p].order = o}
PendingVia(o, methods) ==
    {p \in PaymentsOf(o, "pending") : payment[p].via \in methods}
Newest(ids) == {p \in ids : \A q \in ids : q <= p}

NewPayment(o, via, amount, st) ==
    [order |-> o, via |-> via, amount |-> amount, status |-> st]

\* The next row of the table is inserted; created_at follows the ids.
NextId(p) ==
    /\ payment[p] = NoPayment
    /\ \A q \in PaymentIds : q < p => payment[q] # NoPayment

FailPayments(S) ==
    payment' = [q \in PaymentIds |->
                  IF q \in S THEN [payment[q] EXCEPT !.status = "failed"]
                  ELSE payment[q]]

\* Every pending payment of o fails and `new` is inserted as id p.
FailPendingAndAdd(o, p, new) ==
    payment' = [q \in PaymentIds |->
                  IF q = p THEN new
                  ELSE IF q \in PaymentsOf(o, "pending")
                       THEN [payment[q] EXCEPT !.status = "failed"]
                       ELSE payment[q]]

\* Every customer has opened the wallet menu, which creates the wallet.
Init ==
    /\ status = [o \in Orders |-> "absent"]
    /\ price = ListPrice
    /\ discount = [o \in Orders |-> 0]
    /\ payment = [p \in PaymentIds |-> NoPayment]
    /\ redemption = [o \in Orders |-> NoRedemption]
    /\ used = [c \in Codes |-> 0]
    /\ balance = [c \in Customers |-> 0]
    /\ ledger = [k \in Keys |-> NoEntry]
    /\ captured = {}

-----------------------------------------------------------------------------
(* services/discounts.py *)

AtMost(bound, n) == IF n <= bound THEN n ELSE bound
Minus(m, n) == IF n <= m THEN m - n ELSE 0

CalculateDiscountAmount(c, amount) ==
    AtMost(amount, IF Kind[c] = "fixed" THEN Value[c]
                   ELSE (amount * Value[c]) \div 100)

\* Faulty: a second code replaces the first.
ReserveDiscountTwice(o, row, c) ==
    LET amount == CalculateDiscountAmount(c, row.price) IN
    /\ row.status \in Unpaid
    /\ used[c] < MaxUses[c]
    /\ amount > 0
    /\ used' = [used EXCEPT ![c] = @ + 1]
    /\ price' = [price EXCEPT ![o] = Flush(@, row.price, row.price - amount)]
    /\ discount' = [discount EXCEPT ![o] = Flush(@, row.discount, amount)]

\* Faulty: a code is accepted whatever the order's status.
ReserveDiscountAnyTime(o, row, c) ==
    LET amount == CalculateDiscountAmount(c, row.price) IN
    /\ redemption[o] = NoRedemption
    /\ used[c] < MaxUses[c]
    /\ amount > 0
    /\ used' = [used EXCEPT ![c] = @ + 1]
    /\ price' = [price EXCEPT ![o] = Flush(@, row.price, row.price - amount)]
    /\ discount' = [discount EXCEPT ![o] = Flush(@, row.discount, amount)]

\* The code row is locked, so its used_count is current.
ReserveDiscount(o, row, c) ==
    LET amount == CalculateDiscountAmount(c, row.price) IN
    /\ row.status \in Unpaid
    /\ redemption[o] = NoRedemption
    /\ used[c] < MaxUses[c]
    /\ amount > 0
    /\ used' = [used EXCEPT ![c] = @ + 1]
    /\ price' = [price EXCEPT ![o] = Flush(@, row.price, row.price - amount)]
    /\ discount' = [discount EXCEPT ![o] = Flush(@, row.discount, amount)]

Redeemed(r) == IF r.status = "reserved" THEN [r EXCEPT !.status = "redeemed"]
               ELSE r

\* Faulty: a released redemption is passed over instead of refused.
RedeemReleased(o) ==
    /\ redemption' = [redemption EXCEPT ![o] = Redeemed(@)]
    /\ UNCHANGED <<price, discount, used>>

RedeemDiscount(o) ==
    /\ redemption[o].status # "released"
    /\ redemption' = [redemption EXCEPT ![o] = Redeemed(@)]
    /\ UNCHANGED <<price, discount, used>>

\* Faulty: the order keeps its discount_amount.
ReleaseKeepingAmount(o, row) ==
    /\ redemption[o].status # "redeemed"
    /\ IF redemption[o].status = "reserved"
       THEN /\ used' = [used EXCEPT ![redemption[o].code] = Minus(@, 1)]
            /\ price' = [price EXCEPT
                 ![o] = Flush(@, row.price, row.price + redemption[o].amount)]
            /\ redemption' = [redemption EXCEPT ![o].status = "released"]
            /\ UNCHANGED discount
       ELSE UNCHANGED discountVars

ReleaseDiscount(o, row) ==
    /\ redemption[o].status # "redeemed"
    /\ IF redemption[o].status = "reserved"
       THEN /\ used' = [used EXCEPT ![redemption[o].code] = Minus(@, 1)]
            /\ price' = [price EXCEPT
                 ![o] = Flush(@, row.price, row.price + redemption[o].amount)]
            /\ discount' = [discount EXCEPT ![o] = Flush(@, row.discount, 0)]
            /\ redemption' = [redemption EXCEPT ![o].status = "released"]
       ELSE UNCHANGED discountVars

Reserved(c) == {o \in Orders : /\ redemption[o].status = "reserved"
                               /\ redemption[o].code = c}

\* Faulty: orders that already started a payment are forgotten.
StaleBeforePayment == {o \in Orders : /\ redemption[o].status = "reserved"
                                      /\ status[o] \in {"pending", "canceled"}}

\* Reservations the clean-up looks at once their order is old enough.
StaleCandidates == {o \in Orders : /\ redemption[o].status = "reserved"
                                   /\ status[o] \in Unpaid \cup {"canceled"}}

\* One run of the clean-up, in one transaction: S are the candidates older
\* than max_age_hours.  The orders are loaded by the lock, so they are fresh.
ReleaseStaleDiscounts(S) ==
    /\ S # {} /\ S \subseteq StaleCandidates
    /\ used' = [c \in Codes |-> Minus(used[c], Cardinality(Reserved(c) \cap S))]
    /\ price' = [o \in Orders |-> IF o \in S THEN price[o] + redemption[o].amount
                                  ELSE price[o]]
    /\ discount' = [o \in Orders |-> IF o \in S THEN 0 ELSE discount[o]]
    /\ redemption' = [o \in Orders |->
                        IF o \in S THEN [redemption[o] EXCEPT !.status = "released"]
                        ELSE redemption[o]]
    /\ UNCHANGED <<status, payment, balance, ledger, captured>>

-----------------------------------------------------------------------------
(* services/orders.py *)

PlaceOrder(o) ==
    /\ status[o] = "absent"
    /\ status' = [status EXCEPT ![o] = "awaiting_payment"]
    /\ UNCHANGED <<discountVars, payment, walletVars, captured>>

-----------------------------------------------------------------------------
(* services/payments.py *)

\* An order keeps one pending payment per method; a second call returns it.
CreatePendingPayment(o, row, via) ==
    /\ row.status \in Unpaid
    /\ PendingVia(o, {via}) = {}
    /\ \E p \in PaymentIds :
         /\ NextId(p)
         /\ payment' = [payment EXCEPT
                          ![p] = NewPayment(o, via, row.price, "pending")]
    /\ SetStatus(o, row, "awaiting_payment")
    /\ UNCHANGED <<discountVars, walletVars, captured>>

\* Faulty: the amount is not compared with the order.
MayVerifyAnyAmount(p, row) ==
    /\ payment[p].status = "pending"
    /\ redemption[payment[p].order].status # "released"

MayVerify(p, row) ==
    /\ payment[p].status = "pending"
    /\ payment[p].amount = row.price
    /\ redemption[payment[p].order].status # "released"

VerifyPayment(p, row) ==
    LET o == payment[p].order IN
    /\ MayVerify(p, row)
    /\ RedeemDiscount(o)
    /\ payment' = [payment EXCEPT ![p].status = "verified"]
    /\ SetStatus(o, row, "paid")
    /\ UNCHANGED walletVars

FailPayment(p) ==
    /\ payment[p].status = "pending"
    /\ FailPayments({p})
    /\ UNCHANGED <<status, discountVars, walletVars, captured>>

\* The newest manual payment is verified; an order without one gets one first.
ApproveManualOrder(o, row) ==
    /\ row.status \in Unpaid
    /\ \/ \E p \in Newest(PendingVia(o, ManualMethods)) : VerifyPayment(p, row)
       \/ /\ PendingVia(o, ManualMethods) = {}
          /\ RedeemDiscount(o)
          /\ \E p \in PaymentIds :
               /\ NextId(p)
               /\ payment' = [payment EXCEPT
                               ![p] = NewPayment(o, Receipt, row.price, "verified")]
          /\ SetStatus(o, row, "paid")
          /\ UNCHANGED walletVars
    /\ UNCHANGED captured

\* Faulty: the newest manual payment is refused whatever became of it.
RejectAnyManualPayment(o, row) ==
    /\ row.status \in Unpaid
    /\ \E p \in Newest({q \in PendingVia(o, ManualMethods) \cup PaymentsOf(o, "verified") :
                         payment[q].via \in ManualMethods}) : FailPayments({p})
    /\ SetStatus(o, row, "awaiting_payment")
    /\ UNCHANGED <<discountVars, walletVars, captured>>

RejectPendingManualPayment(o, row) ==
    /\ row.status \in Unpaid
    /\ \E p \in Newest(PendingVia(o, ManualMethods)) : FailPayments({p})
    /\ SetStatus(o, row, "awaiting_payment")
    /\ UNCHANGED <<discountVars, walletVars, captured>>

\* Faulty: pending payments outlive the order.
CancelKeepingPayments(o, row) ==
    /\ row.status \in Unpaid
    /\ ReleaseDiscount(o, row)
    /\ SetStatus(o, row, "canceled")
    /\ UNCHANGED <<payment, walletVars, captured>>

\* Faulty: orders past the payment stage are canceled too.
CancelAnyOrder(o, row) ==
    /\ row.status # "absent"
    /\ ReleaseDiscount(o, row)
    /\ SetStatus(o, row, "canceled")
    /\ FailPayments(PaymentsOf(o, "pending"))
    /\ UNCHANGED <<walletVars, captured>>

CancelUnpaidOrder(o, row) ==
    /\ row.status \in Unpaid
    /\ ReleaseDiscount(o, row)
    /\ SetStatus(o, row, "canceled")
    /\ FailPayments(PaymentsOf(o, "pending"))
    /\ UNCHANGED <<walletVars, captured>>

-----------------------------------------------------------------------------
(* services/wallets.py: `seen` is the session's copy of the wallet balance *)

\* Faulty: a replayed credit is added again.
CreditWalletAgain(c, k, amount, seen) ==
    /\ balance' = [balance EXCEPT ![c] = Flush(@, seen, seen + amount)]
    /\ ledger' = [ledger EXCEPT
                    ![k] = [kind |-> "credit", customer |-> c, amount |-> amount]]
    /\ UNCHANGED <<status, discountVars, payment, captured>>

CreditWallet(c, k, amount, seen) ==
    /\ ledger[k] = NoEntry
    /\ balance' = [balance EXCEPT ![c] = Flush(@, seen, seen + amount)]
    /\ ledger' = [ledger EXCEPT
                    ![k] = [kind |-> "credit", customer |-> c, amount |-> amount]]
    /\ UNCHANGED <<status, discountVars, payment, captured>>

\* Faulty: the balance is not checked.
DebitWalletUnchecked(c, k, amount, seen) ==
    \/ ledger[k].kind = "debit" /\ UNCHANGED walletVars
    \/ /\ ledger[k] = NoEntry
       /\ balance' = [balance EXCEPT ![c] = Flush(@, seen, seen - amount)]
       /\ ledger' = [ledger EXCEPT
                       ![k] = [kind |-> "debit", customer |-> c, amount |-> amount]]

\* Faulty: any transaction under the key passes for the debit.
DebitWalletAnyKey(c, k, amount, seen) ==
    \/ ledger[k] # NoEntry /\ UNCHANGED walletVars
    \/ /\ ledger[k] = NoEntry
       /\ amount <= seen
       /\ balance' = [balance EXCEPT ![c] = Flush(@, seen, seen - amount)]
       /\ ledger' = [ledger EXCEPT
                       ![k] = [kind |-> "debit", customer |-> c, amount |-> amount]]

\* A key that already holds a debit is returned; one that holds a credit fails.
DebitWallet(c, k, amount, seen) ==
    \/ ledger[k].kind = "debit" /\ UNCHANGED walletVars
    \/ /\ ledger[k] = NoEntry
       /\ amount <= seen
       /\ balance' = [balance EXCEPT ![c] = Flush(@, seen, seen - amount)]
       /\ ledger' = [ledger EXCEPT
                       ![k] = [kind |-> "debit", customer |-> c, amount |-> amount]]

PayOrderWithWallet(o, row, seen) ==
    /\ PaymentsOf(o, "verified") = {}
    /\ row.status \in Unpaid
    /\ row.price > 0
    /\ DebitWallet(Owner[o], WalletKey[o], row.price, seen)
    /\ RedeemDiscount(o)
    /\ \E p \in PaymentIds :
         /\ NextId(p)
         /\ FailPendingAndAdd(o, p, NewPayment(o, "wallet", row.price, "verified"))
    /\ SetStatus(o, row, "paid")
    /\ UNCHANGED captured

-----------------------------------------------------------------------------
(* Handlers: each is one transaction over the row its session holds.       *)

\* routers/discounts.py: the reservation and, when nothing is left to pay,
\* settle_zero_price_order, which returns early if a payment is verified.
SettleZeroPriceOrder(o, row) ==
    /\ \E p \in PaymentIds :
         /\ NextId(p)
         /\ FailPendingAndAdd(o, p, NewPayment(o, "discount", 0, "verified"))
    /\ SetStatus(o, row, "paid")

ApplyDiscountCode(o, row, c) ==
    LET amount  == CalculateDiscountAmount(c, row.price)
        settles == row.price = amount /\ PaymentsOf(o, "verified") = {}
    IN  /\ ReserveDiscount(o, row, c)
        /\ redemption' = [redemption EXCEPT
              ![o] = [status |-> IF settles THEN "redeemed" ELSE "reserved",
                      code |-> c, amount |-> amount]]
        /\ IF settles THEN SettleZeroPriceOrder(o, row)
           ELSE UNCHANGED <<status, payment>>
        /\ UNCHANGED <<walletVars, captured>>

\* routers/payments.py; a gateway that cannot create the intent rolls back.
StartGatewayPayment(o, row, g) == g \in Gateways /\ CreatePendingPayment(o, row, g)

\* routers/customer.py
SubmitReceipt(o, row, m) == m \in ManualMethods /\ CreatePendingPayment(o, row, m)

\* payment_callbacks.py.  The gateway settles a payment when it is asked to
\* verify it, and from then on says "paid".
AwaitsGateway(p) == payment[p].status = "pending" /\ payment[p].via \in Gateways

\* Faulty: the callback trusts the gateway whatever the payment's status.
CallbackRevives(p, row) ==
    /\ payment[p] # NoPayment /\ payment[p].via \in Gateways
    /\ captured' = captured \cup {p}
    /\ payment' = [payment EXCEPT ![p].status = "verified"]
    /\ RedeemDiscount(payment[p].order)
    /\ SetStatus(payment[p].order, row, "paid")
    /\ UNCHANGED walletVars

CallbackPaid(p, row) ==
    /\ AwaitsGateway(p)
    /\ captured' = captured \cup {p}
    /\ \/ VerifyPayment(p, row)
       \/ /\ ~MayVerify(p, row)
          /\ UNCHANGED <<status, discountVars, payment, walletVars>>

CallbackNotPaid(p) == AwaitsGateway(p) /\ p \notin captured /\ FailPayment(p)

\* Faulty: fulfillment is retried before a payment is verified.
FulfillAnyOrder(o, row, outcome) ==
    /\ row.status # "absent"
    /\ status' = [status EXCEPT ![o] = outcome]
    /\ UNCHANGED <<discountVars, payment, walletVars, captured>>

\* services/fulfillment.py, as far as the order's status goes: it is flushed as
\* "provisioning" on the way, so the outcome is always written.  A completed
\* order that is fulfilled again stays completed; Fulfillment has that step.
FulfillPaidOrder(o, row, outcome) ==
    /\ row.status \in {"paid", "provisioning", "failed"}
    /\ status' = [status EXCEPT ![o] = outcome]
    /\ UNCHANGED <<discountVars, payment, walletVars, captured>>

-----------------------------------------------------------------------------
(* Every handler alone *)

Next ==
    \/ \E o \in Orders : PlaceOrder(o)
    \/ \E o \in Orders, c \in Codes : ApplyDiscountCode(o, Row(o), c)
    \/ \E o \in Orders, g \in Gateways : StartGatewayPayment(o, Row(o), g)
    \/ \E o \in Orders, m \in ManualMethods : SubmitReceipt(o, Row(o), m)
    \/ \E p \in PaymentIds : CallbackPaid(p, Row(payment[p].order))
    \/ \E p \in PaymentIds : CallbackNotPaid(p)
    \/ \E o \in Orders : ApproveManualOrder(o, Row(o))
    \/ \E o \in Orders : RejectPendingManualPayment(o, Row(o))
    \/ \E o \in Orders : CancelUnpaidOrder(o, Row(o))
    \/ \E o \in Orders : PayOrderWithWallet(o, Row(o), balance[Owner[o]])
    \/ \E c \in Customers, k \in Keys, a \in Amounts :
         CreditWallet(c, k, a, balance[c])
    \/ \E S \in SUBSET Orders : ReleaseStaleDiscounts(S)
    \/ \E o \in Orders, outcome \in {"completed", "failed"} :
         FulfillPaidOrder(o, Row(o), outcome)

Spec == Init /\ [][Next]_vars

\* The maintenance loop runs for ever and every reservation grows old enough.
MaintenanceRuns == \E S \in SUBSET Orders : ReleaseStaleDiscounts(S)
FairSpec == Spec /\ WF_vars(MaintenanceRuns)
=============================================================================
