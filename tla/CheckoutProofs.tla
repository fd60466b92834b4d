--------------------------- MODULE CheckoutProofs ---------------------------
(***************************************************************************)
(* Proofs about Checkout and CheckoutSessions, for any numbers of orders,  *)
(* codes, payments, customers and concurrent sessions.                     *)
(***************************************************************************)
EXTENDS CheckoutSessions, SumTheorems, TLAPS

-----------------------------------------------------------------------------
(* Helpers *)

\* A column the session holds up to date is written as computed.
LEMMA FlushCurrent == ASSUME NEW x, NEW n PROVE Flush(x, x, n) = n
  BY DEF Flush

\* A discount is a natural number, at most the price (services/discounts.py:30-46).
LEMMA DiscountBounded ==
  ASSUME NEW c \in Codes, NEW n \in Nat
  PROVE  CalculateDiscountAmount(c, n) \in 0..n
<1>1. Value[c] \in Nat
  BY CodesAssumption
<1>2. \A m \in Nat : m \div 100 \in Nat
  BY SMT
<1>3. n * Value[c] \in Nat
  BY <1>1, SMT
<1>. DEFINE off == IF Kind[c] = "fixed" THEN Value[c] ELSE (n * Value[c]) \div 100
<1>4. off \in Nat
  BY <1>1, <1>2, <1>3
<1>. HIDE DEF off
<1>5. AtMost(n, off) \in 0..n
  BY <1>4 DEF AtMost
<1>. QED
  BY <1>5 DEF off, CalculateDiscountAmount

\* What each service leaves in the discount columns, over the current row.
LEMMA ReserveEffect ==
  ASSUME TypeOK, NEW o \in Orders, NEW c \in Codes, ReserveDiscount(o, Row(o), c)
  PROVE  /\ CalculateDiscountAmount(c, price[o]) \in 1..price[o]
         /\ status[o] \in Unpaid
         /\ redemption[o] = NoRedemption
         /\ used' = [used EXCEPT ![c] = @ + 1]
         /\ price' = [price EXCEPT ![o] = @ - CalculateDiscountAmount(c, price[o])]
         /\ discount' = [discount EXCEPT ![o] = CalculateDiscountAmount(c, price[o])]
<1>1. price[o] \in Nat
  BY DEF TypeOK
<1>2. CalculateDiscountAmount(c, price[o]) \in 0..price[o]
  BY <1>1, DiscountBounded
<1>. DEFINE amount == CalculateDiscountAmount(c, price[o])
<1>3. /\ status[o] \in Unpaid
      /\ redemption[o] = NoRedemption
      /\ amount > 0
      /\ used' = [used EXCEPT ![c] = @ + 1]
      /\ price' = [price EXCEPT ![o] = Flush(@, price[o], price[o] - amount)]
      /\ discount' = [discount EXCEPT ![o] = Flush(@, discount[o], amount)]
  BY DEF ReserveDiscount, Row
<1>. HIDE DEF amount
<1>4. Flush(price[o], price[o], price[o] - amount) = price[o] - amount
  BY FlushCurrent
<1>5. Flush(discount[o], discount[o], amount) = amount
  BY FlushCurrent
<1>6. amount \in 1..price[o]
  BY <1>1, <1>2, <1>3 DEF amount
<1>7. price' = [price EXCEPT ![o] = @ - amount]
  BY <1>3, <1>4
<1>8. discount' = [discount EXCEPT ![o] = amount]
  BY <1>3, <1>5
<1>. QED
  BY <1>3, <1>6, <1>7, <1>8 DEF amount

LEMMA ReleaseEffect ==
  ASSUME TypeOK, NEW o \in Orders, ReleaseDiscount(o, Row(o))
  PROVE  /\ redemption[o].status # "redeemed"
         /\ redemption[o].status = "reserved" =>
              /\ used' = [used EXCEPT ![redemption[o].code] = Minus(@, 1)]
              /\ price' = [price EXCEPT ![o] = @ + redemption[o].amount]
              /\ discount' = [discount EXCEPT ![o] = 0]
              /\ redemption' = [redemption EXCEPT ![o].status = "released"]
         /\ redemption[o].status # "reserved" => UNCHANGED discountVars
  BY FlushCurrent DEF ReleaseDiscount, Row, TypeOK

LEMMA SetStatusEffect ==
  ASSUME NEW o \in Orders, NEW s, TypeOK, SetStatus(o, Row(o), s)
  PROVE  status' = [status EXCEPT ![o] = s]
  BY FlushCurrent DEF SetStatus, Row, TypeOK

LEMMA MinusType == ASSUME NEW m \in Nat, NEW n \in Nat PROVE Minus(m, n) \in Nat
  BY DEF Minus

-----------------------------------------------------------------------------
(* The inductive invariant.  Each property leans on the others: that a     *)
(* verified payment keeps matching the price needs that a price moves only *)
(* while a redemption is reserved or absent, that is only while the order  *)
(* is unpaid, that is only while no payment of it is verified; that        *)
(* canceled orders stay canceled needs that no payment of them is pending. *)

\* No payment waits for an order that was never placed.
NothingBeforeOrder == \A o \in Orders :
    status[o] = "absent" => PaymentsOf(o, "pending") = {}

IInv == /\ TypeOK
        /\ PriceSplit
        /\ PaidIffVerified
        /\ SettledAtFinalPrice
        /\ DiscountFollowsOrder
        /\ ClosedOrdersHaveNoPending
        /\ NothingBeforeOrder

LEMMA InitIInv == Init => IInv
<1>. SUFFICES ASSUME Init PROVE IInv
  OBVIOUS
<1>1. TypeOK
  BY OrdersAssumption
     DEF Init, TypeOK, OrderStatus, Payment, Redemption, Entry
<1>2. \A o \in Orders, st \in {"pending", "verified"} : PaymentsOf(o, st) = {}
  BY DEF Init, PaymentsOf, NoPayment
<1>3. PriceSplit
  BY OrdersAssumption DEF Init, PriceSplit, Live, NoRedemption
<1>4. /\ PaidIffVerified /\ SettledAtFinalPrice
      /\ ClosedOrdersHaveNoPending /\ NothingBeforeOrder
  BY <1>2 DEF Init, PaidIffVerified, SettledAtFinalPrice, Verified, Settled,
              ClosedOrdersHaveNoPending, NothingBeforeOrder
<1>5. DiscountFollowsOrder
  BY DEF Init, DiscountFollowsOrder, NoRedemption
<1>. QED
  BY <1>1, <1>3, <1>4, <1>5 DEF IInv

\* Steps that leave orders, discounts and payments alone.
LEMMA FrameIInv ==
  ASSUME IInv, TypeOK', UNCHANGED <<status, discountVars, payment>>
  PROVE  IInv'
<1>1. UNCHANGED <<price, discount, redemption>>
  BY DEF discountVars
<1>2. PriceSplit' /\ DiscountFollowsOrder'
  BY <1>1 DEF IInv, PriceSplit, DiscountFollowsOrder, Live
<1>3. \A st : \A o \in Orders : PaymentsOf(o, st)' = PaymentsOf(o, st)
  BY DEF PaymentsOf
<1>4. /\ PaidIffVerified' /\ SettledAtFinalPrice'
      /\ ClosedOrdersHaveNoPending' /\ NothingBeforeOrder'
  BY <1>1, <1>3 DEF IInv, PaidIffVerified, SettledAtFinalPrice, Verified,
                    ClosedOrdersHaveNoPending, NothingBeforeOrder
<1>. QED
  BY <1>2, <1>4 DEF IInv

LEMMA PlaceIInv ==
  ASSUME IInv, NEW o \in Orders, PlaceOrder(o) PROVE IInv'
<1>1. TypeOK'
  BY DEF IInv, TypeOK, PlaceOrder, discountVars, walletVars, OrderStatus, Unpaid
<1>2. \A st : \A x \in Orders : PaymentsOf(x, st)' = PaymentsOf(x, st)
  BY DEF PlaceOrder, PaymentsOf
<1>3. /\ status[o] = "absent"
      /\ status' = [status EXCEPT ![o] = "awaiting_payment"]
      /\ UNCHANGED <<price, discount, redemption, payment>>
  BY DEF PlaceOrder, discountVars
<1>4. \A x \in Orders : x # o => status'[x] = status[x]
  BY <1>3 DEF IInv, TypeOK
<1>5. status'[o] = "awaiting_payment"
  BY <1>3 DEF IInv, TypeOK
<1>6. PriceSplit'
  BY <1>3 DEF IInv, PriceSplit, Live
<1>7. /\ PaidIffVerified' /\ SettledAtFinalPrice'
      /\ ClosedOrdersHaveNoPending' /\ NothingBeforeOrder'
  BY <1>2, <1>3, <1>4, <1>5
     DEF IInv, PaidIffVerified, SettledAtFinalPrice, Verified, Settled,
         ClosedOrdersHaveNoPending, NothingBeforeOrder
<1>8. DiscountFollowsOrder'
  BY <1>3, <1>4, <1>5 DEF IInv, DiscountFollowsOrder, Settled, Unpaid
<1>. QED
  BY <1>1, <1>6, <1>7, <1>8 DEF IInv

LEMMA FulfillIInv ==
  ASSUME IInv, NEW o \in Orders, NEW outcome \in {"completed", "failed"},
         FulfillPaidOrder(o, Row(o), outcome)
  PROVE  IInv'
<1>1. /\ status[o] \in Settled
      /\ status' = [status EXCEPT ![o] = outcome]
      /\ UNCHANGED <<discountVars, payment, walletVars, captured>>
  BY DEF FulfillPaidOrder, Row, Settled
<1>2. TypeOK'
  BY <1>1 DEF IInv, TypeOK, discountVars, walletVars, OrderStatus, Settled
<1>3. \A x \in Orders : /\ status'[x] \in Settled <=> status[x] \in Settled
                        /\ status'[x] \in Unpaid <=> status[x] \in Unpaid
                        /\ status'[x] = "canceled" <=> status[x] = "canceled"
                        /\ status'[x] = "absent" <=> status[x] = "absent"
  BY <1>1 DEF IInv, TypeOK, Settled, Unpaid
<1>4. UNCHANGED <<price, discount, redemption, payment>>
  BY <1>1 DEF discountVars
<1>5. \A st : \A x \in Orders : PaymentsOf(x, st)' = PaymentsOf(x, st)
  BY <1>1 DEF PaymentsOf
<1>6. PriceSplit' /\ DiscountFollowsOrder'
  BY <1>3, <1>4 DEF IInv, PriceSplit, DiscountFollowsOrder, Live
<1>7. /\ PaidIffVerified' /\ SettledAtFinalPrice'
      /\ ClosedOrdersHaveNoPending' /\ NothingBeforeOrder'
  BY <1>3, <1>4, <1>5 DEF IInv, PaidIffVerified, SettledAtFinalPrice, Verified,
                          ClosedOrdersHaveNoPending, NothingBeforeOrder
<1>. QED
  BY <1>2, <1>6, <1>7 DEF IInv

-----------------------------------------------------------------------------
(* Steps that make an order paid, in one lemma: the order's redemption is  *)
(* spent, and the verified payments it now has are for its price.          *)

LEMMA PaidIInv ==
  ASSUME IInv, TypeOK', NEW o \in Orders,
         status' = [status EXCEPT ![o] = "paid"],
         redemption[o].status # "released",
         redemption' = [redemption EXCEPT ![o] = Redeemed(@)],
         UNCHANGED <<price, discount>>,
         \A x \in Orders \ {o}, st \in {"pending", "verified"} :
           PaymentsOf(x, st)' = PaymentsOf(x, st),
         \A q \in PaymentIds : payment[q].status = "verified" =>
           payment'[q] = payment[q],
         PaymentsOf(o, "verified")' # {},
         \A q \in PaymentsOf(o, "verified")' : payment'[q].amount = price[o],
         (\E q \in PaymentsOf(o, "verified")' :
            payment'[q].via \in {"wallet", "discount"})
           => PaymentsOf(o, "pending")' = {}
  PROVE  IInv'
<1>1. /\ status'[o] = "paid"
      /\ \A x \in Orders \ {o} : status'[x] = status[x]
  BY DEF IInv, TypeOK
<1>2. /\ redemption'[o] = Redeemed(redemption[o])
      /\ \A x \in Orders \ {o} : redemption'[x] = redemption[x]
  BY DEF IInv, TypeOK
<1>3. /\ redemption'[o].status \notin {"reserved", "released"}
      /\ Live(o)' <=> Live(o)
      /\ Live(o) => redemption'[o].amount = redemption[o].amount
  BY <1>2 DEF IInv, TypeOK, Redeemed, Redemption, NoRedemption, Live
<1>4. PriceSplit'
  BY <1>2, <1>3 DEF IInv, PriceSplit, Live
<1>5. PaidIffVerified'
  BY <1>1 DEF IInv, PaidIffVerified, Verified, Settled
<1>6. SettledAtFinalPrice'
  BY DEF IInv, SettledAtFinalPrice, Verified, PaymentsOf
<1>7. DiscountFollowsOrder'
  BY <1>1, <1>2, <1>3 DEF IInv, DiscountFollowsOrder, Settled
<1>8. ClosedOrdersHaveNoPending' /\ NothingBeforeOrder'
  BY <1>1 DEF IInv, ClosedOrdersHaveNoPending, NothingBeforeOrder, Verified, PaymentsOf
<1>. QED
  BY <1>4, <1>5, <1>6, <1>7, <1>8 DEF IInv

\* An order that can still be paid has no verified payment.
LEMMA UnpaidUnverified ==
  ASSUME IInv, NEW o \in Orders, status[o] \in Unpaid
  PROVE  PaymentsOf(o, "verified") = {}
  BY DEF IInv, PaidIffVerified, Verified, Unpaid, Settled

LEMMA VerifyIInv ==
  ASSUME IInv, NEW p \in PaymentIds, payment[p].status = "pending",
         payment[p].via \in Gateways \cup ManualMethods,
         VerifyPayment(p, Row(payment[p].order)), captured' \subseteq PaymentIds
  PROVE  IInv'
<1>1. payment[p] \in Payment
  BY DEF IInv, TypeOK, NoPayment, Payment
<1>o. PICK o \in Orders : o = payment[p].order
  BY <1>1 DEF Payment
<1>2. /\ payment[p].amount = price[o]
      /\ redemption[o].status # "released"
      /\ redemption' = [redemption EXCEPT ![o] = Redeemed(@)]
      /\ payment' = [payment EXCEPT ![p].status = "verified"]
      /\ SetStatus(o, Row(o), "paid")
      /\ UNCHANGED <<price, discount, used, balance, ledger>>
  BY <1>o DEF VerifyPayment, MayVerify, RedeemDiscount, Row, walletVars
<1>3. status' = [status EXCEPT ![o] = "paid"]
  BY <1>1, <1>2, SetStatusEffect DEF IInv
<1>4. /\ payment'[p] \in Payment
      /\ payment'[p].status = "verified"
      /\ payment'[p].order = o
      /\ payment'[p].amount = price[o]
      /\ payment'[p].via = payment[p].via
      /\ \A q \in PaymentIds \ {p} : payment'[q] = payment[q]
  BY <1>1, <1>2, <1>o DEF IInv, TypeOK, Payment
<1>5. TypeOK'
  <2>1. status' \in [Orders -> OrderStatus]
    BY <1>3 DEF IInv, TypeOK, OrderStatus, Settled
  <2>2. payment' \in [PaymentIds -> Payment \cup {NoPayment}]
    BY <1>2, <1>4 DEF IInv, TypeOK
  <2>3. redemption' \in [Orders -> Redemption \cup {NoRedemption}]
    BY <1>1, <1>2 DEF IInv, TypeOK, Redeemed, Redemption, NoRedemption
  <2>. QED
    BY <1>2, <2>1, <2>2, <2>3 DEF IInv, TypeOK
<1>6. \A x \in Orders \ {o}, st \in {"pending", "verified"} :
         PaymentsOf(x, st)' = PaymentsOf(x, st)
  BY <1>4, <1>o DEF PaymentsOf
<1>7. p \in PaymentsOf(o, "verified")'
  BY <1>4 DEF PaymentsOf
<1>8. \A q \in PaymentsOf(o, "verified")' : payment'[q].amount = price[o]
  BY <1>1, <1>4 DEF IInv, SettledAtFinalPrice, Verified, PaymentsOf
<1>9. \A q \in PaymentsOf(o, "verified")' :
         payment'[q].via \notin {"wallet", "discount"}
  <2>1. payment[p].via \notin {"wallet", "discount"}
    BY PaymentsAssumption
  <2>2. p \in PaymentsOf(o, "pending")
    BY <1>o DEF PaymentsOf
  <2>3. \A q \in PaymentsOf(o, "verified") :
           payment[q].via \notin {"wallet", "discount"}
    BY <1>1, <2>2 DEF IInv, ClosedOrdersHaveNoPending, Verified
  <2>. QED
    BY <1>4, <2>1, <2>3 DEF PaymentsOf
<1>10. \A q \in PaymentIds : payment[q].status = "verified" =>
         payment'[q] = payment[q]
  BY <1>4
<1>. QED
  BY <1>1, <1>2, <1>3, <1>5, <1>6, <1>7, <1>8, <1>9, <1>10, PaidIInv

LEMMA CallbackPaidIInv ==
  ASSUME IInv, NEW p \in PaymentIds, CallbackPaid(p, Row(payment[p].order))
  PROVE  IInv'
<1>1. /\ payment[p].status = "pending"
      /\ payment[p].via \in Gateways
      /\ captured' = captured \cup {p}
  BY DEF CallbackPaid, AwaitsGateway
<1>2. captured' \subseteq PaymentIds
  BY <1>1 DEF IInv, TypeOK
<1>3. CASE VerifyPayment(p, Row(payment[p].order))
  BY <1>1, <1>2, <1>3, VerifyIInv
<1>4. CASE UNCHANGED <<status, discountVars, payment, walletVars>>
  <2>1. TypeOK'
    BY <1>2, <1>4 DEF IInv, TypeOK, discountVars, walletVars
  <2>. QED
    BY <1>4, <2>1, FrameIInv
<1>. QED
  BY <1>3, <1>4 DEF CallbackPaid

\* What FailPendingAndAdd leaves: the pending payments of the order are gone,
\* the new one is its only new verified payment.
LEMMA SettlementPayments ==
  ASSUME TypeOK, NEW o \in Orders, NEW p \in PaymentIds, NextId(p),
         NEW via \in Methods, NEW amount \in Nat,
         FailPendingAndAdd(o, p, NewPayment(o, via, amount, "verified"))
  PROVE  /\ payment' \in [PaymentIds -> Payment \cup {NoPayment}]
         /\ \A q \in PaymentIds : payment[q].status = "verified" =>
              payment'[q] = payment[q]
         /\ \A x \in Orders \ {o}, st \in {"pending", "verified"} :
              PaymentsOf(x, st)' = PaymentsOf(x, st)
         /\ PaymentsOf(o, "pending")' = {}
         /\ PaymentsOf(o, "verified")' = PaymentsOf(o, "verified") \cup {p}
         /\ payment'[p].amount = amount /\ payment'[p].via = via
<1>. DEFINE new == NewPayment(o, via, amount, "verified")
<1>1. /\ new \in Payment /\ new.order = o /\ new.status = "verified"
      /\ new.amount = amount /\ new.via = via
  BY DEF NewPayment, Payment
<1>. HIDE DEF new
<1>2. payment[p].status = "none"
  BY DEF NextId, NoPayment
<1>3. payment'[p] = new
  BY DEF FailPendingAndAdd, new
<1>4. \A q \in PaymentIds \ {p} : q \notin PaymentsOf(o, "pending") =>
        payment'[q] = payment[q]
  BY DEF FailPendingAndAdd
<1>5. \A q \in PaymentIds \ {p} : q \in PaymentsOf(o, "pending") =>
        /\ payment'[q] \in Payment
        /\ payment'[q].status = "failed"
        /\ payment'[q].order = o
  <2>. SUFFICES ASSUME NEW q \in PaymentIds \ {p}, q \in PaymentsOf(o, "pending")
                PROVE  /\ payment'[q] \in Payment
                       /\ payment'[q].status = "failed"
                       /\ payment'[q].order = o
    OBVIOUS
  <2>1. payment[q] \in Payment /\ payment[q].order = o
    BY DEF TypeOK, PaymentsOf, NoPayment
  <2>2. payment'[q] = [payment[q] EXCEPT !.status = "failed"]
    BY DEF FailPendingAndAdd
  <2>. QED
    BY <2>1, <2>2 DEF Payment
<1>6. \A q \in PaymentIds : payment'[q] \in Payment \cup {NoPayment}
  BY <1>1, <1>3, <1>4, <1>5 DEF TypeOK
<1>7. payment' \in [PaymentIds -> Payment \cup {NoPayment}]
  BY <1>6 DEF FailPendingAndAdd
<1>8. PaymentsOf(o, "pending")' = {}
  BY <1>1, <1>3, <1>4, <1>5 DEF PaymentsOf
<1>9. PaymentsOf(o, "verified")' = PaymentsOf(o, "verified") \cup {p}
  BY <1>1, <1>2, <1>3, <1>4, <1>5 DEF PaymentsOf
<1>10. \A x \in Orders \ {o}, st \in {"pending", "verified"} :
         PaymentsOf(x, st)' = PaymentsOf(x, st)
  BY <1>1, <1>2, <1>3, <1>4, <1>5 DEF PaymentsOf
<1>11. \A q \in PaymentIds : payment[q].status = "verified" =>
         payment'[q] = payment[q]
  BY <1>2, <1>4 DEF PaymentsOf
<1>. QED
  BY <1>1, <1>3, <1>7, <1>8, <1>9, <1>10, <1>11

LEMMA WalletIInv ==
  ASSUME IInv, NEW o \in Orders, PayOrderWithWallet(o, Row(o), balance[Owner[o]])
  PROVE  IInv'
<1>1. /\ PaymentsOf(o, "verified") = {}
      /\ price[o] \in Nat
      /\ DebitWallet(Owner[o], WalletKey[o], price[o], balance[Owner[o]])
      /\ redemption[o].status # "released"
      /\ redemption' = [redemption EXCEPT ![o] = Redeemed(@)]
      /\ UNCHANGED <<price, discount, used, captured>>
  BY DEF PayOrderWithWallet, Row, RedeemDiscount, IInv, TypeOK
<1>2. status' = [status EXCEPT ![o] = "paid"]
  BY SetStatusEffect DEF PayOrderWithWallet, IInv
<1>3. PICK p \in PaymentIds :
        NextId(p) /\ FailPendingAndAdd(o, p, NewPayment(o, "wallet", price[o], "verified"))
  BY DEF PayOrderWithWallet, Row
<1>4. /\ payment' \in [PaymentIds -> Payment \cup {NoPayment}]
      /\ \A q \in PaymentIds : payment[q].status = "verified" =>
           payment'[q] = payment[q]
      /\ \A x \in Orders \ {o}, st \in {"pending", "verified"} :
           PaymentsOf(x, st)' = PaymentsOf(x, st)
      /\ PaymentsOf(o, "pending")' = {}
      /\ PaymentsOf(o, "verified")' = PaymentsOf(o, "verified") \cup {p}
      /\ payment'[p].amount = price[o]
  BY <1>1, <1>3, SettlementPayments DEF IInv, Methods
<1>5. TypeOK'
  <2>1. status' \in [Orders -> OrderStatus]
    BY <1>2 DEF IInv, TypeOK, OrderStatus, Settled
  <2>2. redemption' \in [Orders -> Redemption \cup {NoRedemption}]
    BY <1>1 DEF IInv, TypeOK, Redeemed, Redemption, NoRedemption
  <2>3. balance' \in [Customers -> Nat] /\ ledger' \in [Keys -> Entry \cup {NoEntry}]
    <3>1. Owner[o] \in Customers /\ WalletKey[o] \in Keys
      BY OrdersAssumption, WalletAssumption
    <3>2. CASE UNCHANGED walletVars
      BY <3>2 DEF IInv, TypeOK, walletVars
    <3>3. CASE /\ price[o] <= balance[Owner[o]]
               /\ balance' = [balance EXCEPT ![Owner[o]] = balance[Owner[o]] - price[o]]
               /\ ledger' = [ledger EXCEPT ![WalletKey[o]] =
                    [kind |-> "debit", customer |-> Owner[o], amount |-> price[o]]]
      <4>1. [kind |-> "debit", customer |-> Owner[o], amount |-> price[o]] \in Entry
        BY <1>1, <3>1 DEF Entry
      <4>2. balance[Owner[o]] - price[o] \in Nat
        BY <1>1, <3>1, <3>3 DEF IInv, TypeOK
      <4>. QED
        BY <3>1, <3>3, <4>1, <4>2 DEF IInv, TypeOK
    <3>. QED
      BY <1>1, <3>1, <3>2, <3>3, FlushCurrent DEF DebitWallet
  <2>. QED
    BY <1>1, <1>4, <2>1, <2>2, <2>3 DEF IInv, TypeOK
<1>. QED
  BY <1>1, <1>2, <1>4, <1>5, PaidIInv

-----------------------------------------------------------------------------
(* Steps on payments that leave the order unpaid *)

\* Nothing was or is verified by the step, no closed order gets a pending
\* payment, and orders keep their stage.
LEMMA UnpaidStepIInv ==
  ASSUME IInv, TypeOK', UNCHANGED <<price, discount, redemption>>,
         \A x \in Orders : /\ status'[x] \in Unpaid <=> status[x] \in Unpaid
                           /\ status'[x] \in Settled <=> status[x] \in Settled
                           /\ status'[x] = "canceled" <=> status[x] = "canceled"
                           /\ status'[x] = "absent" <=> status[x] = "absent",
         \A x \in Orders : PaymentsOf(x, "verified")' = PaymentsOf(x, "verified"),
         \A q \in PaymentIds : payment[q].status = "verified" =>
           payment'[q] = payment[q],
         \A x \in Orders : PaymentsOf(x, "pending")' \subseteq PaymentsOf(x, "pending")
                           \/ status[x] \in Unpaid
  PROVE  IInv'
<1>1. PriceSplit' /\ DiscountFollowsOrder'
  BY DEF IInv, PriceSplit, DiscountFollowsOrder, Live
<1>2. \A x \in Orders, q \in PaymentIds : q \in PaymentsOf(x, "verified") =>
        payment'[q] = payment[q]
  BY DEF PaymentsOf
<1>3. PaidIffVerified' /\ SettledAtFinalPrice'
  BY <1>2 DEF IInv, PaidIffVerified, SettledAtFinalPrice, Verified, PaymentsOf
<1>4. ClosedOrdersHaveNoPending'
  <2>. SUFFICES ASSUME NEW x \in Orders,
                       \/ status'[x] = "canceled"
                       \/ \E q \in PaymentsOf(x, "verified")' :
                            payment'[q].via \in {"wallet", "discount"}
                PROVE  PaymentsOf(x, "pending")' = {}
    BY DEF ClosedOrdersHaveNoPending, Verified
  <2>1. \/ status[x] = "canceled"
        \/ \E q \in PaymentsOf(x, "verified") :
             payment[q].via \in {"wallet", "discount"}
    BY <1>2 DEF PaymentsOf
  <2>2. PaymentsOf(x, "pending") = {}
    BY <2>1 DEF IInv, ClosedOrdersHaveNoPending, Verified
  <2>3. status[x] \notin Unpaid
    BY <2>1, UnpaidUnverified DEF Unpaid
  <2>. QED
    BY <2>2, <2>3
<1>5. NothingBeforeOrder'
  BY DEF IInv, NothingBeforeOrder, Unpaid
<1>. QED
  BY <1>1, <1>3, <1>4, <1>5 DEF IInv

\* Rewriting an unpaid order's status as "awaiting_payment" keeps its stage.
LEMMA AwaitingStage ==
  ASSUME TypeOK, NEW o \in Orders, status[o] \in Unpaid,
         SetStatus(o, Row(o), "awaiting_payment")
  PROVE  /\ status' \in [Orders -> OrderStatus]
         /\ \A x \in Orders : /\ status'[x] \in Unpaid <=> status[x] \in Unpaid
                              /\ status'[x] \in Settled <=> status[x] \in Settled
                              /\ status'[x] = "canceled" <=> status[x] = "canceled"
                              /\ status'[x] = "absent" <=> status[x] = "absent"
<1>1. status' = [status EXCEPT ![o] = "awaiting_payment"]
  BY SetStatusEffect
<1>. QED
  BY <1>1 DEF TypeOK, OrderStatus, Unpaid, Settled

LEMMA CreatePendingIInv ==
  ASSUME IInv, NEW o \in Orders, NEW via \in Methods,
         CreatePendingPayment(o, Row(o), via)
  PROVE  IInv'
<1>1. /\ status[o] \in Unpaid
      /\ price[o] \in Nat
      /\ SetStatus(o, Row(o), "awaiting_payment")
      /\ UNCHANGED <<price, discount, redemption, used, balance, ledger, captured>>
  BY DEF CreatePendingPayment, Row, discountVars, walletVars, IInv, TypeOK
<1>2. PICK p \in PaymentIds :
        /\ payment[p] = NoPayment
        /\ payment' = [payment EXCEPT ![p] = NewPayment(o, via, price[o], "pending")]
  BY DEF CreatePendingPayment, Row, NextId
<1>3. NewPayment(o, via, price[o], "pending") \in Payment
  BY <1>1 DEF NewPayment, Payment
<1>4. /\ payment[p].status = "none"
      /\ payment'[p].status = "pending" /\ payment'[p].order = o
      /\ \A q \in PaymentIds \ {p} : payment'[q] = payment[q]
  <2>1. payment'[p] = NewPayment(o, via, price[o], "pending")
    BY <1>2 DEF IInv, TypeOK
  <2>2. \A q \in PaymentIds \ {p} : payment'[q] = payment[q]
    BY <1>2 DEF IInv, TypeOK
  <2>. QED
    BY <1>2, <2>1, <2>2 DEF NewPayment, NoPayment
<1>5. TypeOK'
  BY <1>1, <1>2, <1>3, AwaitingStage DEF IInv, TypeOK
<1>6. /\ \A x \in Orders : PaymentsOf(x, "verified")' = PaymentsOf(x, "verified")
      /\ \A q \in PaymentIds : payment[q].status = "verified" =>
           payment'[q] = payment[q]
      /\ \A x \in Orders \ {o} : PaymentsOf(x, "pending")' = PaymentsOf(x, "pending")
  BY <1>4 DEF PaymentsOf
<1>. QED
  BY <1>1, <1>5, <1>6, AwaitingStage, UnpaidStepIInv DEF IInv

\* Failing some pending payments.
LEMMA FailedPayments ==
  ASSUME TypeOK, NEW S \in SUBSET {q \in PaymentIds : payment[q].status = "pending"},
         FailPayments(S)
  PROVE  /\ payment' \in [PaymentIds -> Payment \cup {NoPayment}]
         /\ \A q \in S : payment'[q].status = "failed"
         /\ \A x \in Orders : PaymentsOf(x, "verified")' = PaymentsOf(x, "verified")
         /\ \A q \in PaymentIds : payment[q].status = "verified" =>
              payment'[q] = payment[q]
         /\ \A x \in Orders : PaymentsOf(x, "pending")' = PaymentsOf(x, "pending") \ S
<1>1. \A q \in S : /\ payment'[q] \in Payment
                   /\ payment'[q].status = "failed"
  <2>. SUFFICES ASSUME NEW q \in S
                PROVE  payment'[q] \in Payment /\ payment'[q].status = "failed"
    OBVIOUS
  <2>1. payment[q] \in Payment
    BY DEF TypeOK, NoPayment
  <2>2. payment'[q] = [payment[q] EXCEPT !.status = "failed"]
    BY DEF FailPayments
  <2>. QED
    BY <2>1, <2>2 DEF Payment
<1>2. \A q \in PaymentIds \ S : payment'[q] = payment[q]
  BY DEF FailPayments
<1>3. payment' \in [PaymentIds -> Payment \cup {NoPayment}]
  <2>1. \A q \in PaymentIds : payment'[q] \in Payment \cup {NoPayment}
    BY <1>1, <1>2 DEF TypeOK
  <2>. QED
    BY <2>1 DEF FailPayments
<1>4. \A x \in Orders : PaymentsOf(x, "verified")' = PaymentsOf(x, "verified")
  BY <1>1, <1>2 DEF PaymentsOf
<1>5. \A x \in Orders : PaymentsOf(x, "pending")' = PaymentsOf(x, "pending") \ S
  BY <1>1, <1>2 DEF PaymentsOf
<1>. QED
  BY <1>1, <1>2, <1>3, <1>4, <1>5

LEMMA CallbackNotPaidIInv ==
  ASSUME IInv, NEW p \in PaymentIds, CallbackNotPaid(p) PROVE IInv'
<1>1. /\ payment[p].status = "pending"
      /\ {p} \in SUBSET {q \in PaymentIds : payment[q].status = "pending"}
      /\ FailPayments({p})
      /\ UNCHANGED <<status, price, discount, redemption, used, balance, ledger, captured>>
  BY DEF CallbackNotPaid, FailPayment, discountVars, walletVars
<1>2. TypeOK'
  BY <1>1, FailedPayments DEF IInv, TypeOK
<1>. QED
  BY <1>1, <1>2, FailedPayments, UnpaidStepIInv DEF IInv

LEMMA RejectIInv ==
  ASSUME IInv, NEW o \in Orders, RejectPendingManualPayment(o, Row(o)) PROVE IInv'
<1>1. /\ status[o] \in Unpaid
      /\ SetStatus(o, Row(o), "awaiting_payment")
      /\ UNCHANGED <<price, discount, redemption, used, balance, ledger, captured>>
  BY DEF RejectPendingManualPayment, Row, discountVars, walletVars
<1>2. PICK p \in PaymentIds :
        /\ {p} \in SUBSET {q \in PaymentIds : payment[q].status = "pending"}
        /\ FailPayments({p})
  BY DEF RejectPendingManualPayment, Newest, PendingVia, PaymentsOf
<1>3. TypeOK'
  BY <1>1, <1>2, FailedPayments, AwaitingStage DEF IInv, TypeOK
<1>. QED
  BY <1>1, <1>2, <1>3, FailedPayments, AwaitingStage, UnpaidStepIInv DEF IInv

-----------------------------------------------------------------------------
(* Approval, cancellation, discounts and credits *)

LEMMA ApproveIInv ==
  ASSUME IInv, NEW o \in Orders, ApproveManualOrder(o, Row(o)) PROVE IInv'
<1>1. status[o] \in Unpaid /\ captured' = captured
  BY DEF ApproveManualOrder, Row
<1>2. CASE \E p \in Newest(PendingVia(o, ManualMethods)) : VerifyPayment(p, Row(o))
  <2>1. PICK p \in Newest(PendingVia(o, ManualMethods)) : VerifyPayment(p, Row(o))
    BY <1>2
  <2>2. /\ p \in PaymentIds /\ payment[p].status = "pending"
        /\ payment[p].order = o /\ payment[p].via \in ManualMethods
    BY DEF Newest, PendingVia, PaymentsOf
  <2>3. captured' \subseteq PaymentIds
    BY <1>1 DEF IInv, TypeOK
  <2>. QED
    BY <2>1, <2>2, <2>3, VerifyIInv
<1>3. CASE /\ PendingVia(o, ManualMethods) = {}
           /\ RedeemDiscount(o)
           /\ \E p \in PaymentIds :
                /\ NextId(p)
                /\ payment' = [payment EXCEPT
                                ![p] = NewPayment(o, Receipt, Row(o).price, "verified")]
           /\ SetStatus(o, Row(o), "paid")
           /\ UNCHANGED walletVars
  <2>0. Row(o).price = price[o]
    BY DEF Row
  <2>1. PICK p \in PaymentIds :
          /\ payment[p].status = "none"
          /\ payment' = [payment EXCEPT ![p] = NewPayment(o, Receipt, price[o], "verified")]
    <3>1. PICK p \in PaymentIds :
            /\ NextId(p)
            /\ payment' = [payment EXCEPT
                            ![p] = NewPayment(o, Receipt, Row(o).price, "verified")]
      BY <1>3
    <3>2. payment[p].status = "none"
      BY <3>1 DEF NextId, NoPayment
    <3>. QED
      BY <2>0, <3>1, <3>2
  <2>2. /\ status' = [status EXCEPT ![o] = "paid"]
        /\ redemption[o].status # "released"
        /\ redemption' = [redemption EXCEPT ![o] = Redeemed(@)]
        /\ UNCHANGED <<price, discount, used, balance, ledger>>
    BY <1>3, SetStatusEffect DEF RedeemDiscount, walletVars, IInv
  <2>3. NewPayment(o, Receipt, price[o], "verified") \in Payment
    BY PaymentsAssumption DEF IInv, TypeOK, NewPayment, Payment, Methods
  <2>4. /\ payment'[p] = NewPayment(o, Receipt, price[o], "verified")
        /\ \A q \in PaymentIds \ {p} : payment'[q] = payment[q]
    BY <2>1 DEF IInv, TypeOK
  <2>5. /\ payment'[p].status = "verified" /\ payment'[p].order = o
        /\ payment'[p].amount = price[o]
        /\ payment'[p].via \notin {"wallet", "discount"}
    BY <2>4, PaymentsAssumption DEF NewPayment
  <2>6. TypeOK'
    <3>1. status' \in [Orders -> OrderStatus]
      BY <2>2 DEF IInv, TypeOK, OrderStatus, Settled
    <3>2. redemption' \in [Orders -> Redemption \cup {NoRedemption}]
      BY <2>2 DEF IInv, TypeOK, Redeemed, Redemption, NoRedemption
    <3>3. payment' \in [PaymentIds -> Payment \cup {NoPayment}]
      BY <2>1, <2>3 DEF IInv, TypeOK
    <3>. QED
      BY <1>1, <2>2, <3>1, <3>2, <3>3 DEF IInv, TypeOK
  <2>7. \A x \in Orders \ {o}, st \in {"pending", "verified"} :
           PaymentsOf(x, st)' = PaymentsOf(x, st)
    BY <2>1, <2>4, <2>5 DEF PaymentsOf
  <2>8. PaymentsOf(o, "verified")' = {p}
    BY <1>1, <2>1, <2>4, <2>5, UnpaidUnverified DEF PaymentsOf
  <2>9. \A q \in PaymentIds : payment[q].status = "verified" =>
          payment'[q] = payment[q]
    BY <2>1, <2>4
  <2>. QED
    BY <2>2, <2>5, <2>6, <2>7, <2>8, <2>9, PaidIInv
<1>. QED
  BY <1>2, <1>3 DEF ApproveManualOrder

LEMMA CancelIInv ==
  ASSUME IInv, NEW o \in Orders, CancelUnpaidOrder(o, Row(o)) PROVE IInv'
<1>1. /\ status[o] \in Unpaid
      /\ status' = [status EXCEPT ![o] = "canceled"]
      /\ ReleaseDiscount(o, Row(o))
      /\ FailPayments(PaymentsOf(o, "pending"))
      /\ UNCHANGED <<balance, ledger, captured>>
  BY SetStatusEffect DEF CancelUnpaidOrder, Row, walletVars, IInv
<1>2. PaymentsOf(o, "pending") \in SUBSET {q \in PaymentIds : payment[q].status = "pending"}
  BY DEF PaymentsOf
<1>3. /\ payment' \in [PaymentIds -> Payment \cup {NoPayment}]
      /\ \A x \in Orders : PaymentsOf(x, "verified")' = PaymentsOf(x, "verified")
      /\ \A q \in PaymentIds : payment[q].status = "verified" =>
           payment'[q] = payment[q]
      /\ \A x \in Orders : PaymentsOf(x, "pending")'
                             = PaymentsOf(x, "pending") \ PaymentsOf(o, "pending")
  BY <1>1, <1>2, FailedPayments DEF IInv
<1>4. /\ status'[o] = "canceled"
      /\ \A x \in Orders \ {o} : status'[x] = status[x]
      /\ status' \in [Orders -> OrderStatus]
  BY <1>1 DEF IInv, TypeOK, OrderStatus
<1>5. PaymentsOf(o, "verified") = {}
  BY <1>1, UnpaidUnverified
<1>6. /\ price' \in [Orders -> Nat] /\ discount' \in [Orders -> Nat]
      /\ used' \in [Codes -> Nat]
      /\ redemption' \in [Orders -> Redemption \cup {NoRedemption}]
      /\ PriceSplit'
      /\ redemption'[o].status \in {"none", "released"}
      /\ \A x \in Orders \ {o} : redemption'[x] = redemption[x] /\ price'[x] = price[x]
  <2>1. CASE redemption[o].status = "reserved"
    <3>1. redemption[o] \in Redemption
      BY <2>1 DEF IInv, TypeOK, NoRedemption
    <3>2. /\ used' = [used EXCEPT ![redemption[o].code] = Minus(@, 1)]
          /\ price' = [price EXCEPT ![o] = @ + redemption[o].amount]
          /\ discount' = [discount EXCEPT ![o] = 0]
          /\ redemption' = [redemption EXCEPT ![o].status = "released"]
      BY <1>1, <2>1, ReleaseEffect DEF IInv
    <3>3. redemption'[o] \in Redemption /\ redemption'[o].status = "released"
      BY <3>1, <3>2 DEF IInv, TypeOK, Redemption
    <3>4. \A x \in Orders \ {o} : /\ redemption'[x] = redemption[x]
                                  /\ price'[x] = price[x]
                                  /\ discount'[x] = discount[x]
      BY <3>2 DEF IInv, TypeOK
    <3>5. price'[o] = price[o] + redemption[o].amount /\ discount'[o] = 0
      BY <3>2 DEF IInv, TypeOK
    <3>6. /\ price[o] + discount[o] = ListPrice[o]
          /\ discount[o] = redemption[o].amount
      BY <2>1 DEF IInv, PriceSplit, Live
    <3>7. PriceSplit'
      <4>1. price'[o] + discount'[o] = ListPrice[o]
        BY <3>5, <3>6, OrdersAssumption DEF IInv, TypeOK
      <4>. QED
        BY <3>3, <3>4, <3>5, <4>1 DEF IInv, PriceSplit, Live
    <3>8. /\ redemption[o].code \in Codes /\ redemption[o].amount \in Nat
      BY <3>1 DEF Redemption
    <3>9. used' \in [Codes -> Nat]
      BY <3>2, <3>8, MinusType DEF IInv, TypeOK
    <3>10. price' \in [Orders -> Nat] /\ discount' \in [Orders -> Nat]
      BY <3>2, <3>8 DEF IInv, TypeOK
    <3>11. redemption' \in [Orders -> Redemption \cup {NoRedemption}]
      <4>1. \A x \in Orders : redemption'[x] \in Redemption \cup {NoRedemption}
        BY <3>3, <3>4 DEF IInv, TypeOK
      <4>. QED
        BY <3>2, <4>1 DEF IInv, TypeOK
    <3>. QED
      BY <3>3, <3>4, <3>7, <3>9, <3>10, <3>11
  <2>2. CASE redemption[o].status # "reserved"
    <3>1. UNCHANGED <<price, discount, used, redemption>>
      BY <1>1, <2>2, ReleaseEffect DEF IInv, discountVars
    <3>2. redemption[o].status \in {"none", "released"}
      BY <1>1, <2>2, ReleaseEffect DEF IInv, TypeOK, Redemption, NoRedemption
    <3>. QED
      BY <3>1, <3>2 DEF IInv, TypeOK, PriceSplit, Live
  <2>. QED
    BY <2>1, <2>2
<1>7. TypeOK'
  BY <1>1, <1>3, <1>4, <1>6 DEF IInv, TypeOK
<1>8. PaidIffVerified'
  BY <1>3, <1>4, <1>5 DEF IInv, PaidIffVerified, Verified, Settled
<1>9. SettledAtFinalPrice'
  BY <1>3, <1>5, <1>6 DEF IInv, SettledAtFinalPrice, Verified, PaymentsOf
<1>10. DiscountFollowsOrder'
  BY <1>4, <1>6 DEF IInv, DiscountFollowsOrder, Settled
<1>11. ClosedOrdersHaveNoPending'
  <2>1. PaymentsOf(o, "pending")' = {}
    BY <1>3
  <2>2. \A x \in Orders \ {o} : PaymentsOf(x, "pending")' \subseteq PaymentsOf(x, "pending")
    BY <1>3
  <2>3. \A x \in Orders : \A q \in PaymentsOf(x, "verified") : payment'[q] = payment[q]
    BY <1>3 DEF PaymentsOf
  <2>. QED
    BY <1>3, <1>4, <2>1, <2>2, <2>3 DEF IInv, ClosedOrdersHaveNoPending, Verified
<1>12. NothingBeforeOrder'
  BY <1>3, <1>4 DEF IInv, NothingBeforeOrder
<1>. QED
  BY <1>6, <1>7, <1>8, <1>9, <1>10, <1>11, <1>12 DEF IInv

LEMMA CreditIInv ==
  ASSUME IInv, NEW c \in Customers, NEW k \in Keys, NEW a \in Amounts,
         CreditWallet(c, k, a, balance[c])
  PROVE  IInv'
<1>1. /\ balance' = [balance EXCEPT ![c] = balance[c] + a]
      /\ ledger' = [ledger EXCEPT
                      ![k] = [kind |-> "credit", customer |-> c, amount |-> a]]
      /\ UNCHANGED <<status, discountVars, payment, captured>>
  BY FlushCurrent DEF CreditWallet
<1>2. a \in Nat
  BY WalletAssumption
<1>3. [kind |-> "credit", customer |-> c, amount |-> a] \in Entry
  BY <1>2 DEF Entry
<1>4. TypeOK'
  BY <1>1, <1>2, <1>3 DEF IInv, TypeOK, discountVars
<1>. QED
  BY <1>1, <1>4, FrameIInv

LEMMA ApplyDiscountIInv ==
  ASSUME IInv, NEW o \in Orders, NEW c \in Codes, ApplyDiscountCode(o, Row(o), c)
  PROVE  IInv'
<1>. DEFINE amount == CalculateDiscountAmount(c, price[o])
            settles == price[o] = amount /\ PaymentsOf(o, "verified") = {}
            row == [status |-> IF settles THEN "redeemed" ELSE "reserved",
                    code |-> c, amount |-> amount]
<1>1. /\ ReserveDiscount(o, Row(o), c)
      /\ redemption' = [redemption EXCEPT ![o] = row]
      /\ settles => SettleZeroPriceOrder(o, Row(o))
      /\ ~settles => UNCHANGED <<status, payment>>
      /\ UNCHANGED <<balance, ledger, captured>>
  BY DEF ApplyDiscountCode, Row, walletVars
<1>2. /\ amount \in 1..price[o]
      /\ status[o] \in Unpaid
      /\ redemption[o] = NoRedemption
      /\ used' = [used EXCEPT ![c] = @ + 1]
      /\ price' = [price EXCEPT ![o] = @ - amount]
      /\ discount' = [discount EXCEPT ![o] = amount]
  BY <1>1, ReserveEffect DEF IInv
<1>3. PaymentsOf(o, "verified") = {}
  BY <1>2, UnpaidUnverified
<1>4. PICK n \in Nat : n = amount
  BY <1>2 DEF IInv, TypeOK
<1>5. /\ row \in Redemption
      /\ row.amount = n
      /\ row.status = IF price[o] = n THEN "redeemed" ELSE "reserved"
  BY <1>3, <1>4 DEF Redemption
<1>6. /\ redemption'[o] = row
      /\ price'[o] = price[o] - n
      /\ discount'[o] = n
      /\ \A x \in Orders \ {o} : /\ redemption'[x] = redemption[x]
                                 /\ price'[x] = price[x]
                                 /\ discount'[x] = discount[x]
  BY <1>1, <1>2, <1>4 DEF IInv, TypeOK
<1>7. n \in 1..price[o] /\ price[o] \in Nat
  BY <1>2, <1>4 DEF IInv, TypeOK
<1>. HIDE DEF row
<1>8. PriceSplit'
  <2>1. price[o] + discount[o] = ListPrice[o] /\ discount[o] = 0
    BY <1>2 DEF IInv, PriceSplit, Live, NoRedemption
  <2>2. price'[o] + discount'[o] = ListPrice[o]
    BY <1>6, <1>7, <2>1, OrdersAssumption
  <2>. QED
    BY <1>5, <1>6, <2>2 DEF IInv, PriceSplit, Live
<1>9. /\ price' \in [Orders -> Nat] /\ discount' \in [Orders -> Nat]
      /\ used' \in [Codes -> Nat]
      /\ redemption' \in [Orders -> Redemption \cup {NoRedemption}]
  <2>1. price[o] - n \in Nat
    BY <1>7
  <2>. QED
    BY <1>1, <1>2, <1>4, <1>5, <2>1 DEF IInv, TypeOK
<1>10. CASE ~settles
  <2>1. TypeOK'
    BY <1>1, <1>9, <1>10 DEF IInv, TypeOK
  <2>2. redemption'[o].status = "reserved" /\ UNCHANGED <<status, payment>>
    BY <1>1, <1>3, <1>4, <1>5, <1>6, <1>10
  <2>3. \A x \in Orders, st \in {"pending", "verified"} :
          PaymentsOf(x, st)' = PaymentsOf(x, st)
    BY <2>2 DEF PaymentsOf
  <2>4. PaidIffVerified' /\ ClosedOrdersHaveNoPending' /\ NothingBeforeOrder'
    BY <2>2, <2>3 DEF IInv, PaidIffVerified, ClosedOrdersHaveNoPending,
                      NothingBeforeOrder, Verified
  <2>5. SettledAtFinalPrice'
    BY <1>3, <1>6, <2>2, <2>3 DEF IInv, SettledAtFinalPrice, Verified
  <2>6. DiscountFollowsOrder'
    BY <1>2, <1>6, <2>2 DEF IInv, DiscountFollowsOrder
  <2>. QED
    BY <1>8, <2>1, <2>4, <2>5, <2>6 DEF IInv
<1>11. CASE settles
  <2>1. status' = [status EXCEPT ![o] = "paid"]
    BY <1>1, <1>11, SetStatusEffect DEF SettleZeroPriceOrder, IInv
  <2>2. /\ status'[o] = "paid"
        /\ \A x \in Orders \ {o} : status'[x] = status[x]
        /\ status' \in [Orders -> OrderStatus]
    BY <2>1 DEF IInv, TypeOK, OrderStatus, Settled
  <2>3. redemption'[o].status = "redeemed" /\ price'[o] = 0
    BY <1>4, <1>5, <1>6, <1>7, <1>11
  <2>4. PICK p \in PaymentIds :
          NextId(p) /\ FailPendingAndAdd(o, p, NewPayment(o, "discount", 0, "verified"))
    BY <1>1, <1>11 DEF SettleZeroPriceOrder
  <2>5. /\ payment' \in [PaymentIds -> Payment \cup {NoPayment}]
        /\ \A q \in PaymentIds : payment[q].status = "verified" =>
             payment'[q] = payment[q]
        /\ \A x \in Orders \ {o}, st \in {"pending", "verified"} :
             PaymentsOf(x, st)' = PaymentsOf(x, st)
        /\ PaymentsOf(o, "pending")' = {}
        /\ PaymentsOf(o, "verified")' = {p}
        /\ payment'[p].amount = 0
    BY <1>3, <2>4, SettlementPayments DEF IInv, Methods
  <2>6. TypeOK'
    BY <1>1, <1>9, <2>2, <2>5 DEF IInv, TypeOK
  <2>7. PaidIffVerified'
    BY <2>2, <2>5 DEF IInv, PaidIffVerified, Verified, Settled
  <2>8. SettledAtFinalPrice'
    <3>1. \A x \in Orders \ {o} : \A q \in PaymentsOf(x, "verified") :
            payment'[q] = payment[q]
      BY <2>5 DEF PaymentsOf
    <3>. QED
      BY <1>6, <2>3, <2>5, <3>1 DEF IInv, SettledAtFinalPrice, Verified
  <2>9. DiscountFollowsOrder'
    BY <1>6, <2>2, <2>3 DEF IInv, DiscountFollowsOrder, Settled
  <2>10. ClosedOrdersHaveNoPending'
    <3>1. \A x \in Orders \ {o} : \A q \in PaymentsOf(x, "verified") :
            payment'[q] = payment[q]
      BY <2>5 DEF PaymentsOf
    <3>. QED
      BY <2>2, <2>5, <3>1 DEF IInv, ClosedOrdersHaveNoPending, Verified
  <2>11. NothingBeforeOrder'
    BY <2>2, <2>5 DEF IInv, NothingBeforeOrder
  <2>. QED
    BY <1>8, <2>6, <2>7, <2>8, <2>9, <2>10, <2>11 DEF IInv
<1>. QED
  BY <1>10, <1>11

LEMMA ReleaseStaleIInv ==
  ASSUME IInv, NEW S \in SUBSET Orders, ReleaseStaleDiscounts(S)
  PROVE  IInv'
<1>1. \A x \in S : /\ redemption[x] \in Redemption
                   /\ redemption[x].status = "reserved"
                   /\ redemption[x].amount \in Nat
                   /\ status[x] \in Unpaid
  BY DEF ReleaseStaleDiscounts, StaleCandidates, IInv, DiscountFollowsOrder,
         TypeOK, Redemption, NoRedemption
<1>2. \A x \in S : PaymentsOf(x, "verified") = {}
  BY <1>1, UnpaidUnverified
<1>3. \A x \in S : /\ price'[x] = price[x] + redemption[x].amount
                   /\ discount'[x] = 0
                   /\ redemption'[x] \in Redemption
                   /\ redemption'[x].status = "released"
  <2>. SUFFICES ASSUME NEW x \in S
                PROVE  /\ price'[x] = price[x] + redemption[x].amount
                       /\ discount'[x] = 0
                       /\ redemption'[x] \in Redemption
                       /\ redemption'[x].status = "released"
    OBVIOUS
  <2>1. /\ price'[x] = price[x] + redemption[x].amount
        /\ discount'[x] = 0
        /\ redemption'[x] = [redemption[x] EXCEPT !.status = "released"]
    BY DEF ReleaseStaleDiscounts
  <2>. QED
    BY <1>1, <2>1 DEF Redemption
<1>4. \A x \in Orders \ S : /\ price'[x] = price[x]
                            /\ discount'[x] = discount[x]
                            /\ redemption'[x] = redemption[x]
  BY DEF ReleaseStaleDiscounts
<1>5. UNCHANGED <<status, payment, balance, ledger, captured>>
  BY DEF ReleaseStaleDiscounts
<1>6. TypeOK'
  <2>1. \A c \in Codes : Cardinality(Reserved(c) \cap S) \in Nat
    <3>. SUFFICES ASSUME NEW c \in Codes PROVE Cardinality(Reserved(c) \cap S) \in Nat
      OBVIOUS
    <3>1. IsFiniteSet(Reserved(c) \cap S)
      BY OrdersAssumption, FS_Subset DEF Reserved
    <3>. QED
      BY <3>1, FS_CardinalityType
  <2>2. used' \in [Codes -> Nat]
    <3>1. \A c \in Codes : Minus(used[c], Cardinality(Reserved(c) \cap S)) \in Nat
      BY <2>1, MinusType DEF IInv, TypeOK
    <3>. QED
      BY <3>1 DEF ReleaseStaleDiscounts
  <2>3. /\ \A x \in Orders : price'[x] \in Nat /\ discount'[x] \in Nat
        /\ \A x \in Orders : redemption'[x] \in Redemption \cup {NoRedemption}
    BY <1>1, <1>3, <1>4 DEF IInv, TypeOK
  <2>4. /\ price' \in [Orders -> Nat] /\ discount' \in [Orders -> Nat]
        /\ redemption' \in [Orders -> Redemption \cup {NoRedemption}]
    BY <2>3 DEF ReleaseStaleDiscounts
  <2>. QED
    BY <1>5, <2>2, <2>4 DEF IInv, TypeOK
<1>7. PriceSplit'
  <2>1. \A x \in S : price'[x] + discount'[x] = ListPrice[x]
    BY <1>1, <1>3, OrdersAssumption DEF IInv, PriceSplit, Live, TypeOK
  <2>. QED
    BY <1>3, <1>4, <2>1 DEF IInv, PriceSplit, Live
<1>8. \A st : \A x \in Orders : PaymentsOf(x, st)' = PaymentsOf(x, st)
  BY <1>5 DEF PaymentsOf
<1>9. PaidIffVerified' /\ ClosedOrdersHaveNoPending' /\ NothingBeforeOrder'
  BY <1>5, <1>8 DEF IInv, PaidIffVerified, ClosedOrdersHaveNoPending,
                    NothingBeforeOrder, Verified
<1>10. SettledAtFinalPrice'
  BY <1>2, <1>4, <1>5, <1>8 DEF IInv, SettledAtFinalPrice, Verified
<1>11. DiscountFollowsOrder'
  BY <1>1, <1>3, <1>4, <1>5 DEF IInv, DiscountFollowsOrder, Unpaid, Settled
<1>. QED
  BY <1>6, <1>7, <1>9, <1>10, <1>11 DEF IInv

-----------------------------------------------------------------------------
(* The theorems *)

LEMMA StepIInv == IInv /\ [Next]_vars => IInv'
<1>. SUFFICES ASSUME IInv, [Next]_vars PROVE IInv'
  OBVIOUS
<1>1. ASSUME NEW o \in Orders, PlaceOrder(o) PROVE IInv'
  BY <1>1, PlaceIInv
<1>2. ASSUME NEW o \in Orders, NEW c \in Codes, ApplyDiscountCode(o, Row(o), c)
      PROVE  IInv'
  BY <1>2, ApplyDiscountIInv
<1>3. ASSUME NEW o \in Orders, NEW g \in Gateways, StartGatewayPayment(o, Row(o), g)
      PROVE  IInv'
  BY <1>3, CreatePendingIInv DEF StartGatewayPayment, Methods
<1>4. ASSUME NEW o \in Orders, NEW m \in ManualMethods, SubmitReceipt(o, Row(o), m)
      PROVE  IInv'
  BY <1>4, CreatePendingIInv DEF SubmitReceipt, Methods
<1>5. ASSUME NEW p \in PaymentIds, CallbackPaid(p, Row(payment[p].order)) PROVE IInv'
  BY <1>5, CallbackPaidIInv
<1>6. ASSUME NEW p \in PaymentIds, CallbackNotPaid(p) PROVE IInv'
  BY <1>6, CallbackNotPaidIInv
<1>7. ASSUME NEW o \in Orders, ApproveManualOrder(o, Row(o)) PROVE IInv'
  BY <1>7, ApproveIInv
<1>8. ASSUME NEW o \in Orders, RejectPendingManualPayment(o, Row(o)) PROVE IInv'
  BY <1>8, RejectIInv
<1>9. ASSUME NEW o \in Orders, CancelUnpaidOrder(o, Row(o)) PROVE IInv'
  BY <1>9, CancelIInv
<1>10. ASSUME NEW o \in Orders, PayOrderWithWallet(o, Row(o), balance[Owner[o]])
       PROVE  IInv'
  BY <1>10, WalletIInv
<1>11. ASSUME NEW c \in Customers, NEW k \in Keys, NEW a \in Amounts,
              CreditWallet(c, k, a, balance[c])
       PROVE  IInv'
  BY <1>11, CreditIInv
<1>12. ASSUME NEW S \in SUBSET Orders, ReleaseStaleDiscounts(S) PROVE IInv'
  BY <1>12, ReleaseStaleIInv
<1>13. ASSUME NEW o \in Orders, NEW outcome \in {"completed", "failed"},
              FulfillPaidOrder(o, Row(o), outcome)
       PROVE  IInv'
  BY <1>13, FulfillIInv
<1>14. CASE UNCHANGED vars
  <2>1. UNCHANGED <<status, discountVars, payment, used, balance, ledger, captured>>
    BY <1>14 DEF vars, discountVars
  <2>2. TypeOK'
    BY <2>1 DEF IInv, TypeOK, discountVars
  <2>. QED
    BY <2>1, <2>2, FrameIInv
<1>. QED
  BY <1>1, <1>2, <1>3, <1>4, <1>5, <1>6, <1>7, <1>8, <1>9, <1>10, <1>11, <1>12,
     <1>13, <1>14 DEF Next

\* Types are kept: no price, balance or use count goes below zero.
THEOREM TypeCorrect == Spec => []TypeOK
<1>1. IInv => TypeOK
  BY DEF IInv
<1>. QED
  BY InitIInv, StepIInv, <1>1, PTL DEF Spec

\* The invariant of every handler run alone.
THEOREM Invariance == Spec => []IInv
  BY InitIInv, StepIInv, PTL DEF Spec

-----------------------------------------------------------------------------
(* Copies.  A session decides from the copy of the order and of the wallet   *)
(* it loaded, which can be out of date in every column.  One thing a copy    *)
(* says stays true: an order it shows as paid has a verified payment.        *)
(* CopyNext lets every service use any such copy; the steps of Checkout, and *)
(* those of CheckoutSessions, are among its steps.                           *)

Rows == [status : OrderStatus, price : Nat, discount : Nat]
Copies(o) == {row \in Rows : row.status \in Settled => Verified(o) # {}}

OrderService(o, row) ==
    \/ \E c \in Codes : ApplyDiscountCode(o, row, c)
    \/ \E via \in Gateways \cup ManualMethods : CreatePendingPayment(o, row, via)
    \/ ApproveManualOrder(o, row)
    \/ RejectPendingManualPayment(o, row)
    \/ CancelUnpaidOrder(o, row)
    \/ \E seen \in Nat : PayOrderWithWallet(o, row, seen)
    \/ \E outcome \in {"completed", "failed"} : FulfillPaidOrder(o, row, outcome)

\* The order, and perhaps the gateway, are all that happens.
OnlyCaptures ==
    /\ captured' \in SUBSET PaymentIds
    /\ UNCHANGED <<status, discountVars, payment, walletVars>>

CopyNext ==
    \/ \E o \in Orders : PlaceOrder(o)
    \/ \E o \in Orders : \E row \in Copies(o) : OrderService(o, row)
    \/ \E p \in PaymentIds : \E row \in Copies(payment[p].order) : CallbackPaid(p, row)
    \/ \E p \in PaymentIds : CallbackNotPaid(p)
    \/ \E c \in Customers, k \in Keys, a \in Amounts, seen \in Nat :
         CreditWallet(c, k, a, seen)
    \/ \E S \in SUBSET Orders : ReleaseStaleDiscounts(S)
    \/ OnlyCaptures

\* The committed row is a copy.
LEMMA RowIsCopy ==
  ASSUME TypeOK, NEW o \in Orders, status[o] \in Settled => Verified(o) # {}
  PROVE  Row(o) \in Copies(o)
  BY DEF TypeOK, Row, Rows, Copies

LEMMA PendingOrder ==
  ASSUME TypeOK, NEW p \in PaymentIds, AwaitsGateway(p)
  PROVE  payment[p] \in Payment /\ payment[p].order \in Orders
  BY DEF AwaitsGateway, TypeOK, NoPayment, Payment

LEMMA StepIsCopyStep == IInv /\ [Next]_vars => CopyNext
<1>. SUFFICES ASSUME IInv, [Next]_vars PROVE CopyNext
  OBVIOUS
<1>1. TypeOK /\ \A o \in Orders : Row(o) \in Copies(o)
  BY RowIsCopy DEF IInv, PaidIffVerified
<1>2. \A o \in Orders : balance[Owner[o]] \in Nat
  BY <1>1, OrdersAssumption DEF TypeOK
<1>3. \A c \in Customers : balance[c] \in Nat
  BY <1>1 DEF TypeOK
<1>4. ASSUME NEW o \in Orders, OrderService(o, Row(o)) PROVE CopyNext
  BY <1>1, <1>4 DEF CopyNext
<1>5. ASSUME NEW o \in Orders, \E c \in Codes : ApplyDiscountCode(o, Row(o), c)
      PROVE  CopyNext
  BY <1>4, <1>5 DEF OrderService
<1>6. ASSUME NEW o \in Orders, NEW via \in Gateways \cup ManualMethods,
             CreatePendingPayment(o, Row(o), via)
      PROVE  CopyNext
  BY <1>4, <1>6 DEF OrderService
<1>7. ASSUME NEW o \in Orders,
             ApproveManualOrder(o, Row(o)) \/ RejectPendingManualPayment(o, Row(o))
               \/ CancelUnpaidOrder(o, Row(o))
      PROVE  CopyNext
  BY <1>4, <1>7 DEF OrderService
<1>8. ASSUME NEW o \in Orders, PayOrderWithWallet(o, Row(o), balance[Owner[o]])
      PROVE  CopyNext
  BY <1>2, <1>4, <1>8 DEF OrderService
<1>9. ASSUME NEW o \in Orders,
             \E outcome \in {"completed", "failed"} : FulfillPaidOrder(o, Row(o), outcome)
      PROVE  CopyNext
  BY <1>4, <1>9 DEF OrderService
<1>10. ASSUME NEW p \in PaymentIds, CallbackPaid(p, Row(payment[p].order))
       PROVE  CopyNext
  <2>1. payment[p].order \in Orders
    BY <1>1, <1>10, PendingOrder DEF CallbackPaid
  <2>. QED
    BY <1>1, <1>10, <2>1 DEF CopyNext
<1>11. ASSUME NEW c \in Customers, NEW k \in Keys, NEW a \in Amounts,
              CreditWallet(c, k, a, balance[c])
       PROVE  CopyNext
  BY <1>3, <1>11 DEF CopyNext
<1>12. CASE \/ \E o \in Orders : PlaceOrder(o)
            \/ \E p \in PaymentIds : CallbackNotPaid(p)
            \/ \E S \in SUBSET Orders : ReleaseStaleDiscounts(S)
  BY <1>12 DEF CopyNext
<1>13. CASE UNCHANGED vars
  BY <1>1, <1>13 DEF vars, discountVars, walletVars, CopyNext, OnlyCaptures, TypeOK
<1>. QED
  BY <1>5, <1>6, <1>7, <1>8, <1>9, <1>10, <1>11, <1>12, <1>13
     DEF Next, StartGatewayPayment, SubmitReceipt

-----------------------------------------------------------------------------
(* How many uses of a code are taken *)

LEMMA LiveUsesFinite ==
  ASSUME NEW c \in Codes
  PROVE  IsFiniteSet(LiveUses(c)) /\ Cardinality(LiveUses(c)) \in Nat
<1>1. LiveUses(c) \subseteq Orders
  BY DEF LiveUses
<1>. QED
  BY <1>1, OrdersAssumption, FS_Subset, FS_CardinalityType

\* Spending a code, and every step that leaves redemptions alone.
LEMMA SameUses ==
  ASSUME UsedCountExact, used' = used,
         \A o \in Orders : /\ Live(o)' <=> Live(o)
                           /\ Live(o) => redemption'[o].code = redemption[o].code
  PROVE  UsedCountExact'
<1>1. \A c \in Codes : LiveUses(c)' = LiveUses(c)
  BY DEF LiveUses
<1>. QED
  BY <1>1 DEF UsedCountExact

LEMMA RedeemKeepsUses ==
  ASSUME TypeOK, UsedCountExact, NEW o \in Orders, RedeemDiscount(o)
  PROVE  UsedCountExact'
<1>1. /\ redemption'[o] = Redeemed(redemption[o])
      /\ \A x \in Orders \ {o} : redemption'[x] = redemption[x]
      /\ used' = used
  BY DEF RedeemDiscount, TypeOK
<1>2. /\ Live(o)' <=> Live(o)
      /\ Live(o) => redemption'[o].code = redemption[o].code
  BY <1>1 DEF TypeOK, Redeemed, Redemption, NoRedemption, Live
<1>. QED
  BY <1>1, <1>2, SameUses DEF Live

\* The code row is locked: its last use is taken once.
LEMMA ReserveUses ==
  ASSUME TypeOK, UsedCountExact, NEW o \in Orders, NEW row, NEW c \in Codes,
         ApplyDiscountCode(o, row, c)
  PROVE  UsedCountExact'
<1>1. /\ redemption[o] = NoRedemption
      /\ used' = [used EXCEPT ![c] = @ + 1]
      /\ used[c] < MaxUses[c]
  BY DEF ApplyDiscountCode, ReserveDiscount
<1>2. /\ redemption'[o].status \in {"reserved", "redeemed"}
      /\ redemption'[o].code = c
      /\ \A x \in Orders \ {o} : redemption'[x] = redemption[x]
  BY DEF ApplyDiscountCode, TypeOK
<1>3. o \notin LiveUses(c)
  BY <1>1 DEF LiveUses, Live, NoRedemption
<1>4. LiveUses(c)' = LiveUses(c) \cup {o}
  BY <1>2 DEF LiveUses, Live
<1>5. \A d \in Codes \ {c} : LiveUses(d)' = LiveUses(d)
  BY <1>1, <1>2 DEF LiveUses, Live, NoRedemption
<1>6. Cardinality(LiveUses(c)') = Cardinality(LiveUses(c)) + 1
  BY <1>3, <1>4, LiveUsesFinite, FS_AddElement
<1>7. used'[c] = used[c] + 1 /\ \A d \in Codes \ {c} : used'[d] = used[d]
  BY <1>1 DEF TypeOK
<1>8. used'[c] <= MaxUses[c]
  <2>1. used[c] \in Nat /\ MaxUses[c] \in Nat
    BY CodesAssumption DEF TypeOK
  <2>. QED
    BY <1>1, <1>7, <2>1
<1>. QED
  BY <1>5, <1>6, <1>7, <1>8 DEF UsedCountExact

LEMMA CancelUses ==
  ASSUME TypeOK, UsedCountExact, NEW o \in Orders, NEW row, ReleaseDiscount(o, row)
  PROVE  UsedCountExact'
<1>1. CASE redemption[o].status # "reserved"
  <2>1. UNCHANGED <<used, redemption>>
    BY <1>1 DEF ReleaseDiscount, discountVars
  <2>. QED
    BY <2>1, SameUses DEF Live
<1>2. CASE redemption[o].status = "reserved"
  <2>0. PICK c : c = redemption[o].code
    OBVIOUS
  <2>1. c \in Codes
    BY <1>2, <2>0 DEF TypeOK, Redemption, NoRedemption
  <2>2. /\ used' = [used EXCEPT ![c] = Minus(@, 1)]
        /\ redemption' = [redemption EXCEPT ![o].status = "released"]
    BY <1>2, <2>0 DEF ReleaseDiscount
  <2>3. /\ redemption'[o].status = "released"
        /\ \A x \in Orders \ {o} : redemption'[x] = redemption[x]
    BY <1>2, <2>2 DEF TypeOK, Redemption, NoRedemption
  <2>4. o \in LiveUses(c) /\ LiveUses(c)' = LiveUses(c) \ {o}
    BY <1>2, <2>0, <2>3 DEF LiveUses, Live
  <2>5. \A d \in Codes \ {c} : LiveUses(d)' = LiveUses(d)
    BY <1>2, <2>0, <2>3 DEF LiveUses, Live
  <2>6. /\ Cardinality(LiveUses(c)') = Cardinality(LiveUses(c)) - 1
        /\ Cardinality(LiveUses(c)') \in Nat
    BY <2>1, <2>4, LiveUsesFinite, FS_RemoveElement, FS_CardinalityType
  <2>7. /\ used[c] = Cardinality(LiveUses(c)) /\ used[c] <= MaxUses[c]
        /\ used[c] \in Nat /\ MaxUses[c] \in Nat
    BY <2>1, CodesAssumption DEF UsedCountExact, TypeOK
  <2>8. used'[c] = used[c] - 1 /\ \A d \in Codes \ {c} : used'[d] = used[d]
    BY <2>1, <2>2, <2>6, <2>7 DEF TypeOK, Minus
  <2>. QED
    BY <2>5, <2>6, <2>7, <2>8 DEF UsedCountExact
<1>. QED
  BY <1>1, <1>2

LEMMA ReleaseStaleUses ==
  ASSUME TypeOK, UsedCountExact, NEW S \in SUBSET Orders, ReleaseStaleDiscounts(S)
  PROVE  UsedCountExact'
<1>1. \A x \in S : redemption[x].status = "reserved" /\ redemption'[x].status = "released"
  <2>. SUFFICES ASSUME NEW x \in S
                PROVE  /\ redemption[x].status = "reserved"
                       /\ redemption'[x].status = "released"
    OBVIOUS
  <2>1. /\ redemption[x].status = "reserved"
        /\ redemption'[x] = [redemption[x] EXCEPT !.status = "released"]
    BY DEF ReleaseStaleDiscounts, StaleCandidates
  <2>2. redemption[x] \in Redemption
    BY <2>1 DEF TypeOK, NoRedemption
  <2>. QED
    BY <2>1, <2>2 DEF Redemption
<1>2. \A x \in Orders \ S : redemption'[x] = redemption[x]
  BY DEF ReleaseStaleDiscounts
<1>. SUFFICES ASSUME NEW c \in Codes
              PROVE  used'[c] = Cardinality(LiveUses(c)') /\ used'[c] <= MaxUses[c]
  BY DEF UsedCountExact
<1>. DEFINE gone == Reserved(c) \cap S
<1>3. LiveUses(c)' = LiveUses(c) \ gone /\ gone \subseteq LiveUses(c)
  BY <1>1, <1>2 DEF LiveUses, Live, Reserved
<1>4. /\ Cardinality(LiveUses(c)') = Cardinality(LiveUses(c)) - Cardinality(gone)
      /\ Cardinality(gone) \in Nat
      /\ Cardinality(gone) <= Cardinality(LiveUses(c))
  <2>1. IsFiniteSet(LiveUses(c)) /\ IsFiniteSet(gone)
    BY <1>3, LiveUsesFinite, FS_Subset
  <2>2. LiveUses(c) \cap gone = gone
    BY <1>3
  <2>3. Cardinality(LiveUses(c) \ gone)
          = Cardinality(LiveUses(c)) - Cardinality(LiveUses(c) \cap gone)
    BY <2>1, FS_Difference
  <2>4. Cardinality(gone) \in Nat
    BY <2>1, FS_CardinalityType
  <2>5. Cardinality(gone) <= Cardinality(LiveUses(c))
    BY <1>3, <2>1, FS_Subset
  <2>. QED
    BY <1>3, <2>2, <2>3, <2>4, <2>5
<1>5. used'[c] = Minus(used[c], Cardinality(gone))
  BY DEF ReleaseStaleDiscounts
<1>6. /\ used[c] = Cardinality(LiveUses(c)) /\ used[c] <= MaxUses[c]
      /\ used[c] \in Nat /\ MaxUses[c] \in Nat
  BY CodesAssumption DEF UsedCountExact, TypeOK
<1>. QED
  BY <1>4, <1>5, <1>6 DEF Minus

LEMMA InitUses == Init => UsedCountExact
<1>. SUFFICES ASSUME Init PROVE UsedCountExact
  OBVIOUS
<1>1. \A c \in Codes : LiveUses(c) = {} /\ used[c] = 0 /\ MaxUses[c] \in Nat
  BY CodesAssumption DEF Init, LiveUses, Live, NoRedemption
<1>2. Cardinality({}) = 0
  BY FS_EmptySet
<1>. SUFFICES ASSUME NEW c \in Codes
              PROVE  used[c] = Cardinality(LiveUses(c)) /\ used[c] <= MaxUses[c]
  BY DEF UsedCountExact
<1>. QED
  BY <1>1, <1>2

LEMMA ApproveRedeems ==
  ASSUME NEW o, NEW row, ApproveManualOrder(o, row)
  PROVE  RedeemDiscount(o)
<1>1. ASSUME NEW p \in Newest(PendingVia(o, ManualMethods)), VerifyPayment(p, row)
      PROVE  RedeemDiscount(o)
  <2>1. payment[p].order = o
    BY DEF Newest, PendingVia, PaymentsOf
  <2>. QED
    BY <1>1, <2>1 DEF VerifyPayment
<1>. QED
  BY <1>1 DEF ApproveManualOrder

\* The uses stay exact whatever copies the services decide from: the code row
\* and the redemption row are read under the lock.
LEMMA CopyUses ==
  ASSUME TypeOK, UsedCountExact, CopyNext
  PROVE  UsedCountExact'
<1>1. ASSUME UNCHANGED discountVars PROVE UsedCountExact'
  BY <1>1, SameUses DEF Live, discountVars
<1>2. ASSUME NEW o \in Orders, RedeemDiscount(o) PROVE UsedCountExact'
  BY <1>2, RedeemKeepsUses
<1>3. ASSUME NEW o \in Orders, NEW row \in Copies(o), OrderService(o, row)
      PROVE  UsedCountExact'
  <2>1. CASE \E c \in Codes : ApplyDiscountCode(o, row, c)
    BY <2>1, ReserveUses
  <2>2. CASE CancelUnpaidOrder(o, row)
    BY <2>2, CancelUses DEF CancelUnpaidOrder
  <2>3. CASE ApproveManualOrder(o, row) \/ \E seen \in Nat : PayOrderWithWallet(o, row, seen)
    BY <1>2, <2>3, ApproveRedeems DEF PayOrderWithWallet
  <2>4. CASE \/ \E via \in Gateways \cup ManualMethods : CreatePendingPayment(o, row, via)
             \/ RejectPendingManualPayment(o, row)
             \/ \E outcome \in {"completed", "failed"} : FulfillPaidOrder(o, row, outcome)
    BY <1>1, <2>4 DEF CreatePendingPayment, RejectPendingManualPayment, FulfillPaidOrder
  <2>. QED
    BY <1>3, <2>1, <2>2, <2>3, <2>4 DEF OrderService
<1>4. ASSUME NEW p \in PaymentIds, NEW row, CallbackPaid(p, row) PROVE UsedCountExact'
  <2>1. payment[p].order \in Orders
    BY <1>4, PendingOrder DEF CallbackPaid
  <2>. QED
    BY <1>1, <1>2, <1>4, <2>1 DEF CallbackPaid, VerifyPayment
<1>5. ASSUME NEW S \in SUBSET Orders, ReleaseStaleDiscounts(S) PROVE UsedCountExact'
  BY <1>5, ReleaseStaleUses
<1>6. CASE \/ \E o \in Orders : PlaceOrder(o)
           \/ \E p \in PaymentIds : CallbackNotPaid(p)
           \/ \E c \in Customers, k \in Keys, a \in Amounts, seen \in Nat :
                CreditWallet(c, k, a, seen)
           \/ OnlyCaptures
  BY <1>1, <1>6 DEF PlaceOrder, CallbackNotPaid, FailPayment, CreditWallet, OnlyCaptures
<1>. QED
  BY <1>3, <1>4, <1>5, <1>6 DEF CopyNext

\* used_count counts the live redemptions of a code and stays within max_uses.
THEOREM UsedCountIsExact == Spec => []UsedCountExact
<1>1. IInv /\ UsedCountExact /\ [Next]_vars => UsedCountExact'
  BY StepIsCopyStep, CopyUses DEF IInv
<1>. QED
  BY Invariance, InitUses, <1>1, PTL DEF Spec

\* The plan's price is split between price and discount, and the split follows
\* the redemption.
THEOREM PriceIsSplit == Spec => []PriceSplit
<1>1. IInv => PriceSplit
  BY DEF IInv
<1>. QED
  BY Invariance, <1>1, PTL

\* Being past the payment stage and having a verified payment are the same.
THEOREM PaidMeansVerified == Spec => []PaidIffVerified
<1>1. IInv => PaidIffVerified
  BY DEF IInv
<1>. QED
  BY Invariance, <1>1, PTL

\* A verified payment is for the price the order shows.
THEOREM VerifiedAtFinalPrice == Spec => []SettledAtFinalPrice
<1>1. IInv => SettledAtFinalPrice
  BY DEF IInv
<1>. QED
  BY Invariance, <1>1, PTL

\* A redemption ends with its order.
THEOREM DiscountsFollowOrders == Spec => []DiscountFollowsOrder
<1>1. IInv => DiscountFollowsOrder
  BY DEF IInv
<1>. QED
  BY Invariance, <1>1, PTL

\* Closed orders have nothing left to verify.
THEOREM NothingPendingOnceClosed == Spec => []ClosedOrdersHaveNoPending
<1>1. IInv => ClosedOrdersHaveNoPending
  BY DEF IInv
<1>. QED
  BY Invariance, <1>1, PTL

-----------------------------------------------------------------------------
(* What a step may do to an order: the action properties and the life cycle *)

Frozen == \A o \in Orders :
    status[o] \in Settled => /\ price'[o] = price[o]
                             /\ discount'[o] = discount[o]
                             /\ redemption'[o] = redemption[o]
Final == \A p \in PaymentIds :
    payment[p].status \in {"verified", "failed"} => payment'[p] = payment[p]
LifeStep == Lifecycle!Next \/ UNCHANGED status

\* An order past the payment stage has spent its code or never had one.
LEMMA SettledRedemption ==
  ASSUME IInv, NEW o \in Orders, status[o] \in Settled
  PROVE  Redeemed(redemption[o]) = redemption[o]
<1>1. redemption[o].status # "reserved"
  BY DEF IInv, DiscountFollowsOrder, Unpaid, Settled
<1>. QED
  BY <1>1 DEF Redeemed

LEMMA RedeemFrozen ==
  ASSUME IInv, NEW o \in Orders, RedeemDiscount(o) PROVE Frozen
<1>1. /\ redemption'[o] = Redeemed(redemption[o])
      /\ \A x \in Orders \ {o} : redemption'[x] = redemption[x]
      /\ UNCHANGED <<price, discount>>
  BY DEF RedeemDiscount, IInv, TypeOK
<1>. QED
  BY <1>1, SettledRedemption DEF Frozen

\* Discount columns change only for an order that is not settled.
LEMMA UnpaidChangeFrozen ==
  ASSUME IInv, NEW o \in Orders, status[o] \in Unpaid,
         \A x \in Orders \ {o} : /\ price'[x] = price[x]
                                 /\ discount'[x] = discount[x]
                                 /\ redemption'[x] = redemption[x]
  PROVE  Frozen
  BY DEF Frozen, Unpaid, Settled

LEMMA InsertFinal ==
  ASSUME NEW p \in PaymentIds, NEW new, payment[p] = NoPayment, TypeOK,
         payment' = [payment EXCEPT ![p] = new]
  PROVE  Final
<1>1. payment[p].status = "none"
  BY DEF NoPayment
<1>2. \A q \in PaymentIds \ {p} : payment'[q] = payment[q]
  BY DEF TypeOK
<1>. QED
  BY <1>1, <1>2 DEF Final

LEMMA FailFinal ==
  ASSUME NEW S, \A q \in S : payment[q].status = "pending", FailPayments(S)
  PROVE  Final
<1>1. \A q \in PaymentIds : q \notin S => payment'[q] = payment[q]
  BY DEF FailPayments
<1>. QED
  BY <1>1 DEF Final

LEMMA SettlementFinal ==
  ASSUME NEW o \in Orders, NEW p \in PaymentIds, NEW new, NextId(p),
         FailPendingAndAdd(o, p, new)
  PROVE  Final
<1>1. payment[p].status = "none"
  BY DEF NextId, NoPayment
<1>2. \A q \in PaymentIds \ {p} : payment[q].status # "pending" =>
        payment'[q] = payment[q]
  BY DEF FailPendingAndAdd, PaymentsOf
<1>. QED
  BY <1>1, <1>2 DEF Final

LEMMA VerifyFinal ==
  ASSUME TypeOK, NEW p \in PaymentIds, NEW row, VerifyPayment(p, row)
  PROVE  Final
<1>1. payment[p].status = "pending"
  BY DEF VerifyPayment, MayVerify
<1>2. \A q \in PaymentIds \ {p} : payment'[q] = payment[q]
  BY DEF VerifyPayment, TypeOK
<1>. QED
  BY <1>1, <1>2 DEF Final

LEMMA ManualPending ==
  ASSUME NEW o, NEW p \in Newest(PendingVia(o, ManualMethods))
  PROVE  /\ p \in PaymentIds /\ payment[p].status = "pending" /\ payment[p].order = o
         /\ payment[p].via \in ManualMethods
  BY DEF Newest, PendingVia, PaymentsOf

\* Decided payments stay as they are: the payment's status is read fresh.
LEMMA CopyFinal ==
  ASSUME TypeOK, CopyNext
  PROVE  Final
<1>1. ASSUME UNCHANGED payment PROVE Final
  BY <1>1 DEF Final
<1>2. ASSUME NEW o \in Orders, NEW row \in Copies(o), OrderService(o, row)
      PROVE  Final
  <2>1. ASSUME NEW c \in Codes, ApplyDiscountCode(o, row, c) PROVE Final
    BY <1>1, <2>1, SettlementFinal DEF ApplyDiscountCode, SettleZeroPriceOrder
  <2>2. ASSUME NEW via, CreatePendingPayment(o, row, via) PROVE Final
    BY <2>2, InsertFinal DEF CreatePendingPayment, NextId
  <2>3. CASE ApproveManualOrder(o, row)
    <3>1. ASSUME NEW p \in Newest(PendingVia(o, ManualMethods)), VerifyPayment(p, row)
          PROVE  Final
      BY <3>1, ManualPending, VerifyFinal
    <3>2. ASSUME NEW p \in PaymentIds, NextId(p), NEW new,
                 payment' = [payment EXCEPT ![p] = new]
          PROVE  Final
      BY <3>2, InsertFinal DEF NextId
    <3>. QED
      BY <2>3, <3>1, <3>2 DEF ApproveManualOrder
  <2>4. CASE RejectPendingManualPayment(o, row)
    <3>1. PICK p \in Newest(PendingVia(o, ManualMethods)) : FailPayments({p})
      BY <2>4 DEF RejectPendingManualPayment
    <3>. QED
      BY <3>1, ManualPending, FailFinal
  <2>5. CASE CancelUnpaidOrder(o, row)
    BY <2>5, FailFinal DEF CancelUnpaidOrder, PaymentsOf
  <2>6. ASSUME NEW seen, PayOrderWithWallet(o, row, seen) PROVE Final
    BY <2>6, SettlementFinal DEF PayOrderWithWallet
  <2>7. ASSUME NEW outcome, FulfillPaidOrder(o, row, outcome) PROVE Final
    BY <1>1, <2>7 DEF FulfillPaidOrder
  <2>. QED
    BY <1>2, <2>1, <2>2, <2>3, <2>4, <2>5, <2>6, <2>7 DEF OrderService
<1>3. ASSUME NEW p \in PaymentIds, NEW row, CallbackPaid(p, row) PROVE Final
  BY <1>1, <1>3, VerifyFinal DEF CallbackPaid
<1>4. ASSUME NEW p \in PaymentIds, CallbackNotPaid(p) PROVE Final
  BY <1>4, FailFinal DEF CallbackNotPaid, FailPayment
<1>5. CASE \/ \E o \in Orders : PlaceOrder(o)
           \/ \E c \in Customers, k \in Keys, a \in Amounts, seen \in Nat :
                CreditWallet(c, k, a, seen)
           \/ \E S \in SUBSET Orders : ReleaseStaleDiscounts(S)
           \/ OnlyCaptures
  BY <1>1, <1>5 DEF PlaceOrder, CreditWallet, ReleaseStaleDiscounts, OnlyCaptures
<1>. QED
  BY <1>2, <1>3, <1>4, <1>5 DEF CopyNext

\* Becoming paid is a step of the life cycle, for an unpaid or a settled order.
LEMMA PayLifeStep ==
  ASSUME TypeOK, NEW o \in Orders, status[o] \in Unpaid \cup Settled,
         SetStatus(o, Row(o), "paid")
  PROVE  LifeStep
<1>1. status' = [status EXCEPT ![o] = "paid"]
  BY SetStatusEffect
<1>. QED
  BY <1>1 DEF LifeStep, Lifecycle!Next, Lifecycle!Pay, Lifecycle!Repay,
              Lifecycle!Become, Lifecycle!Unpaid, Lifecycle!Settled, Unpaid, Settled

LEMMA SameStatusLifeStep == UNCHANGED status => LifeStep
  BY DEF LifeStep

\* Rewriting an unpaid order as "awaiting_payment": the code never stores
\* "pending", so this leaves the status alone.
NeverPending == \A o \in Orders : status[o] # "pending"

LEMMA StepProps ==
  ASSUME IInv, NeverPending, [Next]_vars
  PROVE  Frozen /\ Final /\ LifeStep /\ NeverPending'
<1>. DEFINE Goal == Frozen /\ Final /\ LifeStep /\ NeverPending'
<1>. USE DEF Goal
<1>a. ASSUME UNCHANGED <<price, discount, redemption>> PROVE Frozen
  BY <1>a DEF Frozen
<1>b. ASSUME UNCHANGED payment PROVE Final
  BY <1>b DEF Final
<1>c. ASSUME UNCHANGED status PROVE LifeStep /\ NeverPending'
  BY <1>c DEF LifeStep, NeverPending
<1>d. ASSUME NEW o \in Orders, SetStatus(o, Row(o), "paid") PROVE NeverPending'
  <2>1. status' = [status EXCEPT ![o] = "paid"]
    BY <1>d, SetStatusEffect DEF IInv
  <2>. QED
    BY <2>1 DEF IInv, TypeOK, NeverPending
<1>e. ASSUME NEW o \in Orders, status[o] \in Unpaid, SetStatus(o, Row(o), "awaiting_payment")
      PROVE  UNCHANGED status
  <2>1. status' = [status EXCEPT ![o] = "awaiting_payment"]
    BY <1>e, SetStatusEffect DEF IInv
  <2>. QED
    BY <1>e, <2>1 DEF IInv, TypeOK, NeverPending, Unpaid
<1>1. ASSUME NEW o \in Orders, PlaceOrder(o) PROVE Goal
  <2>1. Frozen /\ Final
    BY <1>1, <1>a, <1>b DEF PlaceOrder, discountVars
  <2>2. status[o] = "absent" /\ status' = [status EXCEPT ![o] = "awaiting_payment"]
    BY <1>1 DEF PlaceOrder
  <2>3. LifeStep
    BY <2>2 DEF LifeStep, Lifecycle!Next, Lifecycle!Place, Lifecycle!Become
  <2>4. NeverPending'
    BY <2>2 DEF NeverPending, IInv, TypeOK
  <2>. QED
    BY <2>1, <2>3, <2>4
<1>2. ASSUME NEW o \in Orders, NEW c \in Codes, ApplyDiscountCode(o, Row(o), c)
      PROVE  Goal
  <2>1. /\ status[o] \in Unpaid
        /\ \A x \in Orders \ {o} : /\ price'[x] = price[x]
                                   /\ discount'[x] = discount[x]
                                   /\ redemption'[x] = redemption[x]
    <3>1. ReserveDiscount(o, Row(o), c)
      BY <1>2 DEF ApplyDiscountCode
    <3>2. /\ status[o] \in Unpaid
          /\ price' = [price EXCEPT ![o] = @ - CalculateDiscountAmount(c, price[o])]
          /\ discount' = [discount EXCEPT ![o] = CalculateDiscountAmount(c, price[o])]
      BY <3>1, ReserveEffect DEF IInv
    <3>3. \A x \in Orders \ {o} : redemption'[x] = redemption[x]
      BY <1>2 DEF ApplyDiscountCode, IInv, TypeOK
    <3>. QED
      BY <3>2, <3>3 DEF IInv, TypeOK
  <2>2. Frozen
    BY <2>1, UnpaidChangeFrozen
  <2>3. CASE UNCHANGED <<status, payment>>
    BY <2>2, <2>3, <1>b, <1>c
  <2>4. CASE SettleZeroPriceOrder(o, Row(o))
    <3>1. Final
      BY <2>4, SettlementFinal DEF SettleZeroPriceOrder
    <3>2. LifeStep /\ NeverPending'
      BY <1>d, <2>1, <2>4, PayLifeStep DEF SettleZeroPriceOrder, IInv
    <3>. QED
      BY <2>2, <3>1, <3>2
  <2>. QED
    BY <1>2, <2>3, <2>4 DEF ApplyDiscountCode
<1>3. ASSUME NEW o \in Orders, NEW via, CreatePendingPayment(o, Row(o), via) PROVE Goal
  <2>1. Frozen
    BY <1>3, <1>a DEF CreatePendingPayment, discountVars
  <2>2. Final
    BY <1>3, InsertFinal DEF CreatePendingPayment, NextId, IInv
  <2>3. UNCHANGED status
    BY <1>3, <1>e DEF CreatePendingPayment, Row
  <2>. QED
    BY <2>1, <2>2, <2>3, <1>c
<1>4. ASSUME NEW p \in PaymentIds, NEW o \in Orders, payment[p].order = o,
             payment[p].status = "pending", VerifyPayment(p, Row(o))
      PROVE  Goal
  <2>1. RedeemDiscount(o) /\ SetStatus(o, Row(o), "paid")
    BY <1>4 DEF VerifyPayment
  <2>2. Frozen
    BY <2>1, RedeemFrozen
  <2>3. Final
    <3>1. payment' = [payment EXCEPT ![p].status = "verified"]
      BY <1>4 DEF VerifyPayment
    <3>2. \A q \in PaymentIds \ {p} : payment'[q] = payment[q]
      BY <3>1 DEF IInv, TypeOK
    <3>. QED
      BY <1>4, <3>2 DEF Final
  <2>4. p \in PaymentsOf(o, "pending")
    BY <1>4 DEF PaymentsOf
  <2>5. status[o] \in Unpaid \cup Settled
    BY <2>4 DEF IInv, TypeOK, OrderStatus, ClosedOrdersHaveNoPending, NothingBeforeOrder
  <2>. QED
    BY <1>d, <2>1, <2>2, <2>3, <2>5, PayLifeStep DEF IInv
<1>5. ASSUME NEW p \in PaymentIds, CallbackPaid(p, Row(payment[p].order)) PROVE Goal
  <2>1. payment[p].status = "pending"
    BY <1>5 DEF CallbackPaid, AwaitsGateway
  <2>2. PICK o \in Orders : o = payment[p].order
    BY <2>1 DEF IInv, TypeOK, NoPayment, Payment
  <2>3. CASE VerifyPayment(p, Row(o))
    BY <1>4, <2>1, <2>2, <2>3
  <2>4. CASE UNCHANGED <<status, discountVars, payment, walletVars>>
    BY <1>a, <1>b, <1>c, <2>4 DEF discountVars
  <2>. QED
    BY <1>5, <2>2, <2>3, <2>4 DEF CallbackPaid
<1>6. ASSUME NEW p \in PaymentIds, CallbackNotPaid(p) PROVE Goal
  <2>1. /\ payment[p].status = "pending" /\ FailPayments({p})
        /\ UNCHANGED <<status, discountVars>>
    BY <1>6 DEF CallbackNotPaid, FailPayment
  <2>2. Final
    BY <2>1, FailFinal
  <2>. QED
    BY <1>a, <1>c, <2>1, <2>2 DEF discountVars
<1>7. ASSUME NEW o \in Orders, ApproveManualOrder(o, Row(o)) PROVE Goal
  <2>1. status[o] \in Unpaid
    BY <1>7 DEF ApproveManualOrder, Row
  <2>2. ASSUME NEW p \in Newest(PendingVia(o, ManualMethods)), VerifyPayment(p, Row(o))
        PROVE  Goal
    <3>1. p \in PaymentIds /\ payment[p].status = "pending" /\ payment[p].order = o
      BY DEF Newest, PendingVia, PaymentsOf
    <3>. QED
      BY <1>4, <2>2, <3>1
  <2>3. CASE /\ RedeemDiscount(o)
             /\ \E p \in PaymentIds :
                  /\ NextId(p)
                  /\ payment' = [payment EXCEPT
                                  ![p] = NewPayment(o, Receipt, Row(o).price, "verified")]
             /\ SetStatus(o, Row(o), "paid")
    <3>1. Frozen
      BY <2>3, RedeemFrozen
    <3>2. PICK p \in PaymentIds :
            /\ payment[p] = NoPayment
            /\ payment' = [payment EXCEPT
                            ![p] = NewPayment(o, Receipt, Row(o).price, "verified")]
      BY <2>3 DEF NextId
    <3>3. Final
      BY <3>2, InsertFinal DEF IInv
    <3>. QED
      BY <1>d, <2>1, <2>3, <3>1, <3>3, PayLifeStep DEF IInv
  <2>. QED
    BY <1>7, <2>2, <2>3 DEF ApproveManualOrder
<1>8. ASSUME NEW o \in Orders, RejectPendingManualPayment(o, Row(o)) PROVE Goal
  <2>1. UNCHANGED status /\ UNCHANGED discountVars
    BY <1>8, <1>e DEF RejectPendingManualPayment, Row
  <2>2. PICK p : payment[p].status = "pending" /\ FailPayments({p})
    BY <1>8 DEF RejectPendingManualPayment, Newest, PendingVia, PaymentsOf
  <2>3. Final
    BY <2>2, FailFinal
  <2>. QED
    BY <1>a, <1>c, <2>1, <2>3 DEF discountVars
<1>9. ASSUME NEW o \in Orders, CancelUnpaidOrder(o, Row(o)) PROVE Goal
  <2>1. /\ status[o] \in Unpaid
        /\ status' = [status EXCEPT ![o] = "canceled"]
        /\ ReleaseDiscount(o, Row(o))
        /\ FailPayments(PaymentsOf(o, "pending"))
    BY <1>9, SetStatusEffect DEF CancelUnpaidOrder, Row, IInv
  <2>2. \A x \in Orders \ {o} : /\ price'[x] = price[x]
                                /\ discount'[x] = discount[x]
                                /\ redemption'[x] = redemption[x]
    <3>1. CASE redemption[o].status = "reserved"
      <4>1. /\ price' = [price EXCEPT ![o] = @ + redemption[o].amount]
            /\ discount' = [discount EXCEPT ![o] = 0]
            /\ redemption' = [redemption EXCEPT ![o].status = "released"]
        BY <2>1, <3>1, ReleaseEffect DEF IInv
      <4>. QED
        BY <4>1 DEF IInv, TypeOK
    <3>2. CASE redemption[o].status # "reserved"
      BY <2>1, <3>2, ReleaseEffect DEF IInv, discountVars
    <3>. QED
      BY <3>1, <3>2
  <2>3. Frozen
    BY <2>1, <2>2, UnpaidChangeFrozen
  <2>4. Final
    BY <2>1, FailFinal DEF PaymentsOf
  <2>5. LifeStep
    BY <2>1 DEF LifeStep, Lifecycle!Next, Lifecycle!Cancel, Lifecycle!Become,
                Lifecycle!Unpaid, Unpaid
  <2>6. NeverPending'
    BY <2>1 DEF NeverPending, IInv, TypeOK
  <2>. QED
    BY <2>3, <2>4, <2>5, <2>6
<1>10. ASSUME NEW o \in Orders, PayOrderWithWallet(o, Row(o), balance[Owner[o]])
       PROVE  Goal
  <2>1. /\ status[o] \in Unpaid
        /\ RedeemDiscount(o)
        /\ SetStatus(o, Row(o), "paid")
    BY <1>10 DEF PayOrderWithWallet, Row
  <2>2. Frozen
    BY <2>1, RedeemFrozen
  <2>3. Final
    BY <1>10, SettlementFinal DEF PayOrderWithWallet
  <2>. QED
    BY <1>d, <2>1, <2>2, <2>3, PayLifeStep DEF IInv
<1>11. ASSUME NEW c \in Customers, NEW k \in Keys, NEW a \in Amounts,
              CreditWallet(c, k, a, balance[c])
       PROVE  Goal
  BY <1>11, <1>a, <1>b, <1>c DEF CreditWallet, discountVars
<1>12. ASSUME NEW S \in SUBSET Orders, ReleaseStaleDiscounts(S) PROVE Goal
  <2>1. \A x \in S : status[x] \notin Settled
    BY <1>12 DEF ReleaseStaleDiscounts, StaleCandidates, IInv, DiscountFollowsOrder,
                 Unpaid, Settled
  <2>2. Frozen
    BY <1>12, <2>1 DEF ReleaseStaleDiscounts, Frozen
  <2>. QED
    BY <1>12, <1>b, <1>c, <2>2 DEF ReleaseStaleDiscounts
<1>13. ASSUME NEW o \in Orders, NEW outcome \in {"completed", "failed"},
              FulfillPaidOrder(o, Row(o), outcome)
       PROVE  Goal
  <2>1. /\ status[o] \in Settled \ {"completed"}
        /\ status' = [status EXCEPT ![o] = outcome]
        /\ UNCHANGED <<discountVars, payment>>
    BY <1>13 DEF FulfillPaidOrder, Row, Settled
  <2>2. LifeStep
    BY <2>1 DEF LifeStep, Lifecycle!Next, Lifecycle!Deliver, Lifecycle!Fail,
                Lifecycle!Become, Lifecycle!Settled, Settled
  <2>3. NeverPending'
    BY <2>1 DEF NeverPending, IInv, TypeOK
  <2>. QED
    BY <1>a, <1>b, <2>1, <2>2, <2>3 DEF discountVars
<1>14. CASE UNCHANGED vars
  BY <1>14, <1>a, <1>b, <1>c DEF vars
<1>. QED
  BY <1>1, <1>2, <1>3, <1>5, <1>6, <1>7, <1>8, <1>9, <1>10, <1>11, <1>12, <1>13,
     <1>14 DEF Next, StartGatewayPayment, SubmitReceipt

\* No order waits in "pending": get_or_create_checkout_order places it
\* awaiting payment (services/orders.py:79-88) and nothing sets it back.
THEOREM NeverPendingAlways == Spec => []NeverPending
<1>1. Init => NeverPending
  BY DEF Init, NeverPending
<1>2. IInv /\ NeverPending /\ [Next]_vars => NeverPending'
  BY StepProps
<1>. QED
  BY Invariance, <1>1, <1>2, PTL DEF Spec

\* Nothing that was decided about a payment is ever taken back
\* (services/payments.py:102-112, 151-154).
THEOREM PaymentsStayFinal == Spec => PaymentsAreFinal
<1>1. IInv /\ NeverPending /\ [Next]_vars => [Final]_vars
  BY StepProps
<1>2. [Final]_vars <=> [\A p \in PaymentIds :
        payment[p].status \in {"verified", "failed"} => payment'[p] = payment[p]]_vars
  BY DEF Final
<1>. QED
  BY Invariance, NeverPendingAlways, <1>1, <1>2, PTL DEF Spec, PaymentsAreFinal

\* A paid order's price, discount and redemption never change again
\* (services/discounts.py:62-66, 116-135, 158-159).
THEOREM PriceStaysFrozen == Spec => PaidPriceIsFrozen
<1>1. IInv /\ NeverPending /\ [Next]_vars => [Frozen]_vars
  BY StepProps
<1>2. [Frozen]_vars <=> [\A o \in Orders :
        status[o] \in Settled => /\ price'[o] = price[o]
                                 /\ discount'[o] = discount[o]
                                 /\ redemption'[o] = redemption[o]]_vars
  BY DEF Frozen
<1>. QED
  BY Invariance, NeverPendingAlways, <1>1, <1>2, PTL DEF Spec, PaidPriceIsFrozen

\* Checkout implements the order life cycle: every step of every handler is a
\* step of OrderLifecycle or leaves every order's status alone.
THEOREM CheckoutImplementsLifecycle == Spec => ImplementsLifecycle
<1>1. Init => Lifecycle!Init
  BY DEF Init, Lifecycle!Init
<1>2. IInv /\ NeverPending /\ [Next]_vars => [Lifecycle!Next]_status
  BY StepProps DEF LifeStep
<1>. QED
  BY Invariance, NeverPendingAlways, <1>1, <1>2, PTL
     DEF Spec, ImplementsLifecycle, Lifecycle!Spec
-----------------------------------------------------------------------------
(* The debits of wallets.  A debit and the wallet payment it buys appear   *)
(* in one step, under a key that no other order has, and neither ever      *)
(* changes again; the other steps verify only payments made another way.   *)

WalletPaid(p) == payment[p].status = "verified" /\ payment[p].via = "wallet"

LEMMA SameDebits ==
  ASSUME DebitMatchesPayment, Final, UNCHANGED ledger,
         \A p \in PaymentIds : WalletPaid(p)' => payment[p].status = "verified"
  PROVE  DebitMatchesPayment'
<1>. DEFINE wallet(o) == {p \in Verified(o) : payment[p].via = "wallet"}
<1>1. \A p \in PaymentIds :
        /\ WalletPaid(p)' <=> WalletPaid(p)
        /\ WalletPaid(p) => payment'[p] = payment[p]
  BY DEF Final, WalletPaid
<1>2. \A o \in Orders :
        /\ wallet(o)' = wallet(o)
        /\ \A p \in wallet(o) : payment'[p] = payment[p]
  BY <1>1 DEF WalletPaid, Verified, PaymentsOf
<1>3. DebitMatchesPayment <=> \A o \in Orders :
        /\ ledger[WalletKey[o]].kind = "debit" <=> wallet(o) # {}
        /\ \A p \in wallet(o) :
             /\ wallet(o) = {p} /\ payment[p].amount = ledger[WalletKey[o]].amount
             /\ ledger[WalletKey[o]].customer = Owner[o]
  BY DEF DebitMatchesPayment
<1>4. DebitMatchesPayment' <=> \A o \in Orders :
        /\ ledger'[WalletKey[o]].kind = "debit" <=> wallet(o)' # {}
        /\ \A p \in wallet(o)' :
             /\ wallet(o)' = {p} /\ payment'[p].amount = ledger'[WalletKey[o]].amount
             /\ ledger'[WalletKey[o]].customer = Owner[o]
  BY DEF DebitMatchesPayment
<1>. HIDE DEF wallet
<1>. QED
  BY <1>2, <1>3, <1>4

\* Staff may type an order's key when they credit a wallet; the order can then
\* not be paid from it, but no debit appears.
LEMMA CreditDebits ==
  ASSUME TypeOK, DebitMatchesPayment, NEW c \in Customers, NEW k \in Keys, NEW a,
         NEW seen, CreditWallet(c, k, a, seen)
  PROVE  DebitMatchesPayment'
<1>1. /\ ledger[k].kind # "debit" /\ ledger'[k].kind # "debit"
      /\ \A x \in Keys \ {k} : ledger'[x] = ledger[x]
      /\ UNCHANGED payment
  BY DEF CreditWallet, NoEntry, TypeOK
<1>2. \A o \in Orders : Verified(o)' = Verified(o) /\ WalletKey[o] \in Keys
  BY <1>1, WalletAssumption DEF Verified, PaymentsOf
<1>. QED
  BY <1>1, <1>2 DEF DebitMatchesPayment

LEMMA PayDebits ==
  ASSUME TypeOK, DebitMatchesPayment, NEW o \in Orders, NEW row, NEW seen,
         PayOrderWithWallet(o, row, seen)
  PROVE  DebitMatchesPayment'
<1>. DEFINE key == WalletKey[o]
            wallet(x) == {q \in Verified(x) : payment[q].via = "wallet"}
            debit == [kind |-> "debit", customer |-> Owner[o], amount |-> row.price]
<1>1. PICK p \in PaymentIds :
        /\ NextId(p)
        /\ FailPendingAndAdd(o, p, NewPayment(o, "wallet", row.price, "verified"))
  BY DEF PayOrderWithWallet
<1>2. /\ payment[p] = NoPayment
      /\ payment'[p] = NewPayment(o, "wallet", row.price, "verified")
      /\ \A q \in PaymentIds \ {p} :
           \/ payment'[q] = payment[q]
           \/ payment[q].status = "pending" /\ payment'[q].status = "failed"
  BY <1>1 DEF NextId, FailPendingAndAdd, PaymentsOf, TypeOK,
              NoPayment, Payment
<1>3. wallet(o) = {}
  BY DEF PayOrderWithWallet, Verified
<1>4. ledger[key] = NoEntry /\ ledger' = [ledger EXCEPT ![key] = debit]
  <2>1. ledger[key].kind # "debit"
    BY <1>3 DEF DebitMatchesPayment
  <2>. QED
    BY <2>1 DEF PayOrderWithWallet, DebitWallet
<1>5. \A x \in Orders \ {o} : ledger'[WalletKey[x]] = ledger[WalletKey[x]]
  BY <1>4, WalletAssumption DEF TypeOK
<1>6. ledger'[key] = debit
  BY <1>4, WalletAssumption DEF TypeOK
<1>7. wallet(o)' = {p}
  <2>1. p \in wallet(o)'
    BY <1>2 DEF NewPayment, Verified, PaymentsOf
  <2>2. \A q \in PaymentIds \ {p} : q \notin wallet(o)'
    BY <1>2, <1>3 DEF Verified, PaymentsOf
  <2>. QED
    BY <2>1, <2>2 DEF Verified, PaymentsOf
<1>8. \A x \in Orders \ {o} : /\ wallet(x)' = wallet(x)
                              /\ \A q \in wallet(x) : payment'[q] = payment[q]
  BY <1>2 DEF NewPayment, NoPayment, Verified, PaymentsOf
<1>9. payment'[p].amount = row.price
  BY <1>2 DEF NewPayment
<1>10. \A x \in Orders :
        /\ ledger[WalletKey[x]].kind = "debit" <=> wallet(x) # {}
        /\ \A q \in wallet(x) :
             /\ wallet(x) = {q} /\ payment[q].amount = ledger[WalletKey[x]].amount
             /\ ledger[WalletKey[x]].customer = Owner[x]
  BY DEF DebitMatchesPayment
<1>11. DebitMatchesPayment' <=> \A x \in Orders :
        /\ ledger'[WalletKey[x]].kind = "debit" <=> wallet(x)' # {}
        /\ \A q \in wallet(x)' :
             /\ wallet(x)' = {q} /\ payment'[q].amount = ledger'[WalletKey[x]].amount
             /\ ledger'[WalletKey[x]].customer = Owner[x]
  BY DEF DebitMatchesPayment
<1>. HIDE DEF wallet
<1>. QED
  BY <1>5, <1>6, <1>7, <1>8, <1>9, <1>10, <1>11

\* A step that verifies no wallet payment leaves the debits matched.
LEMMA InsertDebits ==
  ASSUME TypeOK, DebitMatchesPayment, Final, UNCHANGED ledger,
         NEW p \in PaymentIds, NEW new, payment' = [payment EXCEPT ![p] = new],
         new.status # "verified" \/ new.via # "wallet"
  PROVE  DebitMatchesPayment'
  BY SameDebits DEF WalletPaid, TypeOK

LEMMA FailDebits ==
  ASSUME TypeOK, DebitMatchesPayment, Final, UNCHANGED ledger, NEW S, FailPayments(S)
  PROVE  DebitMatchesPayment'
<1>1. \A p \in PaymentIds : payment'[p].status \in {payment[p].status, "failed"}
  BY DEF FailPayments, TypeOK, NoPayment, Payment
<1>. QED
  BY <1>1, SameDebits DEF WalletPaid

LEMMA VerifyDebits ==
  ASSUME TypeOK, DebitMatchesPayment, Final, NEW p \in PaymentIds, NEW row,
         VerifyPayment(p, row), payment[p].via \in Gateways \cup ManualMethods
  PROVE  DebitMatchesPayment'
<1>1. payment' = [payment EXCEPT ![p].status = "verified"] /\ UNCHANGED ledger
  BY DEF VerifyPayment, walletVars
<1>2. payment[p] \in Payment
  BY DEF VerifyPayment, MayVerify, TypeOK, NoPayment
<1>3. payment'[p].via = payment[p].via
  BY <1>1, <1>2 DEF Payment, TypeOK
<1>4. payment'[p].via # "wallet"
  BY <1>3, PaymentsAssumption
<1>5. \A q \in PaymentIds \ {p} : payment'[q] = payment[q]
  BY <1>1 DEF TypeOK
<1>. QED
  BY <1>1, <1>4, <1>5, SameDebits DEF WalletPaid

LEMMA ApproveDebits ==
  ASSUME TypeOK, DebitMatchesPayment, Final, NEW o \in Orders, NEW row,
         ApproveManualOrder(o, row)
  PROVE  DebitMatchesPayment'
<1>1. ASSUME NEW p \in Newest(PendingVia(o, ManualMethods)), VerifyPayment(p, row)
      PROVE  DebitMatchesPayment'
  BY <1>1, ManualPending, VerifyDebits
<1>2. ASSUME NEW p \in PaymentIds, UNCHANGED walletVars,
             payment' = [payment EXCEPT
                          ![p] = NewPayment(o, Receipt, row.price, "verified")]
      PROVE  DebitMatchesPayment'
  <2>1. Receipt # "wallet"
    BY PaymentsAssumption
  <2>. QED
    BY <1>2, <2>1, InsertDebits DEF NewPayment, walletVars
<1>. QED
  BY <1>1, <1>2 DEF ApproveManualOrder

LEMMA DiscountDebits ==
  ASSUME TypeOK, DebitMatchesPayment, Final, NEW o \in Orders, NEW row, NEW c,
         ApplyDiscountCode(o, row, c)
  PROVE  DebitMatchesPayment'
<1>1. UNCHANGED ledger
  BY DEF ApplyDiscountCode, walletVars
<1>2. CASE UNCHANGED payment
  BY <1>1, <1>2, SameDebits DEF WalletPaid
<1>3. CASE SettleZeroPriceOrder(o, row)
  <2>1. PICK p \in PaymentIds :
          FailPendingAndAdd(o, p, NewPayment(o, "discount", 0, "verified"))
    BY <1>3 DEF SettleZeroPriceOrder
  <2>2. /\ payment'[p].via = "discount"
        /\ \A q \in PaymentIds \ {p} :
             payment'[q] = payment[q] \/ payment'[q].status = "failed"
    BY <2>1 DEF FailPendingAndAdd, NewPayment, PaymentsOf, TypeOK, NoPayment, Payment
  <2>. QED
    BY <1>1, <2>2, SameDebits DEF WalletPaid
<1>. QED
  BY <1>2, <1>3 DEF ApplyDiscountCode

\* Debits and wallet payments match whatever copies the services decide from:
\* the amount debited and the amount paid come from the same copy.
LEMMA CopyDebits ==
  ASSUME TypeOK, DebitMatchesPayment, CopyNext
  PROVE  DebitMatchesPayment'
<1>1. Final
  BY CopyFinal
<1>2. ASSUME UNCHANGED <<payment, ledger>> PROVE DebitMatchesPayment'
  BY <1>1, <1>2, SameDebits DEF WalletPaid
<1>3. ASSUME NEW o \in Orders, NEW row \in Copies(o), OrderService(o, row)
      PROVE  DebitMatchesPayment'
  <2>1. CASE \E c \in Codes : ApplyDiscountCode(o, row, c)
    BY <1>1, <2>1, DiscountDebits
  <2>2. ASSUME NEW via, CreatePendingPayment(o, row, via) PROVE DebitMatchesPayment'
    <3>1. PICK p \in PaymentIds :
            payment' = [payment EXCEPT ![p] = NewPayment(o, via, row.price, "pending")]
      BY <2>2 DEF CreatePendingPayment
    <3>2. NewPayment(o, via, row.price, "pending").status # "verified"
      BY DEF NewPayment
    <3>. QED
      BY <1>1, <2>2, <3>1, <3>2, InsertDebits DEF CreatePendingPayment, walletVars
  <2>3. CASE ApproveManualOrder(o, row)
    BY <1>1, <2>3, ApproveDebits
  <2>4. CASE RejectPendingManualPayment(o, row) \/ CancelUnpaidOrder(o, row)
    BY <1>1, <2>4, FailDebits DEF RejectPendingManualPayment, CancelUnpaidOrder, walletVars
  <2>5. CASE \E seen \in Nat : PayOrderWithWallet(o, row, seen)
    BY <2>5, PayDebits
  <2>6. CASE \E outcome \in {"completed", "failed"} : FulfillPaidOrder(o, row, outcome)
    BY <1>2, <2>6 DEF FulfillPaidOrder, walletVars
  <2>. QED
    BY <1>3, <2>1, <2>2, <2>3, <2>4, <2>5, <2>6 DEF OrderService
<1>4. ASSUME NEW p \in PaymentIds, NEW row, CallbackPaid(p, row)
      PROVE  DebitMatchesPayment'
  BY <1>1, <1>2, <1>4, VerifyDebits DEF CallbackPaid, AwaitsGateway, walletVars
<1>5. ASSUME NEW p \in PaymentIds, CallbackNotPaid(p) PROVE DebitMatchesPayment'
  BY <1>1, <1>5, FailDebits DEF CallbackNotPaid, FailPayment, walletVars
<1>6. ASSUME NEW c \in Customers, NEW k \in Keys, NEW a \in Amounts, NEW seen \in Nat,
             CreditWallet(c, k, a, seen)
      PROVE  DebitMatchesPayment'
  BY <1>6, CreditDebits
<1>7. CASE \/ \E o \in Orders : PlaceOrder(o)
           \/ \E S \in SUBSET Orders : ReleaseStaleDiscounts(S)
           \/ OnlyCaptures
  BY <1>2, <1>7 DEF PlaceOrder, ReleaseStaleDiscounts, OnlyCaptures, walletVars
<1>. QED
  BY <1>3, <1>4, <1>5, <1>6, <1>7 DEF CopyNext

LEMMA InitDebits == Init => DebitMatchesPayment
  BY WalletAssumption DEF Init, DebitMatchesPayment, Verified, PaymentsOf, NoPayment,
                          NoEntry

\* A wallet is debited for an order exactly when one payment of the order was
\* made from it, for the debited amount and from the owner's wallet
\* (services/wallets.py:183-263).
THEOREM DebitsMatchPayments == Spec => []DebitMatchesPayment
<1>1. IInv /\ DebitMatchesPayment /\ [Next]_vars => DebitMatchesPayment'
  BY StepIsCopyStep, CopyDebits DEF IInv
<1>. QED
  BY Invariance, InitDebits, <1>1, PTL DEF Spec
-----------------------------------------------------------------------------
(* The wallets' ledger.  A balance changes with the one entry that is        *)
(* inserted under an unused key, by that entry's amount; sums over a set of   *)
(* entries are those of SumTheorems.                                          *)

EntriesIn(rows, c, kind) ==
    {k \in Keys : rows[k] # NoEntry /\ rows[k].customer = c /\ rows[k].kind = kind}
AmountsIn(rows, c, kind) == [k \in EntriesIn(rows, c, kind) |-> rows[k].amount]
TotalIn(rows, c, kind) ==
    SumFunctionOnSet([k \in Keys |-> rows[k].amount], EntriesIn(rows, c, kind))

\* A run has inserted finitely many entries.
LedgerRows(rows) ==
    /\ \A k \in Keys : rows[k] \in Entry \cup {NoEntry}
    /\ IsFiniteSet({k \in Keys : rows[k] # NoEntry})
Inserts(rows, after, k, e) ==
    /\ rows[k] = NoEntry /\ after[k] = e
    /\ \A x \in Keys \ {k} : after[x] = rows[x]

LInv == TypeOK /\ LedgerRows(ledger) /\ LedgerExplainsBalance

LEMMA TotalOfRows ==
  ASSUME NEW rows, NEW c, NEW kind, IsFiniteSet(EntriesIn(rows, c, kind))
  PROVE  SumFunction(AmountsIn(rows, c, kind)) = TotalIn(rows, c, kind)
<1>. DEFINE E == EntriesIn(rows, c, kind)
            f == [k \in E |-> rows[k].amount]
            w == [k \in Keys |-> rows[k].amount]
<1>1. \A k \in E : f[k] = w[k]
  BY DEF EntriesIn
<1>2. DOMAIN f = E
  OBVIOUS
<1>. HIDE DEF f, w, E
<1>3. SumFunctionOnSet(f, E) = SumFunctionOnSet(w, E)
  BY <1>1, SumSame DEF E
<1>. QED
  BY <1>2, <1>3 DEF f, w, E, SumFunction, TotalIn, AmountsIn

\* Inserting an entry adds its amount to its customer's total of its kind, and
\* to no other.
LEMMA EntryAdds ==
  ASSUME NEW rows, NEW after, NEW k \in Keys, NEW e \in Entry, NEW c, NEW kind,
         LedgerRows(rows), Inserts(rows, after, k, e)
  PROVE  /\ IsFiniteSet(EntriesIn(rows, c, kind)) /\ IsFiniteSet(EntriesIn(after, c, kind))
         /\ TotalIn(rows, c, kind) \in Nat
         /\ TotalIn(after, c, kind) =
              IF e.customer = c /\ e.kind = kind
              THEN e.amount + TotalIn(rows, c, kind)
              ELSE TotalIn(rows, c, kind)
<1>. DEFINE E == EntriesIn(rows, c, kind)
            F == EntriesIn(after, c, kind)
            v == [x \in Keys |-> rows[x].amount]
            w == [x \in Keys |-> after[x].amount]
<1>1. IsFiniteSet(E) /\ k \notin E
  BY FS_Subset DEF EntriesIn, LedgerRows, Inserts
<1>2. e # NoEntry /\ e.amount \in Nat
  BY DEF Entry, NoEntry
<1>3. F = IF e.customer = c /\ e.kind = kind THEN E \cup {k} ELSE E
  BY <1>2 DEF EntriesIn, Inserts
<1>4. \A x \in E : v[x] \in Nat /\ w[x] = v[x]
  BY <1>1 DEF EntriesIn, Entry, LedgerRows, Inserts
<1>5. w[k] = e.amount
  BY DEF Inserts
<1>6. TotalIn(rows, c, kind) = SumFunctionOnSet(v, E)
      /\ TotalIn(after, c, kind) = SumFunctionOnSet(w, F)
  BY DEF TotalIn
<1>. HIDE DEF E, F, v, w
<1>7. SumFunctionOnSet(w, E) = SumFunctionOnSet(v, E) /\ SumFunctionOnSet(v, E) \in Nat
  BY <1>1, <1>4, SumSame, SumNat
<1>8. SumFunctionOnSet(w, E \cup {k}) = w[k] + SumFunctionOnSet(w, E)
  <2>1. \A x \in E \cup {k} : w[x] \in Nat
    BY <1>2, <1>4, <1>5
  <2>. QED
    BY <1>1, <2>1, SumAdd
<1>9. IsFiniteSet(F)
  BY <1>1, <1>3, FS_AddElement
<1>. QED
  BY <1>1, <1>3, <1>5, <1>6, <1>7, <1>8, <1>9 DEF E, F

\* Crediting or debiting the balance that the session holds up to date.
LEMMA WalletStepBalances ==
  ASSUME LInv, NEW k \in Keys, NEW c \in Customers, NEW a \in Nat,
         NEW kind \in {"credit", "debit"}, ledger[k] = NoEntry,
         kind = "debit" => a <= balance[c],
         ledger' = [ledger EXCEPT ![k] = [kind |-> kind, customer |-> c, amount |-> a]],
         balance' = [balance EXCEPT ![c] = IF kind = "credit" THEN balance[c] + a
                                                              ELSE balance[c] - a]
  PROVE  LedgerRows(ledger)' /\ LedgerExplainsBalance'
<1>. PICK rows, after, e : /\ rows = ledger /\ after = ledger'
                           /\ e = [kind |-> kind, customer |-> c, amount |-> a]
  OBVIOUS
<1>1. e \in Entry /\ e.kind = kind /\ e.customer = c /\ e.amount = a
  BY DEF Entry
<1>2. LedgerRows(rows) /\ Inserts(rows, after, k, e)
  BY DEF LInv, TypeOK, Inserts
<1>3. LedgerRows(after)
  <2>. DEFINE U == {x \in Keys : rows[x] # NoEntry}
              V == {x \in Keys : after[x] # NoEntry}
  <2>1. V \subseteq U \cup {k}
    BY <1>2 DEF Inserts
  <2>2. IsFiniteSet(U)
    BY <1>2 DEF LedgerRows
  <2>. HIDE DEF U, V
  <2>3. IsFiniteSet(V)
    BY <2>1, <2>2, FS_AddElement, FS_Subset
  <2>. QED
    BY <1>1, <1>2, <2>3 DEF LedgerRows, Inserts, V
<1>4. ASSUME NEW d \in Customers
      PROVE  balance'[d] + Total(d, "debit")' = Total(d, "credit")'
  <2>1. /\ balance[d] \in Nat
        /\ balance'[d] = IF d = c THEN IF kind = "credit" THEN balance[d] + a
                                                          ELSE balance[d] - a
                         ELSE balance[d]
    BY DEF LInv, TypeOK
  <2>2. ASSUME NEW st \in {"credit", "debit"}
        PROVE  /\ Total(d, st) \in Nat
               /\ Total(d, st)' = IF c = d /\ kind = st THEN a + Total(d, st)
                                  ELSE Total(d, st)
    <3>1. /\ IsFiniteSet(EntriesIn(rows, d, st)) /\ IsFiniteSet(EntriesIn(after, d, st))
          /\ TotalIn(rows, d, st) \in Nat
          /\ TotalIn(after, d, st) =
               IF e.customer = d /\ e.kind = st THEN e.amount + TotalIn(rows, d, st)
               ELSE TotalIn(rows, d, st)
      BY <1>1, <1>2, EntryAdds
    <3>2. /\ SumFunction(AmountsIn(rows, d, st)) = TotalIn(rows, d, st)
          /\ SumFunction(AmountsIn(after, d, st)) = TotalIn(after, d, st)
      BY <3>1, TotalOfRows
    <3>3. Total(d, st) = SumFunction(AmountsIn(rows, d, st))
      BY DEF Total, Entries, EntriesIn, AmountsIn
    <3>4. Total(d, st)' = SumFunction(AmountsIn(after, d, st))
      BY DEF Total, Entries, EntriesIn, AmountsIn
    <3>. QED
      BY <1>1, <3>1, <3>2, <3>3, <3>4
  <2>3. balance[d] + Total(d, "debit") = Total(d, "credit")
    BY DEF LInv, LedgerExplainsBalance
  <2>. QED
    BY <2>1, <2>2, <2>3
<1>. QED
  BY <1>3, <1>4 DEF LedgerExplainsBalance, LedgerRows

\* A step that changes a wallet knows its balance; what it knows of the order
\* does not matter.
LEMMA FreshWallet ==
  ASSUME LInv,
         \/ UNCHANGED walletVars
         \/ \E c \in Customers, k \in Keys, a \in Amounts : CreditWallet(c, k, a, balance[c])
         \/ \E o \in Orders, row \in Rows : PayOrderWithWallet(o, row, balance[Owner[o]])
  PROVE  LedgerRows(ledger)' /\ LedgerExplainsBalance'
<1>1. ASSUME UNCHANGED walletVars PROVE LedgerRows(ledger)' /\ LedgerExplainsBalance'
  <2>1. LedgerRows(ledger)'
    BY <1>1 DEF walletVars, LInv, LedgerRows
  <2>2. \A c, kind : Total(c, kind)' = Total(c, kind)
    BY <1>1 DEF walletVars, Total, Entries
  <2>. QED
    BY <1>1, <2>1, <2>2 DEF walletVars, LInv, LedgerExplainsBalance
<1>2. ASSUME NEW c \in Customers, NEW k \in Keys, NEW a \in Amounts,
             CreditWallet(c, k, a, balance[c])
      PROVE  LedgerRows(ledger)' /\ LedgerExplainsBalance'
  <2>1. /\ a \in Nat /\ ledger[k] = NoEntry
        /\ ledger' = [ledger EXCEPT ![k] = [kind |-> "credit", customer |-> c, amount |-> a]]
        /\ balance' = [balance EXCEPT ![c] = balance[c] + a]
    BY <1>2, WalletAssumption, FlushCurrent DEF CreditWallet, LInv, TypeOK
  <2>. QED
    BY <2>1, WalletStepBalances
<1>3. ASSUME NEW o \in Orders, NEW row \in Rows,
             PayOrderWithWallet(o, row, balance[Owner[o]])
      PROVE  LedgerRows(ledger)' /\ LedgerExplainsBalance'
  <2>. PICK c \in Customers, k \in Keys, a \in Nat :
         c = Owner[o] /\ k = WalletKey[o] /\ a = row.price
    BY OrdersAssumption, WalletAssumption DEF Rows
  <2>1. \/ UNCHANGED walletVars
        \/ /\ ledger[k] = NoEntry /\ a <= balance[c]
           /\ balance' = [balance EXCEPT ![c] = Flush(@, balance[c], balance[c] - a)]
           /\ ledger' = [ledger EXCEPT
                           ![k] = [kind |-> "debit", customer |-> c, amount |-> a]]
    BY <1>3 DEF PayOrderWithWallet, DebitWallet
  <2>2. Flush(balance[c], balance[c], balance[c] - a) = balance[c] - a
    BY FlushCurrent
  <2>. QED
    BY <1>1, <2>1, <2>2, WalletStepBalances DEF LInv, TypeOK
<1>. QED
  BY <1>1, <1>2, <1>3

LEMMA StepLedger ==
  TypeOK /\ LedgerRows(ledger) /\ LedgerExplainsBalance /\ [Next]_vars
    => LedgerRows(ledger)' /\ LedgerExplainsBalance'
<1>. SUFFICES ASSUME LInv, [Next]_vars
              PROVE  LedgerRows(ledger)' /\ LedgerExplainsBalance'
  BY DEF LInv
<1>1. ASSUME UNCHANGED walletVars PROVE LedgerRows(ledger)' /\ LedgerExplainsBalance'
  BY <1>1, FreshWallet
<1>2. ASSUME NEW c \in Customers, NEW k \in Keys, NEW a \in Amounts,
             CreditWallet(c, k, a, balance[c])
      PROVE  LedgerRows(ledger)' /\ LedgerExplainsBalance'
  BY <1>2, FreshWallet
<1>3. ASSUME NEW o \in Orders, PayOrderWithWallet(o, Row(o), balance[Owner[o]])
      PROVE  LedgerRows(ledger)' /\ LedgerExplainsBalance'
  <2>1. Row(o) \in Rows
    BY DEF LInv, TypeOK, Row, Rows
  <2>. QED
    BY <1>3, <2>1, FreshWallet
<1>4. ASSUME NEW o \in Orders, NEW row, ApproveManualOrder(o, row) PROVE UNCHANGED walletVars
  BY <1>4 DEF ApproveManualOrder, VerifyPayment
<1>5. ASSUME NEW p \in PaymentIds, NEW row, CallbackPaid(p, row) \/ CallbackNotPaid(p)
      PROVE  UNCHANGED walletVars
  BY <1>5 DEF CallbackPaid, CallbackNotPaid, VerifyPayment, FailPayment
<1>. QED
  BY <1>1, <1>2, <1>3, <1>4, <1>5
     DEF Next, PlaceOrder, ApplyDiscountCode, StartGatewayPayment, SubmitReceipt,
         CreatePendingPayment, RejectPendingManualPayment, CancelUnpaidOrder,
         ReleaseStaleDiscounts, FulfillPaidOrder, vars, walletVars

LEMMA InitLedger == Init => LedgerRows(ledger) /\ LedgerExplainsBalance
<1>. SUFFICES ASSUME Init PROVE LedgerRows(ledger) /\ LedgerExplainsBalance
  OBVIOUS
<1>1. LedgerRows(ledger)
  <2>1. {k \in Keys : ledger[k] # NoEntry} = {}
    BY DEF Init
  <2>. QED
    BY <2>1, FS_EmptySet DEF Init, LedgerRows
<1>2. ASSUME NEW c \in Customers, NEW kind PROVE Total(c, kind) = 0
  <2>1. Entries(c, kind) = {}
    BY DEF Init, Entries
  <2>. DEFINE f == [k \in Entries(c, kind) |-> ledger[k].amount]
  <2>2. DOMAIN f = {}
    BY <2>1
  <2>. HIDE DEF f
  <2>3. SumFunction(f) = 0
    BY <2>2, SumEmpty DEF SumFunction
  <2>. QED
    BY <2>3 DEF Total, f
<1>3. \A c \in Customers : balance[c] = 0
  BY DEF Init
<1>. QED
  BY <1>1, <1>2, <1>3 DEF LedgerExplainsBalance

\* The balance of a wallet is what its transactions add up to, however many
\* there are and whatever is replayed (services/wallets.py:101-131, 146-180).
THEOREM LedgersExplainBalances == Spec => []LedgerExplainsBalance
<1>1. Spec => []TypeOK
  BY TypeCorrect
<1>. QED
  BY <1>1, InitLedger, StepLedger, PTL DEF Spec
-----------------------------------------------------------------------------
(* Types, whatever copies the services decide from *)

StatusTyped == status \in [Orders -> OrderStatus]
DiscountsTyped ==
    /\ price \in [Orders -> Nat]
    /\ discount \in [Orders -> Nat]
    /\ redemption \in [Orders -> Redemption \cup {NoRedemption}]
    /\ used \in [Codes -> Nat]
PaymentsTyped == payment \in [PaymentIds -> Payment \cup {NoPayment}]
WalletsTyped ==
    /\ balance \in [Customers -> Nat]
    /\ ledger \in [Keys -> Entry \cup {NoEntry}]

LEMMA TypeParts ==
  TypeOK <=> /\ StatusTyped /\ DiscountsTyped /\ PaymentsTyped /\ WalletsTyped
             /\ captured \subseteq PaymentIds
  BY DEF TypeOK, StatusTyped, DiscountsTyped, PaymentsTyped, WalletsTyped

LEMMA NewTypeParts ==
  ASSUME StatusTyped', DiscountsTyped', PaymentsTyped', WalletsTyped',
         captured' \subseteq PaymentIds
  PROVE  TypeOK'
  BY DEF TypeOK, StatusTyped, DiscountsTyped, PaymentsTyped, WalletsTyped

\* A status column takes the new status or keeps its own.
LEMMA SetStatusOne ==
  ASSUME TypeOK, NEW o \in Orders, NEW row, NEW st \in OrderStatus, SetStatus(o, row, st)
  PROVE  /\ StatusTyped'
         /\ status'[o] \in {status[o], st}
         /\ \A x \in Orders \ {o} : status'[x] = status[x]
  BY DEF SetStatus, Flush, TypeOK, StatusTyped

LEMMA StatusNames ==
  {"paid", "awaiting_payment", "canceled", "completed", "failed"} \subseteq OrderStatus
  BY DEF OrderStatus, Unpaid, Settled

LEMMA RedeemOne ==
  ASSUME TypeOK, NEW o \in Orders, RedeemDiscount(o)
  PROVE  /\ DiscountsTyped'
         /\ \A x \in Orders \ {o} : redemption'[x] = redemption[x]
<1>1. redemption[o] \in Redemption \cup {NoRedemption}
  BY DEF TypeOK
<1>2. Redeemed(redemption[o]) \in Redemption \cup {NoRedemption}
  BY <1>1 DEF Redeemed, Redemption, NoRedemption
<1>3. redemption' = [redemption EXCEPT ![o] = Redeemed(redemption[o])]
      /\ UNCHANGED <<price, discount, used>>
  BY DEF RedeemDiscount
<1>. QED
  BY <1>2, <1>3 DEF TypeOK, DiscountsTyped

LEMMA ReleaseOne ==
  ASSUME TypeOK, NEW o \in Orders, NEW row \in Rows, ReleaseDiscount(o, row)
  PROVE  /\ DiscountsTyped'
         /\ redemption'[o].status # "redeemed"
         /\ \A x \in Orders \ {o} : redemption'[x] = redemption[x]
<1>1. CASE redemption[o].status # "reserved"
  BY <1>1 DEF ReleaseDiscount, discountVars, TypeOK, DiscountsTyped
<1>2. CASE redemption[o].status = "reserved"
  <2>1. redemption[o] \in Redemption
    BY <1>2 DEF TypeOK, NoRedemption
  <2>2. PICK c \in Codes, amount \in Nat :
          c = redemption[o].code /\ amount = redemption[o].amount
    BY <2>1 DEF Redemption
  <2>3. /\ used' = [used EXCEPT ![c] = Minus(used[c], 1)]
        /\ price' = [price EXCEPT ![o] = Flush(price[o], row.price, row.price + amount)]
        /\ discount' = [discount EXCEPT ![o] = Flush(discount[o], row.discount, 0)]
        /\ redemption' = [redemption EXCEPT
                            ![o] = [redemption[o] EXCEPT !.status = "released"]]
    BY <1>2, <2>2 DEF ReleaseDiscount, TypeOK
  <2>4. /\ Minus(used[c], 1) \in Nat
        /\ Flush(price[o], row.price, row.price + amount) \in Nat
        /\ Flush(discount[o], row.discount, 0) \in Nat
    <3>1. used[c] \in Nat /\ price[o] \in Nat /\ discount[o] \in Nat
      BY DEF TypeOK
    <3>2. row.price + amount \in Nat
      BY DEF Rows
    <3>. QED
      BY <3>1, <3>2, MinusType DEF Flush
  <2>5. /\ [redemption[o] EXCEPT !.status = "released"] \in Redemption
        /\ [redemption[o] EXCEPT !.status = "released"].status = "released"
    BY <2>1 DEF Redemption
  <2>6. used' \in [Codes -> Nat]
    BY <2>3, <2>4 DEF TypeOK
  <2>7. price' \in [Orders -> Nat] /\ discount' \in [Orders -> Nat]
    BY <2>3, <2>4 DEF TypeOK
  <2>. QED
    BY <2>3, <2>5, <2>6, <2>7 DEF TypeOK, DiscountsTyped
<1>. QED
  BY <1>1, <1>2

LEMMA ReserveOne ==
  ASSUME TypeOK, NEW o \in Orders, NEW row \in Rows, NEW c \in Codes,
         ApplyDiscountCode(o, row, c)
  PROVE  /\ DiscountsTyped'
         /\ \A x \in Orders \ {o} : redemption'[x] = redemption[x]
         /\ redemption'[o].status = "redeemed" =>
              SettleZeroPriceOrder(o, row) /\ PaymentsOf(o, "verified") = {}
         /\ redemption'[o].status # "redeemed" => UNCHANGED <<status, payment>>
<1>1. row.price \in Nat /\ row.discount \in Nat
  BY DEF Rows
<1>2. PICK amount \in 0..row.price : amount = CalculateDiscountAmount(c, row.price)
  BY <1>1, DiscountBounded
<1>3. PICK st \in {"reserved", "redeemed"} :
        /\ redemption' = [redemption EXCEPT
             ![o] = [status |-> st, code |-> c, amount |-> amount]]
        /\ st = "redeemed" =>
             SettleZeroPriceOrder(o, row) /\ PaymentsOf(o, "verified") = {}
        /\ st # "redeemed" => UNCHANGED <<status, payment>>
  BY <1>2 DEF ApplyDiscountCode
<1>4. /\ used' = [used EXCEPT ![c] = used[c] + 1]
      /\ price' = [price EXCEPT ![o] = Flush(price[o], row.price, row.price - amount)]
      /\ discount' = [discount EXCEPT ![o] = Flush(discount[o], row.discount, amount)]
  BY <1>2 DEF ApplyDiscountCode, ReserveDiscount
<1>5. row.price - amount \in Nat
  BY <1>1, <1>2
<1>6. /\ Flush(price[o], row.price, row.price - amount) \in Nat
      /\ Flush(discount[o], row.discount, amount) \in Nat
  BY <1>1, <1>2, <1>5 DEF Flush, TypeOK
<1>7. price' \in [Orders -> Nat] /\ discount' \in [Orders -> Nat]
  BY <1>4, <1>6 DEF TypeOK
<1>8. used' \in [Codes -> Nat]
  BY <1>4 DEF TypeOK
<1>9. [status |-> st, code |-> c, amount |-> amount] \in Redemption
  BY <1>2 DEF Redemption
<1>. QED
  BY <1>3, <1>7, <1>8, <1>9 DEF TypeOK, DiscountsTyped

LEMMA ReleaseStaleOne ==
  ASSUME TypeOK, NEW S \in SUBSET Orders, ReleaseStaleDiscounts(S)
  PROVE  /\ DiscountsTyped'
         /\ \A x \in Orders : redemption'[x].status = "redeemed" =>
              redemption[x].status = "redeemed"
<1>1. ASSUME NEW x \in S
      PROVE  /\ redemption[x] \in Redemption
             /\ [redemption[x] EXCEPT !.status = "released"] \in Redemption
             /\ [redemption[x] EXCEPT !.status = "released"].status = "released"
             /\ redemption[x].amount \in Nat
  <2>1. redemption[x].status = "reserved"
    BY DEF ReleaseStaleDiscounts, StaleCandidates
  <2>2. redemption[x] \in Redemption
    BY <2>1 DEF TypeOK, NoRedemption
  <2>. QED
    BY <2>2 DEF Redemption
<1>2. ASSUME NEW c \in Codes PROVE Minus(used[c], Cardinality(Reserved(c) \cap S)) \in Nat
  <2>1. Reserved(c) \cap S \in SUBSET Orders
    BY DEF Reserved
  <2>2. Cardinality(Reserved(c) \cap S) \in Nat
    BY <2>1, OrdersAssumption, FS_Subset, FS_CardinalityType
  <2>. QED
    BY <2>2, MinusType DEF TypeOK
<1>3. used' \in [Codes -> Nat]
  BY <1>2 DEF ReleaseStaleDiscounts
<1>4. price' \in [Orders -> Nat] /\ discount' \in [Orders -> Nat]
  BY <1>1 DEF ReleaseStaleDiscounts, TypeOK
<1>5. redemption' \in [Orders -> Redemption \cup {NoRedemption}]
  BY <1>1 DEF ReleaseStaleDiscounts, TypeOK
<1>6. \A x \in Orders : redemption'[x].status = "redeemed" =>
        redemption[x].status = "redeemed"
  BY <1>1 DEF ReleaseStaleDiscounts
<1>. QED
  BY <1>3, <1>4, <1>5, <1>6 DEF DiscountsTyped

\* A new payment row, and a payment that is verified.
LEMMA InsertTyped ==
  ASSUME TypeOK, NEW p \in PaymentIds, NEW o \in Orders, NEW via \in Methods,
         NEW amount \in Nat, NEW st \in {"pending", "verified", "failed"},
         payment' = [payment EXCEPT ![p] = NewPayment(o, via, amount, st)]
  PROVE  /\ PaymentsTyped'
         /\ st = "verified" => p \in Verified(o)'
<1>1. NewPayment(o, via, amount, st) \in Payment
  BY DEF NewPayment, Payment
<1>2. payment'[p] = NewPayment(o, via, amount, st)
  BY DEF TypeOK
<1>. QED
  BY <1>1, <1>2 DEF TypeOK, PaymentsTyped, Verified, PaymentsOf, NewPayment

LEMMA VerifyTyped ==
  ASSUME TypeOK, NEW p \in PaymentIds, NEW row, VerifyPayment(p, row)
  PROVE  /\ payment[p].order \in Orders
         /\ PaymentsTyped'
         /\ payment'[p].status = "verified" /\ payment'[p].order = payment[p].order
<1>1. payment[p] \in Payment
  BY DEF VerifyPayment, MayVerify, TypeOK, NoPayment
<1>2. payment' = [payment EXCEPT ![p] = [payment[p] EXCEPT !.status = "verified"]]
  BY DEF VerifyPayment, TypeOK
<1>3. /\ [payment[p] EXCEPT !.status = "verified"] \in Payment
      /\ [payment[p] EXCEPT !.status = "verified"].status = "verified"
      /\ [payment[p] EXCEPT !.status = "verified"].order = payment[p].order
  BY <1>1 DEF Payment
<1>. QED
  BY <1>1, <1>2, <1>3 DEF Payment, TypeOK, PaymentsTyped

\* An approval: a payment of the order is verified, the pending one or a new one.
LEMMA ApproveOne ==
  ASSUME TypeOK, NEW o \in Orders, NEW row \in Rows, ApproveManualOrder(o, row)
  PROVE  /\ PaymentsTyped' /\ Verified(o)' # {}
         /\ SetStatus(o, row, "paid")
         /\ UNCHANGED <<walletVars, captured>>
<1>1. ASSUME NEW p \in Newest(PendingVia(o, ManualMethods)), VerifyPayment(p, row)
      PROVE  /\ PaymentsTyped' /\ Verified(o)' # {}
             /\ SetStatus(o, row, "paid") /\ UNCHANGED walletVars
  <2>1. p \in PaymentIds /\ payment[p].order = o
    BY ManualPending
  <2>2. PaymentsTyped' /\ payment'[p].status = "verified" /\ payment'[p].order = o
    BY <1>1, <2>1, VerifyTyped
  <2>3. p \in Verified(o)'
    BY <2>1, <2>2 DEF Verified, PaymentsOf
  <2>. QED
    BY <1>1, <2>1, <2>2, <2>3 DEF VerifyPayment
<1>2. ASSUME NEW p \in PaymentIds,
             payment' = [payment EXCEPT
                          ![p] = NewPayment(o, Receipt, row.price, "verified")]
      PROVE  PaymentsTyped' /\ Verified(o)' # {}
  <2>1. Receipt \in Methods /\ row.price \in Nat
    BY PaymentsAssumption DEF Methods, Rows
  <2>. QED
    BY <1>2, <2>1, InsertTyped
<1>. QED
  BY <1>1, <1>2 DEF ApproveManualOrder

\* The settlements by wallet and by discount verify a payment they insert.
LEMMA SettleOne ==
  ASSUME TypeOK, NEW o \in Orders, NEW p \in PaymentIds, NextId(p),
         NEW via \in Methods, NEW amount \in Nat,
         FailPendingAndAdd(o, p, NewPayment(o, via, amount, "verified"))
  PROVE  PaymentsTyped' /\ Verified(o)' # {}
<1>1. /\ payment' \in [PaymentIds -> Payment \cup {NoPayment}]
      /\ PaymentsOf(o, "verified")' = PaymentsOf(o, "verified") \cup {p}
  BY SettlementPayments
<1>. QED
  BY <1>1 DEF PaymentsTyped, Verified

LEMMA PayOne ==
  ASSUME TypeOK, NEW o \in Orders, NEW row \in Rows, NEW seen \in Nat,
         PayOrderWithWallet(o, row, seen)
  PROVE  /\ PaymentsTyped' /\ Verified(o)' # {}
         /\ WalletsTyped'
<1>1. row.price \in Nat /\ "wallet" \in Methods
  BY DEF Rows, Methods
<1>2. PaymentsTyped' /\ Verified(o)' # {}
  BY <1>1, SettleOne DEF PayOrderWithWallet
<1>3. Owner[o] \in Customers /\ WalletKey[o] \in Keys
  BY OrdersAssumption, WalletAssumption
<1>4. WalletsTyped'
  <2>1. CASE UNCHANGED walletVars
    BY <2>1 DEF walletVars, WalletsTyped, TypeOK
  <2>2. CASE /\ row.price <= seen
             /\ balance' = [balance EXCEPT
                              ![Owner[o]] = Flush(@, seen, seen - row.price)]
             /\ ledger' = [ledger EXCEPT
                             ![WalletKey[o]] = [kind |-> "debit", customer |-> Owner[o],
                                                amount |-> row.price]]
    <3>1. seen - row.price \in Nat
      BY <1>1, <2>2
    <3>2. Flush(balance[Owner[o]], seen, seen - row.price) \in Nat
      BY <1>3, <3>1 DEF Flush, TypeOK
    <3>3. balance' \in [Customers -> Nat]
      BY <2>2, <3>2 DEF TypeOK
    <3>4. [kind |-> "debit", customer |-> Owner[o], amount |-> row.price] \in Entry
      BY <1>1, <1>3 DEF Entry
    <3>5. ledger' \in [Keys -> Entry \cup {NoEntry}]
      BY <2>2, <3>4 DEF TypeOK
    <3>. QED
      BY <3>3, <3>5 DEF WalletsTyped
  <2>. QED
    BY <2>1, <2>2 DEF PayOrderWithWallet, DebitWallet
<1>. QED
  BY <1>2, <1>4

LEMMA CreditTyped ==
  ASSUME TypeOK, NEW c \in Customers, NEW k \in Keys, NEW a \in Amounts, NEW seen \in Nat,
         CreditWallet(c, k, a, seen)
  PROVE  WalletsTyped'
<1>1. a \in Nat
  BY WalletAssumption
<1>2. seen + a \in Nat
  BY <1>1
<1>3. balance' = [balance EXCEPT ![c] = Flush(balance[c], seen, seen + a)]
  BY DEF CreditWallet
<1>4. balance' \in [Customers -> Nat]
  BY <1>2, <1>3 DEF Flush, TypeOK
<1>5. [kind |-> "credit", customer |-> c, amount |-> a] \in Entry
  BY <1>1 DEF Entry
<1>6. ledger' \in [Keys -> Entry \cup {NoEntry}]
  BY <1>5 DEF CreditWallet, TypeOK
<1>. QED
  BY <1>4, <1>6 DEF WalletsTyped

LEMMA FailTyped ==
  ASSUME TypeOK, NEW S \in SUBSET PaymentIds, \A p \in S : payment[p].status = "pending",
         FailPayments(S)
  PROVE  PaymentsTyped'
  BY FailedPayments DEF PaymentsTyped

\* Every service keeps the types.
LEMMA ServiceTyped ==
  ASSUME TypeOK, NEW o \in Orders, NEW row \in Copies(o), OrderService(o, row)
  PROVE  TypeOK'
<1>. row \in Rows /\ row.price \in Nat
  BY DEF Copies, Rows
<1>0. /\ StatusTyped /\ DiscountsTyped /\ PaymentsTyped /\ WalletsTyped
      /\ captured \subseteq PaymentIds
  BY TypeParts
<1>1. /\ UNCHANGED status => StatusTyped'
      /\ UNCHANGED discountVars => DiscountsTyped'
      /\ UNCHANGED payment => PaymentsTyped'
      /\ UNCHANGED walletVars => WalletsTyped'
      /\ UNCHANGED captured => captured' \subseteq PaymentIds
  BY <1>0 DEF discountVars, walletVars, StatusTyped, DiscountsTyped, PaymentsTyped,
              WalletsTyped
<1>2. \A st \in {"paid", "awaiting_payment", "canceled"} :
        SetStatus(o, row, st) => StatusTyped'
  BY SetStatusOne, StatusNames
<1>3. ASSUME NEW c \in Codes, ApplyDiscountCode(o, row, c) PROVE TypeOK'
  <2>1. DiscountsTyped' /\ UNCHANGED <<walletVars, captured>>
    BY <1>3, ReserveOne DEF ApplyDiscountCode
  <2>2. CASE redemption'[o].status = "redeemed"
    <3>1. SettleZeroPriceOrder(o, row)
      BY <1>3, <2>2, ReserveOne
    <3>2. "discount" \in Methods /\ 0 \in Nat
      BY DEF Methods
    <3>3. PaymentsTyped'
      BY <3>1, <3>2, SettleOne DEF SettleZeroPriceOrder
    <3>. QED
      BY <1>1, <1>2, <2>1, <3>1, <3>3, NewTypeParts DEF SettleZeroPriceOrder
  <2>3. CASE redemption'[o].status # "redeemed"
    <3>1. UNCHANGED <<status, payment>>
      BY <1>3, <2>3, ReserveOne
    <3>. QED
      BY <1>1, <2>1, <3>1, NewTypeParts
  <2>. QED
    BY <2>2, <2>3
<1>4. ASSUME NEW via \in Gateways \cup ManualMethods, CreatePendingPayment(o, row, via)
      PROVE  TypeOK'
  <2>1. PICK p \in PaymentIds :
          payment' = [payment EXCEPT ![p] = NewPayment(o, via, row.price, "pending")]
    BY <1>4 DEF CreatePendingPayment
  <2>2. PaymentsTyped'
    BY <2>1, InsertTyped DEF Methods
  <2>. QED
    BY <1>1, <1>2, <1>4, <2>2, NewTypeParts DEF CreatePendingPayment
<1>5. CASE ApproveManualOrder(o, row)
  <2>1. PaymentsTyped' /\ SetStatus(o, row, "paid") /\ UNCHANGED <<walletVars, captured>>
    BY <1>5, ApproveOne
  <2>2. RedeemDiscount(o)
    BY <1>5, ManualPending DEF ApproveManualOrder, VerifyPayment
  <2>3. DiscountsTyped'
    BY <2>2, RedeemOne
  <2>. QED
    BY <1>1, <1>2, <2>1, <2>3, NewTypeParts
<1>6. CASE RejectPendingManualPayment(o, row)
  <2>1. PICK p \in Newest(PendingVia(o, ManualMethods)) : FailPayments({p})
    BY <1>6 DEF RejectPendingManualPayment
  <2>2. PaymentsTyped'
    BY <2>1, ManualPending, FailTyped
  <2>. QED
    BY <1>1, <1>2, <1>6, <2>2, NewTypeParts DEF RejectPendingManualPayment
<1>7. CASE CancelUnpaidOrder(o, row)
  <2>1. PaymentsTyped'
    BY <1>7, FailTyped DEF CancelUnpaidOrder, PaymentsOf
  <2>2. DiscountsTyped'
    BY <1>7, ReleaseOne DEF CancelUnpaidOrder
  <2>. QED
    BY <1>1, <1>2, <1>7, <2>1, <2>2, NewTypeParts DEF CancelUnpaidOrder
<1>8. ASSUME NEW seen \in Nat, PayOrderWithWallet(o, row, seen) PROVE TypeOK'
  <2>1. PaymentsTyped' /\ WalletsTyped'
    BY <1>8, PayOne
  <2>2. DiscountsTyped'
    BY <1>8, RedeemOne DEF PayOrderWithWallet
  <2>. QED
    BY <1>1, <1>2, <1>8, <2>1, <2>2, NewTypeParts DEF PayOrderWithWallet
<1>9. ASSUME NEW outcome \in {"completed", "failed"}, FulfillPaidOrder(o, row, outcome)
      PROVE  TypeOK'
  <2>1. StatusTyped'
    BY <1>9, StatusNames DEF FulfillPaidOrder, StatusTyped, TypeOK
  <2>. QED
    BY <1>1, <1>9, <2>1, NewTypeParts DEF FulfillPaidOrder
<1>. QED
  BY <1>3, <1>4, <1>5, <1>6, <1>7, <1>8, <1>9 DEF OrderService

LEMMA CopyTyped ==
  ASSUME TypeOK, CopyNext
  PROVE  TypeOK'
<1>0. /\ StatusTyped /\ DiscountsTyped /\ PaymentsTyped /\ WalletsTyped
      /\ captured \subseteq PaymentIds
  BY TypeParts
<1>1. /\ UNCHANGED status => StatusTyped'
      /\ UNCHANGED discountVars => DiscountsTyped'
      /\ UNCHANGED payment => PaymentsTyped'
      /\ UNCHANGED walletVars => WalletsTyped'
      /\ UNCHANGED captured => captured' \subseteq PaymentIds
  BY <1>0 DEF discountVars, walletVars, StatusTyped, DiscountsTyped, PaymentsTyped,
              WalletsTyped
<1>2. ASSUME NEW o \in Orders, PlaceOrder(o) PROVE TypeOK'
  <2>1. StatusTyped'
    BY <1>2, StatusNames DEF PlaceOrder, StatusTyped, TypeOK
  <2>. QED
    BY <1>1, <1>2, <2>1, NewTypeParts DEF PlaceOrder
<1>3. ASSUME NEW p \in PaymentIds, NEW row, CallbackPaid(p, row) PROVE TypeOK'
  <2>1. captured' \subseteq PaymentIds
    BY <1>0, <1>3 DEF CallbackPaid
  <2>2. CASE VerifyPayment(p, row)
    <3>1. payment[p].order \in Orders /\ PaymentsTyped'
      BY <2>2, VerifyTyped
    <3>2. StatusTyped'
      BY <2>2, <3>1, SetStatusOne, StatusNames DEF VerifyPayment
    <3>3. DiscountsTyped' /\ UNCHANGED walletVars
      BY <2>2, <3>1, RedeemOne DEF VerifyPayment
    <3>. QED
      BY <1>1, <2>1, <3>1, <3>2, <3>3, NewTypeParts
  <2>3. CASE UNCHANGED <<status, discountVars, payment, walletVars>>
    BY <1>1, <2>1, <2>3, NewTypeParts
  <2>. QED
    BY <1>3, <2>2, <2>3 DEF CallbackPaid
<1>4. ASSUME NEW p \in PaymentIds, CallbackNotPaid(p) PROVE TypeOK'
  <2>1. PaymentsTyped'
    BY <1>4, FailTyped DEF CallbackNotPaid, FailPayment
  <2>. QED
    BY <1>1, <1>4, <2>1, NewTypeParts DEF CallbackNotPaid, FailPayment
<1>5. ASSUME NEW c \in Customers, NEW k \in Keys, NEW a \in Amounts, NEW seen \in Nat,
             CreditWallet(c, k, a, seen)
      PROVE  TypeOK'
  BY <1>1, <1>5, CreditTyped, NewTypeParts DEF CreditWallet
<1>6. ASSUME NEW S \in SUBSET Orders, ReleaseStaleDiscounts(S) PROVE TypeOK'
  <2>1. DiscountsTyped'
    BY <1>6, ReleaseStaleOne
  <2>. QED
    BY <1>1, <1>6, <2>1, NewTypeParts DEF ReleaseStaleDiscounts, walletVars
<1>7. CASE OnlyCaptures
  BY <1>1, <1>7, NewTypeParts DEF OnlyCaptures
<1>. QED
  BY <1>2, <1>3, <1>4, <1>5, <1>6, <1>7, ServiceTyped DEF CopyNext

-----------------------------------------------------------------------------
(* A paid order has its payment, whatever copies the services decide from *)

LEMMA VerifiedGrow ==
  ASSUME Final, NEW o PROVE Verified(o) \subseteq Verified(o)'
  BY DEF Final, Verified, PaymentsOf

\* A step about one order: it verifies a payment, or settles and spends nothing.
LEMMA PaidOne ==
  ASSUME PaidHasItsPayment, Final, NEW o \in Orders,
         \A x \in Orders \ {o} : status'[x] = status[x] /\ redemption'[x] = redemption[x],
         \/ Verified(o)' # {}
         \/ /\ status'[o] \in Settled => status[o] \in Settled
            /\ redemption'[o].status = "redeemed" => redemption[o].status = "redeemed"
  PROVE  PaidHasItsPayment'
<1>1. \A x \in Orders : Verified(x) # {} => Verified(x)' # {}
  BY VerifiedGrow
<1>2. ASSUME NEW x \in Orders,
             status'[x] \in Settled \/ redemption'[x].status = "redeemed"
      PROVE  Verified(x)' # {}
  <2>1. CASE x # o
    BY <1>1, <1>2, <2>1 DEF PaidHasItsPayment
  <2>2. CASE x = o
    BY <1>1, <1>2, <2>2 DEF PaidHasItsPayment
  <2>. QED
    BY <2>1, <2>2
<1>. QED
  BY <1>2 DEF PaidHasItsPayment

LEMMA SamePaid ==
  ASSUME PaidHasItsPayment, Final,
         \A x \in Orders :
           /\ status'[x] \in Settled => status[x] \in Settled
           /\ redemption'[x].status = "redeemed" => redemption[x].status = "redeemed"
  PROVE  PaidHasItsPayment'
<1>1. \A x \in Orders : Verified(x) # {} => Verified(x)' # {}
  BY VerifiedGrow
<1>. QED
  BY <1>1 DEF PaidHasItsPayment

LEMMA ServicePaid ==
  ASSUME TypeOK, PaidHasItsPayment, Final, NEW o \in Orders, NEW row \in Copies(o),
         OrderService(o, row)
  PROVE  PaidHasItsPayment'
<1>0. row \in Rows /\ row.price \in Nat /\ (row.status \in Settled => Verified(o) # {})
  BY DEF Copies, Rows
<1>1. \A x \in Orders : Verified(x) # {} => Verified(x)' # {}
  BY VerifiedGrow
<1>2. \A st \in {"paid", "awaiting_payment", "canceled"} :
        SetStatus(o, row, st) => /\ status'[o] \in {status[o], st}
                                 /\ \A x \in Orders \ {o} : status'[x] = status[x]
  BY SetStatusOne, StatusNames
<1>3. "awaiting_payment" \notin Settled /\ "canceled" \notin Settled
  BY DEF Settled
<1>4. ASSUME NEW c \in Codes, ApplyDiscountCode(o, row, c) PROVE PaidHasItsPayment'
  <2>1. \A x \in Orders \ {o} : redemption'[x] = redemption[x]
    BY <1>0, <1>4, ReserveOne
  <2>2. CASE redemption'[o].status = "redeemed"
    <3>1. SettleZeroPriceOrder(o, row)
      BY <1>0, <1>4, <2>2, ReserveOne
    <3>2. "discount" \in Methods /\ 0 \in Nat
      BY DEF Methods
    <3>3. Verified(o)' # {}
      BY <3>1, <3>2, SettleOne DEF SettleZeroPriceOrder
    <3>. QED
      BY <1>2, <2>1, <3>1, <3>3, PaidOne DEF SettleZeroPriceOrder
  <2>3. CASE redemption'[o].status # "redeemed"
    <3>1. UNCHANGED status
      BY <1>0, <1>4, <2>3, ReserveOne
    <3>. QED
      BY <2>1, <2>3, <3>1, PaidOne
  <2>. QED
    BY <2>2, <2>3
<1>5. ASSUME SetStatus(o, row, "awaiting_payment"), UNCHANGED redemption
      PROVE  PaidHasItsPayment'
  BY <1>2, <1>3, <1>5, PaidOne
<1>6. CASE ApproveManualOrder(o, row)
  <2>1. Verified(o)' # {} /\ SetStatus(o, row, "paid")
    BY <1>0, <1>6, ApproveOne
  <2>2. RedeemDiscount(o)
    BY <1>6, ManualPending DEF ApproveManualOrder, VerifyPayment
  <2>. QED
    BY <1>2, <2>1, <2>2, RedeemOne, PaidOne
<1>7. CASE CancelUnpaidOrder(o, row)
  <2>1. SetStatus(o, row, "canceled") /\ ReleaseDiscount(o, row)
    BY <1>7 DEF CancelUnpaidOrder
  <2>2. /\ redemption'[o].status # "redeemed"
        /\ \A x \in Orders \ {o} : redemption'[x] = redemption[x]
    BY <1>0, <2>1, ReleaseOne
  <2>. QED
    BY <1>2, <1>3, <2>1, <2>2, PaidOne
<1>8. ASSUME NEW seen \in Nat, PayOrderWithWallet(o, row, seen) PROVE PaidHasItsPayment'
  <2>1. Verified(o)' # {}
    BY <1>0, <1>8, PayOne
  <2>2. \A x \in Orders \ {o} : redemption'[x] = redemption[x]
    BY <1>8, RedeemOne DEF PayOrderWithWallet
  <2>. QED
    BY <1>2, <1>8, <2>1, <2>2, PaidOne DEF PayOrderWithWallet
<1>9. ASSUME NEW outcome \in {"completed", "failed"}, FulfillPaidOrder(o, row, outcome)
      PROVE  PaidHasItsPayment'
  <2>1. Verified(o)' # {}
    BY <1>0, <1>1, <1>9 DEF FulfillPaidOrder, Settled
  <2>2. \A x \in Orders \ {o} : status'[x] = status[x] /\ redemption'[x] = redemption[x]
    BY <1>9 DEF FulfillPaidOrder, discountVars, TypeOK
  <2>. QED
    BY <2>1, <2>2, PaidOne
<1>. QED
  BY <1>4, <1>5, <1>6, <1>7, <1>8, <1>9
     DEF OrderService, CreatePendingPayment, RejectPendingManualPayment, discountVars

LEMMA CopyPaid ==
  ASSUME TypeOK, PaidHasItsPayment, CopyNext
  PROVE  PaidHasItsPayment'
<1>1. Final
  BY CopyFinal
<1>2. ASSUME UNCHANGED <<status, redemption>> PROVE PaidHasItsPayment'
  BY <1>1, <1>2, SamePaid
<1>3. ASSUME NEW o \in Orders, PlaceOrder(o) PROVE PaidHasItsPayment'
  <2>1. /\ status' = [status EXCEPT ![o] = "awaiting_payment"]
        /\ UNCHANGED redemption
    BY <1>3 DEF PlaceOrder, discountVars
  <2>2. \A x \in Orders : status'[x] \in Settled => status[x] \in Settled
    BY <2>1 DEF TypeOK, Settled
  <2>. QED
    BY <1>1, <2>1, <2>2, SamePaid
<1>4. ASSUME NEW p \in PaymentIds, NEW row, VerifyPayment(p, row) PROVE PaidHasItsPayment'
  <2>1. PICK o \in Orders : o = payment[p].order
    BY <1>4, VerifyTyped
  <2>2. payment'[p].status = "verified" /\ payment'[p].order = o
    BY <1>4, <2>1, VerifyTyped
  <2>3. Verified(o)' # {}
    BY <2>2 DEF Verified, PaymentsOf
  <2>4. RedeemDiscount(o) /\ SetStatus(o, row, "paid")
    BY <1>4, <2>1 DEF VerifyPayment
  <2>. QED
    BY <1>1, <2>3, <2>4, RedeemOne, SetStatusOne, StatusNames, PaidOne
<1>5. ASSUME NEW p \in PaymentIds, NEW row, CallbackPaid(p, row) PROVE PaidHasItsPayment'
  BY <1>2, <1>4, <1>5 DEF CallbackPaid, discountVars
<1>6. ASSUME NEW S \in SUBSET Orders, ReleaseStaleDiscounts(S) PROVE PaidHasItsPayment'
  <2>1. UNCHANGED status
    BY <1>6 DEF ReleaseStaleDiscounts
  <2>. QED
    BY <1>1, <1>6, <2>1, ReleaseStaleOne, SamePaid
<1>7. CASE \/ \E p \in PaymentIds : CallbackNotPaid(p)
           \/ \E c \in Customers, k \in Keys, a \in Amounts, seen \in Nat :
                CreditWallet(c, k, a, seen)
           \/ OnlyCaptures
  BY <1>2, <1>7 DEF CallbackNotPaid, FailPayment, CreditWallet, OnlyCaptures, discountVars
<1>. QED
  BY <1>1, <1>3, <1>5, <1>6, <1>7, ServicePaid DEF CopyNext

-----------------------------------------------------------------------------
(* Sessions.  What a session holds is a copy in the sense above, and stays   *)
(* one while other sessions commit: a verified payment stays verified, and a *)
(* payment row keeps its order.  So every step of CheckoutSessions is a step *)
(* of CopyNext.                                                              *)

Held(w) ==
    \/ w = Idle
    \/ \E o \in Orders : \E row \in Copies(o) :
         w = [stage |-> "loaded", order |-> o, row |-> row]
    \/ \E p \in PaymentIds :
         /\ payment[p] \in Payment
         /\ \E row \in Copies(payment[p].order) :
              w = [stage |-> "verifying", payment |-> p, row |-> row]
    \/ \E o \in Orders : \E row \in Copies(o), seen \in Nat :
         w = [stage |-> "paying", order |-> o, row |-> row, balance |-> seen]
    \/ \E c \in Customers, seen \in Nat :
         w = [stage |-> "crediting", customer |-> c, balance |-> seen]

SessionsHold ==
    /\ sess = [s \in Sessions |-> sess[s]]
    /\ \A s \in Sessions : Held(sess[s])

RowsInv == TypeOK /\ UsedCountExact /\ DebitMatchesPayment /\ PaidHasItsPayment
SInv == RowsInv /\ SessionsHold

PaymentsKept == \A p \in PaymentIds :
    payment[p] \in Payment =>
        payment'[p] \in Payment /\ payment'[p].order = payment[p].order

LEMMA FailKept ==
  ASSUME NEW S, FailPayments(S) PROVE PaymentsKept
  BY DEF FailPayments, PaymentsKept, Payment

LEMMA InsertKept ==
  ASSUME TypeOK, NEW p \in PaymentIds, NextId(p), NEW new,
         payment' = [payment EXCEPT ![p] = new]
  PROVE  PaymentsKept
<1>1. payment[p] \notin Payment
  BY DEF NextId, NoPayment, Payment
<1>2. \A q \in PaymentIds \ {p} : payment'[q] = payment[q]
  BY DEF TypeOK
<1>. QED
  BY <1>1, <1>2 DEF PaymentsKept

LEMMA SettlementKept ==
  ASSUME NEW o \in Orders, NEW p \in PaymentIds, NextId(p), NEW new,
         FailPendingAndAdd(o, p, new)
  PROVE  PaymentsKept
<1>1. payment[p] \notin Payment
  BY DEF NextId, NoPayment, Payment
<1>2. \A q \in PaymentIds \ {p} :
        \/ payment'[q] = payment[q]
        \/ payment'[q] = [payment[q] EXCEPT !.status = "failed"]
  BY DEF FailPendingAndAdd
<1>. QED
  BY <1>1, <1>2 DEF PaymentsKept, Payment

LEMMA VerifyKept ==
  ASSUME TypeOK, NEW p \in PaymentIds, NEW row, VerifyPayment(p, row)
  PROVE  PaymentsKept
<1>1. \A q \in PaymentIds \ {p} : payment'[q] = payment[q]
  BY DEF VerifyPayment, TypeOK
<1>2. payment'[p] = [payment[p] EXCEPT !.status = "verified"]
  BY DEF VerifyPayment, TypeOK
<1>. QED
  BY <1>1, <1>2 DEF PaymentsKept, Payment

LEMMA CopyKept ==
  ASSUME TypeOK, CopyNext
  PROVE  PaymentsKept
<1>1. ASSUME UNCHANGED payment PROVE PaymentsKept
  BY <1>1 DEF PaymentsKept
<1>2. ASSUME NEW o \in Orders, NEW row, OrderService(o, row)
      PROVE  PaymentsKept
  <2>1. ASSUME NEW c \in Codes, ApplyDiscountCode(o, row, c) PROVE PaymentsKept
    BY <1>1, <2>1, SettlementKept DEF ApplyDiscountCode, SettleZeroPriceOrder
  <2>2. ASSUME NEW via, CreatePendingPayment(o, row, via) PROVE PaymentsKept
    BY <2>2, InsertKept DEF CreatePendingPayment
  <2>3. CASE ApproveManualOrder(o, row)
    <3>1. ASSUME NEW p \in Newest(PendingVia(o, ManualMethods)), VerifyPayment(p, row)
          PROVE  PaymentsKept
      BY <3>1, ManualPending, VerifyKept
    <3>2. ASSUME NEW p \in PaymentIds, NextId(p), NEW new,
                 payment' = [payment EXCEPT ![p] = new]
          PROVE  PaymentsKept
      BY <3>2, InsertKept
    <3>. QED
      BY <2>3, <3>1, <3>2 DEF ApproveManualOrder
  <2>4. CASE RejectPendingManualPayment(o, row) \/ CancelUnpaidOrder(o, row)
    BY <2>4, FailKept DEF RejectPendingManualPayment, CancelUnpaidOrder
  <2>5. ASSUME NEW seen, PayOrderWithWallet(o, row, seen) PROVE PaymentsKept
    BY <2>5, SettlementKept DEF PayOrderWithWallet
  <2>6. ASSUME NEW outcome, FulfillPaidOrder(o, row, outcome) PROVE PaymentsKept
    BY <1>1, <2>6 DEF FulfillPaidOrder
  <2>. QED
    BY <1>2, <2>1, <2>2, <2>3, <2>4, <2>5, <2>6 DEF OrderService
<1>3. ASSUME NEW p \in PaymentIds, NEW row, CallbackPaid(p, row) PROVE PaymentsKept
  BY <1>1, <1>3, VerifyKept DEF CallbackPaid
<1>4. ASSUME NEW p \in PaymentIds, CallbackNotPaid(p) PROVE PaymentsKept
  BY <1>4, FailKept DEF CallbackNotPaid, FailPayment
<1>5. CASE \/ \E o \in Orders : PlaceOrder(o)
           \/ \E c \in Customers, k \in Keys, a \in Amounts, seen \in Nat :
                CreditWallet(c, k, a, seen)
           \/ \E S \in SUBSET Orders : ReleaseStaleDiscounts(S)
           \/ OnlyCaptures
  BY <1>1, <1>5 DEF PlaceOrder, CreditWallet, ReleaseStaleDiscounts, OnlyCaptures
<1>. QED
  BY <1>2, <1>3, <1>4, <1>5 DEF CopyNext

LEMMA CopyRowsInv ==
  ASSUME RowsInv, CopyNext
  PROVE  RowsInv' /\ Final
  BY CopyTyped, CopyUses, CopyDebits, CopyPaid, CopyFinal DEF RowsInv

LEMMA InitRowsInv == Init => RowsInv
<1>1. Init => TypeOK
  BY InitIInv DEF IInv
<1>2. Init => PaidHasItsPayment
  BY DEF Init, PaidHasItsPayment, Settled, NoRedemption
<1>. QED
  BY <1>1, <1>2, InitUses, InitDebits DEF RowsInv

\* What a session holds stays a copy.
LEMMA HeldKept ==
  ASSUME TypeOK, CopyNext, NEW w, Held(w)
  PROVE  Held(w)'
<1>1. \A o \in Orders : Copies(o) \subseteq Copies(o)'
  <2>. SUFFICES ASSUME NEW o \in Orders PROVE Copies(o) \subseteq Copies(o)'
    OBVIOUS
  <2>1. Verified(o) \subseteq Verified(o)'
    BY CopyFinal, VerifiedGrow
  <2>. QED
    BY <2>1 DEF Copies
<1>2. CASE \/ w = Idle
           \/ \E o \in Orders : \E row \in Copies(o) :
                w = [stage |-> "loaded", order |-> o, row |-> row]
           \/ \E o \in Orders : \E row \in Copies(o), seen \in Nat :
                w = [stage |-> "paying", order |-> o, row |-> row, balance |-> seen]
           \/ \E c \in Customers, seen \in Nat :
                w = [stage |-> "crediting", customer |-> c, balance |-> seen]
  BY <1>1, <1>2 DEF Held
<1>3. ASSUME NEW p \in PaymentIds, payment[p] \in Payment,
             NEW row \in Copies(payment[p].order),
             w = [stage |-> "verifying", payment |-> p, row |-> row]
      PROVE  Held(w)'
  <2>1. PICK o \in Orders : o = payment[p].order
    BY <1>3 DEF Payment
  <2>2. payment'[p] \in Payment /\ payment'[p].order = o
    BY <1>3, <2>1, CopyKept DEF PaymentsKept
  <2>3. row \in Copies(o)'
    BY <1>1, <2>1
  <2>4. row \in Copies(payment[p].order)'
    BY <2>2, <2>3 DEF Copies, Verified, PaymentsOf
  <2>. QED
    BY <1>3, <2>2, <2>4 DEF Held
<1>. QED
  BY <1>2, <1>3 DEF Held

\* A session takes up `work`; the others keep what they hold.
LEMMA Moved ==
  ASSUME SInv, CopyNext, NEW s \in Sessions, NEW work, Held(work)',
         sess' = [sess EXCEPT ![s] = work]
  PROVE  SInv'
<1>1. RowsInv'
  BY CopyRowsInv DEF SInv
<1>2. \A t \in Sessions : Held(sess[t])
  BY DEF SInv, SessionsHold
<1>3. ASSUME NEW t \in Sessions PROVE Held(sess[t])'
  <2>1. PICK w : w = sess'[t]
    OBVIOUS
  <2>2. CASE t = s
    <3>1. w = work
      BY <2>1, <2>2 DEF SInv, SessionsHold
    <3>. QED
      BY <2>1, <3>1 DEF Held
  <2>3. CASE t # s
    <3>1. w = sess[t]
      BY <2>1, <2>3 DEF SInv, SessionsHold
    <3>2. Held(w)'
      BY <1>2, <3>1, HeldKept DEF SInv, RowsInv
    <3>. QED
      BY <2>1, <3>2 DEF Held
  <2>. QED
    BY <2>2, <2>3
<1>4. (sess = [t \in Sessions |-> sess[t]])'
  BY DEF SInv, SessionsHold
<1>. QED
  BY <1>1, <1>3, <1>4 DEF SInv, SessionsHold

LEMMA IdleHeld == Held(Idle)'
  BY DEF Held, Idle

LEMMA Stutters ==
  ASSUME TypeOK, UNCHANGED vars PROVE CopyNext
  BY DEF vars, discountVars, walletVars, CopyNext, OnlyCaptures, TypeOK

\* The first step of a session: what it loads is a copy.
LEMMA Starts ==
  ASSUME SInv, NEW s \in Sessions, NEW work, Held(work), Start(s, work)
  PROVE  SInv' /\ CopyNext
<1>1. CopyNext
  BY Stutters DEF SInv, RowsInv, Start
<1>2. Held(work)'
  BY <1>1, HeldKept DEF SInv, RowsInv
<1>. QED
  BY <1>1, <1>2, Moved DEF Start

\* The last step of a session.
LEMMA Ends ==
  ASSUME SInv, NEW s \in Sessions, CopyNext, End(s)
  PROVE  SInv'
  BY IdleHeld, Moved DEF End

LEMMA FirstStep ==
  ASSUME SInv, NEW s \in Sessions,
         \/ \E o \in Orders : LoadOrder(s, o) \/ LockOrderReadWallet(s, o)
         \/ \E p \in PaymentIds : LockPayment(s, p)
         \/ \E c \in Customers : ReadWallet(s, c)
  PROVE  SInv' /\ CopyNext
<1>0. TypeOK /\ PaidHasItsPayment
  BY DEF SInv, RowsInv
<1>1. \A o \in Orders : Row(o) \in Copies(o)
  BY <1>0, RowIsCopy DEF PaidHasItsPayment
<1>2. ASSUME NEW o \in Orders, LoadOrder(s, o) PROVE SInv' /\ CopyNext
  <2>1. Held(Loaded(o))
    BY <1>1 DEF Held, Loaded
  <2>. QED
    BY <1>2, <2>1, Starts DEF LoadOrder
<1>3. ASSUME NEW o \in Orders, LockOrderReadWallet(s, o) PROVE SInv' /\ CopyNext
  <2>1. balance[Owner[o]] \in Nat
    BY <1>0, OrdersAssumption DEF TypeOK
  <2>2. Held(Paying(o))
    BY <1>1, <2>1 DEF Held, Paying
  <2>. QED
    BY <1>3, <2>2, Starts DEF LockOrderReadWallet
<1>4. ASSUME NEW p \in PaymentIds, LockPayment(s, p) PROVE SInv' /\ CopyNext
  <2>1. payment[p] \in Payment /\ payment[p].order \in Orders
    BY <1>0, <1>4, PendingOrder DEF LockPayment, AwaitsGateway
  <2>2. Held(Verifying(p))
    BY <1>1, <2>1 DEF Held, Verifying
  <2>. QED
    BY <1>4, <2>2, Starts DEF LockPayment
<1>5. ASSUME NEW c \in Customers, ReadWallet(s, c) PROVE SInv' /\ CopyNext
  <2>1. Held(Crediting(c))
    BY <1>0 DEF Held, Crediting, TypeOK
  <2>. QED
    BY <1>5, <2>1, Starts DEF ReadWallet
<1>. QED
  BY <1>2, <1>3, <1>4, <1>5

\* The stage says which copy a session holds.
LEMMA HeldStages ==
  ASSUME NEW w, Held(w)
  PROVE  /\ w.stage = "loaded" =>
              \E o \in Orders : \E row \in Copies(o) :
                w = [stage |-> "loaded", order |-> o, row |-> row]
         /\ w.stage = "verifying" =>
              \E p \in PaymentIds :
                /\ payment[p] \in Payment
                /\ \E row \in Copies(payment[p].order) :
                     w = [stage |-> "verifying", payment |-> p, row |-> row]
         /\ w.stage = "paying" =>
              \E o \in Orders : \E row \in Copies(o), seen \in Nat :
                w = [stage |-> "paying", order |-> o, row |-> row, balance |-> seen]
         /\ w.stage = "crediting" =>
              \E c \in Customers, seen \in Nat :
                w = [stage |-> "crediting", customer |-> c, balance |-> seen]
<1>1. w = Idle => w.stage = "idle"
  BY DEF Idle
<1>2. \A o, row : w = [stage |-> "loaded", order |-> o, row |-> row] =>
        w.stage = "loaded"
  OBVIOUS
<1>3. \A p, row : w = [stage |-> "verifying", payment |-> p, row |-> row] =>
        w.stage = "verifying"
  OBVIOUS
<1>4. \A o, row, seen :
        w = [stage |-> "paying", order |-> o, row |-> row, balance |-> seen] =>
        w.stage = "paying"
  OBVIOUS
<1>5. \A c, seen : w = [stage |-> "crediting", customer |-> c, balance |-> seen] =>
        w.stage = "crediting"
  OBVIOUS
<1>. QED
  <2>1. CASE w = Idle
    BY <1>1, <2>1
  <2>2. CASE \E o \in Orders : \E row \in Copies(o) :
               w = [stage |-> "loaded", order |-> o, row |-> row]
    <3>1. w.stage = "loaded"
      BY <1>2, <2>2
    <3>. QED
      BY <2>2, <3>1
  <2>3. CASE \E p \in PaymentIds :
               /\ payment[p] \in Payment
               /\ \E row \in Copies(payment[p].order) :
                    w = [stage |-> "verifying", payment |-> p, row |-> row]
    <3>1. w.stage = "verifying"
      BY <1>3, <2>3
    <3>. QED
      BY <2>3, <3>1
  <2>4. CASE \E o \in Orders : \E row \in Copies(o), seen \in Nat :
               w = [stage |-> "paying", order |-> o, row |-> row, balance |-> seen]
    <3>1. w.stage = "paying"
      BY <1>4, <2>4
    <3>. QED
      BY <2>4, <3>1
  <2>5. CASE \E c \in Customers, seen \in Nat :
               w = [stage |-> "crediting", customer |-> c, balance |-> seen]
    <3>1. w.stage = "crediting"
      BY <1>5, <2>5
    <3>. QED
      BY <2>5, <3>1
  <2>. QED
    BY <2>1, <2>2, <2>3, <2>4, <2>5 DEF Held

LEMMA LastStep ==
  ASSUME SInv, NEW s \in Sessions,
         FinishOrder(s) \/ FinishCallback(s) \/ FinishWalletPayment(s)
           \/ FinishCredit(s) \/ Abort(s)
  PROVE  CopyNext /\ End(s)
<1>0. TypeOK /\ Held(sess[s])
  BY DEF SInv, RowsInv, SessionsHold
<1>1. CASE FinishOrder(s)
  <2>1. PICK o \in Orders : \E row \in Copies(o) :
          sess[s] = [stage |-> "loaded", order |-> o, row |-> row]
    BY <1>0, <1>1, HeldStages DEF FinishOrder
  <2>2. PICK row \in Copies(o) : sess[s] = [stage |-> "loaded", order |-> o, row |-> row]
    BY <2>1
  <2>3. sess[s].order = o /\ sess[s].row = row
    BY <2>2
  <2>4. OrderService(o, row)
    BY <1>1, <2>3 DEF FinishOrder, OrderService, StartGatewayPayment, SubmitReceipt
  <2>. QED
    BY <1>1, <2>4 DEF CopyNext, FinishOrder
<1>2. CASE FinishCallback(s)
  <2>1. PICK p \in PaymentIds :
          /\ payment[p] \in Payment
          /\ \E row \in Copies(payment[p].order) :
               sess[s] = [stage |-> "verifying", payment |-> p, row |-> row]
    BY <1>0, <1>2, HeldStages DEF FinishCallback
  <2>2. PICK row \in Copies(payment[p].order) :
          sess[s] = [stage |-> "verifying", payment |-> p, row |-> row]
    BY <2>1
  <2>3. sess[s].payment = p /\ sess[s].row = row
    BY <2>2
  <2>4. CallbackPaid(p, row) \/ CallbackNotPaid(p)
    BY <1>2, <2>3 DEF FinishCallback
  <2>. QED
    BY <1>2, <2>2, <2>4 DEF CopyNext, FinishCallback
<1>3. CASE FinishWalletPayment(s)
  <2>1. PICK o \in Orders : \E row \in Copies(o), seen \in Nat :
          sess[s] = [stage |-> "paying", order |-> o, row |-> row, balance |-> seen]
    BY <1>0, <1>3, HeldStages DEF FinishWalletPayment
  <2>2. PICK row \in Copies(o), seen \in Nat :
          sess[s] = [stage |-> "paying", order |-> o, row |-> row, balance |-> seen]
    BY <2>1
  <2>3. sess[s].order = o /\ sess[s].row = row /\ sess[s].balance = seen
    BY <2>2
  <2>4. OrderService(o, row)
    BY <1>3, <2>3 DEF FinishWalletPayment, OrderService
  <2>. QED
    BY <1>3, <2>4 DEF CopyNext, FinishWalletPayment
<1>4. CASE FinishCredit(s)
  <2>1. PICK c \in Customers, seen \in Nat :
          sess[s] = [stage |-> "crediting", customer |-> c, balance |-> seen]
    BY <1>0, <1>4, HeldStages DEF FinishCredit
  <2>2. sess[s].customer = c /\ sess[s].balance = seen
    BY <2>1
  <2>. QED
    BY <1>4, <2>2 DEF CopyNext, FinishCredit
<1>5. CASE Abort(s)
  <2>1. CASE UNCHANGED vars
    BY <1>0, <1>5, <2>1, Stutters DEF Abort
  <2>2. CASE /\ sess[s].stage = "verifying"
             /\ captured' = captured \cup {sess[s].payment}
             /\ UNCHANGED <<status, discountVars, payment, walletVars>>
    <3>1. sess[s].payment \in PaymentIds
      BY <1>0, <2>2, HeldStages
    <3>2. OnlyCaptures
      BY <1>0, <2>2, <3>1 DEF OnlyCaptures, TypeOK
    <3>. QED
      BY <1>5, <3>2 DEF CopyNext, Abort
  <2>. QED
    BY <1>5, <2>1, <2>2 DEF Abort
<1>. QED
  BY <1>1, <1>2, <1>3, <1>4, <1>5

LEMMA UnracedStep ==
  ASSUME SInv, Unraced
  PROVE  SInv' /\ CopyNext
<1>0. TypeOK /\ PaidHasItsPayment
  BY DEF SInv, RowsInv
<1>1. ASSUME NEW o \in Orders, ApproveManualOrder(o, Row(o)) PROVE CopyNext
  <2>1. Row(o) \in Copies(o)
    BY <1>0, RowIsCopy DEF PaidHasItsPayment
  <2>. QED
    BY <1>1, <2>1 DEF CopyNext, OrderService
<1>2. CopyNext /\ sess' = sess
  BY <1>1 DEF Unraced, CopyNext
<1>3. RowsInv'
  BY <1>2, CopyRowsInv DEF SInv
<1>4. SessionsHold'
  <2>1. \A s \in Sessions : Held(sess[s])'
    <3>. SUFFICES ASSUME NEW s \in Sessions PROVE Held(sess[s])'
      OBVIOUS
    <3>1. PICK w : w = sess[s]
      OBVIOUS
    <3>2. Held(w)'
      BY <1>0, <1>2, <3>1, HeldKept DEF SInv, SessionsHold
    <3>. QED
      BY <1>2, <3>1, <3>2 DEF Held
  <2>. QED
    BY <1>2, <2>1 DEF SInv, SessionsHold
<1>. QED
  BY <1>2, <1>3, <1>4 DEF SInv

LEMMA SessionStep ==
  ASSUME SInv, [SessionsNext]_sessionVars
  PROVE  SInv' /\ CopyNext
<1>1. CASE Unraced
  BY <1>1, UnracedStep
<1>2. ASSUME NEW s \in Sessions,
             \/ \E o \in Orders : LoadOrder(s, o) \/ LockOrderReadWallet(s, o)
             \/ \E p \in PaymentIds : LockPayment(s, p)
             \/ \E c \in Customers : ReadWallet(s, c)
      PROVE  SInv' /\ CopyNext
  BY <1>2, FirstStep
<1>3. ASSUME NEW s \in Sessions,
             FinishOrder(s) \/ FinishCallback(s) \/ FinishWalletPayment(s)
               \/ FinishCredit(s) \/ Abort(s)
      PROVE  SInv' /\ CopyNext
  BY <1>3, LastStep, Ends
<1>4. CASE UNCHANGED sessionVars
  <2>1. UNCHANGED vars /\ sess' = sess
    BY <1>4 DEF sessionVars
  <2>2. CopyNext
    BY <2>1, Stutters DEF SInv, RowsInv
  <2>3. RowsInv'
    BY <2>2, CopyRowsInv DEF SInv
  <2>4. ASSUME NEW s \in Sessions PROVE Held(sess[s])'
    <3>1. PICK w : w = sess[s]
      OBVIOUS
    <3>2. Held(w)'
      BY <2>2, <3>1, HeldKept DEF SInv, RowsInv, SessionsHold
    <3>. QED
      BY <2>1, <3>1, <3>2 DEF Held
  <2>. QED
    BY <2>1, <2>2, <2>3, <2>4 DEF SInv, SessionsHold
<1>. QED
  BY <1>1, <1>2, <1>3, <1>4 DEF SessionsNext

\* The invariant of any number of sessions: the rows agree, and every session
\* holds a copy that was true when it was loaded.
THEOREM SessionsInvariance == SessionsSpec => []SInv
<1>1. SessionsInit => SInv
  BY InitRowsInv DEF SessionsInit, SInv, SessionsHold, Held
<1>2. SInv /\ [SessionsNext]_sessionVars => SInv'
  BY SessionStep
<1>. QED
  BY <1>1, <1>2, PTL DEF SessionsSpec

\* Stale copies never write a value out of its type: no price, balance or use
\* count below zero, whatever sessions run together.
THEOREM SessionsTypeCorrect == SessionsSpec => []TypeOK
<1>1. SInv => TypeOK
  BY DEF SInv, RowsInv
<1>. QED
  BY SessionsInvariance, <1>1, PTL

\* used_count stays exact and within max_uses when sessions reserve, release,
\* cancel and clean up at the same time (services/discounts.py:93, 107,
\* 166-167): the code row is locked, and the redemption is read after it.
THEOREM SessionsCountUses == SessionsSpec => []UsedCountExact
<1>1. SInv => UsedCountExact
  BY DEF SInv, RowsInv
<1>. QED
  BY SessionsInvariance, <1>1, PTL

\* Sessions that pay one order together debit the wallet once, for the payment
\* that was made (services/wallets.py:183-263).
THEOREM SessionsMatchDebits == SessionsSpec => []DebitMatchesPayment
<1>1. SInv => DebitMatchesPayment
  BY DEF SInv, RowsInv
<1>. QED
  BY SessionsInvariance, <1>1, PTL

\* An order shown as paid, and a spent code, always come with a verified
\* payment, although sessions decide from copies that may be out of date.
THEOREM PaidOrdersHavePayments == SessionsSpec => []PaidHasItsPayment
<1>1. SInv => PaidHasItsPayment
  BY DEF SInv, RowsInv
<1>. QED
  BY SessionsInvariance, <1>1, PTL

\* A payment that was verified or failed stays so, whatever sessions decide
\* about its order later (services/payments.py:102-112, 151-154).
THEOREM SessionsKeepPayments == SessionsSpec => PaymentsAreFinal
<1>1. SInv /\ [SessionsNext]_sessionVars => Final
  BY SessionStep, CopyFinal DEF SInv, RowsInv
<1>2. SInv /\ [SessionsNext]_sessionVars =>
        [\A p \in PaymentIds :
           payment[p].status \in {"verified", "failed"} => payment'[p] = payment[p]]_vars
  BY <1>1 DEF Final
<1>. QED
  BY SessionsInvariance, <1>2, PTL DEF SessionsSpec, PaymentsAreFinal

-----------------------------------------------------------------------------
(* The ledger under concurrency.  A session that changes a wallet overwrites *)
(* its balance from the copy it loaded, so two of them can lose an update;   *)
(* nothing else can, not even an order that is out of date.                  *)

UsesWallet(s) == sess[s].stage \in {"paying", "crediting"}
WalletOf(s) == IF sess[s].stage = "paying" THEN Owner[sess[s].order]
               ELSE sess[s].customer

\* No two sessions have one customer's wallet loaded.
WalletsApart == \A s, t \in Sessions :
    s # t /\ UsesWallet(s) /\ UsesWallet(t) => WalletOf(s) # WalletOf(t)

BalancesCopied == \A s \in Sessions :
    UsesWallet(s) => sess[s].balance = balance[WalletOf(s)]

\* Session s comes to hold `work`, a wallet's balance only if it is current,
\* and only the wallet that it held changes.
LEMMA StillCopied ==
  ASSUME SessionsHold, BalancesCopied, WalletsApart, NEW s \in Sessions, NEW work,
         sess' = [sess EXCEPT ![s] = work],
         work.stage = "paying" => work.balance = balance'[Owner[work.order]],
         work.stage = "crediting" => work.balance = balance'[work.customer],
         \/ balance' = balance
         \/ /\ UsesWallet(s)
            /\ \A c \in Customers \ {WalletOf(s)} : balance'[c] = balance[c]
  PROVE  BalancesCopied'
<1>. SUFFICES ASSUME NEW t \in Sessions, UsesWallet(t)'
              PROVE  sess'[t].balance = balance'[WalletOf(t)']
  BY DEF BalancesCopied
<1>1. CASE t = s
  <2>1. sess'[t] = work
    BY <1>1 DEF SessionsHold
  <2>. QED
    BY <2>1 DEF UsesWallet, WalletOf
<1>2. CASE t # s
  <2>1. sess'[t] = sess[t]
    BY <1>2 DEF SessionsHold
  <2>2. UsesWallet(t) /\ WalletOf(t)' = WalletOf(t)
    BY <2>1 DEF UsesWallet, WalletOf
  <2>3. WalletOf(t) \in Customers
    BY <2>2, HeldStages, OrdersAssumption DEF SessionsHold, UsesWallet, WalletOf
  <2>4. balance'[WalletOf(t)] = balance[WalletOf(t)]
    BY <1>2, <2>2, <2>3 DEF WalletsApart
  <2>. QED
    BY <2>1, <2>2, <2>4 DEF BalancesCopied
<1>. QED
  BY <1>1, <1>2

LEMMA ServiceLeavesWallets ==
  ASSUME NEW s \in Sessions, FinishOrder(s) \/ FinishCallback(s) \/ Abort(s)
  PROVE  UNCHANGED walletVars
<1>1. ASSUME NEW o, NEW row, ApproveManualOrder(o, row) PROVE UNCHANGED walletVars
  BY <1>1 DEF ApproveManualOrder, VerifyPayment
<1>2. CASE FinishOrder(s)
  BY <1>1, <1>2
     DEF FinishOrder, StartGatewayPayment, SubmitReceipt, CreatePendingPayment,
         RejectPendingManualPayment, CancelUnpaidOrder, ApplyDiscountCode,
         FulfillPaidOrder
<1>3. CASE FinishCallback(s)
  BY <1>3 DEF FinishCallback, CallbackPaid, CallbackNotPaid, VerifyPayment, FailPayment
<1>4. CASE Abort(s)
  BY <1>4 DEF Abort, vars, walletVars
<1>. QED
  BY <1>2, <1>3, <1>4

LEMMA SessionLedger ==
  ASSUME SInv, LedgerRows(ledger), LedgerExplainsBalance, BalancesCopied, WalletsApart,
         [SessionsNext]_sessionVars
  PROVE  LedgerRows(ledger)' /\ LedgerExplainsBalance' /\ BalancesCopied'
<1>0. LInv /\ SessionsHold /\ \A s \in Sessions : Held(sess[s])
  BY DEF LInv, SInv, RowsInv, SessionsHold
<1>1. ASSUME UNCHANGED walletVars
      PROVE  LedgerRows(ledger)' /\ LedgerExplainsBalance' /\ balance' = balance
  BY <1>0, <1>1, FreshWallet DEF walletVars
<1>2. ASSUME sess' = sess, balance' = balance PROVE BalancesCopied'
  BY <1>2 DEF BalancesCopied, UsesWallet, WalletOf
<1>3. Idle.stage # "paying" /\ Idle.stage # "crediting"
  BY DEF Idle
<1>4. ASSUME NEW s \in Sessions, NEW work, Start(s, work),
             work.stage = "paying" => work.balance = balance[Owner[work.order]],
             work.stage = "crediting" => work.balance = balance[work.customer]
      PROVE  LedgerRows(ledger)' /\ LedgerExplainsBalance' /\ BalancesCopied'
  <2>1. UNCHANGED walletVars /\ balance' = balance
    BY <1>4 DEF Start, vars, walletVars
  <2>. QED
    BY <1>0, <1>1, <1>4, <2>1, StillCopied DEF Start
<1>5. ASSUME NEW s \in Sessions, UNCHANGED walletVars, End(s)
      PROVE  LedgerRows(ledger)' /\ LedgerExplainsBalance' /\ BalancesCopied'
  BY <1>0, <1>1, <1>3, <1>5, StillCopied DEF End
<1>6. ASSUME NEW s \in Sessions, FinishWalletPayment(s)
      PROVE  LedgerRows(ledger)' /\ LedgerExplainsBalance' /\ BalancesCopied'
  <2>1. PICK o \in Orders : \E row \in Copies(o), seen \in Nat :
          sess[s] = [stage |-> "paying", order |-> o, row |-> row, balance |-> seen]
    BY <1>0, <1>6, HeldStages DEF FinishWalletPayment
  <2>2. PICK row \in Rows, seen \in Nat :
          sess[s] = [stage |-> "paying", order |-> o, row |-> row, balance |-> seen]
    BY <2>1 DEF Copies
  <2>3. UsesWallet(s) /\ WalletOf(s) = Owner[o] /\ seen = balance[Owner[o]]
    BY <2>2 DEF UsesWallet, WalletOf, BalancesCopied
  <2>4. PayOrderWithWallet(o, row, balance[Owner[o]]) /\ End(s)
    BY <1>6, <2>2, <2>3 DEF FinishWalletPayment
  <2>5. \A c \in Customers \ {Owner[o]} : balance'[c] = balance[c]
    BY <1>0, <2>4 DEF PayOrderWithWallet, DebitWallet, walletVars, LInv, TypeOK
  <2>. QED
    BY <1>0, <1>3, <2>3, <2>4, <2>5, FreshWallet, StillCopied DEF End
<1>7. ASSUME NEW s \in Sessions, FinishCredit(s)
      PROVE  LedgerRows(ledger)' /\ LedgerExplainsBalance' /\ BalancesCopied'
  <2>1. PICK c \in Customers, seen \in Nat :
          sess[s] = [stage |-> "crediting", customer |-> c, balance |-> seen]
    BY <1>0, <1>7, HeldStages DEF FinishCredit
  <2>2. UsesWallet(s) /\ WalletOf(s) = c /\ seen = balance[c]
    BY <2>1 DEF UsesWallet, WalletOf, BalancesCopied
  <2>3. PICK k \in Keys, a \in Amounts : CreditWallet(c, k, a, balance[c])
    BY <1>7, <2>1, <2>2 DEF FinishCredit
  <2>4. \A d \in Customers \ {c} : balance'[d] = balance[d]
    BY <1>0, <2>3 DEF CreditWallet, LInv, TypeOK
  <2>. QED
    BY <1>0, <1>3, <1>7, <2>2, <2>3, <2>4, FreshWallet, StillCopied DEF End, FinishCredit
<1>8. ASSUME NEW s \in Sessions, FinishOrder(s) \/ FinishCallback(s) \/ Abort(s)
      PROVE  LedgerRows(ledger)' /\ LedgerExplainsBalance' /\ BalancesCopied'
  BY <1>5, <1>8, ServiceLeavesWallets DEF FinishOrder, FinishCallback, Abort
<1>9. ASSUME NEW s \in Sessions, NEW o \in Orders, LoadOrder(s, o)
      PROVE  LedgerRows(ledger)' /\ LedgerExplainsBalance' /\ BalancesCopied'
  <2>1. Loaded(o).stage = "loaded"
    BY DEF Loaded
  <2>. QED
    BY <1>4, <1>9, <2>1 DEF LoadOrder
<1>10. ASSUME NEW s \in Sessions, NEW o \in Orders, LockOrderReadWallet(s, o)
       PROVE  LedgerRows(ledger)' /\ LedgerExplainsBalance' /\ BalancesCopied'
  <2>1. /\ Paying(o).stage = "paying" /\ Paying(o).order = o
        /\ Paying(o).balance = balance[Owner[o]]
    BY DEF Paying
  <2>. QED
    BY <1>4, <1>10, <2>1 DEF LockOrderReadWallet
<1>11. ASSUME NEW s \in Sessions, NEW p \in PaymentIds, LockPayment(s, p)
       PROVE  LedgerRows(ledger)' /\ LedgerExplainsBalance' /\ BalancesCopied'
  <2>1. Verifying(p).stage = "verifying"
    BY DEF Verifying
  <2>. QED
    BY <1>4, <1>11, <2>1 DEF LockPayment
<1>12. ASSUME NEW s \in Sessions, NEW c \in Customers, ReadWallet(s, c)
       PROVE  LedgerRows(ledger)' /\ LedgerExplainsBalance' /\ BalancesCopied'
  <2>1. /\ Crediting(c).stage = "crediting" /\ Crediting(c).customer = c
        /\ Crediting(c).balance = balance[c]
    BY DEF Crediting
  <2>. QED
    BY <1>4, <1>12, <2>1 DEF ReadWallet
<1>13. CASE Unraced
  <2>1. UNCHANGED walletVars /\ sess' = sess
    BY <1>13 DEF Unraced, PlaceOrder, ApproveManualOrder, VerifyPayment,
                 ReleaseStaleDiscounts, walletVars
  <2>. QED
    BY <1>1, <1>2, <2>1
<1>14. CASE UNCHANGED sessionVars
  BY <1>1, <1>2, <1>14 DEF sessionVars, vars, walletVars
<1>. QED
  BY <1>6, <1>7, <1>8, <1>9, <1>10, <1>11, <1>12, <1>13, <1>14 DEF SessionsNext

\* While no two sessions have one customer's wallet loaded, every balance is
\* the sum of its transactions, however stale the orders they pay are: the
\* lost update of two changes of one wallet is the only way to part them
\* (services/wallets.py:109-128, 156-180).
THEOREM WalletsApartExplainBalances ==
  SessionsSpec /\ []WalletsApart => []LedgerExplainsBalance
<1>1. SessionsInit => LedgerRows(ledger) /\ LedgerExplainsBalance /\ BalancesCopied
  BY InitLedger DEF SessionsInit, BalancesCopied, UsesWallet, Idle
<1>2. SInv /\ LedgerRows(ledger) /\ LedgerExplainsBalance /\ BalancesCopied /\ WalletsApart
        /\ [SessionsNext]_sessionVars
        => LedgerRows(ledger)' /\ LedgerExplainsBalance' /\ BalancesCopied'
  BY SessionLedger
<1>. QED
  BY SessionsInvariance, <1>1, <1>2, PTL DEF SessionsSpec
=============================================================================
