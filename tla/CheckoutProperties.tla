------------------------- MODULE CheckoutProperties -------------------------
(***************************************************************************)
(* What Checkout promises: the properties its runs check and its theorems  *)
(* are about.                                                              *)
(***************************************************************************)
EXTENDS Checkout, Functions

\* The committed rows are of the types the models declare; in particular no
\* balance, price or use count is negative.
TypeOK ==
    /\ status \in [Orders -> OrderStatus]
    /\ price \in [Orders -> Nat]
    /\ discount \in [Orders -> Nat]
    /\ payment \in [PaymentIds -> Payment \cup {NoPayment}]
    /\ redemption \in [Orders -> Redemption \cup {NoRedemption}]
    /\ used \in [Codes -> Nat]
    /\ balance \in [Customers -> Nat]
    /\ ledger \in [Keys -> Entry \cup {NoEntry}]
    /\ captured \subseteq PaymentIds

Live(o) == redemption[o].status \in {"reserved", "redeemed"}
Verified(o) == PaymentsOf(o, "verified")

\* What a discount takes off an order's price is what its redemption row
\* records, and it comes back exactly once: apply, release, clean-up and
\* cancellation never lose or invent a part of the plan's price
\* (services/discounts.py:100-113, 169-172).
PriceSplit == \A o \in Orders :
    /\ price[o] + discount[o] = ListPrice[o]
    /\ discount[o] = IF Live(o) THEN redemption[o].amount ELSE 0

LiveUses(c) == {o \in Orders : Live(o) /\ redemption[o].code = c}

\* used_count is the number of orders that hold or have spent the code, and
\* never passes max_uses, although reserving, releasing, canceling and the
\* clean-up each adjust it (services/discounts.py:93, 107, 166-167).
UsedCountExact == \A c \in Codes :
    used[c] = Cardinality(LiveUses(c)) /\ used[c] <= MaxUses[c]

\* An order is past the payment stage exactly when a payment of it is
\* verified; approve_manual_order raises if it ever meets the opposite
\* (services/payments.py:172-190), and fulfillment relies on it.
PaidIffVerified == \A o \in Orders :
    status[o] \in Settled <=> Verified(o) # {}

\* Whatever discount came or went in between, a verified payment is for the
\* price the order still shows (services/payments.py:114-115).
SettledAtFinalPrice == \A o \in Orders : \A p \in Verified(o) :
    payment[p].amount = price[o]

\* A redemption ends with its order: reserved while the order can be paid,
\* spent once it is, and never given back for an order that was paid
\* (services/discounts.py:116-174 against the status changes in payments.py).
DiscountFollowsOrder == \A o \in Orders :
    /\ redemption[o].status = "reserved" => status[o] \in Unpaid
    /\ redemption[o].status = "redeemed" => status[o] \in Settled
    /\ redemption[o].status = "released" => status[o] \notin Settled

\* An order that was canceled, or settled by the wallet or by a discount,
\* has no payment left that a late gateway callback could still verify
\* (services/payments.py:299-313, 360-375, wallets.py:235-248).
ClosedOrdersHaveNoPending == \A o \in Orders :
    (status[o] = "canceled"
       \/ \E p \in Verified(o) : payment[p].via \in {"wallet", "discount"})
    => PaymentsOf(o, "pending") = {}

Entries(c, kind) == {k \in Keys : ledger[k] # NoEntry /\ ledger[k].customer = c
                                                      /\ ledger[k].kind = kind}
Total(c, kind) == SumFunction([k \in Entries(c, kind) |-> ledger[k].amount])

\* The wallet's balance is the sum of its transactions, whatever is replayed
\* (services/wallets.py:101-131, 146-180).
LedgerExplainsBalance == \A c \in Customers :
    balance[c] + Total(c, "debit") = Total(c, "credit")

\* A wallet is debited for an order once, for the amount of the one wallet
\* payment it bought, and no wallet payment exists without its debit
\* (services/wallets.py:183-263).
DebitMatchesPayment == \A o \in Orders :
    LET wallet == {p \in Verified(o) : payment[p].via = "wallet"}
        entry  == ledger[WalletKey[o]]
    IN  /\ entry.kind = "debit" <=> wallet # {}
        /\ \A p \in wallet : wallet = {p} /\ payment[p].amount = entry.amount
                                          /\ entry.customer = Owner[o]

\* No step takes back what was decided about a payment: a late callback cannot
\* revive a failed one, nor a refusal undo a verified one
\* (services/payments.py:102-112, 151-154).
PaymentsAreFinal == [][\A p \in PaymentIds :
    payment[p].status \in {"verified", "failed"} => payment'[p] = payment[p]]_vars

\* What a paid order cost never changes again: no discount is applied to it,
\* none is released from it (services/discounts.py:62-66, 158-159).
PaidPriceIsFrozen == [][\A o \in Orders :
    status[o] \in Settled => /\ price'[o] = price[o]
                             /\ discount'[o] = discount[o]
                             /\ redemption'[o] = redemption[o]]_vars

Lifecycle == INSTANCE OrderLifecycle WITH AllowRepay <- TRUE

\* Every step is one the order's life cycle allows: never paid after it was
\* canceled, never canceled after it was paid, never fulfilled unpaid.
ImplementsLifecycle == Lifecycle!Spec

\* Every reserved use of a code is spent or given back in the end: the
\* clean-up forgets none (services/discounts.py:177-213).
StaleReservationsEnd == \A o \in Orders :
    redemption[o].status = "reserved" ~> redemption[o].status # "reserved"

-----------------------------------------------------------------------------
(* What the documentation says and the code does not keep *)

\* docs/operations.md:110: the server-side verification decides: money the
\* gateway has confirmed is a verified payment.
CapturedIsCredited == \A p \in captured : payment[p].status = "verified"
=============================================================================
