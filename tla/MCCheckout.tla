----------------------------- MODULE MCCheckout -----------------------------
(* Small instances of Checkout for TLC: two orders of one customer or of two, *)
(* a price of 2, a code worth half of it and a code worth all of it.          *)
EXTENDS CheckoutProperties, TLC

CONSTANTS o1, o2, alice, half, full, zarinpal, zibal, receipt, card,
          k1, k2, credit

OneOwner == [o \in Orders |-> alice]
PriceTwo == [o \in Orders |-> 2]
KindOf == [c \in Codes |-> IF c = half THEN "percent" ELSE "fixed"]
ValueOf == [c \in Codes |-> IF c = half THEN 50 ELSE 3]
UsedOnce == [c \in Codes |-> 1]
KeyOf == [o \in Orders |-> IF o = o1 THEN k1 ELSE k2]
ThreePayments == 1..3
=============================================================================
