------------------------- MODULE MCCheckoutSessions -------------------------
(* Small instances of CheckoutSessions: two sessions race over one order (or  *)
(* over the wallet that two orders share).                                    *)
EXTENDS CheckoutSessions, TLC

CONSTANTS o1, o2, alice, half, full, zarinpal, receipt, k1, k2, credit, s1, s2

OneOwner == [o \in Orders |-> alice]
PriceTwo == [o \in Orders |-> 2]
KindOf == [c \in Codes |-> IF c = half THEN "percent" ELSE "fixed"]
ValueOf == [c \in Codes |-> IF c = half THEN 50 ELSE 3]
UsedOnce == [c \in Codes |-> 1]
KeyOf == [o \in Orders |-> IF o = o1 THEN k1 ELSE k2]
TwoPayments == 1..2
ThreePayments == 1..3
TwoSessions == Permutations({s1, s2})
=============================================================================
