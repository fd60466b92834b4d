---------------------------- MODULE MCLockOrder ----------------------------
(* Three sessions over a new order with a payment, a renewal, two codes, a   *)
(* wallet and a service.                                                    *)
EXTENDS LockOrder, TLC

CONSTANTS o1, o2, p1, c1, c2, w1, v1, s1, s2, s3

Alike == Permutations({s1, s2, s3}) \cup Permutations({c1, c2})
OrderOfPayment == [p \in {p1} |-> o1]
WalletOfOrder == [o \in {o1, o2} |-> w1]
=============================================================================
