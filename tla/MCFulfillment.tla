--------------------------- MODULE MCFulfillment ---------------------------
(* Small instances of Fulfillment: resellers of 1 GB, a renewal that makes one *)
(* unlimited and a top-up of 1 GB.                                            *)
EXTENDS Fulfillment

CONSTANTS r1, r2, renew, topup, id1, id2, germany, finland, s1, s2

TargetOf == [o \in Changes |-> r1]
QuotaOf == [o \in Orders |-> IF o \in Renewals THEN 0 ELSE 1]
=============================================================================
