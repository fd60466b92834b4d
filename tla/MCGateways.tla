----------------------------- MODULE MCGateways -----------------------------
(* Small instances of Gateways: one method that staff reconfigure while the *)
(* payments of an order are under way.                                      *)
EXTENDS Gateways

CONSTANTS o1, m1, e1, p1, p2, inv1, inv2, ours, theirs
=============================================================================
