--------------------------- MODULE MCConversations ---------------------------
(* Small instances of Conversations: a customer, and a member of staff who is *)
(* a customer as well.                                                        *)
EXTENDS Conversations, TLC

CONSTANTS ann, sam, o1, t1, t2, x1, x2

AnnsOrders == [o \in Orders |-> ann]
Symmetric == Permutations({x1, x2}) \cup Permutations({t1, t2})
=============================================================================
