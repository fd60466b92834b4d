---------------------------- MODULE MCCatalogue ----------------------------
(* One plan and a code of a fixed amount, edited while two orders are placed. *)
EXTENDS Catalogue, TLC

CONSTANTS o1, o2, pl1, c1, cu1, s1

Twins == Permutations({o1, o2})

PlanOfOrder == [o \in {o1, o2} |-> pl1]
OwnerOfOrder == [o \in {o1, o2} |-> cu1]
KindOfCode == [c \in {c1} |-> "fixed"]
=============================================================================
