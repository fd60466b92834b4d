------------------------------ MODULE MCStaff ------------------------------
(* The owner and one member of the staff in Telegram, two rows, one          *)
(* username and two requests at a time.                                     *)
EXTENDS Staff, TLC

CONSTANTS i1, i2, boss, ann, n1, s1, s2

Alike == Permutations({i1, i2}) \cup Permutations({s1, s2})
=============================================================================
