---------------------------- MODULE MCHidSession ----------------------------
(* Instances of HidSession for TLC.  The sessions are alike, so a pair of     *)
(* operations is checked in one order only; of the two longest operations     *)
(* (three commands) one at a time is enough to shift every answer by one.     *)
EXTENDS HidSession

Two == {1, 2}

Order == <<"read", "erase", "load", "delete", "info", "write">>
Rank(o) == CHOOSE i \in DOMAIN Order : Order[i] = o

MCInit == Init /\ Rank(op[1]) <= Rank(op[2]) /\ Rank(op[1]) <= 2

MCSpec == MCInit /\ [][Next]_vars /\ Fairness
=============================================================================
