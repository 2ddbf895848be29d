----------------------------- MODULE MCTimesheets -----------------------------
(* Timesheets on one user and two projects over three days: week 1 straddles *)
(* the month end, month 2 straddles the week end.                            *)
EXTENDS Timesheets

CONSTANTS p, q, ip, iq

MCProjectOf   == [i \in Items |-> IF i = ip THEN p ELSE q]
MCWeekOf      == <<1, 1, 2>>
MCMonthOf     == <<1, 2, 2>>
MCMaxQuantity == [i \in Items |-> 1]
=============================================================================
