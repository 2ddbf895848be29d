---------------------------- MODULE MCTimeReporting ----------------------------
(* One employee, who may review herself when the company allows it, and one      *)
(* project, whose single billing item is worked on one day of each month: days   *)
(* 1 and 2 fall in one week and straddle the month end.                          *)
EXTENDS TimeReporting, TLC

CONSTANTS ann, dev, hour

McProjectOf   == [i \in {hour} |-> dev]
McWeekOf      == [d \in Days |-> 1]
McMonthOf     == [d \in Days |-> d]
McMaxQuantity == [i \in {hour} |-> 24]
McCustomerOf  == [p \in {dev} |-> "acme"]
McUnitRate    == [i \in {hour} |-> 10]
Symmetry      == Permutations(Invoices)
================================================================================
