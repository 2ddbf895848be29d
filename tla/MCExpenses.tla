------------------------------ MODULE MCExpenses ------------------------------
(* Expenses, and the accountant's package of it, with the reports of two users for one *)
(* project's month. *)
EXTENDS AccountantPackage, TLC

Symmetry == Permutations(Lines)
=============================================================================
