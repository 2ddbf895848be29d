------------------------------ MODULE MCInvoices ------------------------------
(* Invoices with two periods, one generated line each, and one manual line. *)
EXTENDS Invoices, TLC

CONSTANTS jan, feb

TwoPeriods   == {jan, feb}
OneLineEach  == [r \in TwoPeriods |-> {<<"time", r>>}]
Symmetry     == Permutations(Invoices) \cup Permutations(Parties)
=============================================================================
