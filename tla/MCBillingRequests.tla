--------------------------- MODULE MCBillingRequests ---------------------------
(* BillingRequests of two connections over two weeks and a report. *)
EXTENDS BillingRequests, TLC

CONSTANTS w1, w2, trip

Symmetry == Permutations(Connections) \cup Permutations(Weeks)
=============================================================================
