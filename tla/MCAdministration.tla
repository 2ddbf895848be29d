---------------------------- MODULE MCAdministration ----------------------------
(* Administration with a manager and another user, and one customer, project   *)
(* and month.                                                                   *)
EXTENDS Administration, TLC

MCDefaults == <<"time">>

Symmetry == Permutations(Items)
=============================================================================
