------------------------------- MODULE MCBackups -------------------------------
(* Backups of one report with two receipts, made by two processes. *)
EXTENDS Backups, TLC

CONSTANTS k1, k2, trip

OneReport == [k \in {k1, k2} |-> trip]

Symmetry == Permutations(Keys) \cup Permutations(Processes)
=============================================================================
