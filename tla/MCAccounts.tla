------------------------------- MODULE MCAccounts -------------------------------
(* Accounts with three ids, two requests at a time, and bodies that name one    *)
(* field, or both that the audit log keeps.                                     *)
EXTENDS Accounts, TLC

CONSTANTS e1, e2, admin

NoChange == [email |-> Keep, roles |-> Keep, active |-> Keep]

MCBodies ==
    {NoChange,
     [NoChange EXCEPT !.email = e2],
     [NoChange EXCEPT !.roles = {}],
     [NoChange EXCEPT !.active = FALSE],
     [NoChange EXCEPT !.active = TRUE, !.roles = {admin}],
     [NoChange EXCEPT !.email = e1, !.roles = {admin}]}

Symmetry == Permutations(Requests) \cup Permutations(Ids \ InUse)
=============================================================================
