----------------------------- MODULE BillingLedger -----------------------------
(***************************************************************************)
(* What billing relies on, with no week, review or lock rule in sight: a   *)
(* ledger of (project, month) periods, each with the hours booked in it.   *)
(* Hours move freely while the period is with the project; once it is      *)
(* sent, they stand still until it comes back, and while an invoice holds  *)
(* it, only that invoice can let go.                                       *)
(***************************************************************************)
CONSTANTS Periods, Invoices, NotSent, NoInvoice

VARIABLES
    holder,     \* [Periods -> Invoices \cup {NotSent, NoInvoice}]
    hours       \* [Periods -> whatever the period's hours are]

vars == <<holder, hours>>

Init == holder = [r \in Periods |-> NotSent]

\* Work on any number of periods that are still with their project.
Work ==
    /\ \A r \in Periods : holder[r] # NotSent => hours'[r] = hours[r]
    /\ UNCHANGED holder

Send(r) ==
    /\ holder[r] = NotSent
    /\ holder' = [holder EXCEPT ![r] = NoInvoice]
    /\ UNCHANGED hours

Reopen(r) ==
    /\ holder[r] = NoInvoice
    /\ holder' = [holder EXCEPT ![r] = NotSent]
    /\ UNCHANGED hours

Invoice(refs, i) ==
    /\ \A r \in refs : holder[r] = NoInvoice
    /\ holder' = [r \in Periods |-> IF r \in refs THEN i ELSE holder[r]]
    /\ UNCHANGED hours

Release(i) ==
    /\ holder' = [r \in Periods |-> IF holder[r] = i THEN NoInvoice ELSE holder[r]]
    /\ UNCHANGED hours

Next ==
    \/ Work
    \/ \E r \in Periods : Send(r) \/ Reopen(r)
    \/ \E i \in Invoices : Release(i) \/ \E refs \in SUBSET Periods : Invoice(refs, i)

Spec == Init /\ [][Next]_vars
=============================================================================
