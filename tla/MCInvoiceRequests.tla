--------------------------- MODULE MCInvoiceRequests ---------------------------
(* InvoiceRequests with three requests over two drafts. *)
EXTENDS InvoiceRequests, TLC

Symmetry == Permutations(Requests) \cup Permutations(Invoices)
=============================================================================
