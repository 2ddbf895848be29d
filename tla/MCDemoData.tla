------------------------------ MODULE MCDemoData ------------------------------
(* DemoData over the month of the first run and the two that follow it. *)
EXTENDS DemoData
=============================================================================
