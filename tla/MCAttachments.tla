----------------------------- MODULE MCAttachments -----------------------------
(* Attachments with two receipts of one report and a third of another. *)
EXTENDS Attachments

CONSTANTS k1, k2, k3, trip, lunch

ThreeReceipts == [k \in {k1, k2, k3} |-> IF k = k3 THEN lunch ELSE trip]
=============================================================================
