------------------------- MODULE MCArtifactStaging -------------------------
(* A collector run: it uploads the historical receipt, then the deliverable. *)
EXTENDS ArtifactStaging

ReceiptThenDeliverable == <<"receipt", "deliverable">>
=============================================================================
