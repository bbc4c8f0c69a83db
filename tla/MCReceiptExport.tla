--------------------------- MODULE MCReceiptExport ---------------------------
(* Small instance of ReceiptExport: receipts of up to two chunks, which may  *)
(* have the same text, and one call.                                         *)
EXTENDS ReceiptExport

MCFlagged == {"STALE"}
==============================================================================
