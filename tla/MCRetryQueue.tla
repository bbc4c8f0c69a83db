---------------------------- MODULE MCRetryQueue ----------------------------
(* Two publishers and a closer.  Six receipts and a queue of two: the queue  *)
(* fills, drops, drains in part and fills again.                             *)
EXTENDS RetryQueue, TLC
=============================================================================
