----------------------------- MODULE MCEmailQueue -----------------------------
(* More tasks than the worker has goroutines, one of them malformed.         *)
EXTENDS EmailQueue, TLC
=============================================================================
