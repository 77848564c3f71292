------------------------------- MODULE MCSuite -------------------------------
(* Two tests, the second in the wake of the first, and more tasks than fit   *)
(* on a page.                                                                *)
EXTENDS Suite, TLC
=============================================================================
