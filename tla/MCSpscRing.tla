----------------------------- MODULE MCSpscRing -----------------------------
(* SpscRing with two payloads, so that a value delivered twice, dropped or *)
(* out of order differs from the right one.                                *)
EXTENDS SpscRing
=============================================================================
