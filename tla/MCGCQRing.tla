------------------------------ MODULE MCGCQRing ------------------------------
(* GCQRing with few slots and tails that wrap after twice as many          *)
(* messages: every distance between tails and every position of the wrap.  *)
EXTENDS GCQRing
==============================================================================
