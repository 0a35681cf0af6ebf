-------------------------------- MODULE MCGCQ --------------------------------
(* GCQ with two slots, tails that wrap after four messages and two boots.  *)
EXTENDS GCQ
==============================================================================
