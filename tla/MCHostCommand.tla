---------------------------- MODULE MCHostCommand ----------------------------
(* HostCommand with two callers, or with three in the configuration of id 0: *)
(* they take turns on fewer ids, so ids are reused while commands are around. *)
EXTENDS HostCommand, TLC

Symmetry == Permutations(Thread \ {Heartbeat})
==============================================================================
