---------------------------- MODULE MCAmcRequests ----------------------------
(* AmcRequests with more requests than slots, and queues shorter than the  *)
(* requests that may be under way.                                         *)
EXTENDS AmcRequests
==============================================================================
