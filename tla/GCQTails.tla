------------------------------ MODULE GCQTails ------------------------------
(***************************************************************************)
(* The tails of an sGCQ ring: free-running uint32_t counters, compared and *)
(* subtracted modulo 2^32, whose low bits select a slot.  The host driver  *)
(* (ami_gcq.c) and the firmware (gcq_ring.h) define the same functions.    *)
(***************************************************************************)
EXTENDS Naturals

CONSTANTS
  NumSlots,     \* ulRingNumSlots, the same for both queues
  Word          \* number of values of a tail, 2^32 in the code

(* prvulGCQAllocNumSlots() returns a power of two below 2^32, so the tails *)
(* wrap at a multiple of the number of slots.                              *)
ASSUME RingAssumption ==
  /\ NumSlots \in Nat \ {0}
  /\ Word \in Nat
  /\ Word > NumSlots
  /\ \E k \in 1 .. Word : Word = NumSlots * k

TailValue == 0 .. Word - 1

(* Here and in the other modules a definition described as a mistake is    *)
(* not part of the system.  This one is a tail that never wraps.           *)
IncWithoutWrap(t) == t + 1

Inc(t)     == IF t = Word - 1 THEN 0 ELSE t + 1
Prev(t)    == IF t = 0 THEN Word - 1 ELSE t - 1
Plus(t, n) == IF t + n < Word THEN t + n ELSE t + n - Word
Dist(a, b) == IF a >= b THEN a - b ELSE a + Word - b       \* a - b

(* A mistake: a ring that lets in one message too many.                    *)
IsFullTooLate(produced, consumed) == Dist(produced, consumed) > NumSlots

IsFull(produced, consumed)  == Dist(produced, consumed) >= NumSlots
IsEmpty(produced, consumed) == produced = consumed
SlotOf(t) == t % NumSlots       \* tail & (ulRingNumSlots - 1)
==============================================================================
