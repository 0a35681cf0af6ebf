----------------------------- MODULE GCQ_proofs -----------------------------
(***************************************************************************)
(* For every number of slots, width of the tails and number of boots: no   *)
(* request of an earlier boot is executed, and host and firmware in        *)
(* session agree on both rings and on the boot whose answers are read.     *)
(***************************************************************************)
EXTENDS GCQ, TLAPS

(* Arithmetic on tails, all linear.                                        *)
LEMMA TailArithmetic ==
  ASSUME NEW a \in TailValue
  PROVE  /\ Inc(a) \in TailValue /\ Prev(a) \in TailValue
         /\ Prev(Inc(a)) = a /\ Inc(Prev(a)) = a
         /\ Dist(Inc(a), a) = 1 /\ Dist(a, a) = 0
BY RingAssumption, SMT DEF TailValue, Inc, Prev, Dist

LEMMA DistType ==
  ASSUME NEW a \in TailValue, NEW b \in TailValue
  PROVE  Dist(a, b) \in 0 .. Word - 1
BY RingAssumption, SMT DEF TailValue, Dist

LEMMA SlotOfTail ==
  ASSUME NEW a \in TailValue
  PROVE  SlotOf(a) \in 0 .. NumSlots - 1
<1>1. a \in Nat /\ NumSlots \in Nat \ {0}
  BY RingAssumption, SMT DEF TailValue
<1>2. QED BY <1>1, SMT DEF SlotOf

------------------------------------------------------------------------------
(* The tails of one ring in the order they lie on the circle: what the     *)
(* producer thinks was consumed, what was, what the consumer thinks was    *)
(* produced, and what was, within one ring's length.                       *)
Ordered(known, taken, seen, published) ==
  /\ Dist(taken, known) <= Dist(seen, known)
  /\ Dist(seen, known) <= Dist(published, known)
  /\ Dist(published, known) <= NumSlots

LEMMA OrderedSteps ==
  ASSUME NEW a \in TailValue, NEW b \in TailValue, NEW c \in TailValue, NEW d \in TailValue,
         Ordered(a, b, c, d)
  PROVE  /\ Ordered(b, b, c, d)
         /\ Ordered(a, b, d, d)
         /\ b # c => Ordered(a, Inc(b), c, d) /\ b # d
         /\ Dist(d, a) < NumSlots => Ordered(a, b, c, Inc(d)) /\ Inc(d) # b
<1>1. Ordered(b, b, c, d)
  BY RingAssumption, SMT DEF Ordered, TailValue, Dist
<1>2. Ordered(a, b, d, d)
  BY RingAssumption, SMT DEF Ordered, TailValue, Dist
<1>3. ASSUME b # c PROVE Ordered(a, Inc(b), c, d) /\ b # d
  BY <1>3, RingAssumption, SMT DEF Ordered, TailValue, Dist, Inc
<1>4. ASSUME Dist(d, a) < NumSlots PROVE Ordered(a, b, c, Inc(d)) /\ Inc(d) # b
  BY <1>4, RingAssumption, SMT DEF Ordered, TailValue, Dist, Inc
<1>5. QED BY <1>1, <1>2, <1>3, <1>4

LEMMA OrderedStart ==
  ASSUME NEW t \in TailValue
  PROVE  Ordered(t, t, t, t)
BY RingAssumption, SMT DEF Ordered, TailValue, Dist

(* Every message from one tail up to another carries the mark m.           *)
Marked(S, from, to, m) ==
  \A x \in TailValue : Dist(x, from) < Dist(to, from) => S[SlotOf(x)] = m

LEMMA MarkedStart ==
  ASSUME NEW S, NEW t \in TailValue, NEW m
  PROVE  Marked(S, t, t, m)
BY DistType, TailArithmetic, SMT DEF Marked

LEMMA MarkedConsume ==
  ASSUME NEW S, NEW from \in TailValue, NEW to \in TailValue, NEW m,
         from # to, Marked(S, from, to, m)
  PROVE  S[SlotOf(from)] = m /\ Marked(S, Inc(from), to, m)
<1>1. Dist(from, from) < Dist(to, from)
  BY RingAssumption, SMT DEF TailValue, Dist
<1>2. S[SlotOf(from)] = m
  BY <1>1 DEF Marked
<1>3. ASSUME NEW x \in TailValue, Dist(x, Inc(from)) < Dist(to, Inc(from))
      PROVE  Dist(x, from) < Dist(to, from)
  BY <1>3, RingAssumption, SMT DEF TailValue, Dist, Inc
<1>4. QED BY <1>2, <1>3 DEF Marked

(* A message more; and if that one closes the circle, every slot has been  *)
(* written.                                                                *)
LEMMA MarkedProduce ==
  ASSUME NEW S, NEW from \in TailValue, NEW to \in TailValue, NEW m, NEW R,
         Marked(S, from, to, m), R[SlotOf(to)] = m,
         \A s \in 0 .. NumSlots - 1 : R[s] = S[s] \/ R[s] = m
  PROVE  /\ Inc(to) # from => Marked(R, from, Inc(to), m)
         /\ Inc(to) = from => \A s \in 0 .. NumSlots - 1 : R[s] = m
<1>1. ASSUME NEW x \in TailValue, Dist(x, from) < Dist(to, from) \/ x = to
      PROVE  R[SlotOf(x)] = m
  BY <1>1, SlotOfTail DEF Marked
<1>2. ASSUME Inc(to) # from, NEW x \in TailValue, Dist(x, from) < Dist(Inc(to), from)
      PROVE  Dist(x, from) < Dist(to, from) \/ x = to
  BY <1>2, RingAssumption, SMT DEF TailValue, Dist, Inc
<1>3. ASSUME Inc(to) = from, NEW s \in 0 .. NumSlots - 1
      PROVE  R[s] = m
  <2>1. s \in TailValue
    BY RingAssumption, SMT DEF TailValue
  <2>2. Dist(s, from) < Dist(to, from) \/ s = to
    BY <1>3, <2>1, RingAssumption, SMT DEF TailValue, Dist, Inc
  <2>3. SlotOf(s) = s
    BY RingAssumption, SMT DEF SlotOf
  <2>4. QED BY <1>1, <2>1, <2>2, <2>3
<1>4. QED BY <1>1, <1>2, <1>3 DEF Marked

------------------------------------------------------------------------------
(* An attempt is left whenever the magic is to be looked at.               *)
AttemptLeft == hostPc = "magic" => attempts < MaxAttempts

(* While the header is being set up it carries no magic, so that a host    *)
(* which went past its test and met no other boot finds the header ready.  *)
MagicComesLast ==
  /\ fwPc \in {"resetSQ", "resetCQ", "magic"} => ~magic
  /\ (hostPc \notin {"closed", "magic"} /\ ~strayed) => fwPc \in {"off", "ready"}

(* Only a host that has taken the tail over moves it.                      *)
HostKeepsTail == hostPc \in {"forwardCQ", "attached"} => host[SQ].produced = tail[SQ]

SubmissionsReset == fwPc \in {"resetCQ", "magic", "ready"}
CompletionsReset == fwPc \in {"magic", "ready"}

(* What the firmware has yet to consume was sent since this boot; a host   *)
(* that runs round the whole ring has sent all of it.                      *)
SubmissionsOfBoot ==
  LET f == fw[SQ] IN
  /\ fwPc # "off" => boots # 0
  /\ SubmissionsReset =>
       \/ \A s \in 0 .. NumSlots - 1 : slots[SQ][s] = boots
       \/ /\ Dist(f.produced, f.consumed) <= Dist(tail[SQ], f.consumed)
          /\ Marked(slots[SQ], f.consumed, tail[SQ], boots)

(* The tails of the submission queue in order, with the firmware's own     *)
(* consumed tail for what a host will take over ...                        *)
SubmissionsInOrder ==
  LET f == fw[SQ] IN
  (SubmissionsReset /\ ~strayed) =>
    /\ consumed[SQ] = f.consumed
    /\ Ordered(f.consumed, f.consumed, f.produced, tail[SQ])
    /\ hostPc \in {"forwardCQ", "attached"} =>
         Ordered(host[SQ].consumed, f.consumed, f.produced, tail[SQ])

(* ... and those of the completion queue, whose messages are of this boot. *)
CompletionsInOrder ==
  LET f == fw[CQ] IN
  (CompletionsReset /\ ~strayed) =>
    /\ f.produced = tail[CQ]
    /\ Marked(slots[CQ], consumed[CQ], tail[CQ], boots)
    /\ Ordered(f.consumed, consumed[CQ], tail[CQ], tail[CQ])
    /\ hostPc = "attached" =>
         /\ host[CQ].consumed = consumed[CQ]
         /\ Ordered(f.consumed, consumed[CQ], host[CQ].produced, tail[CQ])

IInv ==
  /\ TypeOK /\ AttemptLeft /\ MagicComesLast /\ HostKeepsTail
  /\ SubmissionsOfBoot /\ SubmissionsInOrder /\ CompletionsInOrder
  /\ NoRequestFromBeforeBoot /\ NoResponseFromBeforeBoot

(* What a side works with after its look at the ring.                      *)
LEMMA ProducerSees ==
  ASSUME NEW q \in Queue, NEW cache \in Caches, consumed \in [Queue -> TailValue]
  PROVE  LET c == ProducerCache(cache, q) IN
         /\ c = Cache(c.produced, c.consumed) /\ c \in Caches
         /\ c.produced = cache.produced
         /\ c.consumed \in {cache.consumed, consumed[q]}
         /\ ~IsFull(c.produced, c.consumed) => Dist(c.produced, c.consumed) < NumSlots
<1>1. consumed[q] \in TailValue
  OBVIOUS
<1>2. \A a, b \in TailValue : Dist(a, b) \in Nat
  BY DistType, RingAssumption, SMT
<1>3. QED BY <1>1, <1>2, RingAssumption, SMT DEF ProducerCache, Caches, Cache, IsFull

LEMMA ConsumerSees ==
  ASSUME NEW q \in Queue, NEW cache \in Caches, tail \in [Queue -> TailValue]
  PROVE  LET c == ConsumerCache(cache, q) IN
         /\ c = Cache(c.produced, c.consumed) /\ c \in Caches
         /\ c.consumed = cache.consumed
         /\ \/ c.produced = cache.produced
            \/ cache.produced = cache.consumed /\ c.produced = tail[q]
         /\ ~IsEmpty(c.produced, c.consumed) => c.consumed # c.produced
BY SMT DEF ConsumerCache, Caches, Cache, IsEmpty

LEMMA Shapes ==
  /\ SQ \in Queue /\ CQ \in Queue /\ SQ # CQ /\ Queue = {SQ, CQ}
  /\ \A a, b \in TailValue : Cache(a, b) \in Caches
  /\ 0 \in TailValue
  /\ \A a, b : Cache(a, b).produced = a /\ Cache(a, b).consumed = b
BY RingAssumption, SMT DEF Queue, SQ, CQ, Cache, Caches, TailValue

LEMMA CacheParts ==
  ASSUME NEW c \in Caches
  PROVE  c.produced \in TailValue /\ c.consumed \in TailValue
BY DEF Caches

------------------------------------------------------------------------------
LEMMA InitInv == ASSUME Init PROVE IInv
<1>1. TypeOK
  <2>1. 0 \in Boot /\ 0 \in 0 .. MaxAttempts /\ 0 \in 0 .. MaxOwed
    BY GCQAssumption, SMT DEF Boot
  <2>2. slots \in [Queue -> [0 .. NumSlots - 1 -> Boot]]
    BY <2>1 DEF Init
  <2>3. QED BY <2>1, <2>2, Shapes, Zenon DEF Init, TypeOK, FwPhase, HostPhase
<1>2. QED
  BY <1>1 DEF Init, IInv, AttemptLeft, MagicComesLast, HostKeepsTail, SubmissionsOfBoot,
     SubmissionsInOrder, CompletionsInOrder, SubmissionsReset, CompletionsReset,
     NoRequestFromBeforeBoot, NoResponseFromBeforeBoot, InSession

LEMMA TypeStep ==
  ASSUME TypeOK, AttemptLeft, [Next]_vars
  PROVE  TypeOK' /\ AttemptLeft'
<1> USE GCQAssumption DEF TypeOK, AttemptLeft, Boot, FwPhase, HostPhase
<1>s. SQ \in Queue /\ CQ \in Queue
  BY Shapes
<1>h. /\ \A q \in Queue : fw[q] \in Caches /\ host[q] \in Caches
      /\ \A q \in Queue : tail[q] \in TailValue /\ consumed[q] \in TailValue
  OBVIOUS
<1>t. \A t \in TailValue : SlotOf(t) \in 0 .. NumSlots - 1 /\ Inc(t) \in TailValue
  BY SlotOfTail, TailArithmetic
<1>1. CASE FwBoot
  BY <1>1, Shapes, SMT DEF FwBoot, memory
<1>2. CASE FwWriteHeader
  BY <1>2, Shapes DEF FwWriteHeader, hostVars
<1>3. CASE FwSoftReset
  BY <1>3, <1>s, <1>h, Shapes, SMT DEF FwSoftReset, SoftReset, hostVars
<1>4. CASE FwWriteMagic
  BY <1>4, SMT DEF FwWriteMagic, hostVars
<1>5. CASE FwStop
  BY <1>5 DEF FwStop, hostVars
<1>6. CASE HostProduce
  <2> DEFINE c == ProducerCache(host[SQ], SQ)
  <2>1. c \in Caches
    BY <1>s, <1>h, ProducerSees
  <2>2. c.produced \in TailValue /\ c.consumed \in TailValue
    BY <2>1, CacheParts
  <2>3. Cache(Inc(c.produced), c.consumed) \in Caches
    BY <2>2, <1>t, Shapes
  <2> HIDE DEF c
  <2>4. QED BY <1>6, <2>2, <2>3, <1>s, <1>t, SMT DEF HostProduce, c, fwVars
<1>7. CASE HostConsume
  <2> DEFINE c == ConsumerCache(host[CQ], CQ)
  <2>1. c \in Caches
    BY <1>s, <1>h, ConsumerSees
  <2>2. c.produced \in TailValue /\ c.consumed \in TailValue
    BY <2>1, CacheParts
  <2>3. Cache(c.produced, Inc(c.consumed)) \in Caches
    BY <2>2, <1>t, Shapes
  <2> HIDE DEF c
  <2>4. QED BY <1>7, <2>2, <2>3, <1>s, <1>t DEF HostConsume, c, fwVars
<1>8. CASE FwConsume
  <2> DEFINE c == ConsumerCache(fw[SQ], SQ)
  <2>1. c \in Caches
    BY <1>s, <1>h, ConsumerSees
  <2>2. c.produced \in TailValue /\ c.consumed \in TailValue
    BY <2>1, CacheParts
  <2>3. Cache(c.produced, Inc(c.consumed)) \in Caches
    BY <2>2, <1>t, Shapes
  <2> HIDE DEF c
  <2>4. owed' \in 0 .. MaxOwed
    BY <1>8, SMT DEF FwConsume
  <2>5. QED BY <1>8, <2>2, <2>3, <2>4, <1>s, <1>t, Zenon DEF FwConsume, c, hostVars
<1>9. CASE FwProduce
  <2> DEFINE c == ProducerCache(fw[CQ], CQ)
  <2>1. c \in Caches
    BY <1>s, <1>h, ProducerSees
  <2>2. c.produced \in TailValue /\ c.consumed \in TailValue
    BY <2>1, CacheParts
  <2>3. Cache(Inc(c.produced), c.consumed) \in Caches
    BY <2>2, <1>t, Shapes
  <2> HIDE DEF c
  <2>4. QED BY <1>9, <2>2, <2>3, <1>s, <1>t, SMT DEF FwProduce, c, hostVars
<1>10. CASE HostOpen
  <2>1. 0 \in 0 .. MaxAttempts /\ 0 < MaxAttempts
    BY SMT
  <2>2. attempts' \in 0 .. MaxAttempts /\ (hostPc' = "magic" => attempts' < MaxAttempts)
    BY <1>10, <2>1 DEF HostOpen
  <2>3. host' \in [Queue -> Caches]
    BY <1>10, Shapes DEF HostOpen
  <2>4. hostPc' \in HostPhase /\ instanceUsed' \in BOOLEAN /\ openRefused' \in BOOLEAN
    BY <1>10 DEF HostOpen
  <2>5. QED BY <1>10, <2>2, <2>3, <2>4 DEF HostOpen, memory, fwVars
<1>11. CASE HostCheckMagic
  BY <1>11, SMT DEF HostCheckMagic, memory, fwVars
<1>12. CASE HostReadHeader
  BY <1>12, SMT DEF HostReadHeader, memory, fwVars
<1>13. CASE HostFastForward
  BY <1>13, <1>s, <1>h, Shapes, SMT DEF HostFastForward, FastForward, memory, fwVars
<1>14. CASE HostClose
  BY <1>14 DEF HostClose, memory, fwVars
<1>15. CASE UNCHANGED vars
  BY <1>15, SMT DEF vars
<1>16. QED
  BY <1>1, <1>2, <1>3, <1>4, <1>5, <1>6, <1>7, <1>8, <1>9, <1>10, <1>11, <1>12, <1>13, <1>14,
     <1>15 DEF Next, FwStep, HostStep, HostOpening

(* The phases: a boot that a host stays through makes that host stray.     *)
LEMMA PhaseStep ==
  ASSUME TypeOK, MagicComesLast, [Next]_vars
  PROVE  MagicComesLast'
<1> USE DEF TypeOK, MagicComesLast, FwPhase
<1>1. CASE FwBoot \/ FwWriteHeader \/ FwSoftReset \/ FwWriteMagic \/ FwStop
  <2>1. CASE FwBoot
    BY <2>1 DEF FwBoot, memory
  <2>2. CASE FwWriteHeader
    BY <2>2 DEF FwWriteHeader, hostVars
  <2>3. CASE FwSoftReset
    BY <2>3 DEF FwSoftReset, hostVars
  <2>4. CASE FwWriteMagic
    BY <2>4 DEF FwWriteMagic, hostVars
  <2>5. CASE FwStop
    BY <2>5 DEF FwStop, hostVars
  <2>6. QED BY <1>1, <2>1, <2>2, <2>3, <2>4, <2>5
<1>2. CASE HostProduce \/ HostConsume \/ FwConsume \/ FwProduce
  BY <1>2, SMT DEF HostProduce, HostConsume, FwConsume, FwProduce, hostVars, fwVars
<1>3. CASE HostCheckMagic
  BY <1>3, SMT DEF HostCheckMagic, memory, fwVars
<1>4. CASE HostOpen \/ HostReadHeader \/ HostFastForward \/ HostClose
  BY <1>4, SMT DEF HostOpen, HostReadHeader, HostFastForward, HostClose, memory, fwVars
<1>5. CASE UNCHANGED vars
  BY <1>5 DEF vars
<1>6. QED
  BY <1>1, <1>2, <1>3, <1>4, <1>5 DEF Next, FwStep, HostStep, HostOpening

------------------------------------------------------------------------------
(* What moving a message does to the tails.                                *)
LEMMA HostProduces ==
  ASSUME TypeOK, HostProduce
  PROVE  LET p == host[SQ].produced IN
         /\ hostPc = "attached"
         /\ tail'[SQ] = Inc(p) /\ host'[SQ].produced = Inc(p)
         /\ host'[SQ].consumed \in {host[SQ].consumed, consumed[SQ]}
         /\ Dist(p, host'[SQ].consumed) < NumSlots
         /\ slots'[SQ][SlotOf(p)] = boots
         /\ \A s \in 0 .. NumSlots - 1 : slots'[SQ][s] = slots[SQ][s] \/ slots'[SQ][s] = boots
         /\ tail'[CQ] = tail[CQ] /\ host'[CQ] = host[CQ] /\ slots'[CQ] = slots[CQ]
         /\ UNCHANGED <<consumed, fw, boots, fwPc, hostPc, strayed, request, response>>
<1> DEFINE c == ProducerCache(host[SQ], SQ)
<1>1. host[SQ] \in Caches /\ SQ \in Queue /\ CQ \in Queue /\ SQ # CQ
  BY Shapes DEF TypeOK
<1>2. /\ c \in Caches /\ c.produced = host[SQ].produced
      /\ c.consumed \in {host[SQ].consumed, consumed[SQ]}
      /\ Dist(c.produced, c.consumed) < NumSlots
  BY <1>1, ProducerSees DEF HostProduce, TypeOK
<1>3. host[SQ].produced \in TailValue /\ SlotOf(host[SQ].produced) \in 0 .. NumSlots - 1
  BY <1>1, CacheParts, SlotOfTail
<1> HIDE DEF c
<1>4. /\ tail' = [tail EXCEPT ![SQ] = Inc(c.produced)]
      /\ host' = [host EXCEPT ![SQ] = Cache(Inc(c.produced), c.consumed)]
      /\ slots' = [slots EXCEPT ![SQ][SlotOf(c.produced)] = boots]
      /\ hostPc = "attached"
      /\ UNCHANGED <<consumed, fw, boots, fwPc, hostPc, strayed, request, response>>
  BY DEF HostProduce, c, fwVars
<1>5. /\ tail'[SQ] = Inc(c.produced) /\ tail'[CQ] = tail[CQ]
      /\ host'[SQ] = Cache(Inc(c.produced), c.consumed) /\ host'[CQ] = host[CQ]
  BY <1>1, <1>4 DEF TypeOK
<1>6. slots'[SQ] = [slots[SQ] EXCEPT ![SlotOf(c.produced)] = boots] /\ slots'[CQ] = slots[CQ]
  BY <1>1, <1>4 DEF TypeOK
<1>7. slots[SQ] \in [0 .. NumSlots - 1 -> Boot]
  BY <1>1 DEF TypeOK
<1>8. /\ slots'[SQ][SlotOf(c.produced)] = boots
      /\ \A s \in 0 .. NumSlots - 1 : slots'[SQ][s] = slots[SQ][s] \/ slots'[SQ][s] = boots
  BY <1>2, <1>3, <1>6, <1>7
<1>9. QED BY <1>2, <1>4, <1>5, <1>6, <1>8, Shapes

LEMMA FwProduces ==
  ASSUME TypeOK, FwProduce
  PROVE  LET p == fw[CQ].produced IN
         /\ fwPc = "ready"
         /\ tail'[CQ] = Inc(p) /\ fw'[CQ].produced = Inc(p)
         /\ fw'[CQ].consumed \in {fw[CQ].consumed, consumed[CQ]}
         /\ Dist(p, fw'[CQ].consumed) < NumSlots
         /\ slots'[CQ][SlotOf(p)] = boots
         /\ \A s \in 0 .. NumSlots - 1 : slots'[CQ][s] = slots[CQ][s] \/ slots'[CQ][s] = boots
         /\ tail'[SQ] = tail[SQ] /\ fw'[SQ] = fw[SQ] /\ slots'[SQ] = slots[SQ]
         /\ UNCHANGED <<consumed, host, boots, fwPc, hostPc, strayed, request, response>>
<1> DEFINE c == ProducerCache(fw[CQ], CQ)
<1>1. fw[CQ] \in Caches /\ SQ \in Queue /\ CQ \in Queue /\ SQ # CQ
  BY Shapes DEF TypeOK
<1>2. /\ c \in Caches /\ c.produced = fw[CQ].produced
      /\ c.consumed \in {fw[CQ].consumed, consumed[CQ]}
      /\ Dist(c.produced, c.consumed) < NumSlots
  BY <1>1, ProducerSees DEF FwProduce, TypeOK
<1>3. fw[CQ].produced \in TailValue /\ SlotOf(fw[CQ].produced) \in 0 .. NumSlots - 1
  BY <1>1, CacheParts, SlotOfTail
<1> HIDE DEF c
<1>4. /\ tail' = [tail EXCEPT ![CQ] = Inc(c.produced)]
      /\ fw' = [fw EXCEPT ![CQ] = Cache(Inc(c.produced), c.consumed)]
      /\ slots' = [slots EXCEPT ![CQ][SlotOf(c.produced)] = boots]
      /\ fwPc = "ready"
      /\ UNCHANGED <<consumed, host, boots, fwPc, hostPc, strayed, request, response>>
  BY DEF FwProduce, c, hostVars
<1>5. /\ tail'[CQ] = Inc(c.produced) /\ tail'[SQ] = tail[SQ]
      /\ fw'[CQ] = Cache(Inc(c.produced), c.consumed) /\ fw'[SQ] = fw[SQ]
  BY <1>1, <1>4 DEF TypeOK
<1>6. slots'[CQ] = [slots[CQ] EXCEPT ![SlotOf(c.produced)] = boots] /\ slots'[SQ] = slots[SQ]
  BY <1>1, <1>4 DEF TypeOK
<1>7. slots[CQ] \in [0 .. NumSlots - 1 -> Boot]
  BY <1>1 DEF TypeOK
<1>8. /\ slots'[CQ][SlotOf(c.produced)] = boots
      /\ \A s \in 0 .. NumSlots - 1 : slots'[CQ][s] = slots[CQ][s] \/ slots'[CQ][s] = boots
  BY <1>2, <1>3, <1>6, <1>7
<1>9. QED BY <1>2, <1>4, <1>5, <1>6, <1>8, Shapes

LEMMA HostConsumes ==
  ASSUME TypeOK, HostConsume
  PROVE  LET d == host[CQ].consumed IN
         /\ hostPc = "attached"
         /\ host'[CQ].consumed = Inc(d) /\ consumed'[CQ] = Inc(d)
         /\ \/ host'[CQ].produced = host[CQ].produced
            \/ host[CQ].produced = d /\ host'[CQ].produced = tail[CQ]
         /\ d # host'[CQ].produced
         /\ response' = slots[CQ][SlotOf(d)]
         /\ host'[SQ] = host[SQ] /\ consumed'[SQ] = consumed[SQ]
         /\ UNCHANGED <<tail, slots, fw, boots, fwPc, hostPc, strayed, request>>
<1> DEFINE c == ConsumerCache(host[CQ], CQ)
<1>1. host[CQ] \in Caches /\ SQ \in Queue /\ CQ \in Queue /\ SQ # CQ
  BY Shapes DEF TypeOK
<1>2. /\ c.consumed = host[CQ].consumed /\ c.consumed # c.produced
      /\ \/ c.produced = host[CQ].produced
         \/ host[CQ].produced = host[CQ].consumed /\ c.produced = tail[CQ]
  BY <1>1, ConsumerSees DEF HostConsume, TypeOK
<1> HIDE DEF c
<1>3. /\ consumed' = [consumed EXCEPT ![CQ] = Inc(c.consumed)]
      /\ host' = [host EXCEPT ![CQ] = Cache(c.produced, Inc(c.consumed))]
      /\ response' = slots[CQ][SlotOf(c.consumed)]
      /\ hostPc = "attached"
      /\ UNCHANGED <<tail, slots, fw, boots, fwPc, hostPc, strayed, request>>
  BY DEF HostConsume, c, fwVars
<1>4. /\ consumed'[CQ] = Inc(c.consumed) /\ consumed'[SQ] = consumed[SQ]
      /\ host'[CQ] = Cache(c.produced, Inc(c.consumed)) /\ host'[SQ] = host[SQ]
  BY <1>1, <1>3 DEF TypeOK
<1>5. QED BY <1>2, <1>3, <1>4, Shapes

LEMMA FwConsumes ==
  ASSUME TypeOK, FwConsume
  PROVE  LET d == fw[SQ].consumed IN
         /\ fwPc = "ready"
         /\ fw'[SQ].consumed = Inc(d) /\ consumed'[SQ] = Inc(d)
         /\ \/ fw'[SQ].produced = fw[SQ].produced
            \/ fw[SQ].produced = d /\ fw'[SQ].produced = tail[SQ]
         /\ d # fw'[SQ].produced
         /\ request' = slots[SQ][SlotOf(d)]
         /\ fw'[CQ] = fw[CQ] /\ consumed'[CQ] = consumed[CQ]
         /\ UNCHANGED <<tail, slots, host, boots, fwPc, hostPc, strayed, response>>
<1> DEFINE c == ConsumerCache(fw[SQ], SQ)
<1>1. fw[SQ] \in Caches /\ SQ \in Queue /\ CQ \in Queue /\ SQ # CQ
  BY Shapes DEF TypeOK
<1>2. /\ c.consumed = fw[SQ].consumed /\ c.consumed # c.produced
      /\ \/ c.produced = fw[SQ].produced
         \/ fw[SQ].produced = fw[SQ].consumed /\ c.produced = tail[SQ]
  BY <1>1, ConsumerSees DEF FwConsume, TypeOK
<1> HIDE DEF c
<1>3. /\ consumed' = [consumed EXCEPT ![SQ] = Inc(c.consumed)]
      /\ fw' = [fw EXCEPT ![SQ] = Cache(c.produced, Inc(c.consumed))]
      /\ request' = slots[SQ][SlotOf(c.consumed)]
      /\ fwPc = "ready"
      /\ UNCHANGED <<tail, slots, host, boots, fwPc, hostPc, strayed, response>>
  BY DEF FwConsume, c, hostVars
<1>4. /\ consumed'[SQ] = Inc(c.consumed) /\ consumed'[CQ] = consumed[CQ]
      /\ fw'[SQ] = Cache(c.produced, Inc(c.consumed)) /\ fw'[CQ] = fw[CQ]
  BY <1>1, <1>3 DEF TypeOK
<1>5. QED BY <1>2, <1>3, <1>4, Shapes

LEMMA TailsTyped ==
  ASSUME TypeOK, NEW q \in Queue
  PROVE  /\ tail[q] \in TailValue /\ consumed[q] \in TailValue
         /\ fw[q].produced \in TailValue /\ fw[q].consumed \in TailValue
         /\ host[q].produced \in TailValue /\ host[q].consumed \in TailValue
<1>1. fw[q] \in Caches /\ host[q] \in Caches
  BY DEF TypeOK
<1>2. QED BY <1>1, CacheParts DEF TypeOK

(* A soft reset makes a ring empty where its produced tail is.             *)
LEMMA SoftResets ==
  ASSUME TypeOK, NEW q \in Queue, SoftReset(q)
  PROVE  /\ fw'[q].produced = tail[q] /\ fw'[q].consumed = tail[q] /\ consumed'[q] = tail[q]
         /\ \A r \in Queue : r # q => fw'[r] = fw[r] /\ consumed'[r] = consumed[r]
BY Shapes DEF SoftReset, TypeOK

------------------------------------------------------------------------------
(* The submission queue, whatever the host is doing.                       *)
LEMMA SubmissionStep ==
  ASSUME IInv, [Next]_vars
  PROVE  HostKeepsTail' /\ SubmissionsOfBoot' /\ NoRequestFromBeforeBoot'
<1> USE DEF IInv, HostKeepsTail, NoRequestFromBeforeBoot, SubmissionsReset
<1>s. SQ \in Queue /\ CQ \in Queue /\ SQ # CQ
  BY Shapes
<1>t. /\ tail[SQ] \in TailValue /\ fw[SQ].consumed \in TailValue
      /\ fw[SQ].produced \in TailValue /\ host[SQ].produced \in TailValue
  BY <1>s, TailsTyped
<1>1. CASE FwBoot \/ FwWriteHeader
  <2>1. boots' # 0
    <3>1. boots \in Nat
      BY SMT DEF TypeOK, Boot
    <3>2. CASE FwBoot
      BY <3>1, <3>2, SMT DEF FwBoot
    <3>3. CASE FwWriteHeader
      BY <3>3 DEF FwWriteHeader, SubmissionsOfBoot
    <3>4. QED BY <1>1, <3>2, <3>3
  <2>2. QED BY <1>1, <2>1 DEF FwBoot, FwWriteHeader, memory, hostVars, SubmissionsOfBoot
<1>2. CASE FwSoftReset
  <2>1. UNCHANGED <<tail, slots, boots, request, hostPc, host>>
    BY <1>2 DEF FwSoftReset, hostVars
  <2>2. CASE fwPc = "resetSQ"
    <3>1. fw'[SQ].produced = tail[SQ] /\ fw'[SQ].consumed = tail[SQ]
      BY <1>2, <2>2, <1>s, SoftResets DEF FwSoftReset
    <3>2. Marked(slots[SQ], tail[SQ], tail[SQ], boots)
      BY <1>t, MarkedStart
    <3>3. Dist(tail[SQ], tail[SQ]) <= Dist(tail[SQ], tail[SQ])
      BY <1>t, TailArithmetic, SMT
    <3>4. boots # 0
      BY <2>2 DEF SubmissionsOfBoot
    <3>5. QED BY <2>1, <3>1, <3>2, <3>3, <3>4 DEF SubmissionsOfBoot
  <2>3. CASE fwPc = "resetCQ"
    <3>1. fw'[SQ] = fw[SQ]
      BY <1>2, <2>3, <1>s, SoftResets DEF FwSoftReset
    <3>2. QED BY <2>1, <2>3, <3>1 DEF SubmissionsOfBoot
  <2>4. QED BY <1>2, <2>2, <2>3 DEF FwSoftReset
<1>3. CASE FwWriteMagic
  BY <1>3 DEF FwWriteMagic, hostVars, SubmissionsOfBoot
<1>4. CASE FwStop
  BY <1>4 DEF FwStop, hostVars, SubmissionsOfBoot
<1>5. CASE HostProduce
  <2> DEFINE f == fw[SQ]
             R == slots'[SQ]
  <2>1. /\ tail'[SQ] = Inc(tail[SQ]) /\ host'[SQ].produced = tail'[SQ]
        /\ R[SlotOf(tail[SQ])] = boots
        /\ \A s \in 0 .. NumSlots - 1 : R[s] = slots[SQ][s] \/ R[s] = boots
        /\ UNCHANGED <<fw, boots, fwPc, hostPc, request>>
    BY <1>5, HostProduces
  <2>2. ASSUME SubmissionsReset, \A s \in 0 .. NumSlots - 1 : slots[SQ][s] = boots
        PROVE  \A s \in 0 .. NumSlots - 1 : R[s] = boots
    BY <2>1, <2>2
  <2>3. ASSUME Dist(f.produced, f.consumed) <= Dist(tail[SQ], f.consumed),
               Marked(slots[SQ], f.consumed, tail[SQ], boots)
        PROVE  \/ \A s \in 0 .. NumSlots - 1 : R[s] = boots
               \/ /\ Dist(f.produced, f.consumed) <= Dist(Inc(tail[SQ]), f.consumed)
                  /\ Marked(R, f.consumed, Inc(tail[SQ]), boots)
    <3>1. /\ Inc(tail[SQ]) # f.consumed => Marked(R, f.consumed, Inc(tail[SQ]), boots)
          /\ Inc(tail[SQ]) = f.consumed => \A s \in 0 .. NumSlots - 1 : R[s] = boots
      <4> DEFINE from == fw[SQ].consumed
                 to == tail[SQ]
                 S == slots[SQ]
      <4>1. /\ from \in TailValue /\ to \in TailValue
            /\ Marked(S, from, to, boots) /\ R[SlotOf(to)] = boots
            /\ \A s \in 0 .. NumSlots - 1 : R[s] = S[s] \/ R[s] = boots
        BY <1>t, <2>1, <2>3
      <4> HIDE DEF R, S, from, to
      <4>2. /\ Inc(to) # from => Marked(R, from, Inc(to), boots)
            /\ Inc(to) = from => \A s \in 0 .. NumSlots - 1 : R[s] = boots
        BY <4>1, MarkedProduce
      <4>3. QED BY <4>2 DEF from, to
    <3>2. Inc(tail[SQ]) # f.consumed =>
            Dist(f.produced, f.consumed) <= Dist(Inc(tail[SQ]), f.consumed)
      BY <1>t, <2>3, RingAssumption, SMT DEF TailValue, Inc, Dist
    <3>3. QED BY <3>1, <3>2
  <2> HIDE DEF R
  <2>4. QED BY <2>1, <2>2, <2>3 DEF SubmissionsOfBoot, R
<1>6. CASE FwConsume
  <2> DEFINE f == fw[SQ]
             S == slots[SQ]
  <2>1. /\ fwPc = "ready" /\ fw'[SQ].consumed = Inc(f.consumed)
        /\ \/ fw'[SQ].produced = f.produced
           \/ f.produced = f.consumed /\ fw'[SQ].produced = tail[SQ]
        /\ f.consumed # fw'[SQ].produced
        /\ request' = S[SlotOf(f.consumed)]
        /\ UNCHANGED <<tail, slots, host, boots, fwPc, hostPc>>
    BY <1>6, FwConsumes
  <2>2. boots # 0
    BY <2>1 DEF SubmissionsOfBoot
  <2>3. CASE \A s \in 0 .. NumSlots - 1 : S[s] = boots
    <3>1. request' = boots
      BY <1>t, <2>1, <2>3, SlotOfTail
    <3>2. QED BY <2>1, <2>2, <2>3, <3>1 DEF SubmissionsOfBoot
  <2>4. CASE /\ Dist(f.produced, f.consumed) <= Dist(tail[SQ], f.consumed)
             /\ Marked(S, f.consumed, tail[SQ], boots)
    <3>1. f.consumed # tail[SQ]
      BY <1>t, <2>1, <2>4, RingAssumption, SMT DEF TailValue, Dist
    <3>2. S[SlotOf(f.consumed)] = boots /\ Marked(S, Inc(f.consumed), tail[SQ], boots)
      BY <1>t, <2>4, <3>1, MarkedConsume
    <3>3. Dist(fw'[SQ].produced, Inc(f.consumed)) <= Dist(tail[SQ], Inc(f.consumed))
      BY <1>t, <2>1, <2>4, <3>1, RingAssumption, SMT DEF TailValue, Dist, Inc
    <3>4. QED BY <2>1, <2>2, <3>2, <3>3 DEF SubmissionsOfBoot
  <2>5. QED BY <2>1, <2>3, <2>4 DEF SubmissionsOfBoot
<1>7. CASE FwProduce
  <2>1. /\ tail'[SQ] = tail[SQ] /\ fw'[SQ] = fw[SQ] /\ slots'[SQ] = slots[SQ]
        /\ UNCHANGED <<host, boots, fwPc, hostPc, request>>
    BY <1>7, FwProduces
  <2>2. QED BY <2>1 DEF SubmissionsOfBoot
<1>8. CASE HostConsume
  <2>1. host'[SQ] = host[SQ] /\ UNCHANGED <<tail, slots, fw, boots, fwPc, hostPc, request>>
    BY <1>8, HostConsumes
  <2>2. QED BY <2>1 DEF SubmissionsOfBoot
<1>9. CASE HostOpen \/ HostCheckMagic \/ HostReadHeader \/ HostFastForward \/ HostClose
  <2>1. UNCHANGED <<memory, fwVars>>
    BY <1>9 DEF HostOpen, HostCheckMagic, HostReadHeader, HostFastForward, HostClose
  <2>2. SubmissionsOfBoot' /\ NoRequestFromBeforeBoot'
    BY <2>1 DEF memory, fwVars, SubmissionsOfBoot
  <2>3. HostKeepsTail'
    <3>1. CASE HostFastForward
      <4>1. hostPc = "forwardSQ" => host'[SQ].produced = tail[SQ]
        BY <3>1, <1>s, Shapes DEF HostFastForward, FastForward, TypeOK
      <4>2. hostPc = "forwardCQ" => host'[SQ] = host[SQ]
        BY <3>1, <1>s DEF HostFastForward, FastForward, TypeOK
      <4>3. QED BY <2>1, <3>1, <4>1, <4>2 DEF HostFastForward, memory
    <3>2. CASE ~HostFastForward
      BY <1>9, <2>1, <3>2 DEF HostOpen, HostCheckMagic, HostReadHeader, HostClose, memory
    <3>3. QED BY <3>1, <3>2
  <2>4. QED BY <2>2, <2>3
<1>10. CASE UNCHANGED vars
  BY <1>10 DEF vars, SubmissionsOfBoot
<1>11. QED
  BY <1>1, <1>2, <1>3, <1>4, <1>5, <1>6, <1>7, <1>8, <1>9, <1>10
     DEF Next, FwStep, HostStep, HostOpening

------------------------------------------------------------------------------
(* Both queues, as long as the host has used the header of no other boot.  *)
LEMMA SubmissionOrderStep ==
  ASSUME IInv, [Next]_vars
  PROVE  SubmissionsInOrder'
<1> USE DEF IInv, SubmissionsReset
<1>s. SQ \in Queue /\ CQ \in Queue /\ SQ # CQ
  BY Shapes
<1>t. /\ tail[SQ] \in TailValue /\ consumed[SQ] \in TailValue /\ fw[SQ].consumed \in TailValue
      /\ fw[SQ].produced \in TailValue /\ host[SQ].consumed \in TailValue
  BY <1>s, TailsTyped
<1>1. CASE FwBoot \/ FwWriteHeader \/ FwStop
  BY <1>1 DEF FwBoot, FwWriteHeader, FwStop, SubmissionsInOrder
<1>2. CASE FwSoftReset
  <2>1. UNCHANGED <<tail, hostPc, host, strayed>>
    BY <1>2 DEF FwSoftReset, hostVars
  <2>2. CASE fwPc = "resetSQ"
    <3>1. /\ fw'[SQ].produced = tail[SQ] /\ fw'[SQ].consumed = tail[SQ]
          /\ consumed'[SQ] = tail[SQ]
      BY <1>2, <2>2, <1>s, SoftResets DEF FwSoftReset
    <3>2. Ordered(tail[SQ], tail[SQ], tail[SQ], tail[SQ])
      BY <1>t, OrderedStart
    <3>3. ~strayed => hostPc \notin {"forwardCQ", "attached"}
      BY <2>2 DEF MagicComesLast
    <3>4. QED BY <2>1, <3>1, <3>2, <3>3 DEF SubmissionsInOrder
  <2>3. CASE fwPc = "resetCQ"
    <3>1. fw'[SQ] = fw[SQ] /\ consumed'[SQ] = consumed[SQ]
      BY <1>2, <2>3, <1>s, SoftResets DEF FwSoftReset
    <3>2. QED BY <2>1, <2>3, <3>1 DEF SubmissionsInOrder
  <2>4. QED BY <1>2, <2>2, <2>3 DEF FwSoftReset
<1>3. CASE FwWriteMagic
  BY <1>3 DEF FwWriteMagic, hostVars, SubmissionsInOrder
<1>4. CASE HostProduce
  <2> DEFINE known == host'[SQ].consumed
             f == fw[SQ]
  <2>1. /\ hostPc = "attached" /\ tail'[SQ] = Inc(tail[SQ])
        /\ known \in {host[SQ].consumed, consumed[SQ]} /\ Dist(tail[SQ], known) < NumSlots
        /\ UNCHANGED <<consumed, fw, fwPc, hostPc, strayed>>
    BY <1>4, HostProduces DEF HostKeepsTail
  <2>2. ASSUME SubmissionsReset, ~strayed
        PROVE  /\ consumed[SQ] = f.consumed
               /\ Ordered(f.consumed, f.consumed, f.produced, Inc(tail[SQ]))
               /\ Ordered(known, f.consumed, f.produced, Inc(tail[SQ]))
    <3>1. /\ consumed[SQ] = f.consumed
          /\ Ordered(host[SQ].consumed, f.consumed, f.produced, tail[SQ])
      BY <2>1, <2>2 DEF SubmissionsInOrder
    <3>2. Ordered(known, f.consumed, f.produced, tail[SQ])
      BY <1>t, <2>1, <3>1, OrderedSteps
    <3>3. known \in TailValue
      BY <1>t, <2>1
    <3>4. Ordered(known, f.consumed, f.produced, Inc(tail[SQ]))
      BY <1>t, <2>1, <3>2, <3>3, OrderedSteps
    <3>5. Inc(tail[SQ]) \in TailValue
      BY <1>t, TailArithmetic
    <3>6. Ordered(f.consumed, f.consumed, f.produced, Inc(tail[SQ]))
      BY <1>t, <3>3, <3>4, <3>5, OrderedSteps
    <3>7. QED BY <3>1, <3>4, <3>6
  <2>3. QED BY <2>1, <2>2 DEF SubmissionsInOrder
<1>5. CASE FwConsume
  <2> DEFINE f == fw[SQ]
             seen == fw'[SQ].produced
  <2>1. /\ fwPc = "ready" /\ fw'[SQ].consumed = Inc(f.consumed)
        /\ consumed'[SQ] = Inc(f.consumed)
        /\ seen = f.produced \/ seen = tail[SQ]
        /\ f.consumed # seen
        /\ UNCHANGED <<tail, host, fwPc, hostPc, strayed>>
    BY <1>5, FwConsumes
  <2>2. ASSUME NEW known \in TailValue, Ordered(known, f.consumed, f.produced, tail[SQ])
        PROVE  /\ Ordered(known, Inc(f.consumed), seen, tail[SQ])
               /\ Ordered(Inc(f.consumed), Inc(f.consumed), seen, tail[SQ])
    <3>1. Ordered(known, f.consumed, seen, tail[SQ])
      BY <1>t, <2>1, <2>2, OrderedSteps
    <3>2. seen \in TailValue /\ Inc(f.consumed) \in TailValue
      BY <1>t, <2>1, TailArithmetic
    <3>3. Ordered(known, Inc(f.consumed), seen, tail[SQ])
      BY <1>t, <2>1, <3>1, <3>2, OrderedSteps
    <3>4. QED BY <1>t, <2>2, <3>2, <3>3, OrderedSteps
  <2>3. QED BY <1>t, <2>1, <2>2 DEF SubmissionsInOrder
<1>6. CASE FwProduce
  <2>1. tail'[SQ] = tail[SQ] /\ fw'[SQ] = fw[SQ]
        /\ UNCHANGED <<consumed, host, fwPc, hostPc, strayed>>
    BY <1>6, FwProduces
  <2>2. QED BY <2>1 DEF SubmissionsInOrder
<1>7. CASE HostConsume
  <2>1. host'[SQ] = host[SQ] /\ consumed'[SQ] = consumed[SQ]
        /\ UNCHANGED <<tail, fw, fwPc, hostPc, strayed>>
    BY <1>7, HostConsumes
  <2>2. QED BY <2>1 DEF SubmissionsInOrder
<1>8. CASE HostFastForward
  <2>1. UNCHANGED <<memory, fwVars, strayed>> /\ hostPc' # "closed"
    BY <1>8 DEF HostFastForward
  <2>2. CASE hostPc = "forwardSQ"
    <3>1. host'[SQ].consumed = consumed[SQ]
      BY <1>8, <2>2, <1>s, Shapes DEF HostFastForward, FastForward, TypeOK
    <3>2. QED BY <2>1, <3>1 DEF SubmissionsInOrder, memory, fwVars
  <2>3. CASE hostPc = "forwardCQ"
    <3>1. host'[SQ] = host[SQ]
      BY <1>8, <2>3, <1>s DEF HostFastForward, FastForward, TypeOK
    <3>2. QED BY <2>1, <2>3, <3>1 DEF SubmissionsInOrder, memory, fwVars
  <2>4. QED BY <1>8, <2>2, <2>3 DEF HostFastForward
<1>9. CASE HostOpen \/ HostCheckMagic \/ HostReadHeader \/ HostClose
  <2>1. /\ UNCHANGED <<memory, fwVars>> /\ (strayed => strayed')
        /\ hostPc' \notin {"forwardCQ", "attached"} \/ UNCHANGED <<hostPc, host>>
    <3>1. CASE HostOpen \/ HostReadHeader \/ HostClose
      BY <1>9, <3>1 DEF HostOpen, HostReadHeader, HostClose
    <3>2. CASE HostCheckMagic
      BY <3>2 DEF HostCheckMagic
    <3>3. QED BY <1>9, <3>1, <3>2
  <2>2. QED BY <2>1 DEF SubmissionsInOrder, memory, fwVars
<1>10. CASE UNCHANGED vars
  BY <1>10 DEF vars, SubmissionsInOrder
<1>11. QED
  BY <1>1, <1>2, <1>3, <1>4, <1>5, <1>6, <1>7, <1>8, <1>9, <1>10
     DEF Next, FwStep, HostStep, HostOpening

LEMMA CompletionOrderStep ==
  ASSUME IInv, [Next]_vars
  PROVE  CompletionsInOrder' /\ NoResponseFromBeforeBoot'
<1> USE DEF IInv, CompletionsReset, NoResponseFromBeforeBoot, InSession
<1>s. SQ \in Queue /\ CQ \in Queue /\ SQ # CQ
  BY Shapes
<1>t. /\ tail[CQ] \in TailValue /\ consumed[CQ] \in TailValue /\ fw[CQ].consumed \in TailValue
      /\ host[CQ].produced \in TailValue
  BY <1>s, TailsTyped
<1>1. CASE FwBoot \/ FwWriteHeader \/ FwStop
  BY <1>1 DEF FwBoot, FwWriteHeader, FwStop, CompletionsInOrder
<1>2. CASE FwSoftReset
  <2>1. UNCHANGED <<tail, slots, boots, hostPc, host, strayed>>
    BY <1>2 DEF FwSoftReset, hostVars
  <2>2. CASE fwPc = "resetSQ"
    BY <1>2, <2>2 DEF FwSoftReset, CompletionsInOrder
  <2>3. CASE fwPc = "resetCQ"
    <3>1. /\ fw'[CQ].produced = tail[CQ] /\ fw'[CQ].consumed = tail[CQ]
          /\ consumed'[CQ] = tail[CQ]
      BY <1>2, <2>3, <1>s, SoftResets DEF FwSoftReset
    <3>2. Ordered(tail[CQ], tail[CQ], tail[CQ], tail[CQ])
      BY <1>t, OrderedStart
    <3>3. Marked(slots[CQ], tail[CQ], tail[CQ], boots)
      BY <1>t, MarkedStart
    <3>4. ~strayed => hostPc # "attached"
      BY <2>3 DEF MagicComesLast
    <3>5. fwPc' = "magic"
      BY <1>2, <2>3 DEF FwSoftReset
    <3>6. QED BY <2>1, <3>1, <3>2, <3>3, <3>4, <3>5 DEF CompletionsInOrder
  <2>4. QED BY <1>2, <2>2, <2>3 DEF FwSoftReset
<1>3. CASE FwWriteMagic
  <2>1. ~strayed => hostPc # "attached"
    BY <1>3 DEF FwWriteMagic, MagicComesLast
  <2>2. QED BY <1>3, <2>1 DEF FwWriteMagic, hostVars, CompletionsInOrder
<1>4. CASE FwProduce
  <2> DEFINE known == fw'[CQ].consumed
             a == fw[CQ].consumed
             b == consumed[CQ]
             d == tail[CQ]
             p == fw[CQ].produced
             S == slots[CQ]
             R == slots'[CQ]
  <2>1. /\ fwPc = "ready" /\ tail'[CQ] = Inc(p) /\ fw'[CQ].produced = Inc(p)
        /\ known \in {a, b} /\ Dist(p, known) < NumSlots
        /\ R[SlotOf(p)] = boots
        /\ \A s \in 0 .. NumSlots - 1 : R[s] = S[s] \/ R[s] = boots
        /\ UNCHANGED <<consumed, host, boots, fwPc, hostPc, strayed, response>>
    BY <1>4, FwProduces
  <2>2. ASSUME ~strayed
        PROVE  /\ p = d /\ Marked(R, b, Inc(d), boots)
               /\ Ordered(known, b, Inc(d), Inc(d))
               /\ hostPc = "attached" =>
                    /\ host[CQ].consumed = b
                    /\ Ordered(known, b, host[CQ].produced, Inc(d))
    <3>1. /\ p = d /\ Marked(S, b, d, boots) /\ Ordered(a, b, d, d)
          /\ hostPc = "attached" =>
               host[CQ].consumed = b /\ Ordered(a, b, host[CQ].produced, d)
      BY <2>1, <2>2 DEF CompletionsInOrder
    <3>2. /\ a \in TailValue /\ b \in TailValue /\ d \in TailValue /\ known \in TailValue
          /\ Inc(d) \in TailValue /\ host[CQ].produced \in TailValue
      BY <1>t, <2>1, TailArithmetic
    <3>3. ASSUME NEW seen \in TailValue, Ordered(a, b, seen, d)
          PROVE  Ordered(known, b, seen, Inc(d)) /\ Inc(d) # b
      <4>1. Ordered(known, b, seen, d)
        BY <2>1, <3>2, <3>3, OrderedSteps
      <4>2. Dist(d, known) < NumSlots
        BY <2>1, <3>1
      <4>3. QED BY <3>2, <4>1, <4>2, OrderedSteps
    <3>4. Ordered(known, b, d, Inc(d)) /\ Inc(d) # b
      BY <3>1, <3>2, <3>3
    <3>5. Ordered(known, b, Inc(d), Inc(d))
      BY <3>2, <3>4, OrderedSteps
    <3>6. R[SlotOf(d)] = boots /\ \A s \in 0 .. NumSlots - 1 : R[s] = S[s] \/ R[s] = boots
      BY <2>1, <3>1
    <3>7. Marked(R, b, Inc(d), boots)
      <4> HIDE DEF R, S, b, d
      <4>1. QED BY <3>1, <3>2, <3>4, <3>6, MarkedProduce
    <3>8. QED BY <3>1, <3>2, <3>3, <3>5, <3>7
  <2>3. QED BY <2>1, <2>2 DEF CompletionsInOrder
<1>5. CASE HostConsume
  <2> DEFINE a == fw[CQ].consumed
             b == consumed[CQ]
             d == tail[CQ]
             seen == host'[CQ].produced
  <2>1. /\ hostPc = "attached"
        /\ host'[CQ].consumed = Inc(host[CQ].consumed)
        /\ consumed'[CQ] = Inc(host[CQ].consumed)
        /\ seen = host[CQ].produced \/ seen = d
        /\ host[CQ].consumed # seen
        /\ response' = slots[CQ][SlotOf(host[CQ].consumed)]
        /\ UNCHANGED <<tail, slots, fw, boots, fwPc, hostPc, strayed>>
    BY <1>5, HostConsumes
  <2>2. ASSUME CompletionsReset, ~strayed
        PROVE  /\ host[CQ].consumed = b /\ fw[CQ].produced = d
               /\ Marked(slots[CQ], Inc(b), d, boots) /\ response' = boots
               /\ Ordered(a, Inc(b), d, d) /\ Ordered(a, Inc(b), seen, d)
    <3>1. /\ host[CQ].consumed = b /\ fw[CQ].produced = d
          /\ Marked(slots[CQ], b, d, boots)
          /\ Ordered(a, b, d, d) /\ Ordered(a, b, host[CQ].produced, d)
      BY <2>1, <2>2 DEF CompletionsInOrder
    <3>2. /\ a \in TailValue /\ b \in TailValue /\ d \in TailValue /\ seen \in TailValue
          /\ Inc(b) \in TailValue
      BY <1>t, <2>1, TailArithmetic
    <3>3. Ordered(a, b, seen, d) /\ b # seen
      BY <2>1, <3>1
    <3>4. Ordered(a, Inc(b), seen, d) /\ b # d
      BY <3>2, <3>3, OrderedSteps
    <3>5. Ordered(a, Inc(b), d, d)
      BY <3>2, <3>4, OrderedSteps
    <3>6. slots[CQ][SlotOf(b)] = boots /\ Marked(slots[CQ], Inc(b), d, boots)
      BY <3>1, <3>2, <3>4, MarkedConsume
    <3>7. QED BY <2>1, <3>1, <3>4, <3>5, <3>6
  <2>3. QED BY <2>1, <2>2 DEF CompletionsInOrder
<1>6. CASE HostProduce
  <2>1. tail'[CQ] = tail[CQ] /\ host'[CQ] = host[CQ] /\ slots'[CQ] = slots[CQ]
        /\ UNCHANGED <<consumed, fw, boots, fwPc, hostPc, strayed, response>>
    BY <1>6, HostProduces
  <2>2. QED BY <2>1 DEF CompletionsInOrder
<1>7. CASE FwConsume
  <2>1. fw'[CQ] = fw[CQ] /\ consumed'[CQ] = consumed[CQ]
        /\ UNCHANGED <<tail, slots, host, boots, fwPc, hostPc, strayed, response>>
    BY <1>7, FwConsumes
  <2>2. QED BY <2>1 DEF CompletionsInOrder
<1>8. CASE HostFastForward
  <2>1. UNCHANGED <<memory, fwVars, strayed>>
    BY <1>8 DEF HostFastForward
  <2>2. CASE hostPc = "forwardSQ"
    <3>1. hostPc' = "forwardCQ"
      BY <1>8, <2>2 DEF HostFastForward
    <3>2. QED BY <2>1, <3>1 DEF CompletionsInOrder, memory, fwVars
  <2>3. CASE hostPc = "forwardCQ"
    <3>1. host'[CQ].consumed = consumed[CQ] /\ host'[CQ].produced = tail[CQ] /\ response' = 0
      BY <1>8, <2>3, <1>s, Shapes DEF HostFastForward, FastForward, TypeOK
    <3>2. QED BY <2>1, <3>1 DEF CompletionsInOrder, memory, fwVars
  <2>4. QED BY <1>8, <2>2, <2>3 DEF HostFastForward
<1>9. CASE HostOpen \/ HostCheckMagic \/ HostReadHeader \/ HostClose
  <2>1. /\ UNCHANGED <<memory, fwVars, response>> /\ (strayed => strayed')
        /\ hostPc' # "attached" \/ UNCHANGED <<hostPc, host>>
    <3>1. CASE HostOpen \/ HostReadHeader \/ HostClose
      BY <1>9, <3>1 DEF HostOpen, HostReadHeader, HostClose
    <3>2. CASE HostCheckMagic
      BY <3>2 DEF HostCheckMagic
    <3>3. QED BY <1>9, <3>1, <3>2
  <2>2. QED BY <2>1 DEF CompletionsInOrder, memory, fwVars
<1>10. CASE UNCHANGED vars
  BY <1>10 DEF vars, CompletionsInOrder
<1>11. QED
  BY <1>1, <1>2, <1>3, <1>4, <1>5, <1>6, <1>7, <1>8, <1>9, <1>10
     DEF Next, FwStep, HostStep, HostOpening

------------------------------------------------------------------------------
THEOREM Inductive == Spec => []IInv
<1>1. Init => IInv
  BY InitInv
<1>2. IInv /\ [Next]_vars => IInv'
  <2> SUFFICES ASSUME IInv, [Next]_vars
               PROVE  IInv'
    OBVIOUS
  <2>1. TypeOK' /\ AttemptLeft'
    BY TypeStep DEF IInv
  <2>2. MagicComesLast'
    BY PhaseStep DEF IInv
  <2>3. QED
    BY <2>1, <2>2, SubmissionStep, SubmissionOrderStep, CompletionOrderStep DEF IInv
<1>3. QED BY <1>1, <1>2, PTL DEF Spec

(* The type invariant: tails stay within their word, attempts and requests *)
(* owed within their bounds.                                               *)
THEOREM Types == Spec => []TypeOK
<1>1. IInv => TypeOK
  BY DEF IInv
<1>2. QED BY <1>1, Inductive, PTL

(* xGCQInit() ignores existing commands: no request sent before a boot is  *)
(* executed after it, even if a host goes on publishing old tails.         *)
THEOREM NoOldRequest == Spec => []NoRequestFromBeforeBoot
<1>1. IInv => NoRequestFromBeforeBoot
  BY DEF IInv
<1>2. QED BY <1>1, Inductive, PTL

(* What gcq_fast_forward() takes over is what the firmware left, so both   *)
(* rings are in the order from which module GCQRing starts.                *)
THEOREM SessionsAgree == Spec => []SessionRingsInOrder
<1>1. IInv => SessionRingsInOrder
  <2> SUFFICES ASSUME IInv, InSession
               PROVE  /\ RingInOrder(host[SQ], fw[SQ], SQ)
                      /\ RingInOrder(fw[CQ], host[CQ], CQ)
    BY DEF SessionRingsInOrder
  <2>1. RingInOrder(host[SQ], fw[SQ], SQ)
    BY DEF IInv, InSession, SubmissionsReset, SubmissionsInOrder, HostKeepsTail, Ordered,
           RingInOrder
  <2>2. RingInOrder(fw[CQ], host[CQ], CQ)
    BY DEF IInv, InSession, CompletionsReset, CompletionsInOrder, Ordered, RingInOrder
  <2>3. QED BY <2>1, <2>2
<1>2. QED BY <1>1, Inductive, PTL

(* A host in session reads no answer an earlier boot left in the ring,     *)
(* although it takes over both tails as it finds them.                     *)
THEOREM NoOldResponse == Spec => []NoResponseFromBeforeBoot
<1>1. IInv => NoResponseFromBeforeBoot
  BY DEF IInv
<1>2. QED BY <1>1, Inductive, PTL
==============================================================================
