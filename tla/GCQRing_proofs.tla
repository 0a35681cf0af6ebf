--------------------------- MODULE GCQRing_proofs ---------------------------
(***************************************************************************)
(* For every number of slots and every width of the tails: the ring never  *)
(* has its two sides in the same slot, never hands out a torn message, and *)
(* implements the bounded FIFO of module Channel.                          *)
(***************************************************************************)
EXTENDS GCQRing, SequenceTheorems, TLAPS

(* Arithmetic on tails, all linear.                                        *)
LEMMA TailArithmetic ==
  ASSUME NEW a \in TailValue
  PROVE  /\ Inc(a) \in TailValue /\ Prev(a) \in TailValue
         /\ Prev(Inc(a)) = a /\ Inc(Prev(a)) = a
         /\ Dist(Inc(a), a) = 1 /\ Dist(a, a) = 0
BY RingAssumption, SMT DEF TailValue, Inc, Prev, Dist

LEMMA DistType ==
  ASSUME NEW a \in TailValue, NEW b \in TailValue
  PROVE  Dist(a, b) \in 0 .. Word - 1
BY RingAssumption, SMT DEF TailValue, Dist

LEMMA PlusType ==
  ASSUME NEW a \in TailValue, NEW n \in 0 .. NumSlots
  PROVE  Plus(a, n) \in TailValue
BY RingAssumption, SMT DEF TailValue, Plus

(* Two multiples of N less than N apart are the same multiple.             *)
LEMMA MultipleGap ==
  ASSUME NEW N \in Nat \ {0}, NEW k \in Int, NEW d \in Nat, d < N, N * k = d
  PROVE  d = 0
<1>1. CASE k <= 0
  <2>1. N * k <= 0
    BY <1>1, SMT
  <2>2. QED BY <2>1, SMT
<1>2. CASE k >= 1
  <2>1. N * k >= N
    BY <1>2, SMT
  <2>2. QED BY <2>1, SMT
<1>3. QED BY <1>1, <1>2, SMT

LEMMA ModRange ==
  ASSUME NEW a \in Nat, NEW N \in Nat \ {0}
  PROVE  /\ a % N \in 0 .. N - 1
         /\ \E q \in Int : a = (N * q) + (a % N)
<1>1. a \div N \in Int /\ a % N \in 0 .. N - 1
  BY SMT
<1>2. a = (N * (a \div N)) + (a % N)
  BY SMT
<1>3. QED BY <1>1, <1>2

LEMMA SlotOfTail ==
  ASSUME NEW a \in TailValue
  PROVE  /\ SlotOf(a) \in 0 .. NumSlots - 1
         /\ \E q \in Int : a = (NumSlots * q) + SlotOf(a)
<1>1. a \in Nat
  BY RingAssumption, SMT DEF TailValue
<1>2. NumSlots \in Nat \ {0}
  BY RingAssumption
<1>3. /\ a % NumSlots \in 0 .. NumSlots - 1
      /\ \E q \in Int : a = (NumSlots * q) + (a % NumSlots)
  BY <1>1, <1>2, ModRange, Zenon
<1>4. QED BY <1>3, Zenon DEF SlotOf

(* A tail and one less than a ring's length behind it never share a slot,  *)
(* also across the wrap, because the ring divides the range of the tails.  *)
LEMMA SlotInjective ==
  ASSUME NEW a \in TailValue, NEW b \in TailValue,
         Dist(a, b) < NumSlots, SlotOf(a) = SlotOf(b)
  PROVE  a = b
<1>1. PICK k \in 1 .. Word : Word = NumSlots * k
  BY RingAssumption
<1>2. PICK qa \in Int : a = NumSlots * qa + SlotOf(a)
  BY SlotOfTail
<1>3. PICK qb \in Int : b = NumSlots * qb + SlotOf(b)
  BY SlotOfTail
<1>4. SlotOf(a) \in Nat
  BY SlotOfTail, RingAssumption
<1>5. CASE a >= b
  <2>1. a - b = NumSlots * qa - NumSlots * qb
    BY <1>2, <1>3, <1>4, RingAssumption, SMT DEF TailValue
  <2>2. NumSlots * qa - NumSlots * qb = NumSlots * (qa - qb)
    BY RingAssumption, SMT
  <2>3. a - b \in Nat /\ a - b < NumSlots
    BY <1>5, RingAssumption, SMT DEF TailValue, Dist
  <2>4. a - b = 0
    BY <2>1, <2>2, <2>3, MultipleGap, RingAssumption
  <2>5. QED BY <2>4, SMT DEF TailValue
<1>6. CASE a < b
  <2>1. a + Word - b = NumSlots * qa + NumSlots * k - NumSlots * qb
    BY <1>1, <1>2, <1>3, <1>4, RingAssumption, SMT DEF TailValue
  <2>2. NumSlots * qa + NumSlots * k - NumSlots * qb = NumSlots * (qa + k - qb)
    BY RingAssumption, SMT
  <2>3. a + Word - b \in Nat /\ a + Word - b < NumSlots /\ a + Word - b # 0
    BY <1>6, RingAssumption, SMT DEF TailValue, Dist
  <2>4. QED BY <2>1, <2>2, <2>3, MultipleGap, RingAssumption
<1>7. QED BY <1>5, <1>6, SMT DEF TailValue

------------------------------------------------------------------------------
(* What the order of the tails says about the slots in use.                *)
LEMMA Geometry ==
  ASSUME TypeOK, TailsInOrder, OneSlotAhead
  PROVE  /\ HeadTail \in TailValue
         /\ Dist(producedTail, HeadTail) \in 0 .. NumSlots
         /\ Dist(producedTail, consumedTail) \in 0 .. NumSlots
         /\ pPc # "idle" => /\ Prev(pProduced) = producedTail
                            /\ Dist(producedTail, HeadTail) < NumSlots
                            /\ Dist(producedTail, consumedTail) < NumSlots
         /\ cPc \notin {"idle", "polling"} => /\ Prev(cConsumed) = consumedTail
                                              /\ Dist(producedTail, consumedTail) > 0
         /\ cPc = "begin" => HeadTail = consumedTail
         /\ cPc # "begin" => HeadTail = cConsumed
BY RingAssumption, SMT
   DEF TypeOK, TailsInOrder, OneSlotAhead, Behind, HeadTail, Dist, TailValue, Inc, Prev, Phase,
       ConsumerPhase

(* A slot the consumer may still read is not the one after the last        *)
(* published message, unless the ring is full.                             *)
LEMMA WindowDisjoint ==
  ASSUME NEW p \in TailValue, NEW h \in TailValue, Dist(p, h) < NumSlots,
         NEW i \in 0 .. NumSlots - 1, i < Dist(p, h)
  PROVE  Plus(h, i) \in TailValue /\ SlotOf(Plus(h, i)) # SlotOf(p)
<1>1. Plus(h, i) \in TailValue
  BY PlusType, RingAssumption, SMT
<1>2. Dist(p, Plus(h, i)) = Dist(p, h) - i
  BY RingAssumption, SMT DEF TailValue, Dist, Plus
<1>3. Dist(p, Plus(h, i)) < NumSlots /\ Dist(p, Plus(h, i)) > 0
  BY <1>2, DistType, RingAssumption, SMT
<1>4. Plus(h, i) # p
  BY <1>3, TailArithmetic, SMT
<1>5. QED BY <1>1, <1>3, <1>4, SlotInjective

LEMMA TailsStep ==
  ASSUME IInv, [Next]_vars
  PROVE  TypeOK' /\ TailsInOrder' /\ OneSlotAhead'
<1> USE RingAssumption, MsgAssumption DEF IInv
<1>0. \A s \in 0 .. NumSlots - 1 : slots[s] \in Msg \cup {Torn}
  BY DEF TypeOK
<1>t. \A t \in TailValue : SlotOf(t) \in 0 .. NumSlots - 1
  BY SlotOfTail
<1>1. CASE \E m \in Msg : ReserveSlot(m)
  <2> PICK m \in Msg : ReserveSlot(m)
    BY <1>1
  <2>1. TypeOK'
    BY SMT DEF ReserveSlot, TypeOK, Phase, ConsumerPhase, TailValue, Inc, shared, consumer
  <2>2. TailsInOrder' /\ OneSlotAhead'
    BY SMT DEF ReserveSlot, TypeOK, TailsInOrder, OneSlotAhead, Behind, IsFull,
               Phase, ConsumerPhase, TailValue, Inc, Dist, shared, consumer
  <2>3. QED BY <2>1, <2>2
<1>2. CASE NoFreeSlot
  BY <1>2, SMT DEF NoFreeSlot, TypeOK, TailsInOrder, OneSlotAhead, Behind, IsFull,
             Phase, ConsumerPhase, TailValue, Inc, Dist, shared, consumer
<1>3. CASE WriteSlotBegin \/ WriteSlotEnd
  <2>1. UNCHANGED <<producedTail, consumedTail, otherAllOnes, pProduced, pConsumed, pMsg,
                    consumer>>
        /\ pPc # "idle" /\ pPc' # "idle" /\ pPc' \in Phase
    BY <1>3 DEF WriteSlotBegin, WriteSlotEnd, Phase
  <2>2. slots' \in [0 .. NumSlots - 1 -> Msg \cup {Torn}]
    BY <1>3, <1>0 DEF WriteSlotBegin, WriteSlotEnd, TypeOK
  <2>3. TypeOK'
    BY <2>1, <2>2 DEF TypeOK, consumer
  <2>4. TailsInOrder' /\ OneSlotAhead'
    BY <2>1 DEF TailsInOrder, OneSlotAhead, Behind, consumer
  <2>5. QED BY <2>3, <2>4
<1>4. CASE PublishProduced
  BY <1>4, SMT DEF PublishProduced, TypeOK, TailsInOrder, OneSlotAhead, Behind,
             Phase, ConsumerPhase, TailValue, Inc, Dist, consumer
<1>5. CASE CheckLink \/ TakeSlot \/ FindNothing
  <2>1. TypeOK'
    BY <1>5, SMT DEF CheckLink, TakeSlot, FindNothing, Reload, TypeOK, ConsumerPhase, Phase,
                     TailValue, Inc, shared, producer
  <2>2. TailsInOrder' /\ OneSlotAhead'
    <3>1. CASE CheckLink
      BY <3>1, SMT DEF CheckLink, TypeOK, TailsInOrder, OneSlotAhead, Behind, ConsumerPhase,
                       Phase, shared, producer
    <3>2. CASE TakeSlot
      BY <3>2, SMT DEF TakeSlot, Reload, TypeOK, TailsInOrder, OneSlotAhead, Behind, IsEmpty,
                       ConsumerPhase, Phase, TailValue, Inc, Dist, shared, producer
    <3>3. CASE FindNothing
      BY <3>3, SMT DEF FindNothing, Reload, TypeOK, TailsInOrder, OneSlotAhead, Behind,
                       IsEmpty, ConsumerPhase, Phase, TailValue, Dist, shared, producer
    <3>4. QED BY <1>5, <3>1, <3>2, <3>3
  <2>3. QED BY <2>1, <2>2
<1>6. CASE CopySlotBegin \/ CopySlotEnd
  <2>1. UNCHANGED <<shared, producer, cProduced, cConsumed>>
        /\ cPc \in {"begin", "end"} /\ cPc' \in {"end", "publish"}
    BY <1>6 DEF CopySlotBegin, CopySlotEnd
  <2>2. Prev(cConsumed) \in TailValue
    BY TailArithmetic DEF TypeOK
  <2>3. cData' \in Msg \cup {Torn}
    BY <1>6, <1>0, <1>t, <2>2 DEF CopySlotBegin, CopySlotEnd, TypeOK
  <2>4. TypeOK'
    BY <2>1, <2>3 DEF TypeOK, ConsumerPhase, Phase, shared, producer
  <2>5. TailsInOrder' /\ OneSlotAhead'
    BY <2>1 DEF TailsInOrder, OneSlotAhead, Behind, shared, producer
  <2>6. QED BY <2>4, <2>5
<1>7. CASE PublishConsumed
  BY <1>7, SMT DEF PublishConsumed, TypeOK, TailsInOrder, OneSlotAhead, Behind,
             Phase, ConsumerPhase, TailValue, Inc, Dist, producer
<1>8. CASE UNCHANGED vars
  BY <1>8 DEF vars, TypeOK, TailsInOrder, OneSlotAhead, Behind
<1>9. CASE OtherTailMoves
  BY <1>9 DEF OtherTailMoves, TypeOK, TailsInOrder, OneSlotAhead, Behind, producer, consumer
<1>10. QED
  BY <1>1, <1>2, <1>3, <1>4, <1>5, <1>6, <1>7, <1>8, <1>9 DEF Next, Produce, Consume

(* Writing a slot disturbs nothing that is readable or being copied.       *)
LEMMA WritePreservesReadable ==
  ASSUME IInv, pPc # "idle",
         slots' \in [0 .. NumSlots - 1 -> Msg \cup {Torn}],
         \A s \in 0 .. NumSlots - 1 : s # SlotOf(producedTail) => slots'[s] = slots[s],
         UNCHANGED <<producedTail, consumedTail, consumer>>
  PROVE  /\ \A i \in 0 .. NumSlots - 1 :
              i < Dist(producedTail, HeadTail)' =>
                /\ slots'[SlotOf(Plus(HeadTail', i))] \in Msg
                /\ slots'[SlotOf(Plus(HeadTail, i))] = slots[SlotOf(Plus(HeadTail, i))]
         /\ cPc' = "end" => slots'[SlotOf(consumedTail')] = cData'
         /\ cData' \in Msg
<1> USE RingAssumption, MsgAssumption DEF IInv
<1>1. /\ HeadTail \in TailValue /\ producedTail \in TailValue /\ consumedTail \in TailValue
      /\ Dist(producedTail, HeadTail) < NumSlots
      /\ Dist(producedTail, consumedTail) < NumSlots
      /\ cPc = "end" => Dist(producedTail, consumedTail) > 0
  BY Geometry DEF TypeOK
<1>2. HeadTail' = HeadTail /\ producedTail' = producedTail /\ consumedTail' = consumedTail
      /\ cPc' = cPc /\ cData' = cData
      /\ Dist(producedTail, HeadTail)' = Dist(producedTail, HeadTail)
  BY DEF HeadTail, consumer
<1>3. ASSUME NEW i \in 0 .. NumSlots - 1, i < Dist(producedTail, HeadTail)
      PROVE  /\ slots'[SlotOf(Plus(HeadTail, i))] \in Msg
             /\ slots'[SlotOf(Plus(HeadTail, i))] = slots[SlotOf(Plus(HeadTail, i))]
  <2>1. /\ Plus(HeadTail, i) \in TailValue
        /\ SlotOf(Plus(HeadTail, i)) # SlotOf(producedTail)
    BY <1>1, <1>3, WindowDisjoint
  <2>2. SlotOf(Plus(HeadTail, i)) \in 0 .. NumSlots - 1
    BY <2>1, SlotOfTail
  <2>3. slots[SlotOf(Plus(HeadTail, i))] \in Msg
    BY <1>3 DEF SlotsWhole
  <2>4. QED BY <2>1, <2>2, <2>3
<1>4. ASSUME cPc = "end" PROVE slots'[SlotOf(consumedTail)] = cData
  <2>1. consumedTail # producedTail
    BY <1>1, <1>4, TailArithmetic, SMT
  <2>2. SlotOf(consumedTail) # SlotOf(producedTail)
    BY <1>1, <2>1, SlotInjective
  <2>3. SlotOf(consumedTail) \in 0 .. NumSlots - 1
    BY <1>1, SlotOfTail
  <2>4. QED BY <1>4, <2>2, <2>3 DEF SlotsWhole
<1>5. QED BY <1>2, <1>3, <1>4 DEF SlotsWhole

LEMMA SlotsStep ==
  ASSUME IInv, [Next]_vars, TypeOK'
  PROVE  SlotsWhole'
<1> USE RingAssumption, MsgAssumption DEF IInv
<1>g. /\ HeadTail \in TailValue /\ producedTail \in TailValue
      /\ cConsumed \in TailValue /\ consumedTail \in TailValue
  BY Geometry DEF TypeOK
<1>s. SlotOf(producedTail) \in 0 .. NumSlots - 1
  BY <1>g, SlotOfTail
<1>1. CASE (\E m \in Msg : ReserveSlot(m)) \/ NoFreeSlot
  <2>1. UNCHANGED <<shared, consumer>> /\ pPc' # "publish"
    BY <1>1 DEF ReserveSlot, NoFreeSlot
  <2>2. QED BY <2>1 DEF SlotsWhole, HeadTail, shared, consumer
<1>2. CASE WriteSlotBegin \/ WriteSlotEnd
  <2>1. /\ pPc # "idle" /\ Prev(pProduced) = producedTail
        /\ UNCHANGED <<producedTail, consumedTail, pMsg, consumer>>
    BY <1>2, Geometry DEF WriteSlotBegin, WriteSlotEnd
  <2>2. \A s \in 0 .. NumSlots - 1 : s # SlotOf(producedTail) => slots'[s] = slots[s]
    BY <1>2, <2>1 DEF WriteSlotBegin, WriteSlotEnd, TypeOK
  <2>3. pPc' = "publish" => slots'[SlotOf(producedTail)] = pMsg
    BY <1>2, <2>1, <1>s DEF WriteSlotBegin, WriteSlotEnd, TypeOK
  <2>4. slots' \in [0 .. NumSlots - 1 -> Msg \cup {Torn}]
    BY DEF TypeOK
  <2>5. QED BY <2>1, <2>2, <2>3, <2>4, WritePreservesReadable DEF SlotsWhole
<1>3. CASE PublishProduced
  <2>1. /\ UNCHANGED <<slots, consumedTail, consumer, HeadTail>>
        /\ pPc = "publish" /\ pPc' = "idle" /\ producedTail' = Inc(producedTail)
    BY <1>3 DEF PublishProduced, HeadTail, consumer, OneSlotAhead
  <2>2. Dist(producedTail, HeadTail) < NumSlots
    BY <2>1, Geometry
  <2>3. ASSUME NEW i \in 0 .. NumSlots - 1, i < Dist(producedTail', HeadTail)
        PROVE  slots[SlotOf(Plus(HeadTail, i))] \in Msg
    <3>1. i < Dist(producedTail, HeadTail) \/ Plus(HeadTail, i) = producedTail
      BY <1>g, <2>1, <2>2, <2>3, SMT DEF TailValue, Dist, Inc, Plus
    <3>2. pMsg \in Msg /\ slots[SlotOf(producedTail)] = pMsg
      BY <2>1 DEF SlotsWhole, TypeOK
    <3>3. QED BY <3>1, <3>2 DEF SlotsWhole
  <2>4. QED BY <2>1, <2>3 DEF SlotsWhole, consumer
<1>3a. CASE CheckLink \/ FindNothing
  <2>1. /\ UNCHANGED <<slots, producedTail, consumedTail, pPc, pMsg, cConsumed, cData>>
        /\ cPc \in {"idle", "polling"} /\ cPc' \in {"idle", "polling"}
    BY <1>3a DEF CheckLink, FindNothing, shared, producer
  <2>2. QED BY <2>1 DEF SlotsWhole, HeadTail
<1>3b. CASE OtherTailMoves
  BY <1>3b DEF OtherTailMoves, SlotsWhole, HeadTail, producer, consumer
<1>4. CASE TakeSlot
  <2>1. /\ UNCHANGED <<slots, producedTail, consumedTail, pPc, pMsg, cData>>
        /\ cPc = "polling" /\ cPc' = "begin" /\ cConsumed' = Inc(cConsumed)
    BY <1>4 DEF TakeSlot, shared, producer
  <2>2. HeadTail' = HeadTail
    BY <1>g, <2>1, TailArithmetic DEF HeadTail
  <2>3. QED BY <2>1, <2>2 DEF SlotsWhole
<1>5. CASE CopySlotBegin
  <2>1. /\ UNCHANGED <<slots, producedTail, consumedTail, pPc, pMsg, cConsumed>>
        /\ cPc = "begin" /\ cPc' = "end" /\ HeadTail' = cConsumed
        /\ cData' = slots[SlotOf(Prev(cConsumed))]
    BY <1>5 DEF CopySlotBegin, shared, producer, HeadTail
  <2>2. /\ HeadTail = Prev(cConsumed) /\ HeadTail = consumedTail
        /\ Dist(producedTail, HeadTail) > 0
        /\ Dist(producedTail, HeadTail) \in 0 .. NumSlots
    BY <2>1, Geometry DEF HeadTail
  <2>3. cData' \in Msg
    <3>1. Plus(HeadTail, 0) = HeadTail
      BY <1>g, SMT DEF Plus, TailValue
    <3>2. 0 \in 0 .. NumSlots - 1 /\ 0 < Dist(producedTail, HeadTail)
      BY <2>2, SMT
    <3>3. slots[SlotOf(Plus(HeadTail, 0))] \in Msg
      BY <3>2 DEF SlotsWhole
    <3>4. QED BY <2>1, <2>2, <3>1, <3>3
  <2>4. ASSUME NEW i \in 0 .. NumSlots - 1, i < Dist(producedTail, cConsumed)
        PROVE  slots[SlotOf(Plus(cConsumed, i))] \in Msg
    <3>1. /\ i + 1 \in 0 .. NumSlots - 1 /\ i + 1 < Dist(producedTail, HeadTail)
          /\ Plus(cConsumed, i) = Plus(HeadTail, i + 1)
      BY <1>g, <2>2, <2>4, SMT DEF TailValue, Dist, Prev, Plus
    <3>2. QED BY <3>1 DEF SlotsWhole
  <2>5. QED BY <2>1, <2>2, <2>3, <2>4 DEF SlotsWhole
<1>6. CASE CopySlotEnd
  <2>1. /\ UNCHANGED <<slots, producedTail, consumedTail, pPc, pMsg, HeadTail>>
        /\ cPc = "end" /\ cPc' = "publish" /\ Prev(cConsumed) = consumedTail
    BY <1>6, Geometry DEF CopySlotEnd, shared, producer, HeadTail
  <2>2. cData' = cData
    BY <1>6, <2>1 DEF CopySlotEnd, SlotsWhole
  <2>3. QED BY <2>1, <2>2 DEF SlotsWhole
<1>7. CASE PublishConsumed
  <2>1. /\ UNCHANGED <<slots, producedTail, pPc, pMsg, HeadTail, cData>> /\ cPc' = "idle"
    BY <1>7 DEF PublishConsumed, producer, HeadTail
  <2>2. QED BY <2>1 DEF SlotsWhole
<1>8. CASE UNCHANGED vars
  BY <1>8 DEF vars, SlotsWhole, HeadTail
<1>9. QED
  BY <1>1, <1>2, <1>3, <1>4, <1>5, <1>6, <1>7, <1>8, <1>3a, <1>3b DEF Next, Produce, Consume

LEMMA InitInvariant == ASSUME Init PROVE IInv
<1> USE RingAssumption, MsgAssumption
<1>1. TypeOK
  BY DEF Init, TypeOK, Phase, ConsumerPhase
<1>2. HeadTail = producedTail /\ Dist(producedTail, HeadTail) = 0
  BY TailArithmetic DEF Init, HeadTail
<1>3. TailsInOrder /\ OneSlotAhead
  BY TailArithmetic, SMT DEF Init, TailsInOrder, OneSlotAhead, Behind
<1>4. SlotsWhole
  BY <1>2, SMT DEF Init, SlotsWhole
<1>5. QED BY <1>1, <1>3, <1>4 DEF IInv

(* The inductive invariant holds in every behaviour of the ring, for every *)
(* number of slots and width of the tails.                                 *)
THEOREM Invariance == Spec => []IInv
<1>1. Init => IInv
  BY InitInvariant
<1>2. IInv /\ [Next]_vars => IInv'
  BY TailsStep, SlotsStep DEF IInv
<1>3. QED BY <1>1, <1>2, PTL DEF Spec

(* gcq_produce_data()/xGCQProduceData() never touch the slot that          *)
(* xGCQConsumeData() is copying.                                           *)
THEOREM NoSlotRaceTheorem == Spec => []NoSlotRace
<1>1. IInv => NoSlotRace
  <2> SUFFICES ASSUME IInv, pPc \in {"begin", "end"}, cPc \in {"begin", "end"}
               PROVE  SlotOf(Prev(pProduced)) # SlotOf(Prev(cConsumed))
    BY DEF NoSlotRace
  <2>1. /\ Prev(pProduced) = producedTail /\ Prev(cConsumed) = consumedTail
        /\ Dist(producedTail, consumedTail) < NumSlots
        /\ Dist(producedTail, consumedTail) > 0
        /\ producedTail \in TailValue /\ consumedTail \in TailValue
    BY Geometry DEF IInv, TypeOK
  <2>2. producedTail # consumedTail
    BY <2>1, TailArithmetic, SMT
  <2>3. QED BY <2>1, <2>2, SlotInjective
<1>2. QED BY <1>1, Invariance, PTL

(* No message handed to a caller of gcq_read() is made of two messages.    *)
THEOREM NoTornReadTheorem == Spec => []NoTornRead
<1>1. IInv => NoTornRead
  BY MsgAssumption DEF IInv, SlotsWhole, NoTornRead
<1>2. QED BY <1>1, Invariance, PTL

------------------------------------------------------------------------------
(* The ring implements the bounded FIFO.                                   *)

ReadableIsSeq ==
  /\ Readable \in Seq(Msg)
  /\ Len(Readable) = Dist(producedTail, HeadTail)
  /\ \A i \in 1 .. Dist(producedTail, HeadTail) :
       Readable[i] = slots[SlotOf(Plus(HeadTail, i - 1))]

LEMMA ReadableSeq == IInv => ReadableIsSeq
<1> SUFFICES ASSUME IInv PROVE ReadableIsSeq
  OBVIOUS
<1> USE RingAssumption, MsgAssumption DEF IInv
<1> DEFINE n == Dist(producedTail, HeadTail)
<1>1. n \in Nat /\ n <= NumSlots
  BY Geometry, SMT
<1>2. ASSUME NEW i \in 1 .. n PROVE slots[SlotOf(Plus(HeadTail, i - 1))] \in Msg
  <2>1. i - 1 \in 0 .. NumSlots - 1 /\ i - 1 < n
    BY <1>1, SMT
  <2>2. QED BY <2>1 DEF SlotsWhole
<1>3. Readable \in [1 .. n -> Msg]
  BY <1>2 DEF Readable
<1> HIDE DEF n
<1>4. Readable \in Seq(Msg)
  BY <1>1, <1>3, SeqDef
<1>5. Len(Readable) \in Nat /\ DOMAIN Readable = 1 .. Len(Readable) /\ DOMAIN Readable = 1 .. n
  BY <1>3, <1>4, LenProperties
<1>6. Len(Readable) = n
  <2>1. \A a, b \in Nat : 1 .. a = 1 .. b => a = b
    <3> SUFFICES ASSUME NEW a \in Nat, NEW b \in Nat, 1 .. a = 1 .. b PROVE a = b
      OBVIOUS
    <3>1. (a \in 1 .. a <=> a \in 1 .. b) /\ (b \in 1 .. a <=> b \in 1 .. b)
      OBVIOUS
    <3>2. QED BY <3>1, SMT
  <2>2. QED BY <1>1, <1>5, <2>1
<1>7. QED BY <1>4, <1>6 DEF Readable, n, ReadableIsSeq

(* The same after a step that keeps the invariant.                         *)
LEMMA ReadableSeqAfter == IInv' => ReadableIsSeq'
BY ReadableSeq, PTL

LEMMA SendStep ==
  ASSUME IInv, IInv', PublishProduced
  PROVE  C!Send(pMsg) /\ pMsg \in Msg
<1> USE RingAssumption, MsgAssumption
<1>1. /\ UNCHANGED <<slots, HeadTail, cData>> /\ pPc = "publish"
      /\ producedTail' = Inc(producedTail)
      /\ HeadTail \in TailValue /\ producedTail \in TailValue
      /\ Dist(producedTail, HeadTail) \in 0 .. NumSlots - 1
      /\ pMsg \in Msg /\ slots[SlotOf(producedTail)] = pMsg
  BY Geometry, SMT DEF PublishProduced, IInv, OneSlotAhead, HeadTail, consumer, SlotsWhole, TypeOK
<1>2. Dist(producedTail', HeadTail) = Dist(producedTail, HeadTail) + 1
  BY <1>1, SMT DEF TailValue, Dist, Inc
<1>3. Plus(HeadTail, Dist(producedTail, HeadTail)) = producedTail
  BY <1>1, SMT DEF TailValue, Dist, Plus
<1>4. /\ Readable \in Seq(Msg) /\ Len(Readable) = Dist(producedTail, HeadTail)
      /\ Readable' \in Seq(Msg) /\ Len(Readable') = Dist(producedTail, HeadTail) + 1
  BY <1>1, <1>2, ReadableSeq, ReadableSeqAfter DEF ReadableIsSeq
<1>5. /\ Append(Readable, pMsg) \in Seq(Msg)
      /\ Len(Append(Readable, pMsg)) = Len(Readable) + 1
      /\ \A i \in 1 .. Len(Readable) : Append(Readable, pMsg)[i] = Readable[i]
      /\ Append(Readable, pMsg)[Len(Readable) + 1] = pMsg
  BY <1>1, <1>4, AppendProperties
<1>6. ASSUME NEW i \in 1 .. Len(Readable')
      PROVE  Readable'[i] = Append(Readable, pMsg)[i]
  <2>1. Readable'[i] = slots[SlotOf(Plus(HeadTail, i - 1))]
    BY <1>1, <1>2, <1>4 DEF Readable
  <2>2. CASE i \in 1 .. Len(Readable)
    BY <1>4, <1>5, <2>1, <2>2 DEF Readable
  <2>3. CASE i = Len(Readable) + 1
    <3>1. i - 1 = Dist(producedTail, HeadTail)
      BY <1>1, <1>4, <2>3, SMT
    <3>2. QED BY <1>1, <1>3, <1>5, <2>1, <2>3, <3>1
  <2>4. QED BY <1>1, <1>4, <2>2, <2>3, SMT
<1>7. Readable' = Append(Readable, pMsg)
  BY <1>4, <1>5, <1>6, SeqEqual
<1>8. Len(Readable) < NumSlots
  BY <1>1, <1>4, SMT
<1>9. QED BY <1>1, <1>7, <1>8 DEF C!Send

LEMMA ReceiveStep ==
  ASSUME IInv, IInv', CopySlotBegin
  PROVE  C!Receive
<1> USE RingAssumption, MsgAssumption
<1>1. /\ UNCHANGED <<slots, producedTail, cConsumed>>
      /\ HeadTail' = cConsumed /\ HeadTail = Prev(cConsumed)
      /\ cConsumed \in TailValue /\ HeadTail \in TailValue /\ producedTail \in TailValue
      /\ Dist(producedTail, HeadTail) \in 1 .. NumSlots
      /\ cData' = slots[SlotOf(HeadTail)]
  BY Geometry, SMT DEF CopySlotBegin, shared, producer, HeadTail, IInv, TypeOK
<1>2. Dist(producedTail', HeadTail') = Dist(producedTail, HeadTail) - 1
  BY <1>1, SMT DEF TailValue, Dist, Prev
<1>3. /\ Readable \in Seq(Msg) /\ Len(Readable) = Dist(producedTail, HeadTail)
      /\ Readable' \in Seq(Msg) /\ Len(Readable') = Dist(producedTail, HeadTail) - 1
  BY <1>1, <1>2, ReadableSeq, ReadableSeqAfter DEF ReadableIsSeq
<1>4. Readable # << >>
  BY <1>1, <1>3, EmptySeq, SMT
<1>5. /\ Tail(Readable) \in Seq(Msg) /\ Len(Tail(Readable)) = Len(Readable) - 1
      /\ \A i \in 1 .. Len(Tail(Readable)) : Tail(Readable)[i] = Readable[i + 1]
  BY <1>3, <1>4, HeadTailProperties
<1>6. ASSUME NEW i \in 1 .. Len(Readable')
      PROVE  Readable'[i] = Tail(Readable)[i]
  <2>1. Readable'[i] = slots[SlotOf(Plus(cConsumed, i - 1))]
    BY <1>1, <1>2, <1>3 DEF Readable
  <2>2. i + 1 \in 1 .. Dist(producedTail, HeadTail)
    BY <1>1, <1>3, SMT
  <2>3. Readable[i + 1] = slots[SlotOf(Plus(HeadTail, (i + 1) - 1))]
    BY <2>2 DEF Readable
  <2>4. Plus(HeadTail, (i + 1) - 1) = Plus(cConsumed, i - 1)
    BY <1>1, <1>3, <2>2, SMT DEF TailValue, Plus, Prev, Dist
  <2>5. QED BY <1>3, <1>5, <2>1, <2>3, <2>4
<1>7. Readable' = Tail(Readable)
  BY <1>3, <1>5, <1>6, SeqEqual
<1>8. cData' = Head(Readable)
  <2>1. Readable[1] = slots[SlotOf(Plus(HeadTail, 1 - 1))]
    BY <1>1, SMT DEF Readable
  <2>2. Plus(HeadTail, 1 - 1) = HeadTail
    BY <1>1, SMT DEF TailValue, Plus
  <2>3. Head(Readable) = Readable[1]
    BY <1>3, <1>4
  <2>4. QED BY <1>1, <2>1, <2>2, <2>3
<1>9. QED BY <1>4, <1>7, <1>8 DEF C!Receive

LEMMA InvisibleStep ==
  ASSUME IInv, [Next]_vars, ~PublishProduced, ~CopySlotBegin
  PROVE  UNCHANGED <<Readable, cData>>
<1> USE RingAssumption, MsgAssumption
<1>1. CASE (\E m \in Msg : ReserveSlot(m)) \/ NoFreeSlot
  BY <1>1 DEF ReserveSlot, NoFreeSlot, Readable, HeadTail, shared, consumer
<1>2. CASE WriteSlotBegin \/ WriteSlotEnd
  <2>1. /\ pPc # "idle" /\ Prev(pProduced) = producedTail
        /\ UNCHANGED <<producedTail, consumedTail, HeadTail, consumer>>
    BY <1>2, Geometry DEF WriteSlotBegin, WriteSlotEnd, IInv, consumer, HeadTail
  <2>2. /\ \A s \in 0 .. NumSlots - 1 : s # SlotOf(producedTail) => slots'[s] = slots[s]
        /\ slots' \in [0 .. NumSlots - 1 -> Msg \cup {Torn}]
    BY <1>2, <2>1 DEF WriteSlotBegin, WriteSlotEnd, IInv, TypeOK
  <2>3. Dist(producedTail, HeadTail) \in 0 .. NumSlots
    BY Geometry DEF IInv
  <2>4. ASSUME NEW i \in 1 .. Dist(producedTail, HeadTail)
        PROVE  slots'[SlotOf(Plus(HeadTail, i - 1))] = slots[SlotOf(Plus(HeadTail, i - 1))]
    <3>1. i - 1 \in 0 .. NumSlots - 1 /\ i - 1 < Dist(producedTail, HeadTail)
      BY <2>3, SMT
    <3>2. QED BY <2>1, <2>2, <3>1, WritePreservesReadable
  <2>5. QED BY <2>1, <2>4 DEF Readable, consumer
<1>3. CASE TakeSlot
  <2>1. HeadTail' = HeadTail
    BY <1>3, TailArithmetic DEF TakeSlot, HeadTail, IInv, TypeOK
  <2>2. QED BY <1>3, <2>1 DEF TakeSlot, Readable, shared, producer
<1>4. CASE CopySlotEnd
  <2>1. Prev(cConsumed) = consumedTail
    BY <1>4, Geometry DEF IInv, CopySlotEnd
  <2>2. cData' = cData
    BY <1>4, <2>1 DEF CopySlotEnd, IInv, SlotsWhole
  <2>3. QED BY <1>4, <2>2 DEF CopySlotEnd, Readable, HeadTail, shared, producer
<1>5. CASE PublishConsumed
  BY <1>5 DEF PublishConsumed, Readable, HeadTail, producer
<1>6. CASE UNCHANGED vars
  BY <1>6 DEF vars, Readable, HeadTail
<1>7. CASE CheckLink \/ FindNothing
  BY <1>7 DEF CheckLink, FindNothing, Readable, HeadTail, shared, producer
<1>8. CASE OtherTailMoves
  BY <1>8 DEF OtherTailMoves, Readable, HeadTail, producer, consumer
<1>9. QED
  BY <1>1, <1>2, <1>3, <1>4, <1>5, <1>6, <1>7, <1>8 DEF Next, Produce, Consume

(* Everything a caller of gcq_write()/gcq_read() sees of the ring, it could *)
(* see of the FIFO: no message is lost, duplicated, reordered or torn.      *)
THEOREM RingImplementsChannel == Spec => IsChannel
<1>1. Init => C!Init
  <2> SUFFICES ASSUME Init PROVE C!Init
    OBVIOUS
  <2>1. IInv /\ Dist(producedTail, HeadTail) = 0 /\ cData \in Msg
    BY InitInvariant, TailArithmetic DEF Init, HeadTail
  <2>2. Readable \in Seq(Msg) /\ Len(Readable) = 0
    BY <2>1, ReadableSeq DEF ReadableIsSeq
  <2>3. Readable = << >>
    BY <2>2, EmptySeq, SMT
  <2>4. QED BY <2>1, <2>3 DEF C!Init
<1>2. IInv /\ IInv' /\ [Next]_vars => [C!Next]_C!vars
  <2> SUFFICES ASSUME IInv, IInv', [Next]_vars PROVE [C!Next]_C!vars
    OBVIOUS
  <2>1. CASE PublishProduced
    BY <2>1, SendStep DEF C!Next
  <2>2. CASE CopySlotBegin
    BY <2>2, ReceiveStep DEF C!Next
  <2>3. CASE ~PublishProduced /\ ~CopySlotBegin
    BY <2>3, InvisibleStep DEF C!vars
  <2>4. QED BY <2>1, <2>2, <2>3
<1>3. QED BY <1>1, <1>2, Invariance, PTL DEF Spec, IsChannel, C!Spec
==============================================================================
