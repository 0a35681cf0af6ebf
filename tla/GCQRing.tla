------------------------------- MODULE GCQRing -------------------------------
(***************************************************************************)
(* One direction of the sGCQ: a ring of slots in shared memory, written by *)
(* one side and read by the other without a lock.  The host driver         *)
(* (ami_gcq.c) produces on the submission queue and the firmware           *)
(* (gcq_driver.c) consumes from it; on the completion queue the roles are  *)
(* swapped.  Both sides run the same algorithm over the same four shared   *)
(* objects: the slots, the produced tail (a device register) and the       *)
(* consumed tail (a word of the header in shared memory).  Every access to *)
(* one of them is a step of its own, and copying a message is two steps    *)
(* because it is a loop over 32-bit words.                                 *)
(*                                                                         *)
(* This module is the steady state, after the header was written and the   *)
(* host attached; module GCQ has initialisation, attachment and restarts.  *)
(***************************************************************************)
EXTENDS GCQTails

CONSTANTS
  Msg,          \* what a slot can carry
  Torn          \* a slot, or a copy of one, that mixes two messages

ASSUME MsgAssumption == Msg # {} /\ Torn \notin Msg

VARIABLES
  slots,            \* the slots in shared memory
  producedTail,     \* the produced tail register
  consumedTail,     \* the consumed word of the header
  pPc,              \* where the producing side is in gcq_produce_data()
  pProduced,        \* its ulRingProduced
  pConsumed,        \* its ulRingConsumed, re-read only when the ring looks full
  pMsg,             \* the message it is sending
  cPc,              \* where the consuming side is in xGCQConsumeData()
  cProduced,        \* its ulRingProduced, re-read only when the ring looks empty
  cConsumed,        \* its ulRingConsumed
  cData,            \* the buffer it copies the message to
  otherAllOnes      \* the produced tail register of the other queue reads all ones

shared   == <<slots, producedTail, consumedTail, otherAllOnes>>
producer == <<pPc, pProduced, pConsumed, pMsg>>
consumer == <<cPc, cProduced, cConsumed, cData>>
vars == <<slots, producedTail, consumedTail, otherAllOnes, pPc, pProduced, pConsumed,
          pMsg, cPc, cProduced, cConsumed, cData>>

Phase == {"idle", "begin", "end", "publish"}
ConsumerPhase == Phase \cup {"polling"}

------------------------------------------------------------------------------
(* The host attached to an initialised ring: both sides hold the same      *)
(* tails, at whatever value earlier traffic left them.                     *)
Init ==
  /\ slots = [s \in 0 .. NumSlots - 1 |-> Torn]
  /\ producedTail \in TailValue
  /\ consumedTail = producedTail
  /\ pPc = "idle" /\ cPc = "idle"
  /\ pProduced = producedTail /\ pConsumed = producedTail
  /\ cProduced = producedTail /\ cConsumed = producedTail
  /\ pMsg \in Msg /\ cData \in Msg
  /\ otherAllOnes \in BOOLEAN

(* Mistakes in taking a slot: no second check after the consumed word was  *)
(* read, and the produced tail published before the slot is written.       *)
ReserveSlotUnchecked(m) ==
  /\ pPc = "idle"
  /\ pConsumed' = IF IsFull(pProduced, pConsumed) THEN consumedTail ELSE pConsumed
  /\ pProduced' = Inc(pProduced)
  /\ pMsg' = m
  /\ pPc' = "begin"
  /\ UNCHANGED <<shared, consumer>>

ReserveSlotAndPublish(m) ==
  /\ pPc = "idle"
  /\ pConsumed' = IF IsFull(pProduced, pConsumed) THEN consumedTail ELSE pConsumed
  /\ ~IsFull(pProduced, pConsumed')
  /\ pProduced' = Inc(pProduced) /\ producedTail' = Inc(pProduced)
  /\ pMsg' = m
  /\ pPc' = "begin"
  /\ UNCHANGED <<slots, consumedTail, otherAllOnes, consumer>>

(* gcq_can_produce() found a slot: its address is taken and the cached     *)
(* tail advanced.  The consumed word is read only if the ring looks full.  *)
ReserveSlot(m) ==
  /\ pPc = "idle"
  /\ pConsumed' = IF IsFull(pProduced, pConsumed) THEN consumedTail ELSE pConsumed
  /\ ~IsFull(pProduced, pConsumed')
  /\ pProduced' = Inc(pProduced)
  /\ pMsg' = m
  /\ pPc' = "begin"
  /\ UNCHANGED <<shared, consumer>>

(* No slot even after reading the consumed word: PRODUCER_NO_FREE_SLOTS.   *)
NoFreeSlot ==
  /\ pPc = "idle"
  /\ IsFull(pProduced, pConsumed)
  /\ IsFull(pProduced, consumedTail)
  /\ pConsumed' = consumedTail
  /\ UNCHANGED <<shared, consumer, pPc, pProduced, pMsg>>

(* memcpy_toio(): the first words of the message are in, the others are    *)
(* still the old ones.                                                     *)
WriteSlotBegin ==
  /\ pPc = "begin"
  /\ slots' = [slots EXCEPT ![SlotOf(Prev(pProduced))] = Torn]
  /\ pPc' = "end"
  /\ UNCHANGED <<producedTail, consumedTail, otherAllOnes, pProduced, pConsumed, pMsg,
                 consumer>>

WriteSlotEnd ==
  /\ pPc = "end"
  /\ slots' = [slots EXCEPT ![SlotOf(Prev(pProduced))] = pMsg]
  /\ pPc' = "publish"
  /\ UNCHANGED <<producedTail, consumedTail, otherAllOnes, pProduced, pConsumed, pMsg,
                 consumer>>

PublishProduced ==
  /\ pPc = "publish"
  /\ producedTail' = pProduced
  /\ pPc' = "idle"
  /\ UNCHANGED <<slots, consumedTail, otherAllOnes, pProduced, pConsumed, pMsg, consumer>>

(* The other queue of the link is produced on: its tail gets to all ones,  *)
(* or past it.                                                             *)
OtherTailMoves ==
  /\ otherAllOnes' = ~otherAllOnes
  /\ UNCHANGED <<slots, producedTail, consumedTail, producer, consumer>>

(* Before anything else a poll reads both produced tails.  If both are all *)
(* ones, as reads of a dead PCIe link are, there is nothing to consume.    *)
(* The reads are two; a poll that goes on saw one of them not all ones,    *)
(* which is the moment of this step, and one that gives up did nothing.    *)
LinkLooksDead == producedTail = Word - 1 /\ otherAllOnes

CheckLink ==
  /\ cPc = "idle"
  /\ ~LinkLooksDead
  /\ cPc' = "polling"
  /\ UNCHANGED <<shared, producer, cProduced, cConsumed, cData>>

(* A mistake: the produced tail is never read again.                       *)
ReloadNever == cProduced

(* The produced tail is read only if the ring looks empty.                 *)
Reload == IF IsEmpty(cProduced, cConsumed) THEN producedTail ELSE cProduced

(* gcq_can_consume() found a message: its address is taken and the cached  *)
(* tail advanced.                                                          *)
TakeSlot ==
  /\ cPc = "polling"
  /\ cProduced' = Reload
  /\ ~IsEmpty(cProduced', cConsumed)
  /\ cConsumed' = Inc(cConsumed)
  /\ cPc' = "begin"
  /\ UNCHANGED <<shared, producer, cData>>

(* Empty also after the reload: CONSUMER_NO_DATA_RECEIVED.                 *)
FindNothing ==
  /\ cPc = "polling"
  /\ cProduced' = Reload
  /\ IsEmpty(cProduced', cConsumed)
  /\ cPc' = "idle"
  /\ UNCHANGED <<shared, producer, cConsumed, cData>>

(* A copy from the slot after the one that was taken.                      *)
CopyNextSlotBegin ==
  /\ cPc = "begin"
  /\ cData' = slots[SlotOf(cConsumed)]
  /\ cPc' = "end"
  /\ UNCHANGED <<shared, producer, cProduced, cConsumed>>

CopySlotBegin ==
  /\ cPc = "begin"
  /\ cData' = slots[SlotOf(Prev(cConsumed))]
  /\ cPc' = "end"
  /\ UNCHANGED <<shared, producer, cProduced, cConsumed>>

(* The last words are read; if the slot changed under the copy the two     *)
(* halves come from different messages.                                    *)
CopySlotEnd ==
  /\ cPc = "end"
  /\ cData' = IF slots[SlotOf(Prev(cConsumed))] = cData THEN cData ELSE Torn
  /\ cPc' = "publish"
  /\ UNCHANGED <<shared, producer, cProduced, cConsumed>>

PublishConsumed ==
  /\ cPc = "publish"
  /\ consumedTail' = cConsumed
  /\ cPc' = "idle"
  /\ UNCHANGED <<slots, producedTail, otherAllOnes, producer, cProduced, cConsumed, cData>>

Produce == WriteSlotBegin \/ WriteSlotEnd \/ PublishProduced
Consume == CheckLink \/ TakeSlot \/ FindNothing
             \/ CopySlotBegin \/ CopySlotEnd \/ PublishConsumed

Next == (\E m \in Msg : ReserveSlot(m)) \/ NoFreeSlot \/ Produce \/ Consume \/ OtherTailMoves

Spec == Init /\ [][Next]_vars

(* Each consumer polls in a loop of its own (complete_response_thread on   *)
(* the host, vProxyDriverTask in the firmware) and a producer that took a  *)
(* slot writes and publishes it without waiting for anything.  Nobody is   *)
(* obliged to send, on this queue or on the other.  The fairness of the    *)
(* check is strong: to be all ones at each poll and not between them, the  *)
(* tail of the other queue would have to go round between two polls.       *)
FairSpec == Spec /\ WF_vars(Produce) /\ WF_vars(Consume) /\ SF_vars(CheckLink)

------------------------------------------------------------------------------
TypeOK ==
  /\ slots \in [0 .. NumSlots - 1 -> Msg \cup {Torn}]
  /\ producedTail \in TailValue /\ consumedTail \in TailValue
  /\ pPc \in Phase /\ pProduced \in TailValue /\ pConsumed \in TailValue /\ pMsg \in Msg
  /\ cPc \in ConsumerPhase /\ cProduced \in TailValue /\ cConsumed \in TailValue
  /\ cData \in Msg \cup {Torn} /\ otherAllOnes \in BOOLEAN

(* The oldest message not yet copied out.                                  *)
HeadTail == IF cPc = "begin" THEN Prev(cConsumed) ELSE cConsumed

(* The six copies of the two tails stay in order around the circle of 2^32 *)
(* values, all within one ring's length: a stale cached tail only ever     *)
(* makes its owner see fewer free slots, or fewer messages, than there are.*)
Behind(t) == Dist(t, pConsumed)
TailsInOrder ==
  /\ Behind(consumedTail) <= Behind(cConsumed)
  /\ Behind(cConsumed) <= Behind(cProduced)
  /\ Behind(cProduced) <= Behind(producedTail)
  /\ Behind(producedTail) <= Behind(pProduced)
  /\ Behind(pProduced) <= NumSlots

(* A side is one slot ahead of the tail it publishes exactly while it is   *)
(* working on that slot.                                                   *)
OneSlotAhead ==
  /\ pProduced = IF pPc = "idle" THEN producedTail ELSE Inc(producedTail)
  /\ cConsumed = IF cPc \in {"idle", "polling"} THEN consumedTail ELSE Inc(consumedTail)

(* What is readable is whole, and what is being copied does not change.    *)
SlotsWhole ==
  /\ \A i \in 0 .. NumSlots - 1 :
       i < Dist(producedTail, HeadTail) => slots[SlotOf(Plus(HeadTail, i))] \in Msg
  /\ pPc = "publish" => slots[SlotOf(producedTail)] = pMsg
  /\ cPc = "end" => slots[SlotOf(consumedTail)] = cData
  /\ cData \in Msg

IInv == TypeOK /\ TailsInOrder /\ OneSlotAhead /\ SlotsWhole

(* The producer never writes the slot the consumer is copying: what the    *)
(* tails are for.                                                          *)
NoSlotRace ==
  (pPc \in {"begin", "end"} /\ cPc \in {"begin", "end"})
    => SlotOf(Prev(pProduced)) # SlotOf(Prev(cConsumed))

(* No message handed to the caller mixes two messages, on either side.     *)
NoTornRead == cData # Torn

(* The messages published and not yet copied out, oldest first.            *)
Readable == [i \in 1 .. Dist(producedTail, HeadTail) |->
               slots[SlotOf(Plus(HeadTail, i - 1))]]

(* The ring is a bounded FIFO: publishing the produced tail is Send,       *)
(* starting to copy a slot is Receive, every other step is invisible.      *)
C == INSTANCE Channel WITH Capacity <- NumSlots, queue <- Readable, received <- cData

IsChannel == C!Spec

(* Every message that was published is taken, whatever the cached tails    *)
(* say, unless the link looks dead from some time on for ever.             *)
EveryMessageTaken ==
  \A t \in TailValue :
    [](Readable # << >> /\ HeadTail = t => <>(HeadTail # t \/ []LinkLooksDead))

(* What a sender may expect, and what does not hold: a last message before *)
(* the wrap of one queue, while the other queue stands at the same place,  *)
(* is not read until a message after it is sent on either of them.         *)
EveryMessageReceived ==
  \A t \in TailValue : (Readable # << >> /\ HeadTail = t) ~> (HeadTail # t)
==============================================================================
