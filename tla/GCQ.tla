--------------------------------- MODULE GCQ ---------------------------------
(***************************************************************************)
(* The sGCQ between the host driver and the firmware: a submission queue   *)
(* the host produces on and a completion queue the firmware produces on,   *)
(* over one header in shared memory.  Here the two sides come and go: the  *)
(* firmware writes the header and soft-resets both rings when it boots     *)
(* (xGCQInit), may restart, and the host attaches with retries (gcq_open), *)
(* reading the header in several steps while the firmware may be writing   *)
(* it.  Moving one message is one step: module GCQRing shows that a ring   *)
(* behaves like that once both sides agree on its tails.                   *)
(***************************************************************************)
EXTENDS GCQTails

CONSTANTS
  MaxBoots,             \* bound: how often the firmware boots
  MaxOwed,              \* requests the firmware holds at a time (AMI_RXDATA_SIZE, 8)
  MaxAttempts           \* GCQ_ATTACH_MAX_ATTEMPTS, 30 in the code

HostPhase == {"closed", "magic", "header", "forwardSQ", "forwardCQ", "attached"}

ASSUME GCQAssumption == /\ MaxBoots \in Nat \ {0}
                        /\ MaxAttempts \in Nat \ {0}
                        /\ MaxOwed \in Nat \ {0}

VARIABLES
  boots,        \* how many times the firmware has booted
  fwPc,         \* where the firmware is in xGCQInit()
  magic,        \* whether the header carries GCQ_ALLOC_MAGIC
  tail,         \* per queue, the produced tail register
  consumed,     \* per queue, the consumed word of the header
  slots,        \* per queue and slot, the boot in which the message was written
  fw,           \* per queue, the firmware's cached tails
  owed,         \* requests the firmware consumed and has not answered
  hostPc,       \* where the host is in gcq_open(), or whether it is attached
  attempts,     \* iAttempts in gcq_open()
  host,         \* per queue, the host's cached tails
  instanceUsed, \* iInitialised of the only host instance
  strayed,      \* history: whether, in this boot, a host went on with the header of another
  openRefused,  \* whether gcq_open() returned NO_FREE_INSTANCES
  request,      \* the boot of the last request the firmware consumed
  response      \* the boot of the last response the host consumed

fwVars   == <<boots, fwPc, fw, request, owed>>
hostVars == <<hostPc, attempts, host, instanceUsed, openRefused, response, strayed>>
memory   == <<magic, tail, consumed, slots>>
vars     == <<boots, fwPc, magic, tail, consumed, slots, fw, hostPc, attempts,
              host, instanceUsed, openRefused, request, response, owed, strayed>>

SQ == "SQ"
CQ == "CQ"
Queue   == {SQ, CQ}
Boot    == 0 .. MaxBoots                    \* 0: nothing written, or nothing read
FwPhase   == {"off", "header", "resetSQ", "resetCQ", "magic", "ready"}

Cache(p, c)  == [produced |-> p, consumed |-> c]
Caches == [produced : TailValue, consumed : TailValue]

------------------------------------------------------------------------------
Init ==
  /\ boots = 0 /\ fwPc = "off" /\ magic = FALSE
  /\ tail = [q \in Queue |-> 0] /\ consumed = [q \in Queue |-> 0]
  /\ slots = [q \in Queue |-> [s \in 0 .. NumSlots - 1 |-> 0]]
  /\ fw = [q \in Queue |-> Cache(0, 0)] /\ host = [q \in Queue |-> Cache(0, 0)]
  /\ hostPc = "closed" /\ attempts = 0 /\ instanceUsed = FALSE /\ openRefused = FALSE
  /\ request = 0 /\ response = 0 /\ owed = 0 /\ strayed = FALSE

------------------------------------------------------------------------------
(* Firmware: xGCQInit() in producer mode.                                  *)

(* A boot starts at prvvGCQInitRing(): the cached tails are zero.          *)
FwBoot ==
  /\ fwPc = "off" /\ boots < MaxBoots
  /\ boots' = boots + 1
  /\ fw' = [q \in Queue |-> Cache(0, 0)]
  /\ request' = 0 /\ owed' = 0
  /\ fwPc' = "header"
  /\ strayed' = (hostPc \notin {"closed", "magic"})
  /\ UNCHANGED <<memory, hostPc, attempts, host, instanceUsed, openRefused, response>>

(* The header goes out with no magic and both consumed words zero.         *)
FwWriteHeader ==
  /\ fwPc = "header"
  /\ magic' = FALSE
  /\ consumed' = [q \in Queue |-> 0]
  /\ fwPc' = "resetSQ"
  /\ UNCHANGED <<tail, slots, boots, fw, request, owed, hostVars>>

(* A reset that only zeroes the tails the driver caches.                   *)
SoftResetCacheOnly(q) ==
  /\ fw' = [fw EXCEPT ![q] = Cache(tail[q], 0)]
  /\ UNCHANGED consumed

(* prvvGCQSoftReset(): whatever was queued before is ignored.              *)
SoftReset(q) ==
  /\ fw' = [fw EXCEPT ![q] = Cache(tail[q], tail[q])]
  /\ consumed' = [consumed EXCEPT ![q] = tail[q]]

FwSoftReset ==
  /\ \/ fwPc = "resetSQ" /\ SoftReset(SQ) /\ fwPc' = "resetCQ"
     \/ fwPc = "resetCQ" /\ SoftReset(CQ) /\ fwPc' = "magic"
  /\ UNCHANGED <<magic, tail, slots, boots, request, owed, hostVars>>

FwWriteMagic ==
  /\ fwPc = "magic"
  /\ magic' = TRUE
  /\ fwPc' = "ready"
  /\ UNCHANGED <<tail, consumed, slots, boots, fw, request, owed, hostVars>>

(* The firmware stops, whatever the host is doing.  Tail registers keep    *)
(* their values; the header is in memory that may or may not.              *)
FwStop ==
  /\ fwPc # "off"
  /\ fwPc' = "off"
  /\ magic' \in {magic, FALSE}
  /\ UNCHANGED <<tail, consumed, slots, boots, fw, request, owed, hostVars>>

------------------------------------------------------------------------------
(* Moving one message, on either side.                                     *)

(* gcq_can_produce(): the consumed word is read only if the ring looks     *)
(* full.  The result is the cache to use, whether or not a slot is free.   *)
ProducerCache(cache, q) ==
  IF IsFull(cache.produced, cache.consumed)
  THEN [cache EXCEPT !.consumed = consumed[q]]
  ELSE cache

(* gcq_can_consume(): nothing can be consumed while both tail registers    *)
(* read all ones, which is what a dead PCIe link returns.                  *)
LinkLooksDead == \A q \in Queue : tail[q] = Word - 1

ConsumerCache(cache, q) ==
  IF IsEmpty(cache.produced, cache.consumed)
  THEN [cache EXCEPT !.produced = tail[q]]
  ELSE cache

(* The firmware answers each request it consumed once.  A slot carries the *)
(* boot that was current when its message was written.                     *)
HostProduce ==
  LET c == ProducerCache(host[SQ], SQ) IN
  /\ hostPc = "attached"
  /\ ~IsFull(c.produced, c.consumed)
  /\ slots' = [slots EXCEPT ![SQ][SlotOf(c.produced)] = boots]
  /\ host' = [host EXCEPT ![SQ] = Cache(Inc(c.produced), c.consumed)]
  /\ tail' = [tail EXCEPT ![SQ] = Inc(c.produced)]
  /\ UNCHANGED <<magic, consumed, fwVars, hostPc, attempts, instanceUsed,
                 strayed, openRefused, response>>

HostConsume ==
  LET c == ConsumerCache(host[CQ], CQ) IN
  /\ hostPc = "attached"
  /\ ~LinkLooksDead
  /\ ~IsEmpty(c.produced, c.consumed)
  /\ response' = slots[CQ][SlotOf(c.consumed)]
  /\ host' = [host EXCEPT ![CQ] = Cache(c.produced, Inc(c.consumed))]
  /\ consumed' = [consumed EXCEPT ![CQ] = Inc(c.consumed)]
  /\ UNCHANGED <<magic, tail, slots, fwVars, hostPc, attempts, instanceUsed,
                 strayed, openRefused>>

FwConsume ==
  LET c == ConsumerCache(fw[SQ], SQ) IN
  /\ fwPc = "ready"
  /\ owed < MaxOwed
  /\ ~LinkLooksDead
  /\ ~IsEmpty(c.produced, c.consumed)
  /\ request' = slots[SQ][SlotOf(c.consumed)]
  /\ fw' = [fw EXCEPT ![SQ] = Cache(c.produced, Inc(c.consumed))]
  /\ consumed' = [consumed EXCEPT ![SQ] = Inc(c.consumed)]
  /\ owed' = owed + 1
  /\ UNCHANGED <<magic, tail, slots, boots, fwPc, hostVars>>

FwProduce ==
  LET c == ProducerCache(fw[CQ], CQ) IN
  /\ fwPc = "ready"
  /\ owed > 0 /\ owed' = owed - 1
  /\ ~IsFull(c.produced, c.consumed)
  /\ slots' = [slots EXCEPT ![CQ][SlotOf(c.produced)] = boots]
  /\ fw' = [fw EXCEPT ![CQ] = Cache(Inc(c.produced), c.consumed)]
  /\ tail' = [tail EXCEPT ![CQ] = Inc(c.produced)]
  /\ UNCHANGED <<magic, consumed, boots, fwPc, request, hostVars>>

------------------------------------------------------------------------------
(* Host: gcq_open(), gcq_close().                                          *)

(* gcq_initialise() takes the only instance; without it open fails.        *)
HostOpen ==
  /\ hostPc = "closed"
  /\ IF instanceUsed
     THEN openRefused' = TRUE /\ UNCHANGED <<instanceUsed, hostPc, host, attempts>>
     ELSE /\ instanceUsed' = TRUE
          /\ host' = [q \in Queue |-> Cache(0, 0)]
          /\ attempts' = 0
          /\ hostPc' = "magic"
          /\ UNCHANGED openRefused
  /\ UNCHANGED <<memory, fwVars, response, strayed>>

(* An attach that goes on without the magic.                               *)
HostSkipMagic ==
  /\ hostPc = "magic"
  /\ attempts' = attempts + 1
  /\ hostPc' = "header"
  /\ UNCHANGED <<memory, fwVars, host, instanceUsed, strayed, openRefused, response>>

(* gcq_attach_consumer(): no magic, no consumer.  gcq_open() tries again   *)
(* after a delay, then returns the error with the instance still taken.    *)
HostCheckMagic ==
  /\ hostPc = "magic"
  /\ attempts' = attempts + 1
  /\ hostPc' = IF magic THEN "header"
               ELSE IF attempts' < MaxAttempts THEN "magic" ELSE "closed"
  /\ strayed' = (strayed \/ (magic /\ fwPc = "header"))
  /\ UNCHANGED <<memory, fwVars, host, instanceUsed, openRefused, response>>

(* The header is copied and its version, slot count and slot size agree:   *)
(* every boot of the same firmware writes the same ones.                   *)
HostReadHeader ==
  /\ hostPc = "header"
  /\ hostPc' = "forwardSQ"
  /\ UNCHANGED <<memory, fwVars, attempts, host, instanceUsed, strayed, openRefused,
                 response>>

(* gcq_fast_forward() takes over both tails of a queue.                    *)
FastForward(q) == host' = [host EXCEPT ![q] = Cache(tail[q], consumed[q])]

HostFastForward ==
  /\ \/ hostPc = "forwardSQ" /\ FastForward(SQ) /\ hostPc' = "forwardCQ" /\ UNCHANGED response
     \/ hostPc = "forwardCQ" /\ FastForward(CQ) /\ hostPc' = "attached" /\ response' = 0
  /\ UNCHANGED <<memory, fwVars, attempts, instanceUsed, openRefused, strayed>>

HostClose ==
  /\ hostPc = "attached"
  /\ hostPc' = "closed"
  /\ instanceUsed' = FALSE
  /\ UNCHANGED <<memory, fwVars, attempts, host, strayed, openRefused, response>>

FwStep   == FwWriteHeader \/ FwSoftReset \/ FwWriteMagic \/ FwConsume
HostOpening == HostCheckMagic \/ HostReadHeader \/ HostFastForward
HostStep == HostOpening \/ HostConsume

Next == \/ FwBoot \/ FwStop \/ FwProduce \/ FwStep
        \/ HostOpen \/ HostClose \/ HostProduce \/ HostStep

Spec == Init /\ [][Next]_vars

(* The firmware's task runs, gcq_open() goes on, and the driver is probed  *)
(* again whenever it is not attached.                                      *)
ReprobeSpec == Spec /\ WF_vars(FwStep) /\ WF_vars(HostOpening)
                    /\ WF_vars(FwBoot) /\ WF_vars(HostOpen)

------------------------------------------------------------------------------
TypeOK ==
  /\ boots \in Boot /\ fwPc \in FwPhase /\ magic \in BOOLEAN
  /\ tail \in [Queue -> TailValue] /\ consumed \in [Queue -> TailValue]
  /\ slots \in [Queue -> [0 .. NumSlots - 1 -> Boot]]
  /\ fw \in [Queue -> Caches] /\ host \in [Queue -> Caches]
  /\ hostPc \in HostPhase /\ attempts \in 0 .. MaxAttempts
  /\ instanceUsed \in BOOLEAN /\ openRefused \in BOOLEAN /\ strayed \in BOOLEAN
  /\ request \in Boot /\ response \in Boot
  /\ owed \in 0 .. MaxOwed

(* Host and firmware are both up, and the host has used the header of no   *)
(* other boot since this one began.                                        *)
InSession == hostPc = "attached" /\ fwPc = "ready" /\ ~strayed

(* The order that module GCQRing keeps and relies on, for a ring produced  *)
(* on with cache p and consumed from with cache c.                         *)
RingInOrder(p, c, q) ==
  LET behind(t) == Dist(t, p.consumed) IN
  /\ behind(consumed[q]) <= behind(c.produced)
  /\ behind(c.produced) <= behind(tail[q])
  /\ behind(tail[q]) <= NumSlots
  /\ p.produced = tail[q] /\ c.consumed = consumed[q]

(* However the two sides came up, once the host is attached both rings are *)
(* as GCQRing starts them: attach takes over exactly what xGCQInit left.   *)
SessionRingsInOrder ==
  InSession => /\ RingInOrder(host[SQ], fw[SQ], SQ)
               /\ RingInOrder(fw[CQ], host[CQ], CQ)

(* "Set consumed to be the same as produced to ignore any existing         *)
(* commands": no request sent before a boot is executed after it, whatever *)
(* the host was doing when the firmware restarted.                         *)
NoRequestFromBeforeBoot == request # 0 => request = boots

(* A host in session reads only what this boot of the firmware answered,   *)
(* whatever is left in the ring from the boots before it.  The answer may  *)
(* still be for a host that closed: gcq_fast_forward() goes on where that  *)
(* host stopped.                                                           *)
NoResponseFromBeforeBoot ==
  (InSession /\ response # 0) => response = boots

(* What would keep those answers out, and does not hold: nothing that an   *)
(* earlier host sent is unanswered, and no answer unread, on attach.       *)
NothingUnderWay ==
  consumed[CQ] = tail[CQ] /\ owed = 0 /\ consumed[SQ] = tail[SQ]

AttachStartsFresh ==
  [][(hostPc # "attached" /\ hostPc' = "attached") => NothingUnderWay]_vars

(* gcq_open() retries because the firmware may not be ready yet: if the    *)
(* firmware ends up ready, a driver that is probed again ends up attached. *)
RetryFindsFirmware == <>[](fwPc = "ready") => []<>(hostPc = "attached")
=============================================================================
