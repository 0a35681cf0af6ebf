----------------------------- MODULE AmcRequests -----------------------------
(***************************************************************************)
(* How the firmware executes the host's requests.  The AMI proxy task      *)
(* (ami_proxy_driver.c) takes a request off the submission queue, keeps it *)
(* in a slot of xRxData, and raises an event; the in-band application      *)
(* (in_band_telemetry.c), or amc.c, answers at once or passes the request, *)
(* named by its slot, to the APC proxy task (apc_proxy_driver.c), which    *)
(* works on the flash and answers through amc.c.  Answers come back to the *)
(* AMI task through its mailbox and leave by the completion queue.         *)
(*                                                                         *)
(* A request stands for its command id: HostCommand says when the host may *)
(* use an id again.  The two queues are rings like that of GCQRing.        *)
(***************************************************************************)
EXTENDS Naturals, Sequences, FiniteSets

CONSTANTS
  Request,       \* requests the host sends, each once
  Opcode,        \* what they ask for
  RxDataSize,    \* AMI_RXDATA_SIZE
  AmiMboxSize,   \* AMI_MBOX_SIZE
  ApcMboxSize,   \* APC_MBOX_SIZE
  QueueSize,     \* slots of the submission and of the completion queue
  NoRequest

(* Sensors, EEPROM, modules, verbosity and identity are answered from the  *)
(* callback, and the heartbeat by its handler.                             *)
AtOnce == {"sensor", "eeprom", "module", "verbosity", "identity", "heartbeat"}
Flash  == {"download", "copy", "bootSelect"}
AllOpcodes == AtOnce \cup Flash \cup {"fptFlags"}

ASSUME RequestsAssumption ==
  /\ IsFiniteSet(Request) /\ NoRequest \notin Request
  /\ Opcode \subseteq AllOpcodes
  /\ {RxDataSize, AmiMboxSize, ApcMboxSize, QueueSize} \subseteq Nat \ {0}
  /\ RxDataSize <= AmiMboxSize

VARIABLES
  opcode,      \* what each request asks for
  sent,        \* requests the host has sent
  sq, cq,      \* submission and completion queue
  received,    \* completions the host has read, in order
  rxData,      \* xRxData: per slot the request and ucInUse
  ami,         \* where the AMI task is, and the slot it works on
  amiMbox,     \* answers on their way to the AMI task
  apc,         \* the message the APC task works on
  apcMbox,     \* messages waiting for the APC task
  reset,       \* a power-on reset was triggered
  refused,     \* requests read while every slot was in use
  unsent       \* slots whose answer did not fit the completion queue

host   == <<opcode, sent, received>>
amiTask == <<sq, cq, rxData, ami, refused, unsent>>
vars == <<opcode, sent, received, sq, cq, rxData, ami, amiMbox, apc, apcMbox, reset,
          refused, unsent>>

Slot == 0 .. RxDataSize - 1

(* A message carries the number of a slot; "for" is the request that was   *)
(* in the slot when the message was made, which the code does not record.  *)
Answer == [index : Slot, for : Request]
Work   == [type : Flash \cup {"fptFlags", "por"}, index : Slot, for : Request]
Idle   == [type |-> "none"]

AnswerFor(i, r) == [index |-> i, for |-> r]
Free(i) == ~rxData[i].inUse

------------------------------------------------------------------------------
Init ==
  /\ opcode \in [Request -> Opcode] /\ sent = {} /\ received = <<>>
  /\ sq = <<>> /\ cq = <<>>
  /\ rxData = [i \in Slot |-> [inUse |-> FALSE, req |-> NoRequest]]
  /\ ami = [at |-> "read", index |-> 0]
  /\ amiMbox = <<>> /\ apc = Idle /\ apcMbox = <<>>
  /\ reset = FALSE /\ refused = {} /\ unsent = {}

HostSend(r) ==
  /\ r \notin sent /\ Len(sq) < QueueSize
  /\ sent' = sent \cup {r} /\ sq' = Append(sq, r)
  /\ UNCHANGED <<opcode, received, cq, rxData, ami, amiMbox, apc, apcMbox, reset, refused,
                 unsent>>

HostReceive ==
  /\ cq # <<>>
  /\ received' = Append(received, Head(cq)) /\ cq' = Tail(cq)
  /\ UNCHANGED <<opcode, sent, sq, rxData, ami, amiMbox, apc, apcMbox, reset, refused, unsent>>

------------------------------------------------------------------------------
(* vProxyDriverTask() of the AMI proxy: one request, then one answer.      *)

GotoAmi(at, i) == ami' = [at |-> at, index |-> i]

(* Nothing to read.                                                        *)
NoRequestToRead ==
  /\ ~reset /\ ami.at = "read" /\ sq = <<>>
  /\ GotoAmi("pend", 0)
  /\ UNCHANGED <<host, sq, cq, rxData, amiMbox, apc, apcMbox, reset, refused, unsent>>

(* A mistake: the slots are used in turn, whether they are in use or not.  *)
NextSlot(i) == i = Cardinality({j \in Slot : ~Free(j)}) % RxDataSize

(* iFindNextFreeRxDataIndex()                                              *)
FirstFree(i) == Free(i) /\ \A j \in Slot : Free(j) => i <= j

ReadRequest(i) ==
  /\ ~reset /\ ami.at = "read" /\ sq # <<>>
  /\ FirstFree(i)
  /\ sq' = Tail(sq)
  /\ rxData' = [rxData EXCEPT ![i] = [inUse |-> TRUE, req |-> Head(sq)]]
  /\ GotoAmi("raise", i)
  /\ UNCHANGED <<host, cq, amiMbox, apc, apcMbox, reset, refused, unsent>>

(* No slot is free: the request is gone, and nobody answers it.            *)
RefuseRequest ==
  /\ ~reset /\ ami.at = "read" /\ sq # <<>>
  /\ \A i \in Slot : ~Free(i)
  /\ sq' = Tail(sq) /\ refused' = refused \cup {Head(sq)}
  /\ GotoAmi("pend", 0)
  /\ UNCHANGED <<host, cq, rxData, amiMbox, apc, apcMbox, reset, unsent>>

(* iAMI_Set*Response(): a post that does not wait; an answer that does not *)
(* fit is lost.                                                            *)
PostAnswer(i, r) ==
  amiMbox' = IF Len(amiMbox) < AmiMboxSize THEN Append(amiMbox, AnswerFor(i, r)) ELSE amiMbox

Raised(i, ops) ==
  /\ ~reset /\ ami.at = "raise" /\ ami.index = i
  /\ opcode[rxData[i].req] \in ops
  /\ GotoAmi("pend", 0)

AnswerAtOnce(i) ==
  /\ Raised(i, AtOnce)
  /\ PostAnswer(i, rxData[i].req)
  /\ UNCHANGED <<host, sq, cq, rxData, apc, apcMbox, reset, refused, unsent>>

WorkOn(i) == [type |-> opcode[rxData[i].req], index |-> i, for |-> rxData[i].req]

(* A mistake: the mailbox takes any number of messages.                    *)
PassToApcUnbounded(i) ==
  /\ Raised(i, Flash)
  /\ apcMbox' = Append(apcMbox, WorkOn(i))
  /\ UNCHANGED <<host, sq, cq, rxData, amiMbox, apc, reset, refused, unsent>>

(* iAPC_DownloadImage(), iAPC_UpdateFpt(), iAPC_PdiProgram(),              *)
(* iAPC_CopyImage(), iAPC_SetNextPartition()                               *)
PassToApc(i) ==
  /\ Raised(i, Flash)
  /\ Len(apcMbox) < ApcMboxSize
  /\ apcMbox' = Append(apcMbox, WorkOn(i))
  /\ UNCHANGED <<host, sq, cq, rxData, amiMbox, apc, reset, refused, unsent>>

(* A mistake: the failure is logged and not answered.                      *)
FlashRefusedSilently(i) ==
  /\ Raised(i, Flash)
  /\ UNCHANGED <<host, sq, cq, rxData, amiMbox, apc, apcMbox, reset, refused, unsent>>

(* No such partition or boot device, or no room in the mailbox.            *)
FlashRefused(i) ==
  /\ Raised(i, Flash)
  /\ PostAnswer(i, rxData[i].req)
  /\ UNCHANGED <<host, sq, cq, rxData, apc, apcMbox, reset, refused, unsent>>

(* A write of FPT flags is passed on and answered before it is done; a     *)
(* read, or a write that is refused, is only answered.                     *)
FptFlags(i) ==
  /\ Raised(i, {"fptFlags"})
  /\ PostAnswer(i, rxData[i].req)
  /\ \/ UNCHANGED apcMbox
     \/ Len(apcMbox) < ApcMboxSize /\ apcMbox' = Append(apcMbox, WorkOn(i))
  /\ UNCHANGED <<host, sq, cq, rxData, apc, reset, refused, unsent>>

NoAnswerToSend ==
  /\ ~reset /\ ami.at = "pend" /\ amiMbox = <<>>
  /\ GotoAmi("read", 0)
  /\ UNCHANGED <<host, sq, cq, rxData, amiMbox, apc, apcMbox, reset, refused, unsent>>

(* The id of the answer is read from the slot.                             *)
SendAnswer ==
  /\ ~reset /\ ami.at = "pend" /\ amiMbox # <<>>
  /\ Len(cq) < QueueSize
  /\ cq' = Append(cq, rxData[Head(amiMbox).index].req)
  /\ amiMbox' = Tail(amiMbox)
  /\ GotoAmi("free", Head(amiMbox).index)
  /\ UNCHANGED <<host, sq, rxData, apc, apcMbox, reset, refused, unsent>>

(* The write fails: the answer is gone and its slot stays in use.          *)
AnswerUnsent ==
  /\ ~reset /\ ami.at = "pend" /\ amiMbox # <<>>
  /\ Len(cq) = QueueSize
  /\ amiMbox' = Tail(amiMbox)
  /\ unsent' = unsent \cup {Head(amiMbox).index}
  /\ GotoAmi("read", 0)
  /\ UNCHANGED <<host, sq, cq, rxData, apc, apcMbox, reset, refused>>

FreeSlot ==
  /\ ~reset /\ ami.at = "free"
  /\ rxData' = [rxData EXCEPT ![ami.index].inUse = FALSE]
  /\ GotoAmi("read", 0)
  /\ UNCHANGED <<host, sq, cq, amiMbox, apc, apcMbox, reset, refused, unsent>>

------------------------------------------------------------------------------
(* vProxyDriverTask() of the APC proxy, and iApcCallback() of amc.c.       *)

TakeWork ==
  /\ ~reset /\ apc = Idle /\ apcMbox # <<>>
  /\ apc' = Head(apcMbox) /\ apcMbox' = Tail(apcMbox)
  /\ UNCHANGED <<host, amiTask, amiMbox, reset>>

Done(types) == ~reset /\ apc.type \in types /\ apc' = Idle

(* Done or failed, the event that says so is answered.                     *)
FlashDone ==
  /\ Done(Flash)
  /\ PostAnswer(apc.index, apc.for)
  /\ UNCHANGED <<host, amiTask, apcMbox, reset>>

(* The partition is selected: once its answer is posted, a power-on reset  *)
(* is posted too, if there is room.                                        *)
PartitionSelected ==
  /\ Done({"bootSelect"})
  /\ PostAnswer(apc.index, apc.for)
  /\ Len(amiMbox) < AmiMboxSize
  /\ Len(apcMbox) < ApcMboxSize
  /\ apcMbox' = Append(apcMbox, [apc EXCEPT !.type = "por"])
  /\ UNCHANGED <<host, amiTask, reset>>

(* A mistake: the update of the flags is answered like the other requests. *)
FptFlagsAnswered ==
  /\ Done({"fptFlags"})
  /\ PostAnswer(apc.index, apc.for)
  /\ UNCHANGED <<host, amiTask, apcMbox, reset>>

(* Nobody answers APC_PROXY_DRIVER_E_FPT_FLAGS_UPDATED.                    *)
FptFlagsDone ==
  /\ Done({"fptFlags"})
  /\ UNCHANGED <<host, amiTask, amiMbox, apcMbox, reset>>

(* The reset, or a failure that nobody answers.                            *)
PowerOnReset ==
  /\ Done({"por"})
  /\ reset' \in BOOLEAN
  /\ UNCHANGED <<host, amiTask, amiMbox, apcMbox>>

------------------------------------------------------------------------------
Raise(i) == AnswerAtOnce(i) \/ PassToApc(i) \/ FlashRefused(i) \/ FptFlags(i)
AmiStep == \/ NoRequestToRead \/ RefuseRequest \/ (\E i \in Slot : ReadRequest(i) \/ Raise(i))
           \/ NoAnswerToSend \/ SendAnswer \/ AnswerUnsent \/ FreeSlot
ApcStep == TakeWork \/ FlashDone \/ PartitionSelected \/ FptFlagsDone \/ PowerOnReset

Next == (\E r \in Request : HostSend(r)) \/ HostReceive \/ AmiStep \/ ApcStep

Spec == Init /\ [][Next]_vars

(* Both tasks run for ever; nothing obliges the host.                      *)
FairSpec == Spec /\ WF_vars(AmiStep) /\ WF_vars(ApcStep)

------------------------------------------------------------------------------
TypeOK ==
  /\ opcode \in [Request -> Opcode] /\ sent \subseteq Request
  /\ sq \in Seq(Request) /\ cq \in Seq(Request) /\ received \in Seq(Request)
  /\ rxData \in [Slot -> [inUse : BOOLEAN, req : Request \cup {NoRequest}]]
  /\ ami \in [at : {"read", "raise", "pend", "free"}, index : Slot]
  /\ amiMbox \in Seq(Answer) /\ apcMbox \in Seq(Work) /\ apc \in Work \cup {Idle}
  /\ Len(sq) <= QueueSize /\ Len(cq) <= QueueSize
  /\ Len(amiMbox) <= AmiMboxSize /\ Len(apcMbox) <= ApcMboxSize
  /\ reset \in BOOLEAN /\ refused \subseteq Request /\ unsent \subseteq Slot

(* What still has to do with slot i: the AMI task, answers in its mailbox, *)
(* work the APC task is to answer, an answer that was lost on its way out. *)
Count(b)      == IF b THEN 1 ELSE 0
Answers(i)    == {k \in DOMAIN amiMbox : amiMbox[k].index = i}
WorkToDo(i)   == {k \in DOMAIN apcMbox : apcMbox[k].index = i /\ apcMbox[k].type \in Flash}
InAmiTask(i)  == ami.at \in {"raise", "free"} /\ ami.index = i
InApcTask(i)  == apc.type \in Flash /\ apc.index = i
Carriers(i)   == Cardinality(Answers(i)) + Cardinality(WorkToDo(i))
                   + Count(InAmiTask(i)) + Count(InApcTask(i)) + Count(i \in unsent)

(* A slot is named by its number alone, in two mailboxes and by two tasks, *)
(* and is given to another request as soon as it is free: yet each slot in *)
(* use is named by exactly one of them, which was made for the request the *)
(* slot holds, and a free slot by none.                                    *)
SlotCarriedOnce ==
  /\ \A i \in Slot : Carriers(i) = Count(rxData[i].inUse)
  /\ \A k \in DOMAIN amiMbox : amiMbox[k].for = rxData[amiMbox[k].index].req
  /\ \A k \in DOMAIN apcMbox :
       apcMbox[k].type \in Flash => apcMbox[k].for = rxData[apcMbox[k].index].req
  /\ apc.type \in Flash => apc.for = rxData[apc.index].req

(* The host gets at most one answer to a request, and none to a request    *)
(* the firmware had no slot for.                                           *)
AnsweredOnce ==
  LET answers == received \o cq
  IN  /\ \A j, k \in DOMAIN answers : answers[j] = answers[k] => j = k
      /\ \A k \in DOMAIN answers : answers[k] \in sent \ refused

(* A request that is sent is answered, unless no slot was free, the host   *)
(* left no room for the answer, or the card is reset.                      *)
Settled(r) ==
  \/ r \in refused \/ reset
  \/ \E k \in DOMAIN cq : cq[k] = r
  \/ \E k \in DOMAIN received : received[k] = r
  \/ \E i \in unsent : rxData[i].req = r
EveryRequestSettled == \A r \in Request : r \in sent ~> Settled(r)
=============================================================================
