--------------------------------- MODULE SMBus ---------------------------------
(***************************************************************************)
(* The SMBus driver of the firmware: several instances, each with an event *)
(* queue and a state machine, over one hardware block that is a target and *)
(* a controller at once.  The interrupt handler turns interrupt bits into  *)
(* events of the addressed target and of the instance in play, and clears  *)
(* the bits it has read when it is done with all of them; a task that      *)
(* starts a command as controller drains the same queues.  The commands of *)
(* the address resolution protocol and of host notify are left out.        *)
(***************************************************************************)
EXTENDS Integers, FiniteSets, SequencesExt

CONSTANTS
  Inst,             \* the instances, numbered from 0
  Kind,             \* what each is: "smbus", "simple" (no command byte) or "i2c"
  TargetPec,        \* whether reads of our targets end in a packet error code
  TargetProto,      \* protocols the host uses on our targets
  Starter,          \* instances the task starts commands on
  Command,          \* those commands: [proto, send, expect, pec]
  MaxBytes,         \* bound on the length of a block
  Depth,            \* descriptors the controller's FIFO holds
  Low,              \* level at which the FIFO is almost empty
  Errors,           \* error bits the hardware raises
  MaxTraffic,       \* bound on the transactions of the host
  MaxCommands,      \* bound on the commands started
  NoInst            \* SMBUS_INVALID_INSTANCE

FixedLen == [send_byte |-> 1, write_byte |-> 1, write_word |-> 2, process_call |-> 2,
             receive_byte |-> 1, read_byte |-> 1, read_word |-> 2]
ReadProto   == {"read_byte", "read_word", "block_read"}
FixedWrite  == {"write_byte", "write_word"}
CallProto   == {"process_call", "block_process_call"}
BlockWrite  == {"block_write", "block_process_call"}
WriteProto  == FixedWrite \cup {"send_byte", "block_write"}
SendsBytes  == CallProto \cup ReadProto \cup {"receive_byte"}
I2CProto    == {"i2c_write", "i2c_read", "i2c_write_read"}
SendsData   == WriteProto \cup CallProto \cup {"i2c_write", "i2c_write_read"}
Proto       == DOMAIN FixedLen \cup BlockWrite \cup {"block_read", "quick", "none"} \cup I2CProto

ASSUME SMBusAssumption ==
  /\ IsFiniteSet(Inst) /\ Inst \subseteq Nat /\ NoInst \notin Inst
  /\ Starter \subseteq Inst /\ Kind \in [Inst -> {"smbus", "simple", "i2c"}]
  /\ Command \subseteq [proto : Proto, send : Nat, expect : Nat, pec : BOOLEAN]
  /\ TargetPec \in BOOLEAN /\ MaxBytes \in Nat /\ Depth \in Nat \ {0, 1} /\ Low \in Nat
  /\ MaxTraffic \in Nat /\ MaxCommands \in Nat

VARIABLES
  fsm,              \* SMBus_Instance: state and the fields it works on
  queue,            \* xEventSrcCircularBuf of each instance
  inPlay,           \* ucInstanceInPlay
  active,           \* ucActiveTargetInstance
  txn,              \* ulTransactionID
  ctl,              \* the controller: descriptors, received bytes, running
  bus,              \* the host's transaction with one of our targets
  raw,              \* interrupt bits latched, those of the error register too
  ier,              \* whether the controller's interrupts are enabled
  isr,              \* where vSMBusInterruptHandler() is, what it has read and its vector
  app,              \* where xSMBusControllerInitiateCommand() is
  cmd               \* the last command accepted and what became of it

vars == <<fsm, queue, inPlay, active, txn, ctl, bus, raw, ier, isr, app, cmd>>

(* The events that each state has a case for; any other resets it.         *)
Expected ==
  [initial     |-> {"write", "read", "send_next"},
   command     |-> {"desc", "data"},
   block_size  |-> {"desc", "data"},
   data        |-> {"desc", "read", "done", "data"},
   read        |-> {"desc", "read", "data"},
   send        |-> {"desc"},
   pec         |-> {"is_pec"},
   done        |-> {"ctl_desc", "desc", "read", "done", "data", "ctl_done"},
   ctl_command |-> {"send_next"},
   ctl_write   |-> {"send_next", "ctl_desc"},
   ctl_start   |-> {"send_next"},
   ctl_size    |-> {"ctl_desc", "ctl_data"},
   ctl_read    |-> {"ctl_desc", "ctl_done", "ctl_data"},
   ctl_done    |-> {"ctl_desc", "ctl_done", "ctl_data"}]

State == DOMAIN Expected
TargetBit == {"tgt_error", "read", "write", "data", "done", "desc"}
ControllerBit == {"ctl_error", "ctl_data", "ctl_desc", "ctl_done"}
\* In a register of their own, which raises one interrupt.
ErrorBit == {"tgt_fault", "tgt_warn", "line_fault", "ctl_fault", "ctl_warn"}
Bit == TargetBit \cup ControllerBit \cup ErrorBit
Event == TargetBit \cup ControllerBit \cup {"warning", "send_next", "is_pec"}

Cleared == [state |-> "initial", proto |-> "none", expect |-> 0, got |-> 0, left |-> 0,
            sent |-> 0, nack |-> FALSE, pecSent |-> FALSE, pec |-> FALSE]
QuietBus == [phase |-> "idle", to |-> NoInst, proto |-> "none", count |-> 0, togo |-> 0,
             credit |-> 0, rx |-> 0, n |-> 0]
NoCmd == [inst |-> NoInst, id |-> 0, told |-> "none", toldId |-> 0, hit |-> FALSE,
          stopped |-> FALSE, lost |-> FALSE]
NoIsr == [phase |-> "off", seen |-> {}, vec |-> {}, inst |-> NoInst]
Idle == [phase |-> "idle", inst |-> NoInst, c |-> "none", torn |-> FALSE]

Init ==
  /\ fsm = [i \in Inst |-> Cleared]
  /\ queue = [i \in Inst |-> <<>>]
  /\ inPlay = NoInst /\ active = NoInst /\ txn = 0
  /\ ctl = [desc |-> <<>>, rx |-> 0, run |-> "off"]
  /\ bus = QuietBus
  /\ raw = {} /\ ier = FALSE
  /\ isr = NoIsr
  /\ app = Idle
  /\ cmd = NoCmd

------------------------------------------------------------------------------
(* What the handlers share.  Each consumes the first event of the queue.   *)

Move(i, s, post) ==
  /\ fsm' = [fsm EXCEPT ![i] = s]
  /\ queue' = [queue EXCEPT ![i] = Tail(@) \o post]
  /\ UNCHANGED <<inPlay, active, cmd>>

Goto(i, state) == Move(i, [fsm[i] EXCEPT !.state = state], <<>>)
Stay(i) == Move(i, fsm[i], <<>>) /\ UNCHANGED <<ctl, bus>>

(* Emptying the FIFOs does not stop a controller that is on the bus, but    *)
(* lets one that was halted by an error go on.                             *)
ResetController ==
  ctl' = [desc |-> <<>>, rx |-> 0, run |-> IF ctl.run = "halted" THEN "off" ELSE ctl.run]

(* A mistake: whoever resets gives up the controller too.                  *)
ResetAllDataUnchecked(i) ==
  /\ fsm' = [fsm EXCEPT ![i] = Cleared]
  /\ queue' = [queue EXCEPT ![i] = Tail(@)]
  /\ inPlay' = NoInst /\ ResetController
  /\ active' = NoInst /\ bus' = [bus EXCEPT !.rx = 0]

(* vSMBusHandleActionResetAllData(): the instance in play gives the        *)
(* controller up, any other is taken for the active target.                *)
ResetAllData(i) ==
  /\ fsm' = [fsm EXCEPT ![i] = Cleared]
  /\ queue' = [queue EXCEPT ![i] = Tail(@)]
  /\ IF i = inPlay
     THEN /\ inPlay' = NoInst /\ ResetController
          /\ UNCHANGED <<active, bus>>
     ELSE /\ active' = NoInst /\ bus' = [bus EXCEPT !.rx = 0]
          /\ UNCHANGED <<inPlay, ctl>>

(* Only the instance in play tells the application its transaction.        *)
AnnounceResult(i, result) ==
  cmd' = IF i = inPlay /\ cmd.told = "none"
         THEN [cmd EXCEPT !.told = result, !.toldId = txn] ELSE cmd

Drop(i) == ResetAllData(i) /\ UNCHANGED cmd
Finish(i, result) == ResetAllData(i) /\ AnnounceResult(i, result)

Acknowledge(n) == bus' = [bus EXCEPT !.credit = @ + n]
Room == Depth - Len(ctl.desc)
Lesser(m, n) == IF m < n THEN m ELSE n
Push(descriptors) == ctl' = [ctl EXCEPT !.desc = @ \o descriptors]
Started == IF ctl.run = "halted" THEN "halted" ELSE "on"
PushAndRun(descriptors) == ctl' = [ctl EXCEPT !.desc = @ \o descriptors, !.run = Started]
Copies(n, d) == [k \in 1..n |-> d]

(* Bytes the application has for a read of one of our targets.             *)
Reply(proto) == IF proto \in DOMAIN FixedLen THEN {FixedLen[proto]} ELSE 1..MaxBytes

------------------------------------------------------------------------------
(* A target: the states of a transaction the host started.                 *)

InitialTarget(i, e) ==
  /\ e \in {"write", "read"}
  /\ \/ e = "write" /\ Kind[i] = "simple"
        /\ Move(i, [fsm[i] EXCEPT !.state = "data", !.proto = "send_byte", !.expect = 1,
                                  !.sent = @ + 1], <<>>)
        /\ Acknowledge(1) /\ UNCHANGED ctl
     \/ e = "write" /\ Kind[i] # "simple"
        /\ Goto(i, IF Kind[i] = "i2c" THEN "data" ELSE "command")
        /\ UNCHANGED <<ctl, bus>>
     \/ e = "read" /\ Kind[i] = "smbus" /\ Drop(i)
     \/ e = "read" /\ Kind[i] # "smbus"
        /\ \E n \in Reply(IF Kind[i] = "simple" THEN "receive_byte" ELSE "i2c_read") :
             Move(i, [fsm[i] EXCEPT !.state = "send", !.left = n,
                        !.proto = IF Kind[i] = "simple" THEN "receive_byte" ELSE @], <<>>)
        /\ UNCHANGED <<ctl, bus>>

(* The command byte selects the protocol.                                  *)
AwaitingCommandByte(i, e) ==
  LET p == bus.proto
      rest == IF bus.rx = 0 THEN 0 ELSE bus.rx - 1
      Give(n) == bus' = [bus EXCEPT !.rx = rest, !.credit = @ + n]
  IN /\ UNCHANGED ctl
     /\ \/ e = "desc" /\ Goto(i, "command") /\ UNCHANGED bus
        \/ e = "data" /\ p \in ReadProto
           /\ \E n \in Reply(p) :
                Move(i, [fsm[i] EXCEPT !.state = "read", !.proto = p, !.left = n], <<>>)
           /\ Give(1)
        \/ e = "data" /\ p \in FixedWrite \cup {"process_call"}
           /\ Move(i, [fsm[i] EXCEPT !.state = "data", !.proto = p, !.expect = FixedLen[p],
                                     !.sent = @ + FixedLen[p] + 1],
                   IF rest > 0 THEN <<"data">> ELSE <<>>)
           /\ Give(FixedLen[p] + 1)
        \/ e = "data" /\ p \in BlockWrite
           /\ Move(i, [fsm[i] EXCEPT !.state = "block_size", !.proto = p], <<>>)
           /\ Give(1)
        \/ e = "data" /\ p \notin ReadProto \cup FixedWrite \cup BlockWrite \cup {"process_call"}
           /\ Move(i, [fsm[i] EXCEPT !.state = "done", !.nack = TRUE], <<>>)
           /\ Give(0)

AwaitingBlockSize(i, e) ==
  /\ UNCHANGED ctl
  /\ \/ (e = "desc" \/ bus.rx = 0 \/ fsm[i].proto \notin BlockWrite)
        /\ Goto(i, "block_size") /\ UNCHANGED bus
     \/ /\ e = "data" /\ bus.rx > 0 /\ fsm[i].proto \in BlockWrite
        /\ LET s == [fsm[i] EXCEPT !.expect = bus.count, !.got = 0]
           IN IF fsm[i].proto = "block_process_call" /\ bus.count = 0
              THEN \E n \in Reply(s.proto) :
                     Move(i, [s EXCEPT !.state = "read", !.left = n], <<>>)
              ELSE Move(i, [s EXCEPT !.state = "data"], <<>>)
        /\ bus' = [bus EXCEPT !.rx = @ - 1, !.credit = @ + 1]

(* Acknowledge descriptors are queued up to what is known to come.         *)
TopUp(i, upTo) ==
  LET n == IF upTo > fsm[i].sent THEN upTo - fsm[i].sent ELSE 0
  IN /\ Move(i, [fsm[i] EXCEPT !.sent = @ + n], <<>>)
     /\ Acknowledge(n)

DataDescriptors(i) ==
  TopUp(i, IF Kind[i] = "i2c" THEN fsm[i].got ELSE fsm[i].expect) /\ UNCHANGED ctl

(* The read may have been queued ahead of the last data: it goes back.     *)
DataRead(i) ==
  /\ UNCHANGED <<ctl, bus>>
  /\ IF Kind[i] = "i2c"
     THEN \E n \in Reply("i2c_read") :
            Move(i, [fsm[i] EXCEPT !.state = "send", !.left = n], <<>>)
     ELSE Move(i, fsm[i], <<"read">>)

DataDone(i) ==
  IF Kind[i] = "i2c"
  THEN Move(i, [fsm[i] EXCEPT !.state = "done"], <<"done">>) /\ UNCHANGED <<ctl, bus>>
  ELSE Finish(i, "error")

(* A mistake: any data is taken for all of it.                             *)
DataBytesAny(i) ==
  /\ bus' = [bus EXCEPT !.rx = 0] /\ UNCHANGED ctl
  /\ Move(i, [fsm[i] EXCEPT !.got = @ + bus.rx, !.state = "done"], <<>>)

DataBytes(i) ==
  LET s == [fsm[i] EXCEPT !.got = @ + bus.rx]
  IN /\ bus' = [bus EXCEPT !.rx = 0] /\ UNCHANGED ctl
     /\ IF Kind[i] = "i2c" \/ s.got < s.expect
        THEN Move(i, s, <<>>)
        ELSE IF s.proto \in CallProto
        THEN \E n \in Reply(s.proto) : Move(i, [s EXCEPT !.state = "read", !.left = n], <<>>)
        ELSE Move(i, [s EXCEPT !.state = "done"], <<>>)

AwaitingData(i, e) ==
  \/ e = "desc" /\ DataDescriptors(i)
  \/ e = "read" /\ DataRead(i)
  \/ e = "done" /\ DataDone(i)
  \/ e = "data" /\ DataBytes(i)

AwaitingRead(i, e) ==
  /\ UNCHANGED ctl
  /\ \/ e = "desc" /\ TopUp(i, fsm[i].expect)
     \/ e = "data" /\ Goto(i, "read") /\ UNCHANGED bus
     \/ e = "read" /\ Goto(i, IF fsm[i].proto \in SendsBytes THEN "send" ELSE "read")
        /\ UNCHANGED bus

(* A mistake: every visit is taken to fill the FIFO.                       *)
SentNowDepth(i) == Depth

(* Bytes that one visit puts into the FIFO of the target.                  *)
SentNow(i) == Lesser(fsm[i].left, Depth)

ReadyToSendByte(i, e) ==
  /\ e = "desc" /\ UNCHANGED <<ctl, bus>>
  /\ LET left == fsm[i].left - SentNow(i)
         s == [fsm[i] EXCEPT !.left = left]
     IN IF fsm[i].proto \in SendsBytes \/ Kind[i] = "i2c"
        THEN IF left = 0 THEN Move(i, [s EXCEPT !.state = "pec"], <<"is_pec">>)
                         ELSE Move(i, s, <<>>)
        ELSE Goto(i, "send")

CheckIfPECRequired(i, e) ==
  /\ e = "is_pec" /\ UNCHANGED <<ctl, bus>>
  /\ IF fsm[i].proto \in SendsBytes \/ Kind[i] = "i2c"
     THEN \/ Goto(i, "done")
          \/ TargetPec /\ Move(i, fsm[i], <<"is_pec">>)     \* the FIFO is full
     ELSE Goto(i, "pec")

(* The descriptors of the last byte: more than ten visits end in a NACK,   *)
(* which the model allows at any of them.                                  *)
DoneDescriptors(i) ==
  LET s == fsm[i]
      n == IF ~s.nack /\ s.expect > s.sent THEN s.expect - s.sent ELSE 0
      late == s.got > s.expect
  IN /\ UNCHANGED ctl
     /\ \/ Move(i, [s EXCEPT !.nack = TRUE], <<>>) /\ UNCHANGED bus
        \/ /\ Acknowledge(n)
           /\ Move(i, [s EXCEPT !.sent = @ + n,
                         !.pecSent = @ \/ (late /\ TargetPec),
                         !.nack = @ \/ (late /\ Kind[i] = "simple" /\ (TargetPec => s.pecSent))],
                   <<>>)

(* The host ended the transaction.                                         *)
DoneDone(i) ==
  LET result == IF fsm[i].nack THEN "error" ELSE "ok"
  IN IF Kind[i] = "i2c"
     THEN IF fsm[i].nack THEN Drop(i) ELSE Finish(i, "ok")
     ELSE IF fsm[i].proto \in I2CProto \cup {"quick"} THEN Stay(i) ELSE Finish(i, result)

DoneData(i) ==
  /\ UNCHANGED ctl
  /\ IF fsm[i].proto \in WriteProto
     THEN /\ Move(i, [fsm[i] EXCEPT !.got = @ + bus.rx], <<>>)
          /\ bus' = [bus EXCEPT !.rx = 0]
     ELSE Goto(i, "done") /\ UNCHANGED bus

(* A mistake: an empty descriptor FIFO is taken for the end.               *)
AwaitingDoneWhenEmpty(i, e) ==
  \/ e \in {"ctl_desc", "ctl_done"} /\ Finish(i, "ok")
  \/ e = "desc" /\ DoneDescriptors(i)
  \/ e = "done" /\ DoneDone(i)
  \/ e = "data" /\ DoneData(i)

AwaitingDone(i, e) ==
  \/ e = "ctl_desc" /\ Stay(i)
  \/ e = "desc" /\ DoneDescriptors(i)
  \/ e = "read" /\ Move(i, [fsm[i] EXCEPT !.nack = TRUE], <<>>) /\ UNCHANGED <<ctl, bus>>
  \/ e = "done" /\ DoneDone(i)
  \/ e = "data" /\ DoneData(i)
  \/ e = "ctl_done" /\ Finish(i, "ok")

------------------------------------------------------------------------------
(* A controller: the states of a command the task started.                 *)

InitialController(i, e) ==
  /\ e = "send_next" /\ UNCHANGED bus
  /\ LET p == fsm[i].proto
         To(state, post) == Move(i, [fsm[i] EXCEPT !.state = state], post)
     IN \/ p = "quick" /\ PushAndRun(<<"quick">>) /\ To("done", <<>>)
        \/ p = "receive_byte" /\ UNCHANGED ctl
           /\ Move(i, [fsm[i] EXCEPT !.state = "ctl_start", !.expect = 1], <<"send_next">>)
        \/ p \in {"i2c_write", "i2c_write_read"}
           /\ Push(<<"start">>) /\ To("ctl_write", <<"send_next">>)
        \/ p = "i2c_read" /\ PushAndRun(<<"read_start">>) /\ To("ctl_read", <<>>)
        \/ p \notin I2CProto \cup {"quick", "receive_byte"}
           /\ Push(<<"start">>) /\ To("ctl_command", <<"send_next">>)

ControllerSendCommand(i, e) ==
  /\ e = "send_next" /\ UNCHANGED bus
  /\ LET p == fsm[i].proto
         To(state) == Move(i, [fsm[i] EXCEPT !.state = state], <<"send_next">>)
     IN \/ p \in ReadProto /\ Push(<<"byte">>) /\ To("ctl_start")
        \/ p \in FixedWrite \cup BlockWrite \cup {"process_call"}
           /\ Push(<<"byte">>) /\ To("ctl_write")
        \/ p = "send_byte" /\ UNCHANGED ctl /\ To("ctl_write")
        \/ p \in {"none", "receive_byte", "quick"} \cup I2CProto
           /\ Goto(i, "ctl_command") /\ UNCHANGED ctl

(* All bytes but the last as there is room, then the last with what ends   *)
(* or turns the transfer.                                                  *)
ControllerWriteByte(i, e) ==
  /\ e \in {"send_next", "ctl_desc"} /\ UNCHANGED bus
  /\ LET s == fsm[i]
         n == Lesser(s.left - 1, Room)
         To(state, post) == Move(i, [s EXCEPT !.state = state], post)
         Turns == s.proto \in CallProto \cup {"i2c_write_read"}
     IN \/ s.proto \in {"none", "quick", "i2c_read", "receive_byte"} \cup ReadProto
           /\ Stay(i)
        \/ s.proto \in FixedWrite \cup BlockWrite \cup CallProto
                       \cup {"send_byte", "i2c_write", "i2c_write_read"}
           /\ \/ s.left > 1 /\ PushAndRun(Copies(n, "byte"))
                 /\ Move(i, [s EXCEPT !.left = @ - n], <<>>)
              \/ s.left <= 1 /\ Turns /\ Room > 0
                 /\ Push(<<"byte">>) /\ To("ctl_start", <<"send_next">>)
              \/ s.left <= 1 /\ ~Turns /\ s.pec /\ Room >= 2
                 /\ PushAndRun(<<"byte", "pec">>) /\ To("done", <<>>)
              \/ s.left <= 1 /\ ~Turns /\ ~s.pec /\ Room > 0
                 /\ PushAndRun(<<"stop">>) /\ To("done", <<>>)
              \/ s.left <= 1 /\ Room < (IF ~Turns /\ s.pec THEN 2 ELSE 1)
                 /\ Goto(i, "ctl_write") /\ UNCHANGED ctl

ControllerSendReadStart(i, e) ==
  /\ e = "send_next" /\ UNCHANGED bus
  /\ LET s == fsm[i]
         n == IF s.proto \in DOMAIN FixedLen THEN FixedLen[s.proto] ELSE 0
     IN \/ s.proto = "i2c_write_read"
           /\ PushAndRun(IF s.expect = 0 THEN <<"read_start", "stop">> ELSE <<"read_start">>)
           /\ Move(i, [s EXCEPT !.sent = 0,
                         !.state = IF s.expect = 0 THEN "ctl_done" ELSE "ctl_read"], <<>>)
        \/ s.proto \in {"block_read", "block_process_call"}
           /\ PushAndRun(<<"read_start">>)
           /\ Move(i, [s EXCEPT !.sent = 0, !.state = "ctl_size"], <<>>)
        \/ s.proto \in {"read_byte", "read_word", "process_call", "receive_byte"}
           /\ PushAndRun(<<"read_start">> \o IF s.pec THEN Copies(n, "ack") \o <<"pec">>
                                             ELSE Copies(n - 1, "ack") \o <<"stop">>)
           /\ Move(i, [s EXCEPT !.expect = n, !.sent = n, !.state = "ctl_read"], <<>>)
        \/ s.proto \in {"none", "quick", "i2c_read", "i2c_write", "send_byte", "block_write"}
                       \cup FixedWrite
           /\ Stay(i)

ControllerReadBlockSize(i, e) ==
  /\ UNCHANGED bus
  /\ \/ e = "ctl_desc" /\ Goto(i, "ctl_size") /\ UNCHANGED ctl
     \/ e = "ctl_data" /\ \E n \in 0..MaxBytes :
          LET s == [fsm[i] EXCEPT !.expect = n, !.sent = 0]
              more == IF s.pec THEN <<"ack">> \o (IF n = 0 THEN <<"pec">> ELSE <<>>)
                      ELSE IF n = 0 THEN <<"stop">> ELSE <<"ack">>
          IN /\ Move(i, [s EXCEPT !.state = IF n = 0 /\ ~s.pec THEN "ctl_done"
                                            ELSE "ctl_read"], <<>>)
             /\ ctl' = [ctl EXCEPT !.desc = @ \o more, !.run = Started,
                                   !.rx = IF @ = 0 THEN 0 ELSE @ - 1]

(* Descriptors for the bytes still to be read, as many as there is room    *)
(* for; the one that ends the transfer is among them only if it fits too.  *)
FillRead(i) ==
  LET s == fsm[i]
      n == Lesser(s.expect - s.sent, Room)
      ends == s.sent + n = s.expect
      filled == IF s.pec THEN Copies(n, "ack") \o (IF ends /\ n < Room THEN <<"pec">> ELSE <<>>)
                ELSE IF ends /\ n > 0 THEN Copies(n - 1, "ack") \o <<"stop">>
                ELSE Copies(n, "ack")
  IN /\ PushAndRun(filled)
     /\ Move(i, [s EXCEPT !.sent = @ + Len(filled)], <<>>)

(* A mistake: one byte short is enough.                                    *)
ReceiveReadShort(i) ==
  LET s == [fsm[i] EXCEPT !.got = @ + ctl.rx]
  IN /\ Move(i, [s EXCEPT !.state = IF s.got + 1 >= s.expect THEN "ctl_done" ELSE "ctl_read"],
             <<>>)
     /\ ctl' = [ctl EXCEPT !.rx = 0]

ReceiveRead(i) ==
  LET s == [fsm[i] EXCEPT !.got = @ + ctl.rx]
      all == IF s.pec THEN s.got > s.expect ELSE s.got >= s.expect
  IN /\ Move(i, [s EXCEPT !.state = IF all THEN "ctl_done" ELSE "ctl_read"], <<>>)
     /\ ctl' = [ctl EXCEPT !.rx = 0]

ControllerReadByte(i, e) ==
  /\ UNCHANGED bus
  /\ \/ e = "ctl_desc" /\ fsm[i].sent < fsm[i].expect
        /\ fsm[i].proto \in {"block_read", "block_process_call", "i2c_read", "i2c_write_read"}
        /\ FillRead(i)
     \/ e = "ctl_desc" /\ UNCHANGED ctl /\ Goto(i, "ctl_read")
        /\ (fsm[i].sent >= fsm[i].expect
            \/ fsm[i].proto \notin {"block_read", "block_process_call", "i2c_read", "i2c_write_read"})
     \/ e = "ctl_done" /\ Goto(i, "ctl_read") /\ UNCHANGED ctl
     \/ e = "ctl_data" /\ ReceiveRead(i)

(* A mistake: the last descriptor is not made up for.                      *)
ControllerReadDoneNoMore(i, e) ==
  \/ e \in {"ctl_data", "ctl_desc"} /\ Stay(i)
  \/ e = "ctl_done" /\ IF fsm[i].proto \in {"quick", "none"} THEN Stay(i) ELSE Finish(i, "ok")

ControllerReadDone(i, e) ==
  LET s == fsm[i]
  IN \/ e = "ctl_data" /\ UNCHANGED bus
        /\ IF s.proto = "i2c_read"
           THEN Move(i, [s EXCEPT !.got = @ + ctl.rx], <<>>) /\ ctl' = [ctl EXCEPT !.rx = 0]
           ELSE Goto(i, "ctl_done") /\ UNCHANGED ctl
     \/ e = "ctl_desc" /\ UNCHANGED bus
        /\ IF s.proto = "i2c_read"
           THEN IF s.sent < s.got /\ Room > 0
                THEN /\ PushAndRun(IF s.sent = s.got - 1 THEN <<"stop">> ELSE <<"ack">>)
                     /\ Move(i, [s EXCEPT !.sent = @ + 1], <<>>)
                ELSE Goto(i, "ctl_done") /\ UNCHANGED ctl
           ELSE IF s.sent < s.expect THEN FillRead(i)
           ELSE IF s.pec /\ s.sent = s.expect /\ Room > 0
           THEN Push(<<"pec">>) /\ Move(i, [s EXCEPT !.sent = @ + 1], <<>>)
           ELSE Goto(i, "ctl_done") /\ UNCHANGED ctl
     \/ e = "ctl_done" /\ IF s.proto \in {"quick", "none"} THEN Stay(i) ELSE Finish(i, "ok")

------------------------------------------------------------------------------
(* vSMBusFSM(): errors end whatever was going on, and so does an event     *)
(* that the state has no case for.  A time-out of a clock stretched for    *)
(* long is reported as a warning, in every state, and changes nothing.     *)

Warning(i, e) == e = "warning" /\ Stay(i)

TargetError(i, e) ==
  e = "tgt_error" /\ IF fsm[i].state = "done" THEN Finish(i, "error") ELSE Drop(i)

ControllerError(i, e) == e = "ctl_error" /\ Finish(i, "error")

Unexpected(i, e) ==
  /\ e \notin Expected[fsm[i].state] \cup {"warning", "tgt_error", "ctl_error"}
  /\ Drop(i)

StateHandler(i, e) ==
  CASE fsm[i].state = "initial"     -> InitialTarget(i, e) \/ InitialController(i, e)
    [] fsm[i].state = "command"     -> AwaitingCommandByte(i, e)
    [] fsm[i].state = "block_size"  -> AwaitingBlockSize(i, e)
    [] fsm[i].state = "data"        -> AwaitingData(i, e)
    [] fsm[i].state = "read"        -> AwaitingRead(i, e)
    [] fsm[i].state = "send"        -> ReadyToSendByte(i, e)
    [] fsm[i].state = "pec"         -> CheckIfPECRequired(i, e)
    [] fsm[i].state = "done"        -> AwaitingDone(i, e)
    [] fsm[i].state = "ctl_command" -> ControllerSendCommand(i, e)
    [] fsm[i].state = "ctl_write"   -> ControllerWriteByte(i, e)
    [] fsm[i].state = "ctl_start"   -> ControllerSendReadStart(i, e)
    [] fsm[i].state = "ctl_size"    -> ControllerReadBlockSize(i, e)
    [] fsm[i].state = "ctl_read"    -> ControllerReadByte(i, e)
    [] fsm[i].state = "ctl_done"    -> ControllerReadDone(i, e)

FSM(i, e) ==
  \/ Warning(i, e)
  \/ TargetError(i, e)
  \/ ControllerError(i, e)
  \/ Unexpected(i, e)
  \/ e \in Expected[fsm[i].state] /\ StateHandler(i, e)

(* vSMBusEventQueueHandle(): the instances in order, each until its queue  *)
(* is empty; the handler drains it twice and the task once.                *)
Pending == {i \in Inst : queue[i] # <<>>}
Draining == isr.phase # "off" \/ app.phase = "drain"

HandleEvent ==
  /\ Draining
  /\ \E i \in Pending : /\ \A j \in Pending : i <= j
                        /\ FSM(i, Head(queue[i]))
  /\ UNCHANGED <<txn, raw, ier, isr, app>>

------------------------------------------------------------------------------
(* vSMBusInterruptHandler()                                                *)

(* The error interrupt and those of the targets are never masked.          *)
Vector == raw \cap (TargetBit \cup ErrorBit \cup IF ier THEN ControllerBit ELSE {})

(* The events of a vector, in the order in which its bits are looked at.   *)
If(bit, vec, e) == IF bit \in vec THEN <<e>> ELSE <<>>
TargetEvents(vec) ==
  If("tgt_warn", vec, "warning") \o If("tgt_fault", vec, "tgt_error")
    \o If("line_fault", vec, "tgt_error") \o If("tgt_error", vec, "tgt_error")
    \o If("read", vec, "read") \o If("write", vec, "write")
    \o If("data", vec, "data") \o If("done", vec, "done") \o If("desc", vec, "desc")
ControllerEvents(vec) ==
  If("ctl_warn", vec, "warning") \o If("ctl_fault", vec, "ctl_error")
    \o If("ctl_error", vec, "ctl_error") \o If("ctl_data", vec, "ctl_data")
    \o If("ctl_desc", vec, "ctl_desc") \o If("ctl_done", vec, "ctl_done")

(* Events that come while the task is at a slot of the same queue.         *)
Post(i, events) ==
  /\ queue' = [queue EXCEPT ![i] = @ \o events]
  /\ app' = [app EXCEPT !.torn = @ \/ (app.phase = "occupy" /\ i = app.inst /\ events # <<>>)]

(* All that is latched is read, the masked bits too.  A read or a write    *)
(* selects the target by its address.  An error of either side comes in    *)
(* here, and empties the FIFO of the targets if none of them is active.    *)
IsrTargets ==
  /\ isr.phase = "off" /\ app.phase # "drain" /\ Vector # {}
  /\ isr' = [phase |-> "targets", seen |-> raw, vec |-> Vector, inst |-> NoInst]
  /\ LET tgt == IF Vector \cap {"read", "write"} # {} THEN bus.to ELSE active
     IN IF Vector \subseteq ControllerBit THEN UNCHANGED <<queue, active, bus, app, cmd>>
        ELSE /\ active' = tgt
             /\ IF tgt \in Inst
                THEN /\ Post(tgt, TargetEvents(Vector))
                     /\ cmd' = [cmd EXCEPT !.hit = @ \/ tgt = inPlay]
                     /\ UNCHANGED bus
                ELSE /\ bus' = [bus EXCEPT !.rx = 0]
                     /\ UNCHANGED <<queue, app, cmd>>
  /\ UNCHANGED <<fsm, inPlay, txn, ctl, raw, ier>>

(* The events of the controller go to whatever is in play by now; an error *)
(* of either side empties its FIFOs if nothing is.                         *)
IsrController ==
  /\ isr.phase = "targets" /\ Pending = {}
  /\ IF isr.vec \subseteq TargetBit
     THEN isr' = [isr EXCEPT !.phase = "controller"] /\ UNCHANGED <<queue, ctl, app>>
     ELSE /\ isr' = [isr EXCEPT !.phase = "controller", !.inst = inPlay]
          /\ IF inPlay \in Inst
             THEN Post(inPlay, ControllerEvents(isr.vec)) /\ UNCHANGED ctl
             ELSE ResetController /\ UNCHANGED <<queue, app>>
  /\ UNCHANGED <<fsm, inPlay, active, txn, bus, raw, ier, cmd>>

(* What was read on entry is cleared: what was latched again since is lost *)
(* with it.                                                                *)
IsrExit ==
  /\ isr.phase = "controller" /\ Pending = {}
  /\ raw' = raw \ isr.seen
  /\ isr' = NoIsr
  /\ ier' = (ier /\ ~("ctl_done" \in isr.vec /\ isr.inst \in Inst))
  /\ UNCHANGED <<fsm, queue, inPlay, active, txn, ctl, bus, app, cmd>>

------------------------------------------------------------------------------
(* xSMBusControllerInitiateCommand() and the I2C calls, in the steps the   *)
(* interrupt handler can come between.                                     *)

TaskRuns == isr.phase = "off"

(* Nothing in play, the instance in its initial state.                     *)
AppCheck(i, c) ==
  /\ TaskRuns /\ app.phase = "idle" /\ txn < MaxCommands
  /\ inPlay = NoInst /\ fsm[i].state = "initial"
  /\ app' = [phase |-> "start", inst |-> i, c |-> c, torn |-> FALSE]
  /\ UNCHANGED <<fsm, queue, inPlay, active, txn, ctl, bus, raw, ier, isr, cmd>>

(* What a command that was cut off has left: a controller still at work,   *)
(* or an interrupt of it, which is unmasked with those of this command.    *)
Leftover == ctl.run = "on" \/ raw \cap (ControllerBit \cup {"ctl_fault", "ctl_warn"}) # {}

(* The caller is given the number before the increment.                    *)
AppStart ==
  /\ TaskRuns /\ app.phase = "start"
  /\ LET i == app.inst
         c == app.c
     IN /\ inPlay' = i
        /\ fsm' = [fsm EXCEPT ![i].proto = c.proto, ![i].left = c.send, ![i].pec = c.pec,
                              ![i].expect = IF c.proto \in I2CProto THEN c.expect ELSE @]
        /\ cmd' = [NoCmd EXCEPT !.inst = i, !.id = txn,
                                !.hit = fsm[i].state # "initial" \/ active = i \/ Leftover]
  /\ txn' = txn + 1
  /\ ResetController
  /\ app' = [app EXCEPT !.phase = "occupy"]
  /\ UNCHANGED <<queue, active, bus, raw, ier, isr>>

(* The octet of the event is in its slot; the slot is then marked and the  *)
(* index advanced.  Events posted in between move the index, and the slot  *)
(* marked holds an older octet.                                            *)
AppPost ==
  /\ TaskRuns /\ app.phase = "occupy"
  /\ \E e \in IF app.torn THEN Event ELSE {"send_next"} :
       queue' = [queue EXCEPT ![app.inst] = Append(@, e)]
  /\ app' = [app EXCEPT !.phase = "posted"]
  /\ UNCHANGED <<fsm, inPlay, active, txn, ctl, bus, raw, ier, isr, cmd>>

AppMask ==
  /\ TaskRuns /\ app.phase = "posted"
  /\ app' = [app EXCEPT !.phase = "drain"]
  /\ UNCHANGED <<fsm, queue, inPlay, active, txn, ctl, bus, raw, ier, isr, cmd>>

AppEnable ==
  /\ app.phase = "drain" /\ Pending = {}
  /\ ier' = TRUE
  /\ app' = Idle
  /\ UNCHANGED <<fsm, queue, inPlay, active, txn, ctl, bus, raw, isr, cmd>>

------------------------------------------------------------------------------
(* The controller hardware: it works its descriptors off.  A start of a    *)
(* read and each acknowledgement bring in one byte.  The history notes the *)
(* bits that come again before the handler clears the ones it has read.    *)

Latch(bits) == raw' = raw \cup bits

Ends == {"stop", "pec", "quick"}

ControllerWorks ==
  /\ ctl.run = "on" /\ ctl.desc # <<>>
  /\ LET d == Head(ctl.desc)
         byte == d \in {"read_start", "ack"}
         bits == (IF byte THEN {"ctl_data"} ELSE {})
                 \cup (IF Len(ctl.desc) - 1 <= Low THEN {"ctl_desc"} ELSE {})
                 \cup (IF d \in Ends THEN {"ctl_done"} ELSE {})
     IN /\ ctl' = [desc |-> Tail(ctl.desc), rx |-> IF byte THEN ctl.rx + 1 ELSE ctl.rx,
                   run |-> IF d \in Ends THEN "off" ELSE "on"]
        /\ Latch(bits)
        /\ cmd' = [cmd EXCEPT !.stopped = @ \/ (d \in Ends /\ inPlay = cmd.inst),
                              !.lost = @ \/ bits \cap isr.seen # {}]
  /\ UNCHANGED <<fsm, queue, inPlay, active, txn, bus, ier, isr, app>>

(* No acknowledge and lost arbitration have bits of their own, errors of   *)
(* the FIFOs and descriptors are behind the error interrupt.               *)
ControllerFails ==
  /\ ctl.run = "on"
  /\ ctl' = [ctl EXCEPT !.run = "halted"]
  /\ \E b \in Errors \cap {"ctl_error", "ctl_fault"} :
       Latch({b}) /\ cmd' = [cmd EXCEPT !.lost = @ \/ b \in isr.seen]
  /\ UNCHANGED <<fsm, queue, inPlay, active, txn, bus, ier, isr, app>>

(* A clock stretched too long, or a line held low, which the driver takes  *)
(* for an error of the targets; the controller goes on.                    *)
LineDisturbed ==
  /\ ctl.run = "on"
  /\ \E b \in Errors \cap {"ctl_warn", "line_fault"} : b \notin raw /\ Latch({b})
  /\ UNCHANGED <<fsm, queue, inPlay, active, txn, ctl, bus, ier, isr, app, cmd>>

------------------------------------------------------------------------------
(* The host on the other end, one transaction at a time.                   *)

Quiet == UNCHANGED <<fsm, queue, inPlay, active, txn, ctl, ier, isr, app, cmd>>

Opens(i) == CASE Kind[i] = "simple" -> {"send_byte", "receive_byte"}
              [] Kind[i] = "i2c" -> I2CProto
              [] Kind[i] = "smbus" -> TargetProto

BusAddress(i, p, n) ==
  /\ bus.phase = "idle" /\ bus.n < MaxTraffic
  /\ (raw \ isr.seen) \cap (TargetBit \cup {"tgt_fault", "tgt_warn"}) = {}
  /\ p \in Opens(i)
  /\ n > 0 => p \in BlockWrite \cup {"i2c_write", "i2c_write_read"}
  /\ LET reads == p \in {"receive_byte", "i2c_read"}
         togo == IF p \in BlockWrite THEN n + 2
                 ELSE IF p \in I2CProto THEN n
                 ELSE IF Kind[i] = "simple" THEN 1
                 ELSE IF p \in FixedWrite \cup {"process_call"} THEN 1 + FixedLen[p] ELSE 1
     IN /\ bus' = [bus EXCEPT !.phase = IF reads THEN "read" ELSE "write", !.to = i,
                              !.proto = p, !.count = n, !.togo = IF reads THEN 0 ELSE togo,
                              !.credit = 1, !.n = @ + 1]
        /\ Latch({IF reads THEN "read" ELSE "write"})
  /\ Quiet

(* A byte is clocked in when the one before it was acknowledged.           *)
BusByte ==
  /\ bus.phase = "write" /\ bus.togo > 0 /\ bus.credit > 0
  /\ bus' = [bus EXCEPT !.togo = @ - 1, !.credit = @ - 1, !.rx = @ + 1]
  /\ Latch({"data"}) /\ Quiet

BusStarves ==
  /\ bus.phase = "read" \/ (bus.phase = "write" /\ bus.credit = 0)
  /\ "desc" \notin raw
  /\ Latch({"desc"}) /\ UNCHANGED bus /\ Quiet

(* A repeated start follows the last byte of what is written.              *)
BusTurns ==
  /\ bus.phase = "write" /\ bus.togo = 0
  /\ bus.proto \in ReadProto \cup CallProto \cup {"i2c_write_read"}
  /\ bus' = [bus EXCEPT !.phase = "read"]
  /\ Latch({"read"}) /\ Quiet

BusStops ==
  /\ bus.phase # "idle"
  /\ bus' = [bus EXCEPT !.phase = "idle"]
  /\ Latch({"done"}) /\ Quiet

BusFails ==
  /\ bus.phase # "idle"
  /\ bus' = [bus EXCEPT !.phase = "idle"]
  /\ \E b \in Errors \cap {"tgt_error", "tgt_fault"} : Latch({b})
  /\ Quiet

BusStretched ==
  /\ bus.phase # "idle" /\ "tgt_warn" \in Errors \ raw
  /\ Latch({"tgt_warn"}) /\ UNCHANGED bus /\ Quiet

Firmware ==
  \/ HandleEvent
  \/ IsrTargets
  \/ IsrController
  \/ IsrExit
  \/ AppStart
  \/ AppPost
  \/ AppMask
  \/ AppEnable

Next ==
  \/ Firmware
  \/ \E i \in Starter, c \in Command : AppCheck(i, c)
  \/ ControllerWorks
  \/ ControllerFails
  \/ LineDisturbed
  \/ \E i \in Inst, p \in Proto, n \in 0..MaxBytes : BusAddress(i, p, n)
  \/ BusByte
  \/ BusStarves
  \/ BusTurns
  \/ BusStops
  \/ BusFails
  \/ BusStretched

Spec == Init /\ [][Next]_vars

(* The task, the handler and the controller go on; the host need not.      *)
Fairness ==
  /\ WF_vars(HandleEvent) /\ WF_vars(IsrTargets) /\ WF_vars(IsrController) /\ WF_vars(IsrExit)
  /\ WF_vars(AppStart) /\ WF_vars(AppPost) /\ WF_vars(AppMask) /\ WF_vars(AppEnable)
  /\ WF_vars(ControllerWorks)

FairSpec == Spec /\ Fairness

------------------------------------------------------------------------------
Maybe == Inst \cup {NoInst}
Descriptor == {"start", "byte", "stop", "pec", "quick", "read_start", "ack"}

(* The type invariant: the fields of the instances, the locks and the      *)
(* hardware stay within what the driver can hold.                          *)
TypeOK ==
  /\ fsm \in [Inst -> [state : State, proto : Proto, expect : Nat, got : Nat, left : Nat,
                       sent : Nat, nack : BOOLEAN, pecSent : BOOLEAN, pec : BOOLEAN]]
  /\ queue \in [Inst -> Seq(Event)]
  /\ inPlay \in Maybe /\ active \in Maybe /\ txn \in Nat
  /\ ctl \in [desc : Seq(Descriptor), rx : Nat, run : {"off", "on", "halted"}]
  /\ bus \in [phase : {"idle", "write", "read"}, to : Maybe, proto : Proto, count : Nat,
              togo : Nat, credit : Nat, rx : Nat, n : Nat]
  /\ raw \subseteq Bit /\ ier \in BOOLEAN
  /\ isr \in [phase : {"off", "targets", "controller"}, seen : SUBSET Bit, vec : SUBSET Bit,
              inst : Maybe]
  /\ app.phase \in {"idle", "start", "occupy", "posted", "drain"} /\ app.inst \in Maybe
  /\ cmd \in [inst : Maybe, id : Nat, told : {"none", "ok", "error"}, toldId : Nat,
              hit : BOOLEAN, stopped : BOOLEAN, lost : BOOLEAN]

(* A command that was accepted and not answered is still in play, unless   *)
(* the host addressed its instance meanwhile: nothing else takes the       *)
(* controller from it, or lets another command in.                         *)
NoCommandForgotten ==
  (cmd.inst # NoInst /\ cmd.told = "none" /\ ~cmd.hit) => inPlay = cmd.inst

(* A command is answered with success only once the controller has carried *)
(* out the descriptor that ends it.                                        *)
SuccessMeansDone == (cmd.told = "ok" /\ ~cmd.hit) => cmd.stopped

(* A command is answered with success when all the bytes it was to read    *)
(* have come in, and all but the last it was to write were sent before it. *)
CommandIsWhole ==
  [][\A i \in Inst :
       (i = inPlay /\ ~cmd.hit /\ cmd.told = "none" /\ cmd'.told = "ok")
         => /\ fsm[i].state = "ctl_done" => fsm[i].got >= fsm[i].expect
            /\ fsm[i].proto \in SendsData => fsm[i].left <= 1]_vars

(* A target accepts a write only with as many bytes as its protocol has.   *)
WriteIsWhole ==
  [][\A i \in Inst :
       (i # inPlay /\ fsm[i].state = "done" /\ fsm'[i].state = "initial"
         /\ fsm[i].proto \in WriteProto /\ Kind[i] # "i2c" /\ ~fsm[i].nack
         /\ Head(queue[i]) = "done")
         => fsm[i].got >= fsm[i].expect]_vars

(* The events of one instance leave the others' states alone, and those of *)
(* a target leave the controller and its lock alone.                       *)
TargetsLeaveController ==
  [][\A i, j \in Inst :
       (i # j /\ fsm'[i] # fsm[i] /\ Draining)
         => fsm'[j] = fsm[j] /\ (j = inPlay => inPlay' = inPlay /\ ctl' = ctl)]_vars

(* "This is a target": what the reset does for a target, forgetting the    *)
(* active one, it does on an event of the active one.                      *)
ResetIsForTheTarget ==
  [][(active \in Inst /\ active' = NoInst) => queue'[active] # queue[active]]_vars

(* The number announced is the number the task was given.                  *)
AnnouncedWithReturnedId == cmd.told # "none" => cmd.toldId = cmd.id

(* A command comes to an answer.                                           *)
CommandAnswered ==
  (cmd.inst # NoInst /\ cmd.told = "none") ~> (cmd.told # "none" \/ cmd.hit)

(* Only an interrupt of the controller that comes again while the handler  *)
(* runs, and is cleared with the one it has read, can keep a command from  *)
(* its answer: the driver has no time-out that would make up for it.       *)
AnsweredUnlessLost ==
  (cmd.inst # NoInst /\ cmd.told = "none") ~> (cmd.told # "none" \/ cmd.hit \/ cmd.lost)

================================================================================
