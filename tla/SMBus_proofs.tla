----------------------------- MODULE SMBus_proofs -----------------------------
(***************************************************************************)
(* For any number of instances, commands and transactions of the host, and *)
(* any depth of the FIFO: no command is forgotten, none is called a        *)
(* success too early or with bytes missing, no target accepts a write that *)
(* is too short, and no target touches the controller.                     *)
(***************************************************************************)
EXTENDS SMBus, SequenceTheorems, TLAPS

------------------------------------------------------------------------------
(* The inductive invariant.                                                *)

Fsm == [state : State, proto : Proto, expect : Nat, got : Nat, left : Nat,
        sent : Nat, nack : BOOLEAN, pecSent : BOOLEAN, pec : BOOLEAN]
Controller == [desc : Seq(Descriptor), rx : Nat, run : {"off", "on", "halted"}]
BusState == [phase : {"idle", "write", "read"}, to : Maybe, proto : Proto, count : Nat,
             togo : Nat, credit : Nat, rx : Nat, n : Nat]

(* Between two commands and two interrupts nothing is left in a queue, and *)
(* the handler has not read anything.                                      *)
Drained ==
  /\ (isr.phase = "off" /\ app.phase \in {"idle", "start", "occupy"}) => Pending = {}
  /\ isr.phase = "off" => isr.seen = {}

Asking ==
  /\ app = [phase |-> app.phase, inst |-> app.inst, c |-> app.c, torn |-> app.torn]
  /\ app.torn \in BOOLEAN /\ (app.phase # "idle" => app.inst \in Inst)
  /\ app.phase = "start" => app.c \in Command /\ inPlay = NoInst /\ ~app.torn
  /\ app.phase = "occupy" => app.inst = cmd.inst /\ (app.torn => cmd.hit \/ inPlay = NoInst)

Answering ==
  /\ inPlay \in Inst => cmd.inst = inPlay /\ cmd.told = "none"
  /\ NoCommandForgotten /\ SuccessMeansDone

(* An instance that is not in play gets no events of the controller, does  *)
(* not get far as one, and has received what it is about to accept.        *)
TargetEvent == TargetBit \cup {"warning", "is_pec"}
ControllerWork == {"ctl_write", "ctl_start", "ctl_size", "ctl_read", "ctl_done"}
Whole(j, s) ==
  (s.state = "done" /\ s.proto \in WriteProto /\ Kind[j] # "i2c" /\ ~s.nack) => s.got >= s.expect
Target(j) ==
  LET s == fsm[j]
  IN /\ s.state \in {"initial", "ctl_command"} => s.proto = "none"
     /\ s.state \notin ControllerWork
     /\ Whole(j, s)
Others ==
  \A j \in Inst \ {inPlay} :
    /\ inPlay \in Inst => ToSet(queue[j]) \subseteq TargetEvent
    /\ Target(j)

(* Bits of the controller that will become events of the instance in play. *)
Source == ControllerBit \cup {"ctl_fault", "ctl_warn"}
ControllerEvent == ControllerBit \cup {"warning"}
Unseen == raw \ isr.seen
Coming == (Unseen \cup IF isr.phase = "targets" THEN isr.vec ELSE {}) \cap Source

(* Nothing but the end follows a request for descriptors.                  *)
Ordinary(q) ==
  \A k, l \in DOMAIN q : q[k] = "ctl_desc" /\ k < l => q[l] = "ctl_done"

(* Where the command in play has got to, unless the host addressed its     *)
(* instance: what the controller has still to do, what has been latched    *)
(* and what is queued all belong to the state of the instance.             *)
Playing == inPlay \in Inst /\ ~cmd.hit
Plain   == {"start", "byte"}
Turning == ReadProto \cup CallProto \cup {"receive_byte", "i2c_write_read"}
Early   == {"ctl_error", "ctl_desc", "warning", "ctl_fault", "ctl_warn"}
First(q) == q = <<"send_next">>

InTurn(s, q, todo, coming, on, stopped) ==
  /\ s.state \in {"initial", "ctl_command", "done"} \cup ControllerWork
  /\ Ordinary(q) /\ (First(q) \/ ToSet(q) \subseteq ControllerEvent)
  /\ "ctl_done" \in coming \cup ToSet(q) => stopped
  /\ s.state = "initial" => ~on /\ coming = {} /\ todo = {} /\ First(q)
  /\ s.state = "ctl_command" => /\ ~on /\ coming = {} /\ todo \subseteq Plain
                                /\ q = <<>> \/ First(q)
                                /\ s.proto \notin I2CProto \cup {"quick", "receive_byte"}
  /\ s.state = "ctl_write" => /\ todo \subseteq Plain /\ coming \subseteq Early
                              /\ First(q) \/ ToSet(q) \subseteq Early
  /\ s.state = "ctl_start" => /\ todo \subseteq Plain /\ coming \subseteq Early
                              /\ First(q) /\ s.proto \in Turning
  /\ s.state = "ctl_size" => /\ todo \subseteq Plain \cup {"read_start"}
                             /\ coming \cup ToSet(q) \subseteq Early \cup {"ctl_data"}
  /\ s.state \in {"ctl_read", "ctl_done"} => ToSet(q) \subseteq ControllerEvent
  /\ s.state = "done" => /\ todo \subseteq Plain \cup Ends
                         /\ coming \cup ToSet(q) \subseteq Early \cup {"ctl_done"}
  /\ s.state = "ctl_done" => s.got >= s.expect
  /\ s.state \in {"done", "ctl_start", "ctl_size", "ctl_read", "ctl_done"} /\ s.proto \in SendsData
       => s.left <= 1

(* Before its first event is posted, there is nothing about it anywhere.   *)
Fresh(s, q, todo, coming, on) ==
  s.state = "initial" /\ q = <<>> /\ todo = {} /\ coming = {} /\ ~on
Play ==
  Playing =>
    IF app.phase = "occupy"
    THEN Fresh(fsm[inPlay], queue[inPlay], ToSet(ctl.desc), Coming, ctl.run = "on")
    ELSE InTurn(fsm[inPlay], queue[inPlay], ToSet(ctl.desc), Coming, ctl.run = "on", cmd.stopped)

IInv == TypeOK /\ Drained /\ Asking /\ Answering /\ Others /\ Play

------------------------------------------------------------------------------
(* Sequences.                                                              *)

LEMMA Tails ==
  ASSUME NEW S, NEW s \in Seq(S), s # <<>>
  PROVE  /\ Tail(s) \in Seq(S) /\ Head(s) \in S
         /\ ToSet(s) = {Head(s)} \cup ToSet(Tail(s))
         /\ Ordinary(s) => Ordinary(Tail(s))
<1>1. /\ Tail(s) \in Seq(S) /\ Head(s) \in S /\ Head(s) = s[1]
      /\ DOMAIN s = 1 .. Len(s) /\ Len(s) \in Nat \ {0}
      /\ DOMAIN Tail(s) = 1 .. Len(s) - 1
      /\ \A i \in 1 .. Len(s) - 1 : Tail(s)[i] = s[i + 1]
  BY HeadTailProperties, LenProperties, EmptySeq
<1> DEFINE t == Tail(s)
<1> HIDE DEF t
<1>2. ToSet(s) \subseteq {s[1]} \cup ToSet(t)
  <2> SUFFICES ASSUME NEW k \in 1 .. Len(s) PROVE s[k] \in {s[1]} \cup ToSet(t)
    BY <1>1 DEF ToSet
  <2>1. CASE k = 1
    BY <2>1
  <2>2. CASE k # 1
    <3>1. k - 1 \in 1 .. Len(s) - 1 /\ t[k - 1] = s[k]
      BY <1>1, <2>2 DEF t
    <3> QED BY <3>1, <1>1 DEF ToSet, t
  <2> QED BY <2>1, <2>2
<1>3. ToSet(t) \subseteq ToSet(s) /\ s[1] \in ToSet(s)
  <2>1. \A i \in 1 .. Len(s) - 1 : i + 1 \in 1 .. Len(s)
    BY <1>1
  <2> QED BY <1>1, <2>1 DEF ToSet, t
<1>4. Ordinary(s) => Ordinary(t)
  <2> SUFFICES ASSUME Ordinary(s), NEW k \in 1 .. Len(s) - 1, NEW l \in 1 .. Len(s) - 1,
                      t[k] = "ctl_desc", k < l
               PROVE  t[l] = "ctl_done"
    BY <1>1 DEF Ordinary, t
  <2>1. k + 1 \in 1 .. Len(s) /\ l + 1 \in 1 .. Len(s) /\ k + 1 < l + 1
    BY <1>1
  <2>2. t[k] = s[k + 1] /\ t[l] = s[l + 1]
    BY <1>1 DEF t
  <2> QED BY <1>1, <2>1, <2>2 DEF Ordinary
<1> QED BY <1>1, <1>2, <1>3, <1>4 DEF t

LEMMA Concats ==
  ASSUME NEW S, NEW s \in Seq(S), NEW t \in Seq(S)
  PROVE  s \o t \in Seq(S) /\ ToSet(s \o t) = ToSet(s) \cup ToSet(t)
<1>1. /\ s \o t \in Seq(S)
      /\ DOMAIN (s \o t) = 1 .. Len(s) + Len(t)
      /\ DOMAIN s = 1 .. Len(s) /\ DOMAIN t = 1 .. Len(t) /\ Len(s) \in Nat /\ Len(t) \in Nat
      /\ \A i \in 1 .. Len(s) + Len(t) :
           (s \o t)[i] = IF i <= Len(s) THEN s[i] ELSE t[i - Len(s)]
  BY ConcatProperties, LenProperties
<1> DEFINE r == s \o t
<1> HIDE DEF r
<1>2. ASSUME NEW i \in 1 .. Len(s) + Len(t) PROVE r[i] \in ToSet(s) \cup ToSet(t)
  <2>1. CASE i <= Len(s)
    BY <1>1, <2>1 DEF r, ToSet
  <2>2. CASE i > Len(s)
    <3>1. i - Len(s) \in 1 .. Len(t) /\ r[i] = t[i - Len(s)]
      BY <1>1, <2>2 DEF r
    <3> QED BY <1>1, <3>1 DEF ToSet
  <2> QED BY <1>1, <2>1, <2>2
<1>3. ASSUME NEW i \in 1 .. Len(s) PROVE s[i] \in ToSet(r)
  <2>1. i \in 1 .. Len(s) + Len(t) /\ r[i] = s[i]
    BY <1>1 DEF r
  <2> QED BY <1>1, <2>1 DEF ToSet, r
<1>4. ASSUME NEW i \in 1 .. Len(t) PROVE t[i] \in ToSet(r)
  <2>1. i + Len(s) \in 1 .. Len(s) + Len(t) /\ ~(i + Len(s) <= Len(s)) /\ (i + Len(s)) - Len(s) = i
    BY <1>1
  <2>2. r[i + Len(s)] = t[i]
    BY <1>1, <2>1 DEF r
  <2> QED BY <1>1, <2>1, <2>2 DEF ToSet, r
<1>5. ToSet(r) = ToSet(s) \cup ToSet(t)
  BY <1>1, <1>2, <1>3, <1>4 DEF ToSet, r
<1> QED BY <1>1, <1>5 DEF r

LEMMA Singles ==
  /\ \A S : <<>> \in Seq(S)
  /\ ToSet(<<>>) = {} /\ Ordinary(<<>>)
  /\ \A S : \A e \in S : <<e>> \in Seq(S)
  /\ \A e : ToSet(<<e>>) = {e} /\ Ordinary(<<e>>) /\ Head(<<e>>) = e /\ Tail(<<e>>) = <<>>
         /\ <<e>> # <<>>
  /\ \A a, b : ToSet(<<a, b>>) = {a, b}
  /\ \A S : \A a, b \in S : <<a, b>> \in Seq(S)
BY DEF ToSet, Ordinary

LEMMA Repeated ==
  ASSUME NEW n \in Int, NEW d
  PROVE  /\ Copies(n, d) \in Seq({d}) /\ ToSet(Copies(n, d)) \subseteq {d}
<1>1. CASE n >= 0
  <2>1. Copies(n, d) \in Seq({d})
    BY <1>1 DEF Copies
  <2> QED BY <2>1 DEF ToSet, Copies
<1>2. CASE n < 0
  <2>1. 1 .. n = 1 .. 0
    BY <1>2
  <2>2. Copies(n, d) = [k \in 1 .. 0 |-> d]
    BY <2>1 DEF Copies
  <2>3. [k \in 1 .. 0 |-> d] \in Seq({d})
    OBVIOUS
  <2> QED BY <2>2, <2>3 DEF ToSet
<1> QED BY <1>1, <1>2

------------------------------------------------------------------------------
(* Protocols, events and lengths.                                          *)

LEMMA Names ==
  /\ State = {"initial", "command", "block_size", "data", "read", "send", "pec", "done",
              "ctl_command", "ctl_write", "ctl_start", "ctl_size", "ctl_read", "ctl_done"}
  /\ DOMAIN FixedLen = {"send_byte", "write_byte", "write_word", "process_call",
                        "receive_byte", "read_byte", "read_word"}
  /\ \A p \in DOMAIN FixedLen : FixedLen[p] \in {1, 2}
BY DEF State, Expected, FixedLen

LEMMA Lengths ==
  /\ \A p : Reply(p) \subseteq Nat
  /\ \A p \in FixedWrite \cup {"process_call"} : FixedLen[p] \in Nat
  /\ \A i \in Inst : TypeOK => SentNow(i) \in Nat /\ SentNow(i) <= fsm[i].left
  /\ TypeOK => Room \in Int
<1>1. ASSUME NEW p PROVE Reply(p) \subseteq Nat
  <2>1. CASE p \in DOMAIN FixedLen
    <3>1. FixedLen[p] \in {1, 2} /\ Reply(p) = {FixedLen[p]}
      BY <2>1, Names, Zenon DEF Reply
    <3> QED BY <3>1
  <2>2. CASE p \notin DOMAIN FixedLen
    BY <2>2, SMBusAssumption DEF Reply
  <2> QED BY <2>1, <2>2
<1>2. \A p \in FixedWrite \cup {"process_call"} : FixedLen[p] \in Nat
  <2>1. FixedWrite \cup {"process_call"} \subseteq DOMAIN FixedLen
    BY Names DEF FixedWrite
  <2> QED BY <2>1, Names
<1>3. ASSUME NEW i \in Inst, TypeOK PROVE SentNow(i) \in Nat /\ SentNow(i) <= fsm[i].left
  BY <1>3, SMBusAssumption DEF SentNow, Lesser, TypeOK
<1>4. ASSUME TypeOK PROVE Room \in Int
  BY <1>4, SMBusAssumption, LenProperties DEF Room, TypeOK
<1> QED BY <1>1, <1>2, <1>3, <1>4

(* The names of protocols in play here.                                    *)
LEMMA Protocols ==
  /\ {"send_byte", "receive_byte", "none", "quick", "process_call",
         "block_process_call"} \subseteq Proto
  /\ ReadProto \cup FixedWrite \cup BlockWrite \cup I2CProto \subseteq Proto
BY Names DEF Proto, ReadProto, FixedWrite, BlockWrite, I2CProto


------------------------------------------------------------------------------
(* Each handler of a target either moves its instance on or resets it; it   *)
(* leaves the controller alone and comes to "done" with all that is due.    *)

TargetWork == {"command", "block_size", "data", "read", "send", "pec", "done"}
Moved(i) ==
  \E s \in Fsm, post \in Seq(TargetEvent) :
    /\ Move(i, s, post)
    /\ s.state \in TargetWork /\ (Whole(i, fsm[i]) => Whole(i, s))
    /\ ctl' = ctl /\ bus' \in BusState
Outcome(i) == Moved(i) \/ Drop(i) \/ Finish(i, "ok") \/ Finish(i, "error")

LEMMA Parts ==
  ASSUME TypeOK, NEW i \in Inst
  PROVE  fsm[i] \in Fsm /\ ctl \in Controller /\ bus \in BusState
BY DEF TypeOK, Fsm, Controller, BusState

LEMMA Updates ==
  \A f \in Fsm :
    /\ f.state \in State /\ f.proto \in Proto /\ f.expect \in Nat /\ f.got \in Nat
    /\ f.left \in Nat /\ f.sent \in Nat /\ f.nack \in BOOLEAN /\ f.pecSent \in BOOLEAN
    /\ \A s \in State : [f EXCEPT !.state = s] \in Fsm
    /\ \A p \in Proto : [f EXCEPT !.proto = p] \in Fsm
    /\ \A n \in Nat : [f EXCEPT !.expect = n] \in Fsm
    /\ \A n \in Nat : [f EXCEPT !.got = n] \in Fsm
    /\ \A n \in Nat : [f EXCEPT !.left = n] \in Fsm
    /\ \A n \in Nat : [f EXCEPT !.sent = n] \in Fsm
    /\ \A b \in BOOLEAN : [f EXCEPT !.nack = b] \in Fsm /\ [f EXCEPT !.pecSent = b] \in Fsm
BY DEF Fsm

LEMMA BusUpdates ==
  \A b \in BusState :
    /\ b.phase \in {"idle", "write", "read"} /\ b.to \in Maybe /\ b.proto \in Proto
    /\ b.count \in Nat /\ b.togo \in Nat /\ b.credit \in Nat /\ b.rx \in Nat /\ b.n \in Nat
    /\ \A n \in Nat : [b EXCEPT !.rx = n] \in BusState /\ [b EXCEPT !.credit = n] \in BusState
BY DEF BusState

LEMMA ControllerUpdates ==
  \A c \in Controller :
    /\ c.desc \in Seq(Descriptor) /\ c.rx \in Nat /\ c.run \in {"off", "on", "halted"}
    /\ \A n \in Nat : [c EXCEPT !.rx = n] \in Controller
    /\ \A d \in Seq(Descriptor) : [c EXCEPT !.desc = d] \in Controller
    /\ \A r \in {"off", "on", "halted"} : [c EXCEPT !.run = r] \in Controller
BY DEF Controller

LEMMA Posts ==
  /\ <<>> \in Seq(TargetEvent)
  /\ \A e \in {"is_pec", "data", "read", "done"} : <<e>> \in Seq(TargetEvent)
  /\ \A d \in Descriptor : <<d>> \in Seq(Descriptor)
BY Singles DEF TargetEvent, TargetBit

LEMMA Steps ==
  ASSUME NEW i, NEW s \in Fsm, NEW post \in Seq(TargetEvent), Move(i, s, post),
         s.state \in TargetWork, s.state = "done" /\ Whole(i, fsm[i]) => Whole(i, s),
         ctl' = ctl, bus' \in BusState
  PROVE  Outcome(i)
BY DEF Outcome, Moved, Whole

(* The common cases: another state, or the same one, and nothing posted.   *)
LEMMA Gotos ==
  ASSUME TypeOK, NEW i \in Inst, NEW f \in Fsm, NEW s \in TargetWork \ {"done"},
         Move(i, [f EXCEPT !.state = s], <<>>), ctl' = ctl, bus' \in BusState
  PROVE  Outcome(i)
<1>1. s \in State /\ s \in TargetWork /\ s # "done"
  BY Names DEF TargetWork
<1>2. [f EXCEPT !.state = s] \in Fsm /\ [f EXCEPT !.state = s].state = s
  BY <1>1 DEF Fsm
<1> QED BY <1>1, <1>2, Posts, Steps

LEMMA InitialTargetOutcome ==
  ASSUME TypeOK, NEW i \in Inst, NEW e, InitialTarget(i, e)
  PROVE  Outcome(i)
<1>a. fsm[i] \in Fsm /\ ctl \in Controller /\ bus \in BusState
  BY Parts
<1>1. CASE e = "write" /\ Kind[i] = "simple"
  <2> DEFINE s == [fsm[i] EXCEPT !.state = "data", !.proto = "send_byte", !.expect = 1,
         !.sent = @ + 1]
  <2>1. s \in Fsm
    <3>1. fsm[i].sent + 1 \in Nat
      BY <1>a DEF Fsm
    <3> QED BY <3>1, <1>a, Updates, Names, Protocols
  <2>2. s.state = "data"
    BY <1>a DEF Fsm
  <2>3. ctl' = ctl /\ bus' \in BusState /\ Move(i, s, <<>>)
    <3>1. bus.credit + 1 \in Nat
      BY <1>a DEF BusState
    <3> QED BY <1>1, <1>a, <3>1, BusUpdates DEF InitialTarget, Acknowledge
  <2> HIDE DEF s
  <2> QED BY <2>1, <2>2, <2>3, Posts, Steps DEF TargetWork
<1>2. CASE e = "write" /\ Kind[i] # "simple"
  BY <1>2, <1>a, Gotos DEF InitialTarget, Goto, TargetWork
<1>3. CASE e = "read" /\ Kind[i] = "smbus"
  BY <1>3 DEF InitialTarget, Outcome
<1>4. CASE e = "read" /\ Kind[i] # "smbus"
  <2>1. PICK n \in Reply(IF Kind[i] = "simple" THEN "receive_byte" ELSE "i2c_read") :
          Move(i, [fsm[i] EXCEPT !.state = "send", !.left = n,
                     !.proto = IF Kind[i] = "simple" THEN "receive_byte" ELSE @], <<>>)
    BY <1>4 DEF InitialTarget
  <2> DEFINE s == [fsm[i] EXCEPT !.state = "send", !.left = n,
                     !.proto = IF Kind[i] = "simple" THEN "receive_byte" ELSE @]
  <2>2. s \in Fsm /\ s.state = "send"
    BY <1>a, Names, Protocols, Lengths DEF Fsm
  <2>3. ctl' = ctl /\ bus' \in BusState
    BY <1>4, <1>a DEF InitialTarget
  <2>4. Move(i, s, <<>>)
    BY <2>1
  <2> HIDE DEF s
  <2> QED BY <2>2, <2>3, <2>4, Posts, Steps DEF TargetWork
<1> QED BY <1>1, <1>2, <1>3, <1>4 DEF InitialTarget

LEMMA CommandByteOutcome ==
  ASSUME TypeOK, NEW i \in Inst, NEW e, AwaitingCommandByte(i, e)
  PROVE  Outcome(i)
<1>a. fsm[i] \in Fsm /\ bus \in BusState
  BY Parts
<1> DEFINE p == bus.proto
           rest == IF bus.rx = 0 THEN 0 ELSE bus.rx - 1
<1>0. p \in Proto /\ bus.credit \in Nat /\ rest \in Nat
  BY <1>a DEF BusState
<1>c. ctl' = ctl
  BY Zenon DEF AwaitingCommandByte
<1> HIDE DEF rest
<1>b. ASSUME NEW n \in Nat, bus' = [bus EXCEPT !.rx = rest, !.credit = @ + n]
      PROVE  bus' \in BusState
  <2>1. bus.credit + n \in Nat
    BY <1>0
  <2> QED BY <1>0, <1>a, <1>b, <2>1, BusUpdates
<1>1. CASE Goto(i, "command") /\ UNCHANGED bus
  BY <1>a, <1>c, <1>1, Gotos DEF Goto, TargetWork
<1>2. ASSUME NEW n \in Reply(p), Move(i, [fsm[i] EXCEPT !.state = "read", !.proto = p,
       !.left = n], <<>>),
             bus' = [bus EXCEPT !.rx = rest, !.credit = @ + 1]
      PROVE  Outcome(i)
  <2> DEFINE s == [fsm[i] EXCEPT !.state = "read", !.proto = p, !.left = n]
  <2>1. s \in Fsm /\ s.state = "read"
    BY <1>0, <1>a, Names, Lengths DEF Fsm
  <2>2. Move(i, s, <<>>) /\ bus' \in BusState
    BY <1>2, <1>b
  <2> HIDE DEF s
  <2> QED BY <1>c, <2>1, <2>2, Posts, Steps DEF TargetWork
<1>3. CASE /\ p \in FixedWrite \cup {"process_call"}
           /\ Move(i, [fsm[i] EXCEPT !.state = "data", !.proto = p, !.expect = FixedLen[p],
                                     !.sent = @ + FixedLen[p] + 1],
                   IF rest > 0 THEN <<"data">> ELSE <<>>)
           /\ bus' = [bus EXCEPT !.rx = rest, !.credit = @ + (FixedLen[p] + 1)]
  <2> DEFINE l == FixedLen[p]
             s == [fsm[i] EXCEPT !.state = "data", !.proto = p, !.expect = l, !.sent = @ + l + 1]
  <2>1. l \in Nat
    BY <1>3, Lengths
  <2>m. Move(i, s, IF rest > 0 THEN <<"data">> ELSE <<>>)
    BY <1>3
  <2>3. bus' \in BusState
    <3>1. l + 1 \in Nat
      BY <2>1
    <3> QED BY <1>b, <1>3, <3>1 DEF l
  <2> HIDE DEF l
  <2>2. s \in Fsm
    <3>1. fsm[i].sent + l + 1 \in Nat
      BY <1>a, <2>1 DEF Fsm
    <3> QED BY <1>0, <1>a, <2>1, <3>1, Names, Updates
  <2>5. s.state = "data"
    BY <1>a DEF Fsm
  <2>4. (IF rest > 0 THEN <<"data">> ELSE <<>>) \in Seq(TargetEvent)
    BY Posts
  <2> HIDE DEF s
  <2> QED BY <1>c, <2>m, <2>2, <2>3, <2>4, <2>5, Steps DEF TargetWork
<1>4. CASE /\ Move(i, [fsm[i] EXCEPT !.state = "block_size", !.proto = p], <<>>)
           /\ bus' = [bus EXCEPT !.rx = rest, !.credit = @ + 1]
  <2> DEFINE s == [fsm[i] EXCEPT !.state = "block_size", !.proto = p]
  <2>1. s \in Fsm /\ s.state = "block_size"
    BY <1>0, <1>a, Names DEF Fsm
  <2>2. Move(i, s, <<>>) /\ bus' \in BusState
    BY <1>4, <1>b
  <2> HIDE DEF s
  <2> QED BY <1>c, <2>1, <2>2, Posts, Steps DEF TargetWork
<1>5. CASE /\ Move(i, [fsm[i] EXCEPT !.state = "done", !.nack = TRUE], <<>>)
           /\ bus' = [bus EXCEPT !.rx = rest, !.credit = @ + 0]
  <2> DEFINE s == [fsm[i] EXCEPT !.state = "done", !.nack = TRUE]
  <2>1. s \in Fsm /\ s.state = "done" /\ s.nack
    BY <1>a, Names DEF Fsm
  <2>2. Move(i, s, <<>>) /\ bus' \in BusState
    BY <1>5, <1>b
  <2> HIDE DEF s
  <2> QED BY <1>c, <2>1, <2>2, Posts, Steps DEF TargetWork, Whole
<1> QED BY <1>1, <1>2, <1>3, <1>4, <1>5 DEF AwaitingCommandByte, rest

LEMMA BlockSizeOutcome ==
  ASSUME TypeOK, NEW i \in Inst, NEW e, AwaitingBlockSize(i, e)
  PROVE  Outcome(i)
<1>a. fsm[i] \in Fsm /\ bus \in BusState
  BY Parts
<1>0. ctl' = ctl
  BY DEF AwaitingBlockSize
<1>1. CASE Goto(i, "block_size") /\ UNCHANGED bus
  BY <1>a, <1>0, <1>1, Gotos DEF Goto, TargetWork
<1>2. CASE e = "data" /\ bus.rx > 0 /\ bus' = [bus EXCEPT !.rx = @ - 1, !.credit = @ + 1]
  <2> DEFINE s == [fsm[i] EXCEPT !.expect = bus.count, !.got = 0]
  <2>s. s \in Fsm
    <3>1. bus.count \in Nat
      BY <1>a DEF BusState
    <3> QED BY <1>a, <3>1, Updates
  <2>3. bus' \in BusState
    <3>1. bus.rx - 1 \in Nat /\ bus.credit + 1 \in Nat
      BY <1>2, <1>a DEF BusState
    <3> QED BY <1>2, <1>a, <3>1, BusUpdates
  <2>4. \/ \E n \in Reply(s.proto) : Move(i, [s EXCEPT !.state = "read", !.left = n], <<>>)
        \/ Move(i, [s EXCEPT !.state = "data"], <<>>)
        \/ Goto(i, "block_size") /\ UNCHANGED bus
    BY DEF AwaitingBlockSize
  <2> HIDE DEF s
  <2>1. CASE Move(i, [s EXCEPT !.state = "data"], <<>>)
    BY <1>0, <2>s, <2>3, <2>1, Gotos DEF TargetWork
  <2>2. ASSUME NEW n \in Reply(s.proto), Move(i, [s EXCEPT !.state = "read", !.left = n], <<>>)
        PROVE  Outcome(i)
    <3> DEFINE r == [s EXCEPT !.state = "read", !.left = n]
    <3>1. r \in Fsm /\ r.state = "read"
      BY <2>s, Names, Lengths DEF Fsm
    <3>2. Move(i, r, <<>>)
      BY <2>2
    <3> HIDE DEF r
    <3> QED BY <1>0, <2>3, <3>1, <3>2, Posts, Steps DEF TargetWork
  <2> QED BY <1>1, <2>1, <2>2, <2>4
<1> QED BY <1>1, <1>2 DEF AwaitingBlockSize

(* What is topped up, and what is read by the application.                 *)
LEMMA TopUps ==
  ASSUME TypeOK, NEW i \in Inst, NEW n \in Nat, TopUp(i, n), fsm[i].state \in {"data", "read"},
         ctl' = ctl
  PROVE  Outcome(i)
<1>a. fsm[i] \in Fsm /\ bus \in BusState
  BY Parts
<1> DEFINE m == IF n > fsm[i].sent THEN n - fsm[i].sent ELSE 0
           s == [fsm[i] EXCEPT !.sent = @ + m]
<1>1. m \in Nat /\ fsm[i].sent + m \in Nat /\ bus.credit + m \in Nat
  BY <1>a DEF Fsm, BusState
<1>2. Move(i, s, <<>>) /\ bus' = [bus EXCEPT !.credit = @ + m]
  BY DEF TopUp, Acknowledge
<1> HIDE DEF m
<1>3. s \in Fsm /\ bus' \in BusState
  BY <1>a, <1>1, <1>2, Updates, BusUpdates
<1>4. s.state = fsm[i].state
  BY <1>a DEF Fsm
<1> HIDE DEF s
<1> QED BY <1>2, <1>3, <1>4, Posts, Steps DEF TargetWork

LEMMA DataBytesOutcome ==
  ASSUME TypeOK, NEW i \in Inst, DataBytes(i), fsm[i].state = "data"
  PROVE  Outcome(i)
<1>a. fsm[i] \in Fsm /\ bus \in BusState
  BY Parts
<1> DEFINE s == [fsm[i] EXCEPT !.got = @ + bus.rx]
<1>0. s \in Fsm
  <2>1. fsm[i].got + bus.rx \in Nat
    BY <1>a DEF Fsm, BusState
  <2> QED BY <1>a, <2>1, Updates
<1>1. s.state = "data"
  BY <1>a DEF Fsm
<1>2. ctl' = ctl /\ bus' \in BusState
  BY <1>a, BusUpdates DEF DataBytes
<1>3. \/ Move(i, s, <<>>)
      \/ s.proto \in CallProto
         /\ \E n \in Reply(s.proto) : Move(i, [s EXCEPT !.state = "read", !.left = n], <<>>)
      \/ ~(s.got < s.expect) /\ Move(i, [s EXCEPT !.state = "done"], <<>>)
  BY Zenon DEF DataBytes
<1> HIDE DEF s
<1>4. CASE Move(i, s, <<>>)
  BY <1>0, <1>1, <1>2, <1>4, Posts, Steps DEF TargetWork
<1>5. ASSUME NEW n \in Reply(s.proto), Move(i, [s EXCEPT !.state = "read", !.left = n], <<>>)
      PROVE  Outcome(i)
  <2> DEFINE r == [s EXCEPT !.state = "read", !.left = n]
  <2>1. r \in Fsm /\ r.state = "read"
    BY <1>0, Names, Lengths DEF Fsm
  <2>2. Move(i, r, <<>>)
    BY <1>5
  <2> HIDE DEF r
  <2> QED BY <1>2, <2>1, <2>2, Posts, Steps DEF TargetWork
<1>6. CASE ~(s.got < s.expect) /\ Move(i, [s EXCEPT !.state = "done"], <<>>)
  <2> DEFINE r == [s EXCEPT !.state = "done"]
  <2>1. r \in Fsm /\ r.state = "done" /\ r.got >= r.expect
    BY <1>0, <1>6, Names DEF Fsm
  <2>2. Move(i, r, <<>>)
    BY <1>6
  <2> HIDE DEF r
  <2> QED BY <1>2, <2>1, <2>2, Posts, Steps DEF TargetWork, Whole
<1> QED BY <1>3, <1>4, <1>5, <1>6

LEMMA DataOutcome ==
  ASSUME TypeOK, NEW i \in Inst, NEW e, AwaitingData(i, e), fsm[i].state = "data"
  PROVE  Outcome(i)
<1>a. fsm[i] \in Fsm /\ bus \in BusState
  BY Parts
<1>1. CASE e = "desc" /\ DataDescriptors(i)
  <2>1. fsm[i].got \in Nat /\ fsm[i].expect \in Nat
    BY <1>a, Updates
  <2> QED BY <1>1, <2>1, TopUps DEF DataDescriptors
<1>2. CASE e = "read" /\ DataRead(i)
  <2>1. ctl' = ctl /\ bus' \in BusState
    BY <1>2, <1>a DEF DataRead
  <2>2. CASE Move(i, fsm[i], <<"read">>)
    BY <1>a, <2>1, <2>2, Posts, Steps DEF TargetWork
  <2>3. ASSUME NEW n \in Reply("i2c_read"),
         Move(i, [fsm[i] EXCEPT !.state = "send", !.left = n], <<>>)
        PROVE  Outcome(i)
    <3> DEFINE s == [fsm[i] EXCEPT !.state = "send", !.left = n]
    <3>1. s \in Fsm /\ s.state = "send"
      BY <1>a, Names, Lengths DEF Fsm
    <3>2. Move(i, s, <<>>)
      BY <2>3
    <3> HIDE DEF s
    <3> QED BY <2>1, <3>1, <3>2, Posts, Steps DEF TargetWork
  <2> QED BY <1>2, <2>2, <2>3 DEF DataRead
<1>3. CASE e = "done" /\ DataDone(i)
  <2>1. CASE Kind[i] = "i2c"
    <3> DEFINE s == [fsm[i] EXCEPT !.state = "done"]
    <3>1. s \in Fsm /\ s.state = "done"
      BY <1>a, Names DEF Fsm
    <3>2. Move(i, s, <<"done">>) /\ ctl' = ctl /\ bus' \in BusState
      BY <1>3, <1>a, <2>1 DEF DataDone
    <3> HIDE DEF s
    <3> QED BY <2>1, <3>1, <3>2, Posts, Steps DEF TargetWork, Whole
  <2> QED BY <1>3, <2>1 DEF DataDone, Outcome
<1>4. CASE e = "data" /\ DataBytes(i)
  BY <1>4, DataBytesOutcome
<1> QED BY <1>1, <1>2, <1>3, <1>4 DEF AwaitingData

LEMMA ReadOutcome ==
  ASSUME TypeOK, NEW i \in Inst, NEW e, AwaitingRead(i, e), fsm[i].state = "read"
  PROVE  Outcome(i)
<1>a. fsm[i] \in Fsm /\ bus \in BusState /\ ctl' = ctl
  BY Parts DEF AwaitingRead
<1>1. CASE TopUp(i, fsm[i].expect)
  BY <1>a, <1>1, Updates, TopUps
<1>2. CASE Goto(i, "read") /\ UNCHANGED bus
  BY <1>a, <1>2, Gotos DEF Goto, TargetWork
<1>3. CASE Goto(i, IF fsm[i].proto \in SendsBytes THEN "send" ELSE "read") /\ UNCHANGED bus
  <2>1. (IF fsm[i].proto \in SendsBytes THEN "send" ELSE "read") \in TargetWork \ {"done"}
    BY DEF TargetWork
  <2> QED BY <1>a, <1>3, <2>1, Gotos DEF Goto
<1> QED BY <1>1, <1>2, <1>3 DEF AwaitingRead

LEMMA SendOutcome ==
  ASSUME TypeOK, NEW i \in Inst, NEW e, ReadyToSendByte(i, e), fsm[i].state = "send"
  PROVE  Outcome(i)
<1>a. fsm[i] \in Fsm /\ bus \in BusState /\ ctl' = ctl /\ bus' = bus
  BY Parts DEF ReadyToSendByte
<1> DEFINE left == fsm[i].left - SentNow(i)
           s == [fsm[i] EXCEPT !.left = left]
<1>0. left \in Nat
  BY <1>a, Lengths, Updates
<1>3. \/ Move(i, [s EXCEPT !.state = "pec"], <<"is_pec">>)
      \/ Move(i, s, <<>>)
      \/ Goto(i, "send")
  BY Zenon DEF ReadyToSendByte
<1> HIDE DEF left
<1>1. s \in Fsm /\ s.state = "send"
  BY <1>a, <1>0 DEF Fsm
<1> HIDE DEF s
<1>4. CASE Move(i, [s EXCEPT !.state = "pec"], <<"is_pec">>)
  <2> DEFINE r == [s EXCEPT !.state = "pec"]
  <2>1. r \in Fsm /\ r.state = "pec"
    BY <1>1, Names DEF Fsm
  <2>2. Move(i, r, <<"is_pec">>)
    BY <1>4
  <2> HIDE DEF r
  <2> QED BY <1>a, <2>1, <2>2, Posts, Steps DEF TargetWork
<1>5. CASE Move(i, s, <<>>)
  BY <1>a, <1>1, <1>5, Posts, Steps DEF TargetWork
<1>6. CASE Goto(i, "send")
  BY <1>a, <1>6, Gotos DEF Goto, TargetWork
<1> QED BY <1>3, <1>4, <1>5, <1>6

LEMMA PecOutcome ==
  ASSUME TypeOK, NEW i \in Inst, NEW e, CheckIfPECRequired(i, e), fsm[i].state = "pec"
  PROVE  Outcome(i)
<1>a. fsm[i] \in Fsm /\ bus \in BusState /\ ctl' = ctl /\ bus' = bus
  BY Parts DEF CheckIfPECRequired
<1>1. CASE (fsm[i].proto \in SendsBytes \/ Kind[i] = "i2c") /\ Goto(i, "done")
  <2> DEFINE s == [fsm[i] EXCEPT !.state = "done"]
  <2>1. s \in Fsm /\ s.state = "done" /\ s.proto = fsm[i].proto
    BY <1>a, Names DEF Fsm
  <2>2. Move(i, s, <<>>)
    BY <1>1 DEF Goto
  <2>3. SendsBytes \cap WriteProto = {}
    BY DEF SendsBytes, WriteProto, CallProto, ReadProto, FixedWrite
  <2> HIDE DEF s
  <2> QED BY <1>a, <1>1, <2>1, <2>2, <2>3, Posts, Steps DEF TargetWork, Whole
<1>2. CASE Move(i, fsm[i], <<"is_pec">>)
  BY <1>a, <1>2, Posts, Steps DEF TargetWork
<1>3. CASE Goto(i, "pec")
  BY <1>a, <1>3, Gotos DEF Goto, TargetWork
<1> QED BY <1>1, <1>2, <1>3 DEF CheckIfPECRequired

(* Once in "done" a target receives more or refuses, and never loses any.  *)
LEMMA DoneSteps ==
  ASSUME TypeOK, NEW i \in Inst, fsm[i].state = "done", NEW s \in Fsm, Move(i, s, <<>>),
         s.state = "done", s.proto = fsm[i].proto, fsm[i].nack => s.nack,
         s.expect = fsm[i].expect, s.got >= fsm[i].got,
         ctl' = ctl, bus' \in BusState
  PROVE  Outcome(i)
<1>1. fsm[i] \in Fsm
  BY Parts
<1>2. ASSUME Whole(i, fsm[i]) PROVE Whole(i, s)
  BY <1>1, <1>2, Updates DEF Whole
<1> QED BY <1>2, Posts, Steps DEF TargetWork

LEMMA DoneOutcome ==
  ASSUME TypeOK, NEW i \in Inst, NEW e, AwaitingDone(i, e), fsm[i].state = "done"
  PROVE  Outcome(i)
<1>a. fsm[i] \in Fsm /\ bus \in BusState
  BY Parts
<1>t. fsm[i].got \in Nat
  BY <1>a, Updates
<1>1. CASE Stay(i)
  BY <1>a, <1>t, <1>1, DoneSteps DEF Stay
<1>n. ASSUME Move(i, [fsm[i] EXCEPT !.nack = TRUE], <<>>), ctl' = ctl, bus' = bus PROVE Outcome(i)
  <2> DEFINE s == [fsm[i] EXCEPT !.nack = TRUE]
  <2>1. /\ s \in Fsm /\ s.state = "done" /\ s.proto = fsm[i].proto /\ s.nack
        /\ s.expect = fsm[i].expect /\ s.got = fsm[i].got
    BY <1>a DEF Fsm
  <2>2. Move(i, s, <<>>)
    BY <1>n
  <2> HIDE DEF s
  <2> QED BY <1>a, <1>t, <1>n, <2>1, <2>2, DoneSteps
<1>2. CASE DoneDescriptors(i)
  <2> DEFINE f == fsm[i]
             n == IF ~f.nack /\ f.expect > f.sent THEN f.expect - f.sent ELSE 0
             late == f.got > f.expect
             q == f.pecSent \/ (late /\ TargetPec)
             k == f.nack \/ (late /\ Kind[i] = "simple" /\ (TargetPec => f.pecSent))
             s == [f EXCEPT !.sent = @ + n, !.pecSent = q, !.nack = k]
  <2>1. CASE /\ Acknowledge(n)
             /\ Move(i, [f EXCEPT !.sent = @ + n,
                           !.pecSent = @ \/ (late /\ TargetPec),
                           !.nack = @ \/ (late /\ Kind[i] = "simple"
                                  /\ (TargetPec => f.pecSent))], <<>>)
    <3>1. s = [f EXCEPT !.sent = @ + n,
                 !.pecSent = @ \/ (late /\ TargetPec),
                 !.nack = @ \/ (late /\ Kind[i] = "simple" /\ (TargetPec => f.pecSent))]
      BY <1>a, Zenon DEF Fsm
    <3>2. Move(i, s, <<>>)
      BY <2>1, <3>1
    <3>3. n \in Nat /\ f.sent + n \in Nat /\ bus.credit + n \in Nat
      BY <1>a DEF Fsm, BusState
    <3>4. bus' \in BusState
      BY <1>a, <2>1, <3>3, BusUpdates DEF Acknowledge
    <3>5. q \in BOOLEAN /\ k \in BOOLEAN /\ (f.nack => k)
      BY <1>a, Updates
    <3>6. ctl' = ctl
      BY <1>2 DEF DoneDescriptors
    <3> HIDE DEF n, q, k
    <3>7. s \in Fsm
      BY <1>a, <3>3, <3>5, Updates
    <3>8. /\ s.state = f.state /\ s.proto = f.proto /\ s.nack = k
          /\ s.expect = f.expect /\ s.got = f.got
      BY <1>a DEF Fsm
    <3> HIDE DEF s
    <3> QED BY <1>t, <3>2, <3>4, <3>5, <3>6, <3>7, <3>8, DoneSteps
  <2>2. CASE Move(i, [f EXCEPT !.nack = TRUE], <<>>) /\ UNCHANGED bus
    BY <1>2, <1>n, <2>2 DEF DoneDescriptors
  <2> QED BY <1>2, <2>1, <2>2 DEF DoneDescriptors
<1>3. CASE Move(i, [fsm[i] EXCEPT !.nack = TRUE], <<>>) /\ UNCHANGED <<ctl, bus>>
  BY <1>3, <1>n
<1>4. CASE DoneDone(i)
  BY <1>1, <1>4 DEF DoneDone, Outcome
<1>5. CASE DoneData(i)
  <2>1. CASE fsm[i].proto \in WriteProto
    <3> DEFINE s == [fsm[i] EXCEPT !.got = @ + bus.rx]
    <3>1. fsm[i].got + bus.rx \in Nat /\ fsm[i].got + bus.rx >= fsm[i].got
      BY <1>a DEF Fsm, BusState
    <3>2. /\ s \in Fsm /\ s.state = "done" /\ s.proto = fsm[i].proto /\ s.nack = fsm[i].nack
          /\ s.expect = fsm[i].expect /\ s.got = fsm[i].got + bus.rx
      BY <1>a, <3>1 DEF Fsm
    <3>3. Move(i, s, <<>>) /\ ctl' = ctl /\ bus' \in BusState
      BY <1>a, <1>5, <2>1, BusUpdates DEF DoneData
    <3> HIDE DEF s
    <3> QED BY <3>1, <3>2, <3>3, DoneSteps
  <2>2. CASE Goto(i, "done") /\ UNCHANGED <<ctl, bus>>
    <3>1. [fsm[i] EXCEPT !.state = "done"] = fsm[i]
      BY <1>a DEF Fsm
    <3> QED BY <1>a, <1>t, <2>2, <3>1, DoneSteps DEF Goto
  <2> QED BY <1>5, <2>1, <2>2 DEF DoneData
<1>6. CASE Finish(i, "ok")
  BY <1>6 DEF Outcome
<1> QED BY <1>1, <1>2, <1>3, <1>4, <1>5, <1>6 DEF AwaitingDone

------------------------------------------------------------------------------
(* Each handler of a controller moves its instance on, or answers the      *)
(* command; one that is in its turn stays in it.                           *)

InItsTurn(i) ==
  InTurn(fsm[i], queue[i], ToSet(ctl.desc), Coming, ctl.run = "on", cmd.stopped)
Goes(s, q) == InTurn(s, q, ToSet(ctl'.desc), Coming, ctl'.run = "on", cmd.stopped)
Works(i, s, post) == Goes(s, Tail(queue[i]) \o post)
Worked(i) ==
  \E s \in Fsm, post \in {<<>>, <<"send_next">>} :
    /\ Move(i, s, post)
    /\ ctl' \in Controller /\ bus' = bus
    /\ InItsTurn(i) => Works(i, s, post)
Turn(i) ==
  \/ Worked(i)
  \/ Finish(i, "ok") /\ fsm[i].state = "ctl_done" /\ (InItsTurn(i) => cmd.stopped)

LEMMA Turns ==
  ASSUME NEW i, NEW s \in Fsm, NEW post \in {<<>>, <<"send_next">>}, Move(i, s, post),
         ctl' \in Controller, bus' = bus, InItsTurn(i) => Works(i, s, post)
  PROVE  Turn(i)
BY DEF Turn, Worked

(* What is left of a queue whose first event is taken.                     *)
LEMMA Rest ==
  ASSUME TypeOK, NEW i \in Inst, queue[i] # <<>>
  PROVE  LET q == queue[i]
             t == Tail(q)
         IN /\ Head(q) \in Event /\ t \in Seq(Event)
            /\ ToSet(q) = {Head(q)} \cup ToSet(t)
            /\ First(q) => Head(q) = "send_next" /\ t = <<>>
            /\ Ordinary(q) => Ordinary(t)
            /\ Ordinary(q) /\ Head(q) = "ctl_desc" => ToSet(t) \subseteq {"ctl_done"}
            /\ ToSet(t) = {} => t = <<>>
            /\ t \o <<>> = t /\ (t = <<>> => t \o <<"send_next">> = <<"send_next">>)
<1> DEFINE q == queue[i]
           t == Tail(q)
<1>1. q \in Seq(Event) /\ q # <<>>
  BY DEF TypeOK
<1> HIDE DEF q
<1>2. /\ Head(q) \in Event /\ t \in Seq(Event)
      /\ ToSet(q) = {Head(q)} \cup ToSet(t)
      /\ Ordinary(q) => Ordinary(t)
  BY <1>1, Tails
<1>3. First(q) => Head(q) = "send_next" /\ t = <<>>
  BY Singles DEF First
<1>4. ASSUME Ordinary(q), Head(q) = "ctl_desc" PROVE ToSet(t) \subseteq {"ctl_done"}
  <2>1. /\ Head(q) = q[1] /\ DOMAIN q = 1 .. Len(q) /\ Len(q) \in Nat \ {0}
        /\ DOMAIN t = 1 .. Len(q) - 1 /\ \A k \in 1 .. Len(q) - 1 : t[k] = q[k + 1]
    BY <1>1, HeadTailProperties, LenProperties, EmptySeq
  <2>2. ASSUME NEW k \in 1 .. Len(q) - 1 PROVE t[k] = "ctl_done"
    <3>1. k + 1 \in 1 .. Len(q) /\ 1 \in 1 .. Len(q) /\ 1 < k + 1
      BY <2>1
    <3>2. q[1] = "ctl_desc" /\ t[k] = q[k + 1]
      BY <1>4, <2>1
    <3> QED BY <1>4, <2>1, <3>1, <3>2 DEF Ordinary
  <2> QED BY <2>1, <2>2 DEF ToSet
<1>5. ToSet(t) = {} => t = <<>>
  <2>1. ASSUME t # <<>> PROVE Head(t) \in ToSet(t)
    BY <1>2, <2>1, Tails
  <2> QED BY <2>1
<1>6. t \o <<>> = t /\ (t = <<>> => t \o <<"send_next">> = <<"send_next">>)
  BY ZenonT(30), <1>2, ConcatEmptySeq, Singles
<1> QED BY <1>2, <1>3, <1>4, <1>5, <1>6 DEF q

(* What is pushed joins what the controller has to do.                     *)
LEMMA Pushes ==
  ASSUME TypeOK, NEW d \in Seq(Descriptor)
  PROVE  /\ Push(d) => /\ ctl' \in Controller /\ ctl'.run = ctl.run
                       /\ ToSet(ctl'.desc) = ToSet(ctl.desc) \cup ToSet(d)
         /\ PushAndRun(d) => /\ ctl' \in Controller
                             /\ ToSet(ctl'.desc) = ToSet(ctl.desc) \cup ToSet(d)
<1>1. ctl \in Controller
  BY Parts DEF TypeOK, Controller
<1> DEFINE m == ctl.desc \o d
<1>2. ctl.desc \in Seq(Descriptor) /\ Started \in {"off", "on", "halted"}
  BY <1>1, ControllerUpdates DEF Started
<1>3. m \in Seq(Descriptor) /\ ToSet(m) = ToSet(ctl.desc) \cup ToSet(d)
  BY <1>2, Concats
<1> HIDE DEF m
<1>4. ASSUME Push(d)
      PROVE  ctl' \in Controller /\ ctl'.run = ctl.run /\ ctl'.desc = m
  <2>1. ctl' = [ctl EXCEPT !.desc = m]
    BY <1>4 DEF Push, m
  <2> QED BY <1>1, <1>3, <2>1 DEF Controller
<1>5. ASSUME PushAndRun(d) PROVE ctl' \in Controller /\ ctl'.desc = m
  <2>1. ctl' = [ctl EXCEPT !.desc = m, !.run = Started]
    BY <1>5 DEF PushAndRun, m
  <2> QED BY <1>1, <1>2, <1>3, <2>1 DEF Controller
<1> QED BY <1>3, <1>4, <1>5

(* The protocols by what they do.                                          *)
LEMMA Kinds ==
  /\ {"quick", "receive_byte", "i2c_read"} \cap SendsData = {}
  /\ ReadProto \cap SendsData = {}
  /\ ReadProto \subseteq Turning /\ CallProto \subseteq Turning
  /\ {"receive_byte", "i2c_write_read"} \subseteq Turning
  /\ ({"none", "quick", "i2c_read", "i2c_write", "send_byte", "block_write"} \cup FixedWrite)
        \cap Turning = {}
BY DEF SendsData, WriteProto, FixedWrite, CallProto, ReadProto, Turning

LEMMA InitialControllerTurn ==
  ASSUME TypeOK, NEW i \in Inst, NEW e, InitialController(i, e), fsm[i].state = "initial",
         queue[i] # <<>>, e = Head(queue[i])
  PROVE  Turn(i)
<1> DEFINE f == fsm[i]
           p == f.proto
           t == Tail(queue[i])
<1>a. f \in Fsm /\ ctl \in Controller /\ bus' = bus
  BY Parts DEF InitialController
<1>b. p \in Proto /\ f.left \in Nat
  BY <1>a, Updates
<1>c. InItsTurn(i) => t = <<>> /\ ctl.run # "on" /\ Coming = {} /\ ToSet(ctl.desc) = {}
  BY Rest DEF InItsTurn, InTurn
<1>d. t \o <<>> = t /\ (t = <<>> => t \o <<"send_next">> = <<"send_next">>)
  BY Rest
<1>1. CASE p = "quick" /\ PushAndRun(<<"quick">>) /\ Move(i, [f EXCEPT !.state = "done"], <<>>)
  <2> DEFINE s == [f EXCEPT !.state = "done"]
  <2>1. s \in Fsm /\ s.state = "done" /\ s.proto = p
    BY <1>a, Names DEF Fsm
  <2>2. ctl' \in Controller /\ ToSet(ctl'.desc) = ToSet(ctl.desc) \cup {"quick"}
    BY <1>1, Pushes, Posts, Singles DEF Descriptor
  <2>3. Move(i, s, <<>>)
    BY <1>1
  <2> HIDE DEF s
  <2>4. InItsTurn(i) => Works(i, s, <<>>)
    BY <1>1, <1>c, <1>d, <2>1, <2>2, Kinds, Singles DEF Works, Goes, InTurn, Ends, ControllerWork
  <2> QED BY <1>a, <2>1, <2>2, <2>3, <2>4, Turns
<1>2. CASE /\ p = "receive_byte" /\ UNCHANGED ctl
           /\ Move(i, [f EXCEPT !.state = "ctl_start", !.expect = 1], <<"send_next">>)
  <2> DEFINE s == [f EXCEPT !.state = "ctl_start", !.expect = 1]
  <2>1. s \in Fsm /\ s.state = "ctl_start" /\ s.proto = p
    BY <1>a, Names DEF Fsm
  <2>2. ctl' \in Controller /\ ctl' = ctl
    BY <1>a, <1>2
  <2>3. Move(i, s, <<"send_next">>)
    BY <1>2
  <2> HIDE DEF s
  <2>4. InItsTurn(i) => Works(i, s, <<"send_next">>)
    <3>1. ASSUME InItsTurn(i) PROVE Goes(s, <<"send_next">>)
      BY <1>2, <1>c, <2>1, <2>2, <3>1, Kinds, Singles DEF Goes, InTurn, First, ControllerWork
    <3> QED BY <1>c, <1>d, <3>1 DEF Works
  <2> QED BY <1>a, <2>1, <2>2, <2>3, <2>4, Turns
<1>3. CASE /\ p \in {"i2c_write", "i2c_write_read"} /\ Push(<<"start">>)
           /\ Move(i, [f EXCEPT !.state = "ctl_write"], <<"send_next">>)
  <2> DEFINE s == [f EXCEPT !.state = "ctl_write"]
  <2>1. s \in Fsm /\ s.state = "ctl_write" /\ s.proto = p
    BY <1>a, Names DEF Fsm
  <2>2. ctl' \in Controller /\ ToSet(ctl'.desc) = ToSet(ctl.desc) \cup {"start"}
    BY <1>3, Pushes, Posts, Singles DEF Descriptor
  <2>3. Move(i, s, <<"send_next">>)
    BY <1>3
  <2> HIDE DEF s
  <2>4. InItsTurn(i) => Works(i, s, <<"send_next">>)
    <3>1. ASSUME InItsTurn(i) PROVE Goes(s, <<"send_next">>)
      BY <1>c, <2>1, <2>2, <3>1, Singles DEF Goes, InTurn, First, Plain, ControllerWork
    <3> QED BY <1>c, <1>d, <3>1 DEF Works
  <2> QED BY <1>a, <2>1, <2>2, <2>3, <2>4, Turns
<1>4. CASE /\ p = "i2c_read" /\ PushAndRun(<<"read_start">>)
           /\ Move(i, [f EXCEPT !.state = "ctl_read"], <<>>)
  <2> DEFINE s == [f EXCEPT !.state = "ctl_read"]
  <2>1. s \in Fsm /\ s.state = "ctl_read" /\ s.proto = p
    BY <1>a, Names DEF Fsm
  <2>2. ctl' \in Controller
    BY <1>4, Pushes, Posts DEF Descriptor
  <2>3. Move(i, s, <<>>)
    BY <1>4
  <2> HIDE DEF s
  <2>4. InItsTurn(i) => Works(i, s, <<>>)
    BY <1>4, <1>c, <1>d, <2>1, Kinds, Singles DEF Works, Goes, InTurn, ControllerWork
  <2> QED BY <1>a, <2>1, <2>2, <2>3, <2>4, Turns
<1>5. CASE /\ p \notin I2CProto \cup {"quick", "receive_byte"} /\ Push(<<"start">>)
           /\ Move(i, [f EXCEPT !.state = "ctl_command"], <<"send_next">>)
  <2> DEFINE s == [f EXCEPT !.state = "ctl_command"]
  <2>1. s \in Fsm /\ s.state = "ctl_command" /\ s.proto = p
    BY <1>a, Names DEF Fsm
  <2>2. ctl' \in Controller /\ ctl'.run = ctl.run
         /\ ToSet(ctl'.desc) = ToSet(ctl.desc) \cup {"start"}
    BY <1>5, Pushes, Posts, Singles DEF Descriptor
  <2>3. Move(i, s, <<"send_next">>)
    BY <1>5
  <2> HIDE DEF s
  <2>4. InItsTurn(i) => Works(i, s, <<"send_next">>)
    <3>1. ASSUME InItsTurn(i) PROVE Goes(s, <<"send_next">>)
      BY <1>5, <1>c, <2>1, <2>2, <3>1, Singles DEF Goes, InTurn, First, Plain, ControllerWork
    <3> QED BY <1>c, <1>d, <3>1 DEF Works
  <2> QED BY <1>a, <2>1, <2>2, <2>3, <2>4, Turns
<1> QED BY <1>1, <1>2, <1>3, <1>4, <1>5 DEF InitialController

LEMMA SendCommandTurn ==
  ASSUME TypeOK, NEW i \in Inst, NEW e, ControllerSendCommand(i, e), fsm[i].state = "ctl_command",
         queue[i] # <<>>, e = Head(queue[i])
  PROVE  Turn(i)
<1> DEFINE f == fsm[i]
           p == f.proto
           t == Tail(queue[i])
<1>a. f \in Fsm /\ ctl \in Controller /\ bus' = bus
  BY Parts DEF ControllerSendCommand
<1>c. InItsTurn(i) => /\ t = <<>> /\ ctl.run # "on" /\ Coming = {}
                          /\ ToSet(ctl.desc) \subseteq Plain
                      /\ p \notin I2CProto \cup {"quick", "receive_byte"}
  BY Rest DEF InItsTurn, InTurn
<1>d. t \o <<>> = t /\ (t = <<>> => t \o <<"send_next">> = <<"send_next">>)
  BY Rest
<1>1. CASE p \in ReadProto /\ Push(<<"byte">>)
       /\ Move(i, [f EXCEPT !.state = "ctl_start"], <<"send_next">>)
  <2> DEFINE s == [f EXCEPT !.state = "ctl_start"]
  <2>1. s \in Fsm /\ s.state = "ctl_start" /\ s.proto = p
    BY <1>a, Names DEF Fsm
  <2>2. ctl' \in Controller /\ ToSet(ctl'.desc) = ToSet(ctl.desc) \cup {"byte"}
    BY <1>1, Pushes, Posts, Singles DEF Descriptor
  <2>3. Move(i, s, <<"send_next">>)
    BY <1>1
  <2> HIDE DEF s
  <2>4. InItsTurn(i) => Works(i, s, <<"send_next">>)
    <3>1. ASSUME InItsTurn(i) PROVE Goes(s, <<"send_next">>)
      BY <1>1, <1>c, <2>1, <2>2, <3>1, Kinds, Singles DEF Goes, InTurn, First, Plain, ControllerWork
    <3> QED BY <1>c, <1>d, <3>1 DEF Works
  <2> QED BY <1>a, <2>1, <2>2, <2>3, <2>4, Turns
<1>2. CASE /\ (p \in FixedWrite \cup BlockWrite \cup {"process_call"} /\ Push(<<"byte">>))
              \/ (p = "send_byte" /\ UNCHANGED ctl)
           /\ Move(i, [f EXCEPT !.state = "ctl_write"], <<"send_next">>)
  <2> DEFINE s == [f EXCEPT !.state = "ctl_write"]
  <2>1. s \in Fsm /\ s.state = "ctl_write"
    BY <1>a, Names DEF Fsm
  <2>2. ctl' \in Controller /\ ToSet(ctl'.desc) \subseteq ToSet(ctl.desc) \cup {"byte"}
    BY <1>2, <1>a, Pushes, Posts, Singles DEF Descriptor
  <2>3. Move(i, s, <<"send_next">>)
    BY <1>2
  <2> HIDE DEF s
  <2>4. InItsTurn(i) => Works(i, s, <<"send_next">>)
    <3>1. ASSUME InItsTurn(i) PROVE Goes(s, <<"send_next">>)
      BY <1>c, <2>1, <2>2, <3>1, Singles DEF Goes, InTurn, First, Plain, ControllerWork
    <3> QED BY <1>c, <1>d, <3>1 DEF Works
  <2> QED BY <1>a, <2>1, <2>2, <2>3, <2>4, Turns
<1>3. CASE Move(i, [f EXCEPT !.state = "ctl_command"], <<>>) /\ UNCHANGED ctl
  <2> DEFINE s == [f EXCEPT !.state = "ctl_command"]
  <2>1. s \in Fsm /\ s.state = "ctl_command" /\ s.proto = p
    BY <1>a, Names DEF Fsm
  <2>2. Move(i, s, <<>>)
    BY <1>3
  <2> HIDE DEF s
  <2>4. InItsTurn(i) => Works(i, s, <<>>)
    BY <1>3, <1>c, <1>d, <2>1, Singles DEF Works, Goes, InTurn, ControllerWork
  <2> QED BY <1>3, <1>a, <2>1, <2>2, <2>4, Turns
<1> QED BY <1>1, <1>2, <1>3 DEF ControllerSendCommand, Goto

LEMMA WriteByteTurn ==
  ASSUME TypeOK, NEW i \in Inst, NEW e, ControllerWriteByte(i, e), fsm[i].state = "ctl_write",
         queue[i] # <<>>, e = Head(queue[i])
  PROVE  Turn(i)
<1> DEFINE f == fsm[i]
           p == f.proto
           t == Tail(queue[i])
           n == Lesser(f.left - 1, Room)
<1>a. f \in Fsm /\ ctl \in Controller /\ bus' = bus /\ e \in {"send_next", "ctl_desc"}
  BY Parts DEF ControllerWriteByte
<1>b. f.left \in Nat /\ n \in Int /\ n <= f.left - 1
  BY <1>a, Updates, Lengths DEF Lesser
<1>c. InItsTurn(i) => /\ ToSet(ctl.desc) \subseteq Plain /\ Coming \subseteq Early
                      /\ t = <<>> \/ ToSet(t) \subseteq Early
                      /\ Ordinary(t) /\ t = <<>>
  <2>1. ASSUME InItsTurn(i), e = "ctl_desc" PROVE t = <<>>
    <3>1. Ordinary(queue[i]) /\ (First(queue[i]) \/ ToSet(queue[i]) \subseteq Early)
      BY <2>1 DEF InItsTurn, InTurn
    <3>2. CASE First(queue[i])
      BY <3>2, Rest
    <3>3. CASE ToSet(queue[i]) \subseteq Early
      <4>1. ToSet(t) \subseteq {"ctl_done"} /\ ToSet(t) \subseteq ToSet(queue[i])
        BY <2>1, <3>1, Rest
      <4>2. ToSet(t) = {}
        BY <3>3, <4>1 DEF Early
      <4> QED BY <4>2, Rest
    <3> QED BY <3>1, <3>2, <3>3
  <2>2. ASSUME InItsTurn(i), e = "send_next" PROVE t = <<>>
    <3>1. First(queue[i]) \/ ToSet(queue[i]) \subseteq Early
      BY <2>2 DEF InItsTurn, InTurn
    <3>2. e \in ToSet(queue[i])
      BY Rest
    <3> QED BY <2>2, <3>1, <3>2, Rest DEF Early
  <2> QED BY <1>a, <2>1, <2>2, Singles DEF InItsTurn, InTurn
<1>d. t \o <<>> = t /\ (t = <<>> => t \o <<"send_next">> = <<"send_next">>)
  BY Rest
<1>1. CASE Move(i, f, <<>>) /\ UNCHANGED ctl
  <2>1. InItsTurn(i) => Works(i, f, <<>>)
    BY <1>1, <1>c, <1>d, Singles DEF Works, Goes, InTurn, ControllerWork, Early
  <2> QED BY <1>1, <1>a, <2>1, Turns
<1>2. CASE /\ f.left > 1 /\ PushAndRun(Copies(n, "byte"))
           /\ Move(i, [f EXCEPT !.left = @ - n], <<>>)
  <2> DEFINE m == f.left - n
             s == [f EXCEPT !.left = @ - n]
  <2>1. s \in Fsm /\ s.state = "ctl_write"
    <3>1. m \in Nat
      BY <1>b
    <3>2. s = [f EXCEPT !.left = m]
      OBVIOUS
    <3> HIDE DEF m
    <3> QED BY <1>a, <3>1, <3>2 DEF Fsm
  <2>2. ctl' \in Controller /\ ToSet(ctl'.desc) \subseteq ToSet(ctl.desc) \cup {"byte"}
    <3>1. Copies(n, "byte") \in Seq({"byte"}) /\ ToSet(Copies(n, "byte")) \subseteq {"byte"}
      BY <1>b, Repeated
    <3>2. Copies(n, "byte") \in Seq(Descriptor)
      BY <3>1 DEF Descriptor
    <3> QED BY <1>2, <3>1, <3>2, Pushes
  <2>3. Move(i, s, <<>>)
    BY <1>2
  <2> HIDE DEF s
  <2>4. InItsTurn(i) => Works(i, s, <<>>)
    BY <1>c, <1>d, <2>1, <2>2, Singles DEF Works, Goes, InTurn, ControllerWork, Plain, Early
  <2> QED BY <1>a, <2>1, <2>2, <2>3, <2>4, Turns
<1>3. CASE /\ f.left <= 1 /\ p \in CallProto \cup {"i2c_write_read"} /\ Push(<<"byte">>)
           /\ Move(i, [f EXCEPT !.state = "ctl_start"], <<"send_next">>)
  <2> DEFINE s == [f EXCEPT !.state = "ctl_start"]
  <2>1. s \in Fsm /\ s.state = "ctl_start" /\ s.proto = p /\ s.left = f.left
    BY <1>a, Names DEF Fsm
  <2>2. ctl' \in Controller /\ ToSet(ctl'.desc) = ToSet(ctl.desc) \cup {"byte"}
    BY <1>3, Pushes, Posts, Singles DEF Descriptor
  <2>3. Move(i, s, <<"send_next">>)
    BY <1>3
  <2> HIDE DEF s
  <2>4. InItsTurn(i) => Works(i, s, <<"send_next">>)
    <3>1. ASSUME InItsTurn(i) PROVE Goes(s, <<"send_next">>)
      BY <1>3, <1>c, <2>1, <2>2, <3>1, Kinds, Singles
             DEF Goes, InTurn, First, Plain, Early, ControllerWork
    <3> QED BY <1>c, <1>d, <3>1 DEF Works
  <2> QED BY <1>a, <2>1, <2>2, <2>3, <2>4, Turns
<1>4. ASSUME f.left <= 1, NEW d \in {<<"byte", "pec">>, <<"stop">>}, PushAndRun(d),
             Move(i, [f EXCEPT !.state = "done"], <<>>)
      PROVE  Turn(i)
  <2> DEFINE s == [f EXCEPT !.state = "done"]
  <2>1. s \in Fsm /\ s.state = "done" /\ s.proto = p /\ s.left = f.left
    BY <1>a, Names DEF Fsm
  <2>2. ctl' \in Controller /\ ToSet(ctl'.desc) \subseteq ToSet(ctl.desc) \cup {"byte", "pec",
         "stop"}
    <3>1. "byte" \in Descriptor /\ "pec" \in Descriptor /\ "stop" \in Descriptor
      BY DEF Descriptor
    <3>2. <<"byte", "pec">> \in Seq(Descriptor) /\ <<"stop">> \in Seq(Descriptor)
      BY <3>1, Singles
    <3>3. ToSet(<<"byte", "pec">>) = {"byte", "pec"} /\ ToSet(<<"stop">>) = {"stop"}
      BY Singles
    <3>4. d \in Seq(Descriptor) /\ ToSet(d) \subseteq {"byte", "pec", "stop"}
      BY <1>4, <3>2, <3>3
    <3> QED BY <1>4, <3>4, Pushes
  <2>3. Move(i, s, <<>>)
    BY <1>4
  <2> HIDE DEF s
  <2>4. InItsTurn(i) => Works(i, s, <<>>)
    BY <1>4, <1>c, <1>d, <2>1, <2>2, Singles
           DEF Works, Goes, InTurn, ControllerWork, Plain, Early, Ends
  <2> QED BY <1>a, <2>1, <2>2, <2>3, <2>4, Turns
<1>5. CASE Goto(i, "ctl_write") /\ UNCHANGED ctl
  <2>1. [f EXCEPT !.state = "ctl_write"] = f
    BY <1>a DEF Fsm
  <2> QED BY <1>1, <1>5, <2>1 DEF Goto
<1> QED BY <1>1, <1>2, <1>3, <1>4, <1>5 DEF ControllerWriteByte, Stay

LEMMA SendReadStartTurn ==
  ASSUME TypeOK, NEW i \in Inst, NEW e, ControllerSendReadStart(i, e), fsm[i].state = "ctl_start",
         queue[i] # <<>>, e = Head(queue[i])
  PROVE  Turn(i)
<1> DEFINE f == fsm[i]
           p == f.proto
           t == Tail(queue[i])
           n == IF p \in DOMAIN FixedLen THEN FixedLen[p] ELSE 0
<1>a. f \in Fsm /\ ctl \in Controller /\ bus' = bus
  BY Parts DEF ControllerSendReadStart
<1>b. f.got \in Nat /\ n \in Nat
  <2>1. p \in DOMAIN FixedLen => n \in {1, 2}
    BY Names, Zenon
  <2> QED BY <1>a, <2>1, Updates
<1>c. InItsTurn(i) => /\ t = <<>> /\ ToSet(ctl.desc) \subseteq Plain /\ Coming \subseteq Early
                      /\ p \in Turning /\ (p \in SendsData => f.left <= 1)
  BY Rest DEF InItsTurn, InTurn
<1>d. t \o <<>> = t
  BY Rest
<1>1. CASE /\ PushAndRun(IF f.expect = 0 THEN <<"read_start", "stop">> ELSE <<"read_start">>)
           /\ Move(i, [f EXCEPT !.sent = 0,
                         !.state = IF f.expect = 0 THEN "ctl_done" ELSE "ctl_read"], <<>>)
  <2> DEFINE s == [f EXCEPT !.sent = 0, !.state = IF f.expect = 0 THEN "ctl_done" ELSE "ctl_read"]
  <2>1. /\ s \in Fsm /\ s.state = (IF f.expect = 0 THEN "ctl_done" ELSE "ctl_read")
        /\ s.proto = p /\ s.left = f.left /\ s.expect = f.expect /\ s.got = f.got
    BY <1>a, Names DEF Fsm
  <2>2. ctl' \in Controller
    <3>1. "read_start" \in Descriptor /\ "stop" \in Descriptor
      BY DEF Descriptor
    <3>2. (IF f.expect = 0 THEN <<"read_start", "stop">> ELSE <<"read_start">>) \in Seq(Descriptor)
      BY <3>1, Singles
    <3> QED BY <1>1, <3>2, Pushes
  <2>3. Move(i, s, <<>>)
    BY <1>1
  <2> HIDE DEF s
  <2>4. InItsTurn(i) => Works(i, s, <<>>)
    <3>1. s.state = "ctl_done" => s.got >= s.expect
      BY <1>b, <2>1
    <3>2. s.state \in {"ctl_done", "ctl_read"}
      BY <2>1
    <3> QED BY <1>c, <1>d, <2>1, <3>1, <3>2, Singles DEF Works, Goes, InTurn, ControllerWork, Early
  <2> QED BY <1>a, <2>1, <2>2, <2>3, <2>4, Turns
<1>2. CASE PushAndRun(<<"read_start">>) /\ Move(i, [f EXCEPT !.sent = 0, !.state = "ctl_size"],
       <<>>)
  <2> DEFINE s == [f EXCEPT !.sent = 0, !.state = "ctl_size"]
  <2>1. s \in Fsm /\ s.state = "ctl_size" /\ s.proto = p /\ s.left = f.left
    BY <1>a, Names DEF Fsm
  <2>2. ctl' \in Controller /\ ToSet(ctl'.desc) = ToSet(ctl.desc) \cup {"read_start"}
    BY <1>2, Pushes, Posts, Singles DEF Descriptor
  <2>3. Move(i, s, <<>>)
    BY <1>2
  <2> HIDE DEF s
  <2>4. InItsTurn(i) => Works(i, s, <<>>)
    BY <1>c, <1>d, <2>1, <2>2, Singles DEF Works, Goes, InTurn, ControllerWork, Early, Plain
  <2> QED BY <1>a, <2>1, <2>2, <2>3, <2>4, Turns
<1>3. CASE /\ PushAndRun(<<"read_start">> \o IF f.pec THEN Copies(n, "ack") \o <<"pec">>
                                              ELSE Copies(n - 1, "ack") \o <<"stop">>)
           /\ Move(i, [f EXCEPT !.expect = n, !.sent = n, !.state = "ctl_read"], <<>>)
  <2>m. Move(i, [f EXCEPT !.expect = n, !.sent = n, !.state = "ctl_read"], <<>>)
    BY <1>3
  <2>2. ctl' \in Controller
    <3> DEFINE ending == IF f.pec THEN Copies(n, "ack") \o <<"pec">> ELSE Copies(n - 1,
           "ack") \o <<"stop">>
    <3>1. <<"read_start">> \in Seq(Descriptor) /\ <<"pec">> \in Seq(Descriptor)
           /\ <<"stop">> \in Seq(Descriptor)
      BY DEF Descriptor
    <3>2. \A k \in Int : Copies(k, "ack") \in Seq(Descriptor)
      <4>1. \A k \in Int : Copies(k, "ack") \in Seq({"ack"})
        BY Repeated
      <4> QED BY <4>1 DEF Descriptor
    <3>3. ending \in Seq(Descriptor)
      <4>1. n \in Int /\ n - 1 \in Int
        BY <1>b
      <4> QED BY <3>1, <3>2, <4>1, Concats
    <3> HIDE DEF ending
    <3>4. <<"read_start">> \o ending \in Seq(Descriptor)
      BY <3>1, <3>3, Concats
    <3> QED BY <1>3, <3>4, Pushes DEF ending
  <2> HIDE DEF n
  <2> DEFINE s == [f EXCEPT !.expect = n, !.sent = n, !.state = "ctl_read"]
  <2>1. s \in Fsm /\ s.state = "ctl_read" /\ s.proto = p /\ s.left = f.left
    BY <1>a, <1>b, Names DEF Fsm
  <2>3. Move(i, s, <<>>)
    BY <2>m
  <2> HIDE DEF s
  <2>4. InItsTurn(i) => Works(i, s, <<>>)
    BY <1>c, <1>d, <2>1, Singles DEF Works, Goes, InTurn, ControllerWork, Early
  <2> QED BY <1>a, <2>1, <2>2, <2>3, <2>4, Turns
<1>4. CASE /\ p \in {"none", "quick", "i2c_read", "i2c_write", "send_byte",
               "block_write"} \cup FixedWrite
           /\ Stay(i)
  <2>1. ~InItsTurn(i)
    BY <1>4, <1>c, Kinds
  <2> QED BY <1>4, <1>a, <2>1, Turns DEF Stay
<1> QED BY <1>1, <1>2, <1>3, <1>4 DEF ControllerSendReadStart

(* While it reads, anything the controller does is in its turn.            *)
LEMMA Reads ==
  ASSUME TypeOK, NEW i \in Inst, fsm[i].state \in {"ctl_size", "ctl_read", "ctl_done"},
         queue[i] # <<>>, NEW s \in Fsm, Move(i, s, <<>>), ctl' \in Controller, bus' = bus,
         s.state \in {"ctl_read", "ctl_done"}, s.proto = fsm[i].proto, s.left = fsm[i].left,
         InItsTurn(i) /\ s.state = "ctl_done" => s.got >= s.expect
  PROVE  Turn(i)
<1> DEFINE t == Tail(queue[i])
<1>1. InItsTurn(i) => /\ ToSet(queue[i]) \subseteq ControllerEvent
                      /\ ToSet(t) \subseteq ControllerEvent
                      /\ Ordinary(t) /\ ("ctl_done" \in Coming \cup ToSet(t) => cmd.stopped)
                      /\ (s.proto \in SendsData => s.left <= 1)
  <2>1. ASSUME InItsTurn(i) PROVE ToSet(queue[i]) \subseteq ControllerEvent
    <3>1. fsm[i].state = "ctl_size" => ToSet(queue[i]) \subseteq Early \cup {"ctl_data"}
      BY <2>1 DEF InItsTurn, InTurn
    <3>2. fsm[i].state \in {"ctl_read", "ctl_done"} => ToSet(queue[i]) \subseteq ControllerEvent
      BY <2>1 DEF InItsTurn, InTurn
    <3>3. First(queue[i]) \/ ToSet(queue[i]) \subseteq ControllerEvent
      BY <2>1 DEF InItsTurn, InTurn
    <3>4. First(queue[i]) => ToSet(queue[i]) = {"send_next"}
      BY Singles DEF First
    <3> QED BY <3>1, <3>2, <3>3, <3>4 DEF Early
  <2>2. ToSet(t) \subseteq ToSet(queue[i])
    BY Rest
  <2> QED BY <2>1, <2>2, Rest DEF InItsTurn, InTurn
<1>2. t \o <<>> = t
  BY Rest
<1>3. InItsTurn(i) => Works(i, s, <<>>)
  BY <1>1, <1>2 DEF Works, Goes, InTurn, ControllerWork
<1> QED BY <1>3, Turns

LEMMA ReadBlockSizeTurn ==
  ASSUME TypeOK, NEW i \in Inst, NEW e, ControllerReadBlockSize(i, e), fsm[i].state = "ctl_size",
         queue[i] # <<>>, e = Head(queue[i])
  PROVE  Turn(i)
<1> DEFINE f == fsm[i]
           t == Tail(queue[i])
<1>a. f \in Fsm /\ ctl \in Controller /\ bus' = bus
  BY Parts DEF ControllerReadBlockSize
<1>1. CASE Goto(i, "ctl_size") /\ UNCHANGED ctl
  <2>1. [f EXCEPT !.state = "ctl_size"] = f
    BY <1>a DEF Fsm
  <2>2. Move(i, f, <<>>) /\ ctl' \in Controller
    BY <1>1, <1>a, <2>1 DEF Goto
  <2>3. t \o <<>> = t /\ ToSet(t) \subseteq ToSet(queue[i]) /\ (Ordinary(queue[i]) => Ordinary(t))
    BY Rest
  <2>4. InItsTurn(i) => Works(i, f, <<>>)
    <3> SUFFICES ASSUME InItsTurn(i) PROVE Goes(f, t)
      BY <2>3 DEF Works
    <3>1. ctl' = ctl /\ f.state = "ctl_size"
      BY <1>1
    <3>2. ToSet(t) \subseteq Early \cup {"ctl_data"} /\ (First(queue[i]) => t = <<>>)
      BY <2>3, Rest DEF InItsTurn, InTurn
    <3>3. First(t) \/ ToSet(t) \subseteq ControllerEvent
      BY <2>3, <3>2, Singles DEF InItsTurn, InTurn
    <3> QED BY <2>3, <3>1, <3>2, <3>3 DEF InItsTurn, Goes, InTurn, ControllerWork
  <2> QED BY <1>a, <2>2, <2>4, Turns
<1>2. ASSUME NEW n \in 0 .. MaxBytes, NEW more \in {<<"ack">> \o <<"pec">>, <<"ack">> \o <<>>,
       <<"stop">>, <<"ack">>},
             Move(i, [[f EXCEPT !.expect = n, !.sent = 0]
                        EXCEPT !.state = IF n = 0 /\ ~f.pec THEN "ctl_done" ELSE "ctl_read"], <<>>),
             ctl' = [ctl EXCEPT !.desc = @ \o more, !.run = Started,
                    !.rx = IF @ = 0 THEN 0 ELSE @ - 1]
      PROVE  Turn(i)
  <2> DEFINE s == [[f EXCEPT !.expect = n, !.sent = 0]
                     EXCEPT !.state = IF n = 0 /\ ~f.pec THEN "ctl_done" ELSE "ctl_read"]
  <2>n. n \in Nat
    BY SMBusAssumption
  <2>1. /\ s \in Fsm /\ s.state = (IF n = 0 /\ ~f.pec THEN "ctl_done" ELSE "ctl_read")
        /\ s.proto = f.proto /\ s.left = f.left /\ s.expect = n /\ s.got = f.got
    BY <1>a, <2>n, Names DEF Fsm
  <2>2. ctl' \in Controller
    <3>1. <<"ack">> \in Seq(Descriptor) /\ <<"pec">> \in Seq(Descriptor)
           /\ <<"stop">> \in Seq(Descriptor)
          /\ <<>> \in Seq(Descriptor)
      BY DEF Descriptor
    <3>2. more \in Seq(Descriptor)
      <4>1. <<"ack">> \o <<"pec">> \in Seq(Descriptor) /\ <<"ack">> \o <<>> \in Seq(Descriptor)
        BY <3>1, Concats
      <4> QED BY <1>2, <3>1, <4>1
    <3>3. ctl.desc \o more \in Seq(Descriptor) /\ Started \in {"off", "on", "halted"}
      BY <1>a, <3>2, ControllerUpdates, Concats DEF Started
    <3>4. (IF ctl.rx = 0 THEN 0 ELSE ctl.rx - 1) \in Nat
      BY <1>a DEF Controller
    <3> QED BY <1>2, <1>a, <3>3, <3>4, ControllerUpdates
  <2>3. Move(i, s, <<>>)
    BY <1>2
  <2>4. f.got \in Nat
    BY <1>a, Updates
  <2> HIDE DEF s
  <2>5. s.state \in {"ctl_read", "ctl_done"} /\ (s.state = "ctl_done" => s.got >= s.expect)
    BY <2>1, <2>4
  <2> QED BY <1>a, <2>1, <2>2, <2>3, <2>5, Reads
<1> QED
  <2>1. ASSUME e = "ctl_data" PROVE Turn(i)
    <3>1. PICK n \in 0 .. MaxBytes :
            LET s == [f EXCEPT !.expect = n, !.sent = 0]
                more == IF s.pec THEN <<"ack">> \o (IF n = 0 THEN <<"pec">> ELSE <<>>)
                        ELSE IF n = 0 THEN <<"stop">> ELSE <<"ack">>
            IN /\ Move(i, [s EXCEPT !.state = IF n = 0 /\ ~s.pec THEN "ctl_done" ELSE "ctl_read"],
                   <<>>)
               /\ ctl' = [ctl EXCEPT !.desc = @ \o more, !.run = Started,
                                     !.rx = IF @ = 0 THEN 0 ELSE @ - 1]
      BY <2>1, Zenon DEF ControllerReadBlockSize
    <3>2. [f EXCEPT !.expect = n, !.sent = 0].pec = f.pec
      BY <1>a DEF Fsm
    <3> QED BY <1>2, <3>1, <3>2
  <2> QED BY <1>1, <2>1 DEF ControllerReadBlockSize

LEMMA FillReadTurn ==
  ASSUME TypeOK, NEW i \in Inst, FillRead(i), fsm[i].state \in {"ctl_read", "ctl_done"},
         queue[i] # <<>>, bus' = bus
  PROVE  Turn(i)
<1> DEFINE f == fsm[i]
           n == Lesser(f.expect - f.sent, Room)
           ends == f.sent + n = f.expect
           filled == IF f.pec THEN Copies(n, "ack") \o (IF ends
                  /\ n < Room THEN <<"pec">> ELSE <<>>)
                     ELSE IF ends /\ n > 0 THEN Copies(n - 1, "ack") \o <<"stop">>
                     ELSE Copies(n, "ack")
           s == [f EXCEPT !.sent = @ + Len(filled)]
<1>a. f \in Fsm
  BY Parts
<1>1. PushAndRun(filled) /\ Move(i, s, <<>>)
  BY Zenon DEF FillRead
<1>2. n \in Int /\ n - 1 \in Int
  BY <1>a, Updates, Lengths DEF Lesser
<1>3. filled \in Seq(Descriptor)
  <2>1. <<"pec">> \in Seq(Descriptor) /\ <<"stop">> \in Seq(Descriptor) /\ <<>> \in Seq(Descriptor)
    BY DEF Descriptor
  <2>2. \A k \in Int : Copies(k, "ack") \in Seq(Descriptor)
    <3>1. \A k \in Int : Copies(k, "ack") \in Seq({"ack"})
      BY Repeated
    <3> QED BY <3>1 DEF Descriptor
  <2> HIDE DEF n
  <2> QED BY <1>2, <2>1, <2>2, Concats
<1> HIDE DEF filled
<1>4. f.sent + Len(filled) \in Nat
  BY <1>a, <1>3, Updates, LenProperties
<1>5. /\ s \in Fsm /\ s.state = f.state /\ s.proto = f.proto /\ s.left = f.left
      /\ s.got = f.got /\ s.expect = f.expect
  BY <1>a, <1>4 DEF Fsm
<1> HIDE DEF s
<1>6. ctl' \in Controller
  BY <1>1, <1>3, Pushes
<1>7. InItsTurn(i) /\ f.state = "ctl_done" => f.got >= f.expect
  BY DEF InItsTurn, InTurn
<1> QED BY <1>1, <1>5, <1>6, <1>7, Reads

LEMMA ReadByteTurn ==
  ASSUME TypeOK, NEW i \in Inst, NEW e, ControllerReadByte(i, e), fsm[i].state = "ctl_read",
         queue[i] # <<>>, e = Head(queue[i])
  PROVE  Turn(i)
<1> DEFINE f == fsm[i]
<1>a. f \in Fsm /\ ctl \in Controller /\ bus' = bus
  BY Parts DEF ControllerReadByte
<1>1. CASE FillRead(i)
  BY <1>1, <1>a, FillReadTurn
<1>2. CASE Goto(i, "ctl_read") /\ UNCHANGED ctl
  <2>1. [f EXCEPT !.state = "ctl_read"] = f
    BY <1>a DEF Fsm
  <2> QED BY <1>2, <1>a, <2>1, Reads DEF Goto
<1>3. CASE ReceiveRead(i)
  <2> DEFINE r == [f EXCEPT !.got = @ + ctl.rx]
             all == IF r.pec THEN r.got > r.expect ELSE r.got >= r.expect
             s == [r EXCEPT !.state = IF all THEN "ctl_done" ELSE "ctl_read"]
  <2>1. r \in Fsm /\ r.proto = f.proto /\ r.left = f.left
    <3>1. f.got + ctl.rx \in Nat
      BY <1>a DEF Fsm, Controller
    <3> QED BY <1>a, <3>1 DEF Fsm
  <2>2. Move(i, s, <<>>) /\ ctl' = [ctl EXCEPT !.rx = 0]
    BY <1>3 DEF ReceiveRead
  <2>3. ctl' \in Controller
    BY <1>a, <2>2, ControllerUpdates
  <2>4. all => r.got >= r.expect
    <3>1. r.got \in Nat /\ r.expect \in Nat
      BY <2>1, Updates
    <3> QED BY <3>1
  <2> HIDE DEF r
  <2>5. /\ s \in Fsm /\ s.state = (IF all THEN "ctl_done" ELSE "ctl_read") /\ s.proto = r.proto
        /\ s.left = r.left /\ s.got = r.got /\ s.expect = r.expect
    BY <2>1, Names DEF Fsm
  <2> HIDE DEF s, all
  <2> QED BY <1>a, <2>1, <2>2, <2>3, <2>4, <2>5, Reads
<1> QED BY <1>1, <1>2, <1>3 DEF ControllerReadByte

LEMMA ReadDoneTurn ==
  ASSUME TypeOK, NEW i \in Inst, NEW e, ControllerReadDone(i, e), fsm[i].state = "ctl_done",
         queue[i] # <<>>, e = Head(queue[i])
  PROVE  Turn(i)
<1> DEFINE f == fsm[i]
<1>a. f \in Fsm /\ ctl \in Controller /\ bus \in BusState
  BY Parts
<1>b. f.got \in Nat /\ f.expect \in Nat /\ f.sent \in Nat
  BY <1>a, Updates
<1>c. InItsTurn(i) => f.got >= f.expect
  BY DEF InItsTurn, InTurn
<1>1. ASSUME Move(i, f, <<>>), ctl' = ctl, bus' = bus PROVE Turn(i)
  BY <1>1, <1>a, <1>c, Reads
<1>2. CASE Goto(i, "ctl_done") /\ ctl' = ctl /\ bus' = bus
  <2>1. [f EXCEPT !.state = "ctl_done"] = f
    BY <1>a DEF Fsm
  <2> QED BY <1>1, <1>2, <2>1 DEF Goto
<1>3. CASE /\ Move(i, [f EXCEPT !.got = @ + ctl.rx], <<>>) /\ ctl' = [ctl EXCEPT !.rx = 0]
           /\ bus' = bus
  <2> DEFINE s == [f EXCEPT !.got = @ + ctl.rx]
  <2>1. f.got + ctl.rx \in Nat /\ f.got + ctl.rx >= f.got
    BY <1>a DEF Fsm, Controller
  <2>2. /\ s \in Fsm /\ s.state = f.state /\ s.proto = f.proto /\ s.left = f.left
        /\ s.expect = f.expect /\ s.got = f.got + ctl.rx
    BY <1>a, <2>1 DEF Fsm
  <2>3. Move(i, s, <<>>) /\ ctl' \in Controller
    BY <1>3, <1>a, ControllerUpdates
  <2> HIDE DEF s
  <2> QED BY <1>3, <1>b, <1>c, <2>1, <2>2, <2>3, Reads
<1>4. ASSUME NEW d \in {<<"stop">>, <<"ack">>, <<"pec">>}, PushAndRun(d) \/ Push(d),
             Move(i, [f EXCEPT !.sent = @ + 1], <<>>), bus' = bus
      PROVE  Turn(i)
  <2> DEFINE s == [f EXCEPT !.sent = @ + 1]
  <2>1. f.sent + 1 \in Nat
    BY <1>b
  <2>2. /\ s \in Fsm /\ s.state = f.state /\ s.proto = f.proto /\ s.left = f.left
        /\ s.expect = f.expect /\ s.got = f.got
    BY <1>a, <2>1 DEF Fsm
  <2>3. Move(i, s, <<>>)
    BY <1>4
  <2>4. ctl' \in Controller
    <3>1. <<"stop">> \in Seq(Descriptor) /\ <<"ack">> \in Seq(Descriptor)
           /\ <<"pec">> \in Seq(Descriptor)
      BY DEF Descriptor
    <3>2. d \in Seq(Descriptor)
      BY <1>4, <3>1
    <3> QED BY <1>4, <3>2, Pushes
  <2> HIDE DEF s
  <2> QED BY <1>4, <1>c, <2>2, <2>3, <2>4, Reads
<1>5. CASE FillRead(i) /\ bus' = bus
  BY <1>5, FillReadTurn
<1>6. CASE e = "ctl_done" /\ IF f.proto \in {"quick", "none"} THEN Stay(i) ELSE Finish(i, "ok")
  <2>1. InItsTurn(i) => cmd.stopped
    BY <1>6, Rest DEF InItsTurn, InTurn
  <2> QED BY <1>1, <1>6, <2>1 DEF Stay, Turn
<1>7. CASE e = "ctl_data"
  BY <1>2, <1>3, <1>7 DEF ControllerReadDone
<1>8. CASE e = "ctl_desc"
  BY <1>2, <1>4, <1>5, <1>8 DEF ControllerReadDone
<1> QED BY <1>6, <1>7, <1>8 DEF ControllerReadDone

------------------------------------------------------------------------------
(* What vSMBusFSM() makes of an event.                                     *)

LEMMA Handled ==
  ASSUME NEW i \in Inst, NEW e, StateHandler(i, e)
  PROVE  /\ fsm[i].state = "initial" => InitialTarget(i, e) \/ InitialController(i, e)
         /\ fsm[i].state = "command" => AwaitingCommandByte(i, e)
         /\ fsm[i].state = "block_size" => AwaitingBlockSize(i, e)
         /\ fsm[i].state = "data" => AwaitingData(i, e)
         /\ fsm[i].state = "read" => AwaitingRead(i, e)
         /\ fsm[i].state = "send" => ReadyToSendByte(i, e)
         /\ fsm[i].state = "pec" => CheckIfPECRequired(i, e)
         /\ fsm[i].state = "done" => AwaitingDone(i, e)
         /\ fsm[i].state = "ctl_command" => ControllerSendCommand(i, e)
         /\ fsm[i].state = "ctl_write" => ControllerWriteByte(i, e)
         /\ fsm[i].state = "ctl_start" => ControllerSendReadStart(i, e)
         /\ fsm[i].state = "ctl_size" => ControllerReadBlockSize(i, e)
         /\ fsm[i].state = "ctl_read" => ControllerReadByte(i, e)
         /\ fsm[i].state = "ctl_done" => ControllerReadDone(i, e)
<1>1. fsm[i].state = "initial" => InitialTarget(i, e) \/ InitialController(i, e)
  BY DEF StateHandler
<1>2. fsm[i].state = "command" => AwaitingCommandByte(i, e)
  BY DEF StateHandler
<1>3. fsm[i].state = "block_size" => AwaitingBlockSize(i, e)
  BY DEF StateHandler
<1>4. fsm[i].state = "data" => AwaitingData(i, e)
  BY DEF StateHandler
<1>5. fsm[i].state = "read" => AwaitingRead(i, e)
  BY DEF StateHandler
<1>6. fsm[i].state = "send" => ReadyToSendByte(i, e)
  BY DEF StateHandler
<1>7. fsm[i].state = "pec" => CheckIfPECRequired(i, e)
  BY DEF StateHandler
<1>8. fsm[i].state = "done" => AwaitingDone(i, e)
  BY DEF StateHandler
<1>9. fsm[i].state = "ctl_command" => ControllerSendCommand(i, e)
  BY DEF StateHandler
<1>10. fsm[i].state = "ctl_write" => ControllerWriteByte(i, e)
  BY DEF StateHandler
<1>11. fsm[i].state = "ctl_start" => ControllerSendReadStart(i, e)
  BY DEF StateHandler
<1>12. fsm[i].state = "ctl_size" => ControllerReadBlockSize(i, e)
  BY DEF StateHandler
<1>13. fsm[i].state = "ctl_read" => ControllerReadByte(i, e)
  BY DEF StateHandler
<1>14. fsm[i].state = "ctl_done" => ControllerReadDone(i, e)
  BY DEF StateHandler
<1> QED BY <1>1, <1>2, <1>3, <1>4, <1>5, <1>6, <1>7, <1>8, <1>9, <1>10, <1>11, <1>12, <1>13, <1>14

LEMMA Dispatched ==
  ASSUME TypeOK, NEW i \in Inst, queue[i] # <<>>, NEW e, e = Head(queue[i]), FSM(i, e)
  PROVE  \/ /\ Drop(i)
            /\ e = "tgt_error" \/ e \notin Expected[fsm[i].state] \cup {"ctl_error", "warning"}
         \/ Finish(i, "error")
         \/ e = "warning" /\ Stay(i)
         \/ fsm[i].state = "initial" /\ e \in {"write", "read"} /\ Outcome(i)
         \/ fsm[i].state \in TargetWork \ {"done"} /\ Outcome(i)
         \/ fsm[i].state = "done" /\ AwaitingDone(i, e) /\ Outcome(i)
         \/ fsm[i].state = "initial" /\ InitialController(i, e) /\ Turn(i)
         \/ fsm[i].state = "ctl_command" /\ ControllerSendCommand(i, e) /\ Turn(i)
         \/ fsm[i].state \in ControllerWork /\ Turn(i)
<1>1. CASE Warning(i, e) \/ TargetError(i, e) \/ ControllerError(i, e) \/ Unexpected(i, e)
  BY <1>1 DEF Warning, TargetError, ControllerError, Unexpected
<1>s. fsm[i].state \in State
  BY Parts, Updates
<1>2. CASE StateHandler(i, e)
  BY <1>2, <1>s, Names, Handled, InitialTargetOutcome, CommandByteOutcome, BlockSizeOutcome,
         DataOutcome,
     ReadOutcome, SendOutcome, PecOutcome, DoneOutcome, InitialControllerTurn, SendCommandTurn,
     WriteByteTurn, SendReadStartTurn, ReadBlockSizeTurn, ReadByteTurn, ReadDoneTurn
     DEF InitialTarget, TargetWork, ControllerWork
<1> QED BY <1>1, <1>2 DEF FSM

(* Within the types, whatever the handler.                                 *)
LEMMA Resets ==
  ASSUME TypeOK, NEW i \in Inst, queue[i] # <<>>, ResetAllData(i)
  PROVE  /\ fsm' \in [Inst -> Fsm] /\ queue' \in [Inst -> Seq(Event)]
         /\ ctl' \in Controller /\ bus' \in BusState
         /\ inPlay' \in Maybe /\ active' \in Maybe
         /\ fsm' = [fsm EXCEPT ![i] = Cleared] /\ queue' = [queue EXCEPT ![i] = Tail(queue[i])]
         /\ IF i = inPlay THEN inPlay' = NoInst ELSE inPlay' = inPlay /\ ctl' = ctl
<1>a. /\ fsm \in [Inst -> Fsm] /\ queue \in [Inst -> Seq(Event)] /\ ctl \in Controller
          /\ bus \in BusState
      /\ inPlay \in Maybe /\ active \in Maybe
  BY Parts DEF TypeOK, Fsm
<1>1. Cleared \in Fsm
  BY Names, Protocols DEF Fsm, Cleared
<1>2. Tail(queue[i]) \in Seq(Event)
  BY Rest
<1>3. ASSUME ResetController PROVE ctl' \in Controller
  BY <1>3, <1>a DEF ResetController, Controller
<1>4. [bus EXCEPT !.rx = 0] \in BusState
  BY <1>a, BusUpdates
<1> QED BY <1>a, <1>1, <1>2, <1>3, <1>4 DEF ResetAllData, Maybe

LEMMA Moves ==
  ASSUME TypeOK, NEW i \in Inst, queue[i] # <<>>, NEW s \in Fsm, NEW post \in Seq(Event),
         Move(i, s, post)
  PROVE  /\ fsm' \in [Inst -> Fsm] /\ queue' \in [Inst -> Seq(Event)]
         /\ fsm' = [fsm EXCEPT ![i] = s] /\ queue' = [queue EXCEPT ![i] = Tail(queue[i]) \o post]
         /\ fsm'[i] = s /\ queue'[i] = Tail(queue[i]) \o post
         /\ ToSet(queue'[i]) = ToSet(Tail(queue[i])) \cup ToSet(post)
         /\ inPlay' = inPlay /\ active' = active /\ cmd' = cmd
<1>1. fsm \in [Inst -> Fsm] /\ queue \in [Inst -> Seq(Event)]
  BY DEF TypeOK, Fsm
<1>2. Tail(queue[i]) \in Seq(Event)
  BY Rest
<1> DEFINE q == Tail(queue[i]) \o post
<1>3. q \in Seq(Event) /\ ToSet(q) = ToSet(Tail(queue[i])) \cup ToSet(post)
  BY ZenonT(30), <1>2, Concats
<1>4. fsm' = [fsm EXCEPT ![i] = s] /\ queue' = [queue EXCEPT ![i] = q]
  BY DEF Move
<1>5. inPlay' = inPlay /\ active' = active /\ cmd' = cmd
  BY DEF Move
<1> HIDE DEF q
<1>6. fsm' \in [Inst -> Fsm] /\ queue' \in [Inst -> Seq(Event)] /\ fsm'[i] = s /\ queue'[i] = q
  BY <1>1, <1>3, <1>4
<1> QED BY <1>3, <1>4, <1>5, <1>6 DEF q

(* A move within the types, or a reset.                                    *)
Goes1(i) ==
  \E s \in Fsm, post \in Seq(Event) :
    Move(i, s, post) /\ ctl' \in Controller /\ bus' \in BusState

LEMMA Shapes ==
  ASSUME TypeOK, NEW i \in Inst
  PROVE  /\ Outcome(i) => Goes1(i) \/ Drop(i) \/ \E r \in {"ok", "error"} : Finish(i, r)
         /\ Turn(i) => Goes1(i) \/ \E r \in {"ok", "error"} : Finish(i, r)
         /\ Stay(i) => Goes1(i)
<1>1. ctl \in Controller /\ bus \in BusState
  BY Parts
<1>2. Seq(TargetEvent) \subseteq Seq(Event) /\ {<<>>, <<"send_next">>} \subseteq Seq(Event)
  BY Singles DEF TargetEvent, Event
<1>3. Moved(i) => Goes1(i)
  BY <1>1, <1>2, Zenon DEF Moved, Goes1
<1>4. Worked(i) => Goes1(i)
  BY <1>1, <1>2, Zenon DEF Worked, Goes1
<1>5. Stay(i) => Goes1(i)
  <2>1. fsm[i] \in Fsm /\ <<>> \in Seq(Event)
    BY Parts, Singles
  <2> QED BY <1>1, <2>1 DEF Stay, Goes1
<1> QED BY <1>3, <1>4, <1>5 DEF Outcome, Turn

CommandRecord ==
  [inst : Maybe, id : Nat, told : {"none", "ok", "error"}, toldId : Nat, hit : BOOLEAN,
   stopped : BOOLEAN, lost : BOOLEAN]
Handler ==
  [phase : {"off", "targets", "controller"}, seen : SUBSET Bit, vec : SUBSET Bit, inst : Maybe]

LEMMA Announced ==
  ASSUME TypeOK, NEW i, NEW r \in {"ok", "error"}, AnnounceResult(i, r)
  PROVE  /\ cmd' \in CommandRecord /\ cmd'.inst = cmd.inst /\ cmd'.hit = cmd.hit
         /\ cmd'.stopped = cmd.stopped /\ (i # inPlay => cmd' = cmd)
         /\ i = inPlay /\ cmd.told = "none" => cmd'.told = r
BY DEF AnnounceResult, TypeOK, CommandRecord

LEMMA HandlerTypes ==
  ASSUME TypeOK, NEW i \in Inst, queue[i] # <<>>, FSM(i, Head(queue[i]))
  PROVE  /\ fsm' \in [Inst -> Fsm] /\ queue' \in [Inst -> Seq(Event)]
         /\ ctl' \in Controller /\ bus' \in BusState
         /\ inPlay' \in Maybe /\ active' \in Maybe /\ cmd' \in CommandRecord
<1>1. Goes1(i) \/ Drop(i) \/ \E r \in {"ok", "error"} : Finish(i, r)
  BY Dispatched, Shapes
<1>2. inPlay \in Maybe /\ active \in Maybe /\ cmd \in CommandRecord
  BY DEF TypeOK, CommandRecord
<1>3. CASE Goes1(i)
  BY <1>2, <1>3, Moves DEF Goes1
<1>4. CASE Drop(i)
  BY <1>2, <1>4, Resets DEF Drop
<1>5. CASE \E r \in {"ok", "error"} : Finish(i, r)
  BY <1>5, Resets, Announced DEF Finish
<1> QED BY <1>1, <1>3, <1>4, <1>5

(* The instance in play gets no event that its state has no case for.      *)
LEMMA Expectations ==
  ASSUME TypeOK, NEW i \in Inst, queue[i] # <<>>, InItsTurn(i)
  PROVE  LET e == Head(queue[i])
         IN /\ e \in Expected[fsm[i].state] \cup {"ctl_error", "warning"} /\ e # "tgt_error"
            /\ fsm[i].state \in {"initial", "ctl_command", "ctl_start"} => e = "send_next"
            /\ fsm[i].state = "done" => e \in {"ctl_error", "ctl_desc", "ctl_done", "warning"}
            /\ e # "send_next" => ~First(queue[i])
            /\ "ctl_done" = e => cmd.stopped
<1> DEFINE e == Head(queue[i])
<1>1. e \in ToSet(queue[i]) /\ (First(queue[i]) => e = "send_next")
  BY Rest
<1>2. /\ Expected["initial"] = {"write", "read", "send_next"}
          /\ Expected["ctl_command"] = {"send_next"}
      /\ Expected["ctl_write"] = {"send_next", "ctl_desc"} /\ Expected["ctl_start"] = {"send_next"}
      /\ Expected["ctl_size"] = {"ctl_desc", "ctl_data"}
      /\ Expected["ctl_read"] = {"ctl_desc", "ctl_done", "ctl_data"}
      /\ Expected["ctl_done"] = {"ctl_desc", "ctl_done", "ctl_data"}
      /\ {"ctl_desc", "ctl_done"} \subseteq Expected["done"]
  BY DEF Expected
<1> HIDE DEF e
<1>3. /\ e # "tgt_error" /\ ("ctl_done" = e => cmd.stopped)
      /\ fsm[i].state \in {"initial", "ctl_command", "ctl_start"} => e = "send_next"
      /\ fsm[i].state = "done" => e \in {"ctl_error", "ctl_desc", "ctl_done", "warning"}
      /\ fsm[i].state = "ctl_write" => e \in {"send_next", "ctl_error", "ctl_desc", "warning"}
      /\ fsm[i].state = "ctl_size" => e \in {"ctl_error", "ctl_desc", "ctl_data", "warning"}
      /\ fsm[i].state \in {"ctl_read", "ctl_done"} => e \in ControllerEvent
      /\ fsm[i].state \in {"initial", "ctl_command", "done"} \cup ControllerWork
  <2>1. queue[i] # <<>> /\ InTurn(fsm[i], queue[i], ToSet(ctl.desc), Coming, ctl.run = "on",
         cmd.stopped)
    BY DEF InItsTurn
  <2>2. e \in Event
    BY Rest DEF e
  <2>3. e \notin {"ctl_fault", "ctl_warn"}
    BY <2>2 DEF Event, TargetBit, ControllerBit
  <2> QED BY <1>1, <2>1, <2>3, Singles DEF InTurn, Early, ControllerEvent, ControllerBit
<1> QED BY <1>1, <1>2, <1>3 DEF e, ControllerWork, ControllerEvent, ControllerBit

LEMMA PlayHandled ==
  ASSUME TypeOK, NEW i \in Inst, queue[i] # <<>>, FSM(i, Head(queue[i])), InItsTurn(i)
  PROVE  \/ \E s \in Fsm, post \in Seq(Event) : Move(i, s, post) /\ Works(i, s, post)
         \/ Finish(i, "error")
         \/ Finish(i, "ok") /\ cmd.stopped /\ fsm[i].state \in {"done", "ctl_done"}
<1> DEFINE e == Head(queue[i])
<1>1. CASE Turn(i)
  <2>1. {<<>>, <<"send_next">>} \subseteq Seq(Event)
    BY Singles DEF Event
  <2> QED BY <1>1, <2>1 DEF Turn, Worked
<1>4. ASSUME Stay(i), e = "warning" \/ (e = "ctl_desc" /\ fsm[i].state = "done")
      PROVE  \E s \in Fsm, post \in Seq(Event) : Move(i, s, post) /\ Works(i, s, post)
  <2> DEFINE t == Tail(queue[i])
  <2>1. /\ t \o <<>> = t /\ ToSet(t) \subseteq ToSet(queue[i])
        /\ Ordinary(queue[i]) => Ordinary(t)
    BY Rest
  <2>2. fsm[i] \in Fsm /\ <<>> \in Seq(Event) /\ Move(i, fsm[i], <<>>) /\ ctl' = ctl
    BY <1>4, Parts, Singles DEF Stay
  <2>3. /\ fsm[i].state \notin {"initial", "ctl_command", "ctl_start"}
        /\ ~First(queue[i])
    BY <1>4, Expectations
  <2>4. InTurn(fsm[i], queue[i], ToSet(ctl.desc), Coming, ctl.run = "on", cmd.stopped)
    BY DEF InItsTurn
  <2>5. InTurn(fsm[i], t, ToSet(ctl.desc), Coming, ctl.run = "on", cmd.stopped)
    BY <2>1, <2>3, <2>4 DEF InTurn, ControllerWork
  <2> QED BY <2>1, <2>2, <2>5 DEF Works, Goes
<1>2. CASE fsm[i].state = "done" /\ AwaitingDone(i, e)
  <2>1. CASE e = "ctl_desc" /\ Stay(i)
    BY <1>2, <1>4, <2>1
  <2>2. CASE Finish(i, "ok") /\ e = "ctl_done"
    BY <1>2, <2>2, Expectations
  <2>3. CASE e = "warning" /\ Stay(i)
    BY <1>4, <2>3
  <2> QED BY <1>2, <2>1, <2>2, <2>3, Expectations DEF AwaitingDone
<1>3. fsm[i].state \notin TargetWork \ {"done"}
  BY DEF InItsTurn, InTurn, TargetWork, ControllerWork
<1> QED BY <1>1, <1>2, <1>3, <1>4, Dispatched, Expectations

(* An event without a command behind it gets no further than the state     *)
(* that waits for the command byte to be chosen.                           *)
LEMMA Strays ==
  ASSUME TypeOK, NEW i \in Inst, NEW e, fsm[i].proto = "none",
         \/ fsm[i].state = "initial" /\ InitialController(i, e)
         \/ fsm[i].state = "ctl_command" /\ ControllerSendCommand(i, e)
  PROVE  /\ \E s \in Fsm, post \in Seq(Event) : Move(i, s, post) /\ s.state = "ctl_command"
             /\ s.proto = "none"
         /\ e = "send_next"
<1> DEFINE s == [fsm[i] EXCEPT !.state = "ctl_command"]
<1>1. fsm[i] \in Fsm
  BY Parts
<1>2. s \in Fsm /\ s.state = "ctl_command" /\ s.proto = "none"
  BY <1>1, Names DEF Fsm
<1>3. <<>> \in Seq(Event) /\ <<"send_next">> \in Seq(Event)
  BY Singles DEF Event
<1>4. "none" \notin I2CProto \cup {"quick", "receive_byte", "send_byte", "process_call"}
                   \cup ReadProto \cup FixedWrite \cup BlockWrite
  BY DEF I2CProto, ReadProto, FixedWrite, BlockWrite
<1>5. CASE InitialController(i, e)
  <2>1. Move(i, s, <<"send_next">>) /\ e = "send_next"
    BY <1>4, <1>5 DEF InitialController
  <2> QED BY <1>2, <1>3, <2>1
<1>6. CASE ControllerSendCommand(i, e)
  <2>1. Move(i, s, <<>>) /\ e = "send_next"
    BY <1>4, <1>6 DEF ControllerSendCommand, Goto
  <2> QED BY <1>2, <1>3, <2>1
<1> QED BY <1>5, <1>6

LEMMA OtherHandled ==
  ASSUME TypeOK, NEW i \in Inst, i # inPlay, queue[i] # <<>>, FSM(i, Head(queue[i])), Target(i),
         inPlay \in Inst => ToSet(queue[i]) \subseteq TargetEvent
  PROVE  /\ inPlay' = inPlay /\ cmd' = cmd
         /\ \A j \in Inst \ {i} : fsm'[j] = fsm[j] /\ queue'[j] = queue[j]
         /\ Target(i)'
         /\ inPlay \in Inst => ctl' = ctl /\ ToSet(queue'[i]) \subseteq TargetEvent
<1> DEFINE e == Head(queue[i])
<1>1. /\ e \in ToSet(queue[i]) /\ ToSet(Tail(queue[i])) \subseteq ToSet(queue[i])
      /\ Tail(queue[i]) \in Seq(Event)
  BY Rest
<1>2. fsm \in [Inst -> Fsm] /\ queue \in [Inst -> Seq(Event)]
  BY DEF TypeOK, Fsm
<1>3. CASE ResetAllData(i) /\ (UNCHANGED cmd \/ \E r \in {"ok", "error"} : AnnounceResult(i, r))
  <2>1. /\ fsm' = [fsm EXCEPT ![i] = Cleared] /\ queue' = [queue EXCEPT ![i] = Tail(queue[i])]
        /\ inPlay' = inPlay /\ ctl' = ctl
    BY <1>3, Resets
  <2>2. cmd' = cmd
    BY <1>3, Announced
  <2>3. fsm'[i] = Cleared /\ queue'[i] = Tail(queue[i])
    BY <1>2, <2>1
  <2>4. Target(i)'
    BY <2>3 DEF Target, Whole, Cleared, ControllerWork
  <2>5. \A j \in Inst \ {i} : fsm'[j] = fsm[j] /\ queue'[j] = queue[j]
    BY <1>2, <2>1
  <2> QED BY <1>1, <2>1, <2>2, <2>3, <2>4, <2>5
<1>4. CASE Moved(i)
  <2>1. PICK s \in Fsm, post \in Seq(TargetEvent) :
          /\ Move(i, s, post)
          /\ s.state \in TargetWork /\ (Whole(i, fsm[i]) => Whole(i, s))
          /\ ctl' = ctl
    BY <1>4 DEF Moved
  <2>2. post \in Seq(Event) /\ ToSet(post) \subseteq TargetEvent
    <3>1. post \in Seq(Event)
      BY DEF TargetEvent, Event
    <3>2. ToSet(post) \subseteq TargetEvent
      BY DEF ToSet
    <3> QED BY <3>1, <3>2
  <2>3. /\ fsm' = [fsm EXCEPT ![i] = s] /\ queue' = [queue EXCEPT ![i] = Tail(queue[i]) \o post]
        /\ fsm'[i] = s /\ ToSet(queue'[i]) = ToSet(Tail(queue[i])) \cup ToSet(post)
        /\ inPlay' = inPlay /\ cmd' = cmd
    BY <2>1, <2>2, Moves
  <2>4. Target(i)'
    BY <2>1, <2>3 DEF Target, Whole, TargetWork, ControllerWork
  <2>5. \A j \in Inst \ {i} : fsm'[j] = fsm[j] /\ queue'[j] = queue[j]
    BY <1>2, <2>3
  <2> QED BY <1>1, <2>1, <2>2, <2>3, <2>4, <2>5
<1>5. CASE \/ fsm[i].state = "initial" /\ InitialController(i, e)
           \/ fsm[i].state = "ctl_command" /\ ControllerSendCommand(i, e)
  <2>1. fsm[i].proto = "none"
    BY <1>5 DEF Target
  <2>2. inPlay \notin Inst
    <3>1. e = "send_next"
      BY <1>5, <2>1, Strays
    <3> QED BY <1>1, <3>1 DEF TargetEvent, TargetBit
  <2>3. PICK s \in Fsm, post \in Seq(Event) : Move(i, s, post) /\ s.state = "ctl_command"
         /\ s.proto = "none"
    BY <1>5, <2>1, Strays
  <2>4. /\ fsm' = [fsm EXCEPT ![i] = s] /\ queue' = [queue EXCEPT ![i] = Tail(queue[i]) \o post]
        /\ fsm'[i] = s /\ inPlay' = inPlay /\ cmd' = cmd
    BY <2>3, Moves
  <2>5. Target(i)'
    BY <2>3, <2>4 DEF Target, Whole, ControllerWork
  <2>6. \A j \in Inst \ {i} : fsm'[j] = fsm[j] /\ queue'[j] = queue[j]
    BY <1>2, <2>4
  <2> QED BY <2>2, <2>4, <2>5, <2>6
<1>6. fsm[i].state \notin ControllerWork
  BY DEF Target
<1>7. Outcome(i) => Moved(i) \/ (ResetAllData(i)
       /\ (UNCHANGED cmd \/ \E r \in {"ok", "error"} : AnnounceResult(i, r)))
  BY DEF Outcome, Drop, Finish
<1>8. (Drop(i) \/ Finish(i, "error"))
        => ResetAllData(i) /\ (UNCHANGED cmd \/ \E r \in {"ok", "error"} : AnnounceResult(i, r))
  BY DEF Drop, Finish
<1>9. CASE Stay(i)
  <2>1. fsm[i] \in Fsm /\ <<>> \in Seq(Event) /\ Move(i, fsm[i], <<>>) /\ ctl' = ctl
    BY <1>2, <1>9, Singles DEF Stay
  <2>2. /\ fsm' = [fsm EXCEPT ![i] = fsm[i]]
        /\ queue' = [queue EXCEPT ![i] = Tail(queue[i]) \o <<>>]
        /\ fsm'[i] = fsm[i] /\ ToSet(queue'[i]) = ToSet(Tail(queue[i])) \cup ToSet(<<>>)
        /\ inPlay' = inPlay /\ cmd' = cmd
    BY <2>1, Moves
  <2>3. Target(i)'
    BY <2>2 DEF Target, Whole
  <2>4. \A j \in Inst \ {i} : fsm'[j] = fsm[j] /\ queue'[j] = queue[j]
    BY <1>2, <2>2
  <2> QED BY <1>1, <2>1, <2>2, <2>3, <2>4, Singles
<1> QED BY <1>3, <1>4, <1>5, <1>6, <1>7, <1>8, <1>9, Dispatched

------------------------------------------------------------------------------
(* The invariant is kept by each step.                                     *)

LEMMA EventKeeps ==
  ASSUME IInv, NEW i \in Inst, queue[i] # <<>>, FSM(i, Head(queue[i])), Draining,
         UNCHANGED <<txn, raw, ier, isr, app>>
  PROVE  IInv'
<1>a. TypeOK /\ Drained /\ Asking /\ Answering /\ Others /\ Play
  BY DEF IInv
<1>1. TypeOK'
  BY <1>a, HandlerTypes DEF TypeOK, Fsm, Controller, BusState, CommandRecord
<1>2. Drained'
  BY <1>a DEF Drained, Draining
<1>c. Coming' = Coming
  BY DEF Coming, Unseen
<1>q. inPlay \in Maybe /\ fsm \in [Inst -> Fsm] /\ queue \in [Inst -> Seq(Event)]
  BY <1>a DEF TypeOK, Fsm
<1>n. NoInst \notin Inst
  BY SMBusAssumption
<1>3. CASE i # inPlay
  <2>1. /\ inPlay' = inPlay /\ cmd' = cmd
        /\ \A j \in Inst \ {i} : fsm'[j] = fsm[j] /\ queue'[j] = queue[j]
        /\ Target(i)'
        /\ inPlay \in Inst => ctl' = ctl /\ ToSet(queue'[i]) \subseteq TargetEvent
    BY <1>a, <1>3, OtherHandled DEF Others
  <2>2. Asking' /\ Answering'
    BY <1>a, <2>1 DEF Asking, Answering, NoCommandForgotten, SuccessMeansDone
  <2>3. Others'
    <3> SUFFICES ASSUME NEW j \in Inst \ {inPlay}
                 PROVE  (inPlay \in Inst => ToSet(queue'[j]) \subseteq TargetEvent) /\ Target(j)'
      BY <2>1 DEF Others
    <3>1. CASE j = i
      BY <2>1, <3>1
    <3>2. CASE j # i
      BY <1>a, <2>1, <3>2 DEF Others, Target, Whole
    <3> QED BY <3>1, <3>2
  <2>4. Play'
    BY <1>a, <1>c, <1>3, <2>1 DEF Play, Playing
  <2> QED BY <1>1, <1>2, <2>2, <2>3, <2>4 DEF IInv
<1>4. CASE i = inPlay
  <2>1. Playing => InItsTurn(i)
    BY <1>a, <1>4 DEF Play, InItsTurn, Fresh
  <2>2. CASE \E s \in Fsm, post \in Seq(Event) : Move(i, s, post) /\ (Playing => Works(i, s, post))
    <3>1. PICK s \in Fsm, post \in Seq(Event) : Move(i, s, post) /\ (Playing => Works(i, s, post))
      BY <2>2
    <3>2. /\ fsm' = [fsm EXCEPT ![i] = s] /\ queue' = [queue EXCEPT ![i] = Tail(queue[i]) \o post]
          /\ fsm'[i] = s /\ queue'[i] = Tail(queue[i]) \o post
          /\ inPlay' = inPlay /\ cmd' = cmd
      BY <1>a, <3>1, Moves
    <3>3. \A j \in Inst \ {i} : fsm'[j] = fsm[j] /\ queue'[j] = queue[j]
      BY <1>q, <3>2
    <3>4. Asking' /\ Answering'
      BY <1>a, <3>2 DEF Asking, Answering, NoCommandForgotten, SuccessMeansDone
    <3>5. Others'
      BY <1>a, <1>4, <3>2, <3>3 DEF Others, Target, Whole
    <3>6. Play'
      <4> SUFFICES ASSUME Playing PROVE Play'
        BY <3>2 DEF Play, Playing
      <4>1. app.phase # "occupy"
        BY <1>a, <1>4 DEF Play, Fresh
      <4>2. Works(i, s, post)
        BY <3>1
      <4> QED BY <1>c, <1>4, <3>2, <4>1, <4>2 DEF Play, Works, Goes
    <3> QED BY <1>1, <1>2, <3>4, <3>5, <3>6 DEF IInv
  <2>3. CASE /\ ResetAllData(i) /\ cmd'.inst = cmd.inst /\ cmd'.hit = cmd.hit
             /\ cmd'.hit \/ (cmd'.told # "none" /\ (cmd'.told = "ok" => cmd'.stopped))
             /\ SuccessMeansDone'
    <3>1. /\ fsm' = [fsm EXCEPT ![i] = Cleared] /\ queue' = [queue EXCEPT ![i] = Tail(queue[i])]
          /\ inPlay' = NoInst
      BY <1>a, <1>4, <2>3, Resets
    <3>2. fsm'[i] = Cleared /\ \A j \in Inst \ {i} : fsm'[j] = fsm[j]
      BY <1>q, <3>1
    <3>3. Asking'
      BY <1>a, <2>3, <3>1 DEF Asking
    <3>4. Answering'
      BY <1>n, <2>3, <3>1 DEF Answering, NoCommandForgotten
    <3>5. Others'
      <4> SUFFICES ASSUME NEW j \in Inst PROVE Target(j)'
        BY <1>n, <3>1 DEF Others
      <4>1. CASE j = i
        BY <3>2, <4>1 DEF Target, Whole, Cleared, ControllerWork
      <4>2. CASE j # i
        BY <1>a, <1>4, <3>2, <4>2 DEF Others, Target, Whole
      <4> QED BY <4>1, <4>2
    <3>6. Play'
      BY <1>n, <3>1 DEF Play, Playing
    <3> QED BY <1>1, <1>2, <3>3, <3>4, <3>5, <3>6 DEF IInv
  <2>4. ASSUME NEW r \in {"ok", "error"}, Finish(i, r), Playing => r = "error" \/ cmd.stopped
        PROVE  IInv'
    <3>1. /\ cmd'.inst = cmd.inst /\ cmd'.hit = cmd.hit /\ cmd'.stopped = cmd.stopped
              /\ cmd'.told = r
      BY <1>a, <1>4, <2>4, Announced DEF Finish, Answering
    <3>2. cmd.hit \in BOOLEAN
      BY <1>a DEF TypeOK
    <3> QED BY <1>4, <2>3, <2>4, <3>1, <3>2 DEF Finish, Playing, SuccessMeansDone
  <2>5. CASE Playing
    BY <1>a, <2>1, <2>2, <2>4, <2>5, PlayHandled
  <2>6. CASE ~Playing
    <3>1. cmd.hit
      BY <1>4, <2>6 DEF Playing
    <3>2. Goes1(i) \/ Drop(i) \/ \E r \in {"ok", "error"} : Finish(i, r)
      BY <1>a, Dispatched, Shapes
    <3>3. CASE Drop(i)
      BY <1>a, <2>3, <3>1, <3>3 DEF Drop, Answering, SuccessMeansDone
    <3> QED BY <2>2, <2>4, <2>6, <3>2, <3>3 DEF Goes1
  <2> QED BY <2>5, <2>6
<1> QED BY <1>3, <1>4

LEMMA Orders ==
  ASSUME NEW S, NEW s \in Seq(S), NEW t \in Seq(S), Ordinary(s), Ordinary(t),
         "ctl_desc" \in ToSet(s) => ToSet(t) \subseteq {"ctl_done"}
  PROVE  Ordinary(s \o t)
<1> DEFINE r == s \o t
<1>1. /\ DOMAIN r = 1 .. Len(s) + Len(t)
      /\ DOMAIN s = 1 .. Len(s) /\ DOMAIN t = 1 .. Len(t) /\ Len(s) \in Nat /\ Len(t) \in Nat
      /\ \A i \in 1 .. Len(s) + Len(t) : r[i] = IF i <= Len(s) THEN s[i] ELSE t[i - Len(s)]
  BY ConcatProperties, LenProperties
<1> HIDE DEF r
<1> SUFFICES ASSUME NEW k \in 1 .. Len(s) + Len(t), NEW l \in 1 .. Len(s) + Len(t),
                    r[k] = "ctl_desc", k < l
             PROVE  r[l] = "ctl_done"
  BY <1>1 DEF Ordinary, r
<1>2. CASE l <= Len(s)
  <2>1. k \in 1 .. Len(s) /\ l \in 1 .. Len(s) /\ r[k] = s[k] /\ r[l] = s[l]
    BY <1>1, <1>2
  <2> QED BY <1>1, <2>1 DEF Ordinary
<1>3. CASE k > Len(s)
  <2>1. /\ k - Len(s) \in 1 .. Len(t) /\ l - Len(s) \in 1 .. Len(t) /\ k - Len(s) < l - Len(s)
        /\ r[k] = t[k - Len(s)] /\ r[l] = t[l - Len(s)]
    BY <1>1, <1>3
  <2> QED BY <1>1, <2>1 DEF Ordinary
<1>4. CASE k <= Len(s) /\ l > Len(s)
  <2>1. k \in 1 .. Len(s) /\ l - Len(s) \in 1 .. Len(t) /\ r[k] = s[k] /\ r[l] = t[l - Len(s)]
    BY <1>1, <1>4
  <2>2. s[k] \in ToSet(s) /\ t[l - Len(s)] \in ToSet(t)
    BY <1>1, <2>1 DEF ToSet
  <2> QED BY <2>1, <2>2
<1> QED BY <1>1, <1>2, <1>3, <1>4

(* The events of a vector: none without its bits, the end last.            *)
LEMMA Vectors ==
  ASSUME NEW vec
  PROVE  /\ TargetEvents(vec) \in Seq(TargetBit \cup {"warning"})
         /\ ControllerEvents(vec) \in Seq(ControllerEvent)
         /\ ToSet(ControllerEvents(vec))
              \subseteq {"warning", "ctl_error"} \cup (vec \cap ControllerBit)
         /\ vec \cap Source = {} => ControllerEvents(vec) = <<>>
         /\ Ordinary(ControllerEvents(vec))
<1>1. ASSUME NEW b, NEW e
      PROVE  /\ ToSet(If(b, vec, e)) \subseteq {e} /\ Ordinary(If(b, vec, e))
             /\ b \notin vec => If(b, vec, e) = <<>>
  BY Singles DEF If
<1>2. ASSUME NEW b, NEW S, NEW e \in S PROVE If(b, vec, e) \in Seq(S)
  BY Singles DEF If
<1>3. TargetEvents(vec) \in Seq(TargetBit \cup {"warning"})
  <2> DEFINE T == Seq(TargetBit \cup {"warning"})
  <2>1. \A s, t \in T : s \o t \in T
    BY Concats
  <2>2. /\ If("tgt_warn", vec, "warning") \in T /\ If("tgt_fault", vec, "tgt_error") \in T
        /\ If("line_fault", vec, "tgt_error") \in T /\ If("tgt_error", vec, "tgt_error") \in T
        /\ If("read", vec, "read") \in T /\ If("write", vec, "write") \in T
        /\ If("data", vec, "data") \in T /\ If("done", vec, "done") \in T
        /\ If("desc", vec, "desc") \in T
    BY <1>2 DEF TargetBit
  <2> HIDE DEF T
  <2>3. TargetEvents(vec) \in T
    BY <2>1, <2>2 DEF TargetEvents
  <2> QED BY <2>3 DEF T
<1> DEFINE w == If("ctl_warn", vec, "warning")
           f == If("ctl_fault", vec, "ctl_error")
           a == If("ctl_error", vec, "ctl_error")
           b == If("ctl_data", vec, "ctl_data")
           c == If("ctl_desc", vec, "ctl_desc")
           d == If("ctl_done", vec, "ctl_done")
           C == Seq(ControllerEvent)
           Kept(s, bits) == s \in C /\ Ordinary(s) /\ ToSet(s) \subseteq bits
<1>4. w \in C /\ f \in C /\ a \in C /\ b \in C /\ c \in C /\ d \in C
  BY <1>2 DEF ControllerEvent, ControllerBit
<1>5. /\ Kept(w, {"warning"}) /\ Kept(f, {"ctl_error"}) /\ Kept(a, {"ctl_error"})
      /\ Kept(b, vec \cap {"ctl_data"}) /\ Kept(c, vec \cap {"ctl_desc"})
      /\ Kept(d, vec \cap {"ctl_done"})
  <2>1. /\ ToSet(b) \subseteq vec \cap {"ctl_data"} /\ ToSet(c) \subseteq vec \cap {"ctl_desc"}
        /\ ToSet(d) \subseteq vec \cap {"ctl_done"}
    BY Singles DEF If
  <2> HIDE DEF w, f, a, b, c, d, C
  <2>2. /\ ToSet(w) \subseteq {"warning"} /\ Ordinary(w)
        /\ ToSet(f) \subseteq {"ctl_error"} /\ Ordinary(f)
        /\ ToSet(a) \subseteq {"ctl_error"} /\ Ordinary(a)
        /\ Ordinary(b) /\ Ordinary(c) /\ Ordinary(d)
    BY <1>1 DEF w, f, a, b, c, d
  <2> QED BY <1>4, <2>1, <2>2
<1>6. ControllerEvents(vec) = w \o f \o a \o b \o c \o d
  BY DEF ControllerEvents
<1>7. vec \cap Source = {} => ControllerEvents(vec) = <<>>
  <2> SUFFICES ASSUME vec \cap Source = {} PROVE ControllerEvents(vec) = <<>>
    OBVIOUS
  <2>1. w = <<>> /\ f = <<>> /\ a = <<>> /\ b = <<>> /\ c = <<>> /\ d = <<>>
    BY DEF Source, ControllerBit, If
  <2> HIDE DEF w, f, a, b, c, d
  <2>2. <<>> \o <<>> = <<>>
    OBVIOUS
  <2> QED BY <1>6, <2>1, <2>2
<1> HIDE DEF w, f, a, b, c, d
<1>8. ASSUME NEW s, NEW t, NEW S, NEW T, Kept(s, S), Kept(t, T),
             "ctl_desc" \notin S \/ T \subseteq {"ctl_done"}
      PROVE  Kept(s \o t, S \cup T)
  <2>1. s \o t \in C /\ ToSet(s \o t) = ToSet(s) \cup ToSet(t)
    BY <1>8, Concats
  <2>2. Ordinary(s \o t)
    BY <1>8, Orders
  <2> QED BY <1>8, <2>1, <2>2
<1> DEFINE B == {"warning", "ctl_error"}
<1> HIDE DEF Kept
<1>9. Kept(w \o f, B)
  BY <1>5, <1>8
<1>10. Kept(w \o f \o a, B)
  <2>1. B \cup {"ctl_error"} = B /\ "ctl_desc" \notin B
    OBVIOUS
  <2> QED BY <1>5, <1>8, <1>9, <2>1
<1>11. Kept(w \o f \o a \o b, B \cup (vec \cap {"ctl_data"}))
  <2>1. "ctl_desc" \notin B
    OBVIOUS
  <2> QED BY <1>5, <1>8, <1>10, <2>1
<1>12. Kept(w \o f \o a \o b \o c, B \cup (vec \cap {"ctl_data"}) \cup (vec \cap {"ctl_desc"}))
  <2>1. "ctl_desc" \notin B \cup (vec \cap {"ctl_data"})
    OBVIOUS
  <2> HIDE DEF B
  <2> QED BY <1>5, <1>8, <1>11, <2>1
<1>13. Kept(w \o f \o a \o b \o c \o d,
            B \cup (vec \cap {"ctl_data"}) \cup (vec \cap {"ctl_desc"}) \cup (vec \cap {"ctl_done"}))
  <2> HIDE DEF B
  <2> QED BY <1>5, <1>8, <1>12
<1>14. B \cup (vec \cap {"ctl_data"}) \cup (vec \cap {"ctl_desc"}) \cup (vec \cap {"ctl_done"})
         \subseteq {"warning", "ctl_error"} \cup (vec \cap ControllerBit)
  BY DEF ControllerBit
<1> QED BY <1>3, <1>6, <1>7, <1>13, <1>14 DEF Kept

(* What posting does to the task's step at a slot of the queue.            *)
LEMMA Tearing ==
  ASSUME Asking, NEW i, NEW events, Post(i, events)
  PROVE  /\ app'.phase = app.phase /\ app'.inst = app.inst /\ app'.c = app.c
         /\ app'.torn \in BOOLEAN
         /\ app'.torn <=> app.torn \/ (app.phase = "occupy" /\ i = app.inst /\ events # <<>>)
         /\ app' = [phase |-> app'.phase, inst |-> app'.inst, c |-> app'.c, torn |-> app'.torn]
<1>1. app = [phase |-> app.phase, inst |-> app.inst, c |-> app.c, torn |-> app.torn]
       /\ app.torn \in BOOLEAN
  BY DEF Asking
<1> DEFINE torn == app.torn \/ (app.phase = "occupy" /\ i = app.inst /\ events # <<>>)
<1>2. app' = [app EXCEPT !.torn = torn] /\ torn \in BOOLEAN
  BY DEF Post
<1> HIDE DEF torn
<1>3. app' = [phase |-> app.phase, inst |-> app.inst, c |-> app.c, torn |-> torn]
  BY <1>1, <1>2
<1> QED BY <1>2, <1>3 DEF torn

LEMMA IsrTargetsKeeps ==
  ASSUME IInv, IsrTargets
  PROVE  IInv'
<1>a. TypeOK /\ Drained /\ Asking /\ Answering /\ Others /\ Play
  BY DEF IInv
<1>n. NoInst \notin Inst
  BY SMBusAssumption
<1> DEFINE tgt == IF Vector \cap {"read", "write"} # {} THEN bus.to ELSE active
<1>b. /\ isr.phase = "off"
      /\ isr' = [phase |-> "targets", seen |-> raw, vec |-> Vector, inst |-> NoInst]
      /\ UNCHANGED <<fsm, inPlay, txn, ctl, raw, ier>>
  BY DEF IsrTargets
<1>s. isr.seen = {}
  BY <1>a, <1>b DEF Drained
<1>v. Vector \subseteq raw /\ raw \subseteq Bit
  BY <1>a DEF Vector, TypeOK
<1>c. Coming' \subseteq Coming
  BY <1>b, <1>s, <1>v DEF Coming, Unseen
<1>i. isr' \in Handler
  BY <1>b, <1>v DEF Handler, Maybe
<1>t. tgt \in Maybe
  BY <1>a DEF TypeOK
<1>1. \/ UNCHANGED <<queue, active, bus, app, cmd>>
      \/ active' = tgt /\ tgt \in Inst /\ Post(tgt, TargetEvents(Vector)) /\ UNCHANGED bus
         /\ cmd' = [cmd EXCEPT !.hit = @ \/ tgt = inPlay]
      \/ active' = tgt /\ bus' = [bus EXCEPT !.rx = 0] /\ UNCHANGED <<queue, app, cmd>>
  BY Zenon DEF IsrTargets
<1> HIDE DEF tgt
<1>d. Drained'
  BY <1>b DEF Drained
<1>2. ASSUME UNCHANGED <<queue, app, cmd>>, active' \in Maybe, bus' \in BusState
      PROVE  IInv'
  <2>1. TypeOK'
    BY <1>a, <1>b, <1>i, <1>2, SMTT(30) DEF TypeOK, BusState, Handler
  <2>2. Asking' /\ Answering' /\ Others'
    BY <1>a, <1>b, <1>2 DEF Asking, Answering, NoCommandForgotten, SuccessMeansDone, Others,
           Target, Whole
  <2>3. Play'
    BY <1>a, <1>b, <1>c, <1>2 DEF Play, Playing, Fresh, InTurn
  <2> QED BY <1>d, <2>1, <2>2, <2>3 DEF IInv
<1>3. CASE /\ active' = tgt /\ tgt \in Inst /\ Post(tgt, TargetEvents(Vector)) /\ UNCHANGED bus
           /\ cmd' = [cmd EXCEPT !.hit = @ \/ tgt = inPlay]
  <2> DEFINE events == TargetEvents(Vector)
  <2>1. events \in Seq(Event) /\ ToSet(events) \subseteq TargetBit \cup {"warning"}
    <3>1. events \in Seq(TargetBit \cup {"warning"})
      BY Vectors
    <3> HIDE DEF events
    <3> QED BY <3>1 DEF Event, ToSet
  <2>p. queue' = [queue EXCEPT ![tgt] = @ \o events]
    BY <1>3 DEF Post
  <2> HIDE DEF events
  <2>q. queue \in [Inst -> Seq(Event)]
    BY <1>a DEF TypeOK
  <2>2. /\ queue' \in [Inst -> Seq(Event)] /\ queue'[tgt] = queue[tgt] \o events
        /\ ToSet(queue'[tgt]) = ToSet(queue[tgt]) \cup ToSet(events)
        /\ \A j \in Inst \ {tgt} : queue'[j] = queue[j]
    BY <1>3, <2>1, <2>p, <2>q, Concats
  <2>r. /\ app'.phase = app.phase /\ app'.inst = app.inst /\ app'.c = app.c
        /\ app'.torn \in BOOLEAN /\ (app'.torn => app.torn \/ tgt = app.inst)
        /\ app' = [phase |-> app'.phase, inst |-> app'.inst, c |-> app'.c, torn |-> app'.torn]
        /\ app'.torn => app.torn \/ app.phase = "occupy"
    BY <1>a, <1>3, Tearing
  <2>3. /\ cmd' \in CommandRecord /\ cmd'.inst = cmd.inst /\ cmd'.told = cmd.told
        /\ cmd'.stopped = cmd.stopped /\ (cmd.hit \/ tgt = inPlay <=> cmd'.hit)
    <3>1. cmd \in CommandRecord /\ (cmd.hit \/ tgt = inPlay) \in BOOLEAN
      BY <1>a DEF TypeOK, CommandRecord
    <3> QED BY <1>3, <3>1 DEF CommandRecord
  <2>4. TypeOK'
    <3>1. app'.phase = app.phase /\ app'.inst = app.inst
      BY <2>r
    <3> QED BY <1>a, <1>b, <1>i, <1>t, <1>3, <2>2, <2>3, <3>1
            DEF TypeOK, Maybe, CommandRecord, Handler
  <2>5. Asking'
    <3>1. inPlay' = inPlay /\ inPlay \in Maybe /\ tgt \in Inst
      BY <1>a, <1>b, <1>3 DEF TypeOK
    <3>2. ASSUME app'.phase = "start" PROVE app'.c \in Command /\ inPlay' = NoInst /\ ~app'.torn
      BY <1>a, <2>r, <3>1, <3>2 DEF Asking
    <3>3. ASSUME app'.phase = "occupy", app'.torn, inPlay' # NoInst PROVE cmd'.hit
      <4>1. inPlay \in Inst /\ app.inst = cmd.inst /\ cmd.inst = inPlay /\ (app.torn => cmd.hit)
        BY <1>a, <2>r, <3>1, <3>3 DEF Asking, Answering, Maybe
      <4> QED BY <2>3, <2>r, <3>3, <4>1
    <3> QED BY <1>a, <2>3, <2>r, <3>2, <3>3 DEF Asking
  <2>6. Answering'
    BY <1>a, <1>b, <2>3 DEF Answering, NoCommandForgotten, SuccessMeansDone
  <2>7. Others'
    BY <1>a, <1>b, <2>1, <2>2 DEF Others, Target, Whole, TargetEvent
  <2>8. Play'
    <3>1. ASSUME Playing' PROVE Playing /\ queue'[inPlay] = queue[inPlay] /\ app'.phase = app.phase
      BY <1>b, <2>2, <2>3, <2>r, <3>1 DEF Playing
    <3> QED BY <1>a, <1>b, <1>c, <2>3, <3>1 DEF Play, Playing, Fresh, InTurn
  <2> QED BY <1>d, <2>4, <2>5, <2>6, <2>7, <2>8 DEF IInv
<1>4. bus \in BusState /\ [bus EXCEPT !.rx = 0] \in BusState /\ active \in Maybe
  BY <1>a, BusUpdates DEF TypeOK, BusState
<1> QED BY <1>1, <1>2, <1>3, <1>4, <1>t

LEMMA IsrControllerKeeps ==
  ASSUME IInv, IsrController
  PROVE  IInv'
<1>a. TypeOK /\ Drained /\ Asking /\ Answering /\ Others /\ Play
  BY DEF IInv
<1>n. NoInst \notin Inst
  BY SMBusAssumption
<1>b. /\ isr.phase = "targets" /\ Pending = {} /\ isr'.phase = "controller"
      /\ isr' \in Handler /\ isr'.seen = isr.seen
      /\ UNCHANGED <<fsm, inPlay, active, txn, bus, raw, ier, cmd>>
  BY <1>a, ZenonT(30) DEF IsrController, TypeOK, Handler
<1>c. Coming' = Unseen \cap Source /\ Coming = (Unseen \cup isr.vec) \cap Source
  BY <1>b DEF Coming, Unseen
<1>d. Drained'
  BY <1>b DEF Drained
<1>e. Answering'
  BY <1>a, <1>b DEF Answering, NoCommandForgotten, SuccessMeansDone
<1>1. CASE UNCHANGED <<queue, ctl, app>>
  <2>1. TypeOK'
    BY <1>a, <1>b, <1>1 DEF TypeOK, Handler
  <2>2. Others' /\ Play' /\ Asking'
    BY <1>a, <1>b, <1>c, <1>1 DEF Others, Target, Whole, Play, Playing, Fresh, InTurn, Asking
  <2> QED BY <1>d, <1>e, <2>1, <2>2 DEF IInv
<1>2. CASE inPlay \in Inst /\ Post(inPlay, ControllerEvents(isr.vec)) /\ UNCHANGED ctl
  <2> DEFINE events == ControllerEvents(isr.vec)
  <2>1. /\ events \in Seq(Event) /\ Ordinary(events) /\ ToSet(events) \subseteq ControllerEvent
        /\ ToSet(events) \subseteq {"warning", "ctl_error"} \cup (isr.vec \cap ControllerBit)
        /\ isr.vec \cap Source = {} => events = <<>>
    <3>1. /\ events \in Seq(ControllerEvent) /\ Ordinary(events)
          /\ ToSet(events) \subseteq {"warning", "ctl_error"} \cup (isr.vec \cap ControllerBit)
          /\ isr.vec \cap Source = {} => events = <<>>
      BY Vectors
    <3> HIDE DEF events
    <3>2. events \in Seq(Event)
      BY <3>1 DEF Event, ControllerEvent
    <3>3. ToSet(events) \subseteq ControllerEvent
      BY <3>1 DEF ControllerEvent, ControllerBit
    <3> QED BY <3>1, <3>2, <3>3
  <2>2. queue[inPlay] = <<>> /\ queue \in [Inst -> Seq(Event)]
    BY <1>a, <1>b, <1>2 DEF Pending, TypeOK
  <2>3. queue' = [queue EXCEPT ![inPlay] = queue[inPlay] \o events]
    BY <1>2 DEF Post
  <2>r. /\ app'.phase = app.phase /\ app'.inst = app.inst /\ app'.c = app.c
        /\ app'.torn \in BOOLEAN
        /\ app' = [phase |-> app'.phase, inst |-> app'.inst, c |-> app'.c, torn |-> app'.torn]
        /\ app'.torn => app.torn \/ (app.phase = "occupy" /\ events # <<>>)
    BY <1>a, <1>2, Tearing
  <2> HIDE DEF events
  <2>4. queue[inPlay] \o events = events
    BY <2>1, <2>2, ConcatEmptySeq
  <2>5. /\ queue' \in [Inst -> Seq(Event)] /\ queue'[inPlay] = events
        /\ \A j \in Inst \ {inPlay} : queue'[j] = queue[j]
    BY <1>2, <2>1, <2>2, <2>3, <2>4
  <2>6. TypeOK'
    BY <1>a, <1>b, <1>2, <2>5, <2>r DEF TypeOK, Handler
  <2>7. Others'
    BY <1>a, <1>b, <2>5 DEF Others, Target, Whole
  <2>a. app.phase = "occupy" /\ events # <<>> => cmd.hit
    BY <1>a, <1>2, <1>c, <2>1 DEF Play, Playing, Fresh
  <2>9. Asking'
    <3>1. ASSUME app'.phase = "start" PROVE app'.c \in Command /\ inPlay' = NoInst /\ ~app'.torn
      BY <1>a, <1>b, <2>r, <3>1 DEF Asking
    <3>2. ASSUME app'.phase = "occupy", app'.torn PROVE cmd'.hit \/ inPlay' = NoInst
      BY <1>a, <1>b, <2>r, <2>a, <3>2 DEF Asking
    <3> QED BY <1>a, <1>b, <2>r, <3>1, <3>2 DEF Asking
  <2>8. Play'
    <3> SUFFICES ASSUME Playing PROVE Play'
      BY <1>b DEF Play, Playing
    <3>1. CASE app.phase = "occupy"
      <4>1. events = <<>>
        BY <2>a, <3>1 DEF Playing
      <4> QED BY <1>a, <1>b, <1>c, <1>2, <2>2, <2>5, <2>r, <3>1, <4>1 DEF Play, Playing, Fresh
    <3>2. CASE app.phase # "occupy"
      <4>1. InTurn(fsm[inPlay], <<>>, ToSet(ctl.desc), Coming, ctl.run = "on", cmd.stopped)
        BY <1>a, <2>2, <3>2 DEF Play
      <4>2. ~First(<<>>)
        BY Singles DEF First
      <4>3. /\ ToSet(events) \subseteq {"warning", "ctl_error"} \cup Coming
                /\ Coming' \subseteq Coming
            /\ Coming = {} => events = <<>>
        BY <1>c, <2>1 DEF Source
      <4>4. InTurn(fsm[inPlay], events, ToSet(ctl.desc), Coming', ctl.run = "on", cmd.stopped)
        BY <2>1, <4>1, <4>2, <4>3, Singles DEF InTurn, ControllerWork, Early
      <4> QED BY <1>b, <1>2, <2>5, <2>r, <3>2, <4>4 DEF Play, Playing
    <3> QED BY <3>1, <3>2
  <2> QED BY <1>d, <1>e, <2>6, <2>7, <2>8, <2>9 DEF IInv
<1>3. CASE inPlay \notin Inst /\ ResetController /\ UNCHANGED <<queue, app>>
  <2>1. ctl' \in Controller
    BY <1>a, <1>3, Parts DEF ResetController, Controller, TypeOK
  <2>2. TypeOK'
    BY <1>a, <1>b, <1>3, <2>1 DEF TypeOK, Controller, Handler
  <2>3. Others' /\ Play' /\ Asking'
    BY <1>a, <1>b, <1>3 DEF Others, Target, Whole, Play, Playing, Asking
  <2> QED BY <1>d, <1>e, <2>2, <2>3 DEF IInv
<1> QED BY <1>1, <1>2, <1>3 DEF IsrController

LEMMA IsrExitKeeps ==
  ASSUME IInv, IsrExit
  PROVE  IInv'
<1>a. TypeOK /\ Drained /\ Asking /\ Answering /\ Others /\ Play
  BY DEF IInv
<1>b. /\ isr.phase = "controller" /\ Pending = {} /\ isr' = NoIsr
      /\ raw' = raw \ isr.seen
      /\ ier' = (ier /\ ~("ctl_done" \in isr.vec /\ isr.inst \in Inst))
      /\ UNCHANGED <<fsm, queue, inPlay, active, txn, ctl, bus, app, cmd>>
  BY DEF IsrExit
<1>1. ier' \in BOOLEAN
  BY <1>b
<1>2. isr' \in Handler
  BY <1>b DEF Handler, Maybe, NoIsr
<1>3. TypeOK'
  BY <1>a, <1>b, <1>1, <1>2, SMTT(30) DEF TypeOK, Handler
<1>4. Coming' = Coming
  BY <1>b DEF Coming, Unseen, NoIsr
<1>5. Drained' /\ Asking' /\ Answering' /\ Others'
  BY <1>a, <1>b DEF Drained, Pending, NoIsr, Asking, Answering, NoCommandForgotten,
                    SuccessMeansDone, Others, Target, Whole
<1>6. Play'
  BY <1>a, <1>b, <1>4 DEF Play, Playing, Fresh, InTurn
<1> QED BY <1>3, <1>5, <1>6 DEF IInv

(* A step of the task that leaves the instances alone.                     *)
LEMMA TaskKeeps ==
  ASSUME IInv, AppMask \/ AppEnable \/ \E i \in Starter, c \in Command : AppCheck(i, c)
  PROVE  IInv'
<1>a. TypeOK /\ Drained /\ Asking /\ Answering /\ Others /\ Play
  BY DEF IInv
<1>b. UNCHANGED <<fsm, queue, inPlay, active, txn, ctl, bus, raw, isr, cmd>> /\ ier' \in BOOLEAN
  BY <1>a DEF AppMask, AppEnable, AppCheck, TypeOK
<1>1. /\ app' = [phase |-> app'.phase, inst |-> app'.inst, c |-> app'.c, torn |-> app'.torn]
      /\ app'.torn \in BOOLEAN /\ app'.inst \in Maybe
      /\ app'.phase \in {"idle", "start", "drain"} /\ app.phase # "occupy"
      /\ app'.phase # "idle" => app'.inst \in Inst
      /\ app'.phase = "start" => app'.c \in Command /\ inPlay = NoInst /\ ~app'.torn
             /\ app.phase = "idle"
      /\ app'.phase = "idle" => Pending = {}
  <2>1. CASE AppMask
    <3>1. app = [phase |-> app.phase, inst |-> app.inst, c |-> app.c, torn |-> app.torn]
      BY <1>a DEF Asking
    <3>2. app' = [phase |-> "drain", inst |-> app.inst, c |-> app.c, torn |-> app.torn]
           /\ app.phase = "posted"
      BY <2>1, <3>1 DEF AppMask
    <3> QED BY <1>a, <3>2 DEF Asking, TypeOK
  <2>2. CASE AppEnable
    BY <2>2 DEF AppEnable, Idle, Maybe
  <2>3. CASE \E i \in Starter, c \in Command : AppCheck(i, c)
    <3>1. PICK i \in Starter, c \in Command : AppCheck(i, c)
      BY <2>3
    <3>2. /\ app' = [phase |-> "start", inst |-> i, c |-> c, torn |-> FALSE] /\ i \in Inst
          /\ inPlay = NoInst /\ app.phase = "idle"
      BY <3>1, SMBusAssumption DEF AppCheck
    <3> QED BY <3>2 DEF Maybe
  <2> QED BY <2>1, <2>2, <2>3
<1>2. TypeOK'
  <2>1. app'.phase \in {"idle", "start", "occupy", "posted", "drain"} /\ app'.inst \in Maybe
    BY <1>1
  <2> QED BY <1>a, <1>b, <2>1 DEF TypeOK
<1>3. Coming' = Coming /\ Pending' = Pending
  BY <1>b DEF Coming, Unseen, Pending
<1>4. Drained' /\ Asking' /\ Answering' /\ Others'
  BY <1>a, <1>b, <1>1, <1>3 DEF Drained, Asking, Answering, NoCommandForgotten, SuccessMeansDone,
                    Others, Target, Whole
<1>5. Play'
  BY <1>a, <1>b, <1>1, <1>3 DEF Play, Playing, Fresh, InTurn
<1> QED BY <1>2, <1>4, <1>5 DEF IInv

LEMMA AppStartKeeps ==
  ASSUME IInv, AppStart
  PROVE  IInv'
<1>a. TypeOK /\ Drained /\ Asking /\ Answering /\ Others /\ Play
  BY DEF IInv
<1>n. NoInst \notin Inst
  BY SMBusAssumption
<1> DEFINE i == app.inst
           c == app.c
<1>b. /\ isr.phase = "off" /\ app.phase = "start" /\ txn' = txn + 1 /\ inPlay' = i
      /\ ResetController /\ app' = [app EXCEPT !.phase = "occupy"]
      /\ UNCHANGED <<queue, active, bus, raw, ier, isr>>
  BY DEF AppStart, TaskRuns
<1>1. /\ i \in Inst /\ c \in Command /\ inPlay = NoInst /\ ~app.torn /\ Pending = {}
      /\ fsm \in [Inst -> Fsm] /\ fsm[i] \in Fsm
  BY <1>a, <1>b, Parts DEF Asking, Drained, TypeOK, Fsm
<1>2. /\ app'.phase = "occupy" /\ app'.inst = i /\ ~app'.torn /\ app'.torn \in BOOLEAN
      /\ app' = [phase |-> app'.phase, inst |-> app'.inst, c |-> app'.c, torn |-> app'.torn]
  <2>1. app = [phase |-> app.phase, inst |-> app.inst, c |-> app.c, torn |-> app.torn]
    BY <1>a DEF Asking
  <2>2. app' = [phase |-> "occupy", inst |-> app.inst, c |-> app.c, torn |-> app.torn]
    BY <1>b, <2>1
  <2> QED BY <1>a, <1>1, <2>2 DEF Asking
<1>3. /\ c.proto \in Proto /\ c.send \in Nat /\ c.expect \in Nat /\ c.pec \in BOOLEAN
  BY <1>1, SMBusAssumption
<1> DEFINE s == [fsm[i] EXCEPT !.proto = c.proto, !.left = c.send, !.pec = c.pec,
                               !.expect = IF c.proto \in I2CProto THEN c.expect ELSE @]
<1>4. s \in Fsm /\ s.state = fsm[i].state
  BY <1>1, <1>3 DEF Fsm
<1>5. fsm' = [fsm EXCEPT ![i] = s]
  BY <1>1 DEF AppStart
<1>6. /\ cmd' = [NoCmd EXCEPT !.inst = i, !.id = txn,
                              !.hit = fsm[i].state # "initial" \/ active = i \/ Leftover]
  BY DEF AppStart
<1> HIDE DEF s
<1>7. fsm' \in [Inst -> Fsm] /\ fsm'[i] = s /\ \A j \in Inst \ {i} : fsm'[j] = fsm[j]
  BY <1>1, <1>4, <1>5
<1>8. /\ cmd' \in CommandRecord /\ cmd'.inst = i /\ cmd'.told = "none"
      /\ ~cmd'.hit => fsm[i].state = "initial" /\ ~Leftover
  <2> DEFINE h == fsm[i].state # "initial" \/ active = i \/ Leftover
  <2>1. cmd' = [NoCmd EXCEPT !.inst = i, !.id = txn, !.hit = h]
    BY <1>6
  <2>0. h \in BOOLEAN
    OBVIOUS
  <2> HIDE DEF h, i
  <2>2. txn \in Nat
    BY <1>a DEF TypeOK
  <2>3. cmd' = [inst |-> i, id |-> txn, told |-> "none", toldId |-> 0, hit |-> h, stopped |-> FALSE,
               lost |-> FALSE]
    BY <2>1 DEF NoCmd
  <2>4. cmd' \in CommandRecord /\ cmd'.inst = i /\ cmd'.told = "none" /\ cmd'.hit = h
    <3>1. i \in Maybe
      BY <1>1 DEF Maybe
    <3> QED BY <2>0, <2>2, <2>3, <3>1 DEF CommandRecord
  <2> QED BY <2>4 DEF h, i
<1>9. ctl' \in Controller /\ ctl'.desc = <<>> /\ (ctl.run # "on" => ctl'.run # "on")
  <2>1. ctl' = [desc |-> <<>>, rx |-> 0, run |-> IF ctl.run = "halted" THEN "off" ELSE ctl.run]
    BY <1>b DEF ResetController
  <2>2. ctl.run \in {"off", "on", "halted"}
    BY <1>a DEF TypeOK
  <2> QED BY <2>1, <2>2 DEF Controller
<1>10. TypeOK'
  <2>1. txn' \in Nat
    BY <1>a, <1>b DEF TypeOK
  <2> QED BY <1>a, <1>b, <1>1, <1>2, <1>7, <1>8, <1>9, <2>1
         DEF TypeOK, Fsm, Controller, CommandRecord, Maybe
<1>11. Drained' /\ Asking'
  BY <1>a, <1>b, <1>1, <1>2, <1>8 DEF Drained, Pending, Asking
<1>12. Answering'
  BY <1>b, <1>8 DEF Answering, NoCommandForgotten, SuccessMeansDone
<1>13. \A j \in Inst : queue'[j] = <<>>
  BY <1>b, <1>1 DEF Pending
<1>14. Others'
  <2> SUFFICES ASSUME NEW j \in Inst \ {i} PROVE ToSet(queue'[j]) \subseteq TargetEvent
         /\ Target(j)'
    BY <1>b DEF Others
  <2> QED BY <1>a, <1>n, <1>1, <1>7, <1>13, Singles DEF Others, Target, Whole
<1>15. Play'
  <2> SUFFICES ASSUME ~cmd'.hit
               PROVE  Fresh(fsm'[i], queue'[i], ToSet(ctl'.desc), Coming', ctl'.run = "on")
    BY <1>b, <1>2 DEF Play, Playing
  <2>1. s.state = "initial" /\ ctl'.run # "on" /\ raw \cap Source = {}
    BY <1>4, <1>8, <1>9 DEF Leftover, Source
  <2>2. Coming' = {}
    BY <1>b, <2>1 DEF Coming, Unseen
  <2> QED BY <1>1, <1>7, <1>9, <1>13, <2>1, <2>2, Singles DEF Fresh
<1> QED BY <1>10, <1>11, <1>12, <1>14, <1>15 DEF IInv

LEMMA AppPostKeeps ==
  ASSUME IInv, AppPost
  PROVE  IInv'
<1>a. TypeOK /\ Drained /\ Asking /\ Answering /\ Others /\ Play
  BY DEF IInv
<1>n. NoInst \notin Inst
  BY SMBusAssumption
<1> DEFINE i == app.inst
<1>1. PICK e \in IF app.torn THEN Event ELSE {"send_next"} :
        queue' = [queue EXCEPT ![i] = Append(@, e)]
  BY DEF AppPost
<1>b. /\ isr.phase = "off" /\ app.phase = "occupy" /\ app' = [app EXCEPT !.phase = "posted"]
      /\ UNCHANGED <<fsm, inPlay, active, txn, ctl, bus, raw, ier, isr, cmd>>
  BY DEF AppPost, TaskRuns
<1>2. /\ app'.phase = "posted" /\ app'.inst = i /\ app'.torn \in BOOLEAN
      /\ app' = [phase |-> app'.phase, inst |-> app'.inst, c |-> app'.c, torn |-> app'.torn]
  <2>1. app = [phase |-> app.phase, inst |-> app.inst, c |-> app.c, torn |-> app.torn]
    BY <1>a DEF Asking
  <2>2. app' = [phase |-> "posted", inst |-> app.inst, c |-> app.c, torn |-> app.torn]
    BY <1>b, <2>1
  <2> QED BY <1>a, <2>2 DEF Asking
<1>3. i \in Inst /\ i = cmd.inst /\ (app.torn => cmd.hit \/ inPlay = NoInst) /\ Pending = {}
  BY <1>a, <1>b DEF Asking, Drained
<1>4. queue \in [Inst -> Seq(Event)] /\ queue[i] = <<>> /\ e \in Event
  BY <1>a, <1>3 DEF TypeOK, Pending, Event
<1>5. Append(queue[i], e) = <<e>> /\ <<e>> \in Seq(Event)
  BY <1>4
<1>6. /\ queue' \in [Inst -> Seq(Event)] /\ queue'[i] = <<e>>
      /\ \A j \in Inst \ {i} : queue'[j] = queue[j]
  BY <1>1, <1>3, <1>4, <1>5
<1>7. TypeOK'
  <2>1. app'.inst \in Maybe /\ app'.phase \in {"idle", "start", "occupy", "posted", "drain"}
    BY <1>2, <1>3 DEF Maybe
  <2> QED BY <1>a, <1>b, <1>6, <2>1 DEF TypeOK
<1>8. Drained' /\ Asking' /\ Answering'
  BY <1>a, <1>b, <1>2, <1>3 DEF Drained, Asking, Answering, NoCommandForgotten, SuccessMeansDone
<1>9. inPlay \in Inst => inPlay = i
  BY <1>a, <1>3 DEF Answering
<1>10. Others'
  BY <1>a, <1>b, <1>6, <1>9 DEF Others, Target, Whole
<1>11. Play'
  <2> SUFFICES ASSUME Playing PROVE Play'
    BY <1>b DEF Play, Playing
  <2>1. inPlay = i /\ ~cmd.hit /\ inPlay # NoInst
    BY <1>9, <1>n DEF Playing
  <2>2. e = "send_next"
    BY <1>1, <1>3, <2>1
  <2>3. Coming' = Coming
    BY <1>b DEF Coming, Unseen
  <2>4. Fresh(fsm[i], queue[i], ToSet(ctl.desc), Coming, ctl.run = "on")
    BY <1>a, <1>b, <2>1 DEF Play
  <2>5. InTurn(fsm[i], <<e>>, ToSet(ctl.desc), Coming, ctl.run = "on", cmd.stopped)
    BY <2>2, <2>4, Singles DEF InTurn, Fresh, First, ControllerWork
  <2> QED BY <1>b, <1>2, <1>6, <2>1, <2>3, <2>5 DEF Play, Playing
<1> QED BY <1>7, <1>8, <1>10, <1>11 DEF IInv

------------------------------------------------------------------------------
(* The controller at work: what it latches belongs to the descriptor it    *)
(* carried out, and that belongs to the state of the instance in play.     *)
LEMMA ControllerWorksKeeps ==
  ASSUME IInv, ControllerWorks
  PROVE  IInv'
<1>a. TypeOK /\ Drained /\ Asking /\ Answering /\ Others /\ Play
  BY DEF IInv
<1>n. NoInst \notin Inst
  BY SMBusAssumption
<1> DEFINE d == Head(ctl.desc)
           byte == d \in {"read_start", "ack"}
           bits == (IF byte THEN {"ctl_data"} ELSE {})
                     \cup (IF Len(ctl.desc) - 1 <= Low THEN {"ctl_desc"} ELSE {})
                     \cup (IF d \in Ends THEN {"ctl_done"} ELSE {})
<1>b. /\ ctl.run = "on" /\ ctl.desc # <<>>
      /\ ctl' = [desc |-> Tail(ctl.desc), rx |-> IF byte THEN ctl.rx + 1 ELSE ctl.rx,
                 run |-> IF d \in Ends THEN "off" ELSE "on"]
      /\ raw' = raw \cup bits
      /\ cmd' = [cmd EXCEPT !.stopped = @ \/ (d \in Ends /\ inPlay = cmd.inst),
                            !.lost = @ \/ bits \cap isr.seen # {}]
      /\ UNCHANGED <<fsm, queue, inPlay, active, txn, bus, ier, isr, app>>
  BY DEF ControllerWorks, Latch
<1>1. /\ ctl \in Controller /\ ctl.desc \in Seq(Descriptor) /\ Tail(ctl.desc) \in Seq(Descriptor)
      /\ d \in Descriptor /\ ToSet(ctl.desc) = {d} \cup ToSet(Tail(ctl.desc))
  <2>1. ctl \in Controller /\ ctl.desc \in Seq(Descriptor)
    BY <1>a DEF TypeOK, Controller
  <2> QED BY <1>b, <2>1, Tails
<1>2. bits \subseteq {"ctl_data", "ctl_desc", "ctl_done"}
  OBVIOUS
<1>3. /\ "ctl_data" \in bits => byte
      /\ "ctl_done" \in bits => d \in Ends
  OBVIOUS
<1> HIDE DEF bits
<1>4. ctl' \in Controller /\ ctl'.desc = Tail(ctl.desc) /\ (ctl'.run = "on" => d \notin Ends)
  <2>1. ctl.rx \in Nat /\ ctl.rx + 1 \in Nat
    BY <1>1 DEF Controller
  <2> QED BY <1>b, <1>1, <2>1 DEF Controller
<1>5. raw' \subseteq Bit
  BY <1>a, <1>b, <1>2 DEF TypeOK, Bit, ControllerBit
<1>6. /\ cmd' \in CommandRecord /\ cmd'.inst = cmd.inst /\ cmd'.told = cmd.told
          /\ cmd'.hit = cmd.hit
      /\ cmd.stopped => cmd'.stopped
      /\ d \in Ends /\ inPlay = cmd.inst => cmd'.stopped
  <2>1. cmd \in CommandRecord
    BY <1>a DEF TypeOK, CommandRecord
  <2> QED BY <1>b, <2>1 DEF CommandRecord
<1>7. TypeOK'
  BY <1>a, <1>b, <1>4, <1>5, <1>6 DEF TypeOK, Controller, CommandRecord
<1>8. Drained' /\ Asking' /\ Others'
  BY <1>a, <1>b, <1>6 DEF Drained, Pending, Asking, Others, Target, Whole
<1>9. Answering'
  BY <1>a, <1>b, <1>6 DEF Answering, NoCommandForgotten, SuccessMeansDone
<1>10. PICK new \in SUBSET bits : Coming' = Coming \cup new
  <2>1. Coming' = Coming \cup ((bits \ isr.seen) \cap Source)
    BY <1>b DEF Coming, Unseen
  <2> QED BY <2>1
<1>11. Play'
  <2> SUFFICES ASSUME Playing PROVE Play'
    BY <1>b, <1>6 DEF Play, Playing
  <2>1. inPlay = cmd.inst /\ Playing'
    BY <1>a, <1>b, <1>6 DEF Answering, Playing
  <2>2. app.phase # "occupy"
    BY <1>a, <1>b DEF Play, Fresh
  <2> DEFINE s == fsm[inPlay]
             q == queue[inPlay]
             todo == ToSet(ctl.desc)
  <2>3. InTurn(s, q, todo, Coming, TRUE, cmd.stopped)
    BY <1>a, <1>b, <2>2 DEF Play
  <2>4. d \in todo /\ ToSet(ctl'.desc) \subseteq todo
    BY <1>1, <1>4
  <2> HIDE DEF s, q, todo
  <2>5. s.state \notin {"initial", "ctl_command"}
    BY <2>3 DEF InTurn
  <2>6. s.state \in {"ctl_write", "ctl_start"} => bits \subseteq {"ctl_desc"}
    BY <1>2, <1>3, <2>3, <2>4 DEF InTurn, Plain, Ends
  <2>7. s.state = "ctl_size" => bits \subseteq {"ctl_desc", "ctl_data"}
    BY <1>2, <1>3, <2>3, <2>4 DEF InTurn, Plain, Ends
  <2>8. s.state = "done" => bits \subseteq {"ctl_desc", "ctl_done"}
    BY <1>2, <1>3, <2>3, <2>4 DEF InTurn, Plain, Ends
  <2>9. "ctl_done" \in bits => cmd'.stopped
    BY <1>3, <1>6, <2>1
  <2>10. ASSUME NEW on \in BOOLEAN
         PROVE  InTurn(s, q, ToSet(ctl'.desc), Coming \cup new, on, cmd'.stopped)
    BY <1>6, <2>3, <2>4, <2>5, <2>6, <2>7, <2>8, <2>9 DEF InTurn, Early, ControllerWork
  <2>11. InTurn(s, q, ToSet(ctl'.desc), Coming', ctl'.run = "on", cmd'.stopped)
    BY <1>10, <2>10
  <2> QED BY <1>b, <2>1, <2>2, <2>11 DEF Play, s, q
<1> QED BY <1>7, <1>8, <1>9, <1>11 DEF IInv

LEMMA ControllerFailsKeeps ==
  ASSUME IInv, ControllerFails \/ LineDisturbed
  PROVE  IInv'
<1>a. TypeOK /\ Drained /\ Asking /\ Answering /\ Others /\ Play
  BY DEF IInv
<1> DEFINE Fault == {"ctl_error", "ctl_fault", "ctl_warn", "line_fault"}
<1>b. /\ ctl.run = "on" /\ ctl' \in {ctl, [ctl EXCEPT !.run = "halted"]}
      /\ \E bit \in Fault : raw' = raw \cup {bit}
      /\ \E l \in BOOLEAN : cmd' = [cmd EXCEPT !.lost = l]
      /\ UNCHANGED <<fsm, queue, inPlay, active, txn, bus, ier, isr, app>>
  <2>1. CASE ControllerFails
    <3>1. PICK bit \in Errors \cap {"ctl_error", "ctl_fault"} :
            raw' = raw \cup {bit} /\ cmd' = [cmd EXCEPT !.lost = @ \/ bit \in isr.seen]
      BY <2>1 DEF ControllerFails, Latch
    <3>2. (cmd.lost \/ bit \in isr.seen) \in BOOLEAN
      BY <1>a DEF TypeOK
    <3> QED BY <2>1, <3>1, <3>2 DEF ControllerFails
  <2>2. CASE LineDisturbed
    <3>1. cmd' = [cmd EXCEPT !.lost = cmd.lost] /\ cmd.lost \in BOOLEAN
      BY <1>a, <2>2 DEF LineDisturbed, TypeOK
    <3> QED BY <2>2, <3>1 DEF LineDisturbed, Latch
  <2> QED BY <2>1, <2>2
<1>c. PICK bit \in Fault : raw' = raw \cup {bit}
  BY <1>b
<1>d. /\ cmd' \in CommandRecord /\ cmd'.inst = cmd.inst /\ cmd'.told = cmd.told
      /\ cmd'.hit = cmd.hit /\ cmd'.stopped = cmd.stopped
  <2>1. cmd \in CommandRecord
    BY <1>a DEF TypeOK, CommandRecord
  <2> QED BY <1>b, <2>1 DEF CommandRecord
<1>1. ctl' \in Controller /\ ctl'.desc = ctl.desc /\ ctl'.run \in {"on", "halted"}
  <2>1. ctl \in Controller
    BY <1>a, Parts DEF TypeOK, Controller
  <2> QED BY <1>b, <2>1 DEF Controller
<1>2. raw' \subseteq Bit
  BY <1>a, <1>c DEF TypeOK, Bit, ErrorBit, ControllerBit
<1>3. TypeOK'
  BY <1>a, <1>b, <1>d, <1>1, <1>2 DEF TypeOK, Controller, CommandRecord
<1>4. Drained' /\ Asking' /\ Others' /\ Answering'
  BY <1>a, <1>b, <1>d DEF Drained, Pending, Asking, Others, Target, Whole, Answering,
                    NoCommandForgotten, SuccessMeansDone
<1>5. PICK new \in SUBSET {"ctl_error", "ctl_fault", "ctl_warn"} : Coming' = Coming \cup new
  <2>1. Coming' = Coming \cup (({bit} \ isr.seen) \cap Source)
    BY <1>b, <1>c DEF Coming, Unseen
  <2>2. ({bit} \ isr.seen) \cap Source \in SUBSET {"ctl_error", "ctl_fault", "ctl_warn"}
    BY DEF Source, ControllerBit
  <2> QED BY <2>1, <2>2
<1>6. Play'
  <2> SUFFICES ASSUME Playing PROVE Play'
    BY <1>b, <1>d DEF Play, Playing
  <2>1. app.phase # "occupy"
    BY <1>a, <1>b DEF Play, Fresh
  <2>2. InTurn(fsm[inPlay], queue[inPlay], ToSet(ctl.desc), Coming, TRUE, cmd.stopped)
    BY <1>a, <1>b, <2>1 DEF Play
  <2>3. ASSUME NEW on \in BOOLEAN
        PROVE  InTurn(fsm[inPlay], queue[inPlay], ToSet(ctl.desc), Coming \cup new, on, cmd.stopped)
    BY <2>2 DEF InTurn, Early, ControllerWork
  <2>4. InTurn(fsm[inPlay], queue[inPlay], ToSet(ctl.desc), Coming', ctl'.run = "on", cmd.stopped)
    BY <1>5, <2>3
  <2> QED BY <1>b, <1>d, <1>1, <2>1, <2>4 DEF Play, Playing
<1> QED BY <1>3, <1>4, <1>6 DEF IInv

(* The host reaches the instances only through the bits of the targets.    *)
Host ==
  \/ \E i \in Inst, p \in Proto, n \in 0..MaxBytes : BusAddress(i, p, n)
  \/ BusByte \/ BusStarves \/ BusTurns \/ BusStops \/ BusFails \/ BusStretched

HostBit == TargetBit \cup {"tgt_fault", "tgt_warn"}

LEMMA HostSteps ==
  ASSUME TypeOK, Host
  PROVE  Quiet /\ bus' \in BusState /\ \E bit \in HostBit : raw' = raw \cup {bit}
<1>a. bus \in BusState
  BY DEF TypeOK, BusState
<1>1. ASSUME NEW i \in Inst, NEW p \in Proto, NEW n \in 0..MaxBytes, BusAddress(i, p, n)
      PROVE  Quiet /\ bus' \in BusState /\ \E bit \in HostBit : raw' = raw \cup {bit}
  <2> DEFINE reads == p \in {"receive_byte", "i2c_read"}
             togo == IF p \in BlockWrite THEN n + 2
                     ELSE IF p \in I2CProto THEN n
                     ELSE IF Kind[i] = "simple" THEN 1
                     ELSE IF p \in FixedWrite \cup {"process_call"} THEN 1 + FixedLen[p] ELSE 1
  <2>1. togo \in Nat
    <3>1. p \in FixedWrite \cup {"process_call"} => FixedLen[p] \in Nat
      BY Lengths
    <3>2. n \in Nat
      BY SMBusAssumption
    <3> QED BY <3>1, <3>2
  <2>2. /\ bus' = [bus EXCEPT !.phase = IF reads THEN "read" ELSE "write", !.to = i,
                              !.proto = p, !.count = n, !.togo = IF reads THEN 0 ELSE togo,
                              !.credit = 1, !.n = @ + 1]
        /\ raw' = raw \cup {IF reads THEN "read" ELSE "write"} /\ Quiet
    BY <1>1 DEF BusAddress, Latch
  <2> HIDE DEF togo, reads
  <2>3. n \in Nat /\ bus.n + 1 \in Nat /\ i \in Maybe
    BY <1>a, SMBusAssumption DEF BusState, Maybe
  <2>4. bus' \in BusState
    BY <1>a, <2>1, <2>2, <2>3 DEF BusState
  <2> QED BY <2>2, <2>4 DEF HostBit, TargetBit
<1>2. CASE BusByte
  <2>1. bus.togo - 1 \in Nat /\ bus.credit - 1 \in Nat /\ bus.rx + 1 \in Nat
    BY <1>a, <1>2 DEF BusByte, BusState
  <2>2. bus' \in BusState
    BY <1>a, <1>2, <2>1 DEF BusByte, BusState
  <2> QED BY <1>2, <2>2 DEF BusByte, Latch, HostBit, TargetBit
<1>3. CASE BusStarves
  BY <1>a, <1>3 DEF BusStarves, Latch, HostBit, TargetBit
<1>4. CASE BusTurns \/ BusStops \/ BusFails
  <2>1. \A f \in {"idle", "read"} : [bus EXCEPT !.phase = f] \in BusState
    BY <1>a DEF BusState
  <2>2. Quiet /\ bus' \in BusState
    BY <1>4, <2>1 DEF BusTurns, BusStops, BusFails
  <2> QED BY <1>4, <2>2 DEF BusTurns, BusStops, BusFails, Latch, HostBit, TargetBit
<1>5. CASE BusStretched
  BY <1>a, <1>5 DEF BusStretched, Latch, HostBit
<1> QED BY <1>1, <1>2, <1>3, <1>4, <1>5 DEF Host

LEMMA HostKeeps ==
  ASSUME IInv, Host
  PROVE  IInv'
<1>a. TypeOK /\ Drained /\ Asking /\ Answering /\ Others /\ Play
  BY DEF IInv
<1>1. PICK bit \in HostBit : raw' = raw \cup {bit}
  BY <1>a, HostSteps
<1>2. /\ bus' \in BusState
      /\ UNCHANGED <<fsm, queue, inPlay, active, txn, ctl, ier, isr, app, cmd>>
  BY <1>a, HostSteps DEF Quiet
<1>3. TypeOK'
  BY <1>a, <1>1, <1>2, SMTT(30) DEF TypeOK, BusState, Bit, ErrorBit, HostBit
<1>4. Coming' = Coming
  BY <1>1, <1>2 DEF Coming, Unseen, Source, HostBit, TargetBit, ControllerBit
<1>5. Drained' /\ Asking' /\ Others' /\ Answering'
  BY <1>a, <1>2 DEF Drained, Pending, Asking, Others, Target, Whole, Answering, NoCommandForgotten,
                    SuccessMeansDone
<1>6. Play'
  BY <1>a, <1>2, <1>4 DEF Play, Playing, Fresh, InTurn
<1> QED BY <1>3, <1>5, <1>6 DEF IInv

LEMMA Initially ==
  ASSUME Init
  PROVE  IInv
<1>n. NoInst \notin Inst
  BY SMBusAssumption
<1>1. Cleared \in Fsm /\ Cleared.state = "initial" /\ Cleared.proto = "none"
  BY Names, Protocols DEF Fsm, Cleared
<1>2. fsm \in [Inst -> Fsm] /\ queue \in [Inst -> Seq(Event)]
  BY <1>1, Singles DEF Init
<1>3. ctl \in Controller /\ ctl.desc = <<>> /\ bus \in BusState
  BY Singles, Protocols DEF Init, Controller, BusState, QuietBus, Maybe
<1>4. cmd \in CommandRecord /\ app.phase = "idle" /\ app.inst \in Maybe /\ app.torn = FALSE
  BY DEF Init, CommandRecord, NoCmd, Idle, Maybe
<1>5. isr \in Handler /\ isr.seen = {}
  BY DEF Init, NoIsr, Handler, Maybe
<1>6. TypeOK
  BY <1>2, <1>3, <1>4, <1>5
     DEF Init, TypeOK, Fsm, Controller, BusState, CommandRecord, Handler, Maybe
<1>7. Drained /\ Asking
  <2>1. Pending = {}
    BY DEF Init, Pending
  <2>2. app = [phase |-> app.phase, inst |-> app.inst, c |-> app.c, torn |-> app.torn]
    BY DEF Init, Idle
  <2> QED BY <1>4, <1>5, <2>1, <2>2 DEF Drained, Asking
<1>8. Answering
  BY <1>n DEF Init, Answering, NoCommandForgotten, SuccessMeansDone, NoCmd
<1>9. Others
  BY <1>1, <1>n DEF Init, Others, Target, Whole, ControllerWork
<1>10. Play
  BY <1>n DEF Init, Play, Playing
<1> QED BY <1>6, <1>7, <1>8, <1>9, <1>10 DEF IInv

(* Every step is an event handled, a step of the handler, the task or the  *)
(* controller, or one of the host.                                         *)
LEMMA StepKinds ==
  ASSUME Next
  PROVE  \/ \E i \in Inst : /\ queue[i] # <<>> /\ FSM(i, Head(queue[i])) /\ Draining
                            /\ UNCHANGED <<txn, raw, ier, isr, app>>
         \/ IsrTargets \/ IsrController \/ IsrExit
         \/ AppMask \/ AppEnable \/ (\E i \in Starter, c \in Command : AppCheck(i, c))
         \/ AppStart \/ AppPost
         \/ ControllerWorks \/ ControllerFails \/ LineDisturbed \/ Host
<1>1. ASSUME HandleEvent
      PROVE  \E i \in Inst : /\ queue[i] # <<>> /\ FSM(i, Head(queue[i])) /\ Draining
                             /\ UNCHANGED <<txn, raw, ier, isr, app>>
  <2>1. PICK i \in Pending : FSM(i, Head(queue[i]))
    BY <1>1 DEF HandleEvent
  <2> QED BY <1>1, <2>1 DEF HandleEvent, Pending
<1> QED BY <1>1 DEF Next, Firmware, Host

LEMMA Inductive ==
  ASSUME IInv, [Next]_vars
  PROVE  IInv'
<1>1. CASE Next
  BY <1>1, StepKinds, EventKeeps, IsrTargetsKeeps, IsrControllerKeeps, IsrExitKeeps, TaskKeeps,
     AppStartKeeps, AppPostKeeps, ControllerWorksKeeps, ControllerFailsKeeps, HostKeeps
<1>2. CASE UNCHANGED vars
  <2>1. UNCHANGED <<fsm, queue, inPlay, active, txn, ctl, bus, raw, ier, isr, app, cmd>>
    BY <1>2 DEF vars
  <2>2. TypeOK' /\ Drained' /\ Asking' /\ Answering'
    BY <2>1 DEF IInv, TypeOK, Drained, Pending, Asking, Answering, NoCommandForgotten,
                SuccessMeansDone
  <2>3. Others'
    BY <2>1 DEF IInv, Others, Target, Whole
  <2>4. Coming' = Coming
    BY <2>1 DEF Coming, Unseen
  <2>5. Play'
    BY <2>1, <2>4 DEF IInv, Play, Playing, Fresh, InTurn
  <2> QED BY <2>2, <2>3, <2>5 DEF IInv
<1> QED BY <1>1, <1>2

(* The whole invariant, for any constants.                                 *)
THEOREM Invariant == Spec => []IInv
<1>1. Init => IInv
  BY Initially
<1>2. IInv /\ [Next]_vars => IInv'
  BY Inductive
<1> QED BY <1>1, <1>2, PTL DEF Spec

------------------------------------------------------------------------------
(* What the runs check, for every value of the constants.                  *)

(* The instances, the queues and the hardware hold what they may.          *)
THEOREM Types == Spec => []TypeOK
<1>1. IInv => TypeOK
  BY DEF IInv
<1> QED BY <1>1, Invariant, PTL

(* A command that was accepted stays in play until it is answered: the     *)
(* reset of any other instance leaves it the controller, and the check of  *)
(* the lock lets no second command in.                                     *)
THEOREM NoForgotten == Spec => []NoCommandForgotten
<1>1. IInv => NoCommandForgotten
  BY DEF IInv, Answering
<1> QED BY <1>1, Invariant, PTL

(* No state of a controller announces success before the descriptor that   *)
(* ends the transfer was carried out.                                      *)
THEOREM SuccessDone == Spec => []SuccessMeansDone
<1>1. IInv => SuccessMeansDone
  BY DEF IInv, Answering
<1> QED BY <1>1, Invariant, PTL

(* An event of one instance changes no other.                              *)
LEMMA OneInstance ==
  ASSUME TypeOK, NEW i \in Inst, queue[i] # <<>>, FSM(i, Head(queue[i]))
  PROVE  \A j \in Inst \ {i} : fsm'[j] = fsm[j]
<1>1. Goes1(i) \/ Drop(i) \/ \E r \in {"ok", "error"} : Finish(i, r)
  BY Dispatched, Shapes
<1>2. fsm \in [Inst -> Fsm]
  BY DEF TypeOK, Fsm
<1>3. \E s : fsm' = [fsm EXCEPT ![i] = s]
  BY <1>1, Resets DEF Goes1, Move, Drop, Finish
<1> QED BY <1>2, <1>3

(* Only an event of the instance in play answers its command.              *)
LEMMA OnlyEventsAnswer ==
  ASSUME IInv, [Next]_vars, cmd.told = "none", cmd'.told = "ok"
  PROVE  \E i \in Inst : i = inPlay /\ queue[i] # <<>> /\ FSM(i, Head(queue[i])) /\ Draining
<1>a. TypeOK /\ Others
  BY DEF IInv
<1>c. cmd \in CommandRecord
  BY <1>a DEF TypeOK, CommandRecord
<1>1. CASE UNCHANGED cmd
  BY <1>1
<1>2. CASE IsrTargets
  BY <1>c, <1>2 DEF IsrTargets, CommandRecord
<1>3. CASE AppStart
  BY <1>3 DEF AppStart, NoCmd
<1>4. CASE ControllerWorks
  BY <1>c, <1>4 DEF ControllerWorks, CommandRecord
<1>5. CASE Host
  BY <1>a, <1>1, <1>5, HostSteps DEF Quiet
<1>6. ASSUME NEW i \in Inst, queue[i] # <<>>, FSM(i, Head(queue[i])), Draining
      PROVE  i = inPlay
  BY <1>1, <1>a, <1>6, OtherHandled DEF Others
<1>7. (IsrController \/ IsrExit \/ AppMask \/ AppEnable
       \/ (\E i \in Starter, c \in Command : AppCheck(i, c))
        \/ AppPost \/ LineDisturbed \/ UNCHANGED vars) => UNCHANGED cmd
  BY DEF IsrController, IsrExit, AppMask, AppEnable, AppCheck, AppPost, LineDisturbed, vars
<1>8. CASE ControllerFails
  BY <1>c, <1>8 DEF ControllerFails, CommandRecord
<1> QED BY <1>1, <1>2, <1>3, <1>4, <1>5, <1>6, <1>7, <1>8, StepKinds

(* When a controller announces success, all that was to be read has come   *)
(* in, and no more than the last byte was left to write.                   *)
THEOREM WholeCommands == Spec => CommandIsWhole
<1> DEFINE Answer ==
      \A i \in Inst :
       (i = inPlay /\ ~cmd.hit /\ cmd.told = "none" /\ cmd'.told = "ok")
         => /\ fsm[i].state = "ctl_done" => fsm[i].got >= fsm[i].expect
            /\ fsm[i].proto \in SendsData => fsm[i].left <= 1
<1>1. ASSUME IInv, [Next]_vars
      PROVE  Answer
  <2> SUFFICES ASSUME NEW i \in Inst, i = inPlay, ~cmd.hit, cmd.told = "none", cmd'.told = "ok"
               PROVE  /\ fsm[i].state = "ctl_done" => fsm[i].got >= fsm[i].expect
                      /\ fsm[i].proto \in SendsData => fsm[i].left <= 1
    OBVIOUS
  <2>1. TypeOK /\ Play /\ Answering
    BY <1>1 DEF IInv
  <2>2. queue[i] # <<>> /\ FSM(i, Head(queue[i]))
    BY <1>1, OnlyEventsAnswer
  <2>3. InItsTurn(i)
    BY <2>1, <2>2 DEF Play, Playing, Fresh, InItsTurn
  <2>4. fsm[i].state \in {"done", "ctl_done"}
    <3>1. ~ \E s \in Fsm, post \in Seq(Event) : Move(i, s, post)
      BY DEF Move
    <3>2. ~ Finish(i, "error")
      BY <2>1, Announced DEF Finish
    <3> QED BY <2>1, <2>2, <2>3, <3>1, <3>2, PlayHandled
  <2> QED BY <2>3, <2>4 DEF InItsTurn, InTurn
<1>2. IInv /\ [Next]_vars => [Answer]_vars
  BY <1>1
<1>3. [][Answer]_vars => CommandIsWhole
  BY PTL DEF CommandIsWhole
<1> QED BY <1>2, <1>3, Invariant, PTL DEF Spec

(* The host's end of a write is answered with an acknowledgement only in   *)
(* "done", which a target reaches with all the bytes its protocol has.     *)
THEOREM WholeWrites == Spec => WriteIsWhole
<1> DEFINE Accept ==
      \A i \in Inst :
       (i # inPlay /\ fsm[i].state = "done" /\ fsm'[i].state = "initial"
         /\ fsm[i].proto \in WriteProto /\ Kind[i] # "i2c" /\ ~fsm[i].nack
         /\ Head(queue[i]) = "done")
         => fsm[i].got >= fsm[i].expect
<1>1. IInv /\ [Next]_vars => [Accept]_vars
  BY DEF IInv, Others, Target, Whole
<1>2. [][Accept]_vars => WriteIsWhole
  BY PTL DEF WriteIsWhole
<1> QED BY <1>1, <1>2, Invariant, PTL DEF Spec

(* While the queues are drained a state changes only by an event of its    *)
(* own instance, and an event of any but the one in play leaves the        *)
(* controller and its lock alone.                                          *)
THEOREM Separation == Spec => TargetsLeaveController
<1> DEFINE Apart ==
      \A i, j \in Inst :
       (i # j /\ fsm'[i] # fsm[i] /\ Draining)
         => fsm'[j] = fsm[j] /\ (j = inPlay => inPlay' = inPlay /\ ctl' = ctl)
<1>1. ASSUME IInv, [Next]_vars
      PROVE  Apart
  <2> SUFFICES ASSUME NEW i \in Inst, NEW j \in Inst, i # j, fsm'[i] # fsm[i], Draining
               PROVE  fsm'[j] = fsm[j] /\ (j = inPlay => inPlay' = inPlay /\ ctl' = ctl)
    OBVIOUS
  <2>1. TypeOK /\ Others
    BY <1>1 DEF IInv
  <2>2. ~ UNCHANGED fsm
    OBVIOUS
  <2>3. (IsrTargets \/ IsrController \/ IsrExit \/ AppMask \/ AppEnable \/ AppPost
          \/ (\E k \in Starter, c \in Command : AppCheck(k, c))
          \/ ControllerWorks \/ ControllerFails \/ LineDisturbed \/ UNCHANGED vars)
         => UNCHANGED fsm
    BY DEF IsrTargets, IsrController, IsrExit, AppMask, AppEnable, AppCheck, AppPost,
           ControllerWorks, ControllerFails, LineDisturbed, vars
  <2>4. ~ AppStart
    BY DEF AppStart, TaskRuns, Draining
  <2>5. Host => UNCHANGED fsm
    BY <2>1, HostSteps DEF Quiet
  <2>6. PICK k \in Inst : queue[k] # <<>> /\ FSM(k, Head(queue[k]))
    BY <1>1, <2>2, <2>3, <2>4, <2>5, StepKinds
  <2>7. k = i /\ fsm'[j] = fsm[j]
    BY <2>1, <2>6, OneInstance
  <2>8. ASSUME j = inPlay PROVE inPlay' = inPlay /\ ctl' = ctl
    BY <2>1, <2>6, <2>7, <2>8, OtherHandled DEF Others
  <2> QED BY <2>7, <2>8
<1>2. IInv /\ [Next]_vars => [Apart]_vars
  BY <1>1
<1>3. [][Apart]_vars => TargetsLeaveController
  BY PTL DEF TargetsLeaveController
<1> QED BY <1>2, <1>3, Invariant, PTL DEF Spec

===============================================================================
