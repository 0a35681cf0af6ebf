-------------------------------- MODULE MCSMBus --------------------------------
(* Small instances of SMBus for TLC.                                       *)
EXTENDS SMBus

C(p, send, expect, pec) == [proto |-> p, send |-> send, expect |-> expect, pec |-> pec]

(* Traffic and commands: a target of each kind, commands on the first.     *)
MCThree == {0, 1, 2}
MCKinds == [i \in Inst |-> CASE i = 0 -> "smbus" [] i = 1 -> "simple" [] i = 2 -> "i2c"]
MCTargetProto == {"write_byte", "block_process_call", "none"}
MCFew == {C("write_byte", 1, 0, FALSE)}

(* Commands alone: every protocol, and blocks as long as the FIFO is deep. *)
MCFirst == {0}
MCKind == [i \in Inst |-> "smbus"]
MCNoProto == {}
MCAllCommands ==
  {C(p, 1, 0, pec) : p \in {"send_byte", "receive_byte", "read_byte", "write_byte", "quick"},
                     pec \in BOOLEAN}
  \cup {C(p, 2, 0, pec) : p \in {"write_word", "process_call", "block_write"}, pec \in BOOLEAN}
  \cup {C(p, 9, 0, pec) : p \in {"block_read", "block_process_call", "read_word"}, pec \in BOOLEAN}
  \cup {C("i2c_write", 10, 0, FALSE), C("i2c_read", 0, 8, FALSE), C("i2c_read", 0, 9, FALSE),
        C("i2c_write_read", 1, 0, FALSE), C("i2c_write_read", 1, 2, FALSE)}

(* The errors: of a target, and of the controller's side.                  *)
MCTargetErrors == {"tgt_fault", "tgt_warn", "ctl_error"}
MCCommandErrors == {"line_fault", "ctl_error", "ctl_fault", "ctl_warn"}

================================================================================
