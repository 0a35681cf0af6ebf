------------------------------- MODULE Channel -------------------------------
(***************************************************************************)
(* What one direction of the sGCQ (shared-memory Generic Command Queue)    *)
(* promises to the code above it: a bounded FIFO.  gcq_write()/            *)
(* xGCQProduceData() append one message or fail when no slot is free,      *)
(* gcq_read()/xGCQConsumeData() return the oldest message or report that   *)
(* there is none.  Nothing is lost, duplicated, reordered or torn.         *)
(***************************************************************************)
EXTENDS Naturals, Sequences

CONSTANTS Msg,          \* the messages, one per slot
          Capacity      \* how many slots the ring was created with

VARIABLES queue,        \* messages published and not yet copied out, oldest first
          received      \* what the last read returned

vars == <<queue, received>>

Init == /\ queue = << >>
        /\ received \in Msg

Send(m) == /\ Len(queue) < Capacity
           /\ queue' = Append(queue, m)
           /\ UNCHANGED received

Receive == /\ queue # << >>
           /\ received' = Head(queue)
           /\ queue' = Tail(queue)

Next == (\E m \in Msg : Send(m)) \/ Receive

Spec == Init /\ [][Next]_vars

(* A reader that polls for ever takes every message that is there. *)
FairSpec == Spec /\ WF_vars(Receive)
==============================================================================
