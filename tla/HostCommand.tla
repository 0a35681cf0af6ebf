----------------------------- MODULE HostCommand -----------------------------
(***************************************************************************)
(* Sending a command from the host driver to the firmware and waiting for  *)
(* its answer: submit_gcq_command() (ami_amc_control.c), called by many    *)
(* threads at once, over the proxy (amc_proxy.c), whose response thread    *)
(* matches answers to waiting commands by their id and times commands out. *)
(* The firmware is abstract: it answers the requests it was sent in any    *)
(* order; modules GCQRing and GCQ are the queues in between.               *)
(*                                                                         *)
(* A command is allocated when its call starts and freed when it returns,  *)
(* so the calling thread names it.                                         *)
(***************************************************************************)
EXTENDS Naturals, Sequences, FiniteSets, SequencesExt

CONSTANTS
  Thread,       \* callers of submit_gcq_command()
  Heartbeat,    \* the one that is heartbeat_health_thread, or none of them
  MaxCid,       \* MAX_COMMAND_IDS, 255 in the code
  MaxCalls,     \* bound: calls made by one thread
  Kind,         \* kinds of command the threads send
  Fault,        \* what may go wrong
  CloseUnder    \* phases of the callers in which unset_amc() may start

None == "none"
AllKinds  == {"plain", "log", "data", "fpt"}
AllFaults == {"interrupt", "kill", "late", "writeFails"}
AllPhases == {"idle", "page", "cid", "lock", "write", "enlist", "unlock", "failed",
              "wait", "woken", "abort", "abortLock", "fetch", "bail", "freeCid", "freePage"}

ASSUME HostCommandAssumption ==
  /\ IsFiniteSet(Thread) /\ Thread # {} /\ None \notin Thread
  /\ MaxCid \in Nat /\ MaxCalls \in Nat
  /\ Kind \subseteq AllKinds /\ Fault \subseteq AllFaults
  /\ CloseUnder \subseteq AllPhases

(* The heartbeat command carries no page; SENSOR uses the log page, and    *)
(* the commands that move data use the one data page.                      *)
Cid  == 0 .. MaxCid
Page == {"log", "data"}
PageOf(k) == CASE k = "log" -> "log" [] k \in {"data", "fpt"} -> "data" [] OTHER -> None

KindsOf(t) == IF t = Heartbeat THEN {"plain"} ELSE Kind

VARIABLES
  pc,           \* per thread, where it is in submit_gcq_command()
  kind,         \* per thread, the kind of its command
  call,         \* per thread, how many calls it made
  cid,          \* per thread, cmd_cid of its command
  usedCids,     \* cid_xarray
  nextCid,      \* next_cid_id
  pageOwner,    \* gcq_log_page_sema and gcq_data_sema: who is between down and up
  cmdLock,      \* gcq_cmd_lock
  submitted,    \* inst.submitted_cmds
  signal,       \* per thread, what its completion, cmd_rcode and timed_out say
  answer,       \* per thread, the request whose answer was copied to its command
  overdue,      \* threads whose cmd_timeout_jiffies has passed
  rt,           \* where complete_response_thread() is
  ccmd,         \* the answer it read
  scanning,     \* commands still to be timed out by the scan that holds inst.lock
  pending,      \* requests sent and not yet answered by the firmware
  completions,  \* the completion queue
  closing,      \* where unset_amc() and amc_proxy_close() are
  dropped       \* threads whose command was not yet on the list when its answer came

locals  == <<kind, call, cid, usedCids, nextCid, pageOwner>>
proxy   == <<submitted, signal, answer, overdue, scanning>>
channel == <<pending, completions>>
vars == <<pc, kind, call, cid, usedCids, nextCid, pageOwner, cmdLock, submitted, signal,
          answer, overdue, rt, ccmd, scanning, pending, completions, closing, dropped>>

Request == [thread : Thread, call : 1 .. MaxCalls, cid : Cid, page : Page \cup {None}]
RequestOf(t) == [thread |-> t, call |-> call[t], cid |-> cid[t], page |-> PageOf(kind[t])]
NoRequest == [thread |-> None]

(* inst.lock is held for more than one step only by a scan for timeouts.   *)
ProxyUnlocked == scanning = {}

Goto(t, phase) == pc' = [pc EXCEPT ![t] = phase]

------------------------------------------------------------------------------
Init ==
  /\ pc = [t \in Thread |-> "idle"] /\ kind = [t \in Thread |-> "plain"]
  /\ call = [t \in Thread |-> 0] /\ cid = [t \in Thread |-> 0]
  /\ usedCids = {} /\ nextCid = 0
  /\ pageOwner = [p \in Page |-> None] /\ cmdLock = None
  /\ submitted = <<>> /\ scanning = {} /\ overdue = {}
  /\ signal = [t \in Thread |-> None] /\ answer = [t \in Thread |-> NoRequest]
  /\ rt = "read" /\ ccmd = NoRequest
  /\ pending = {} /\ completions = <<>>
  /\ closing = "open" /\ dropped = {}

------------------------------------------------------------------------------
(* submit_gcq_command()                                                    *)

(* The call is let in unless gcq_halted is set; kzalloc() clears the       *)
(* command, its id included.                                               *)
Submit(t, k) ==
  /\ pc[t] = "idle" /\ closing = "open"
  /\ call[t] < MaxCalls
  /\ call' = [call EXCEPT ![t] = @ + 1]
  /\ kind' = [kind EXCEPT ![t] = k]
  /\ cid' = [cid EXCEPT ![t] = 0]
  /\ signal' = [signal EXCEPT ![t] = None]
  /\ answer' = [answer EXCEPT ![t] = NoRequest]
  /\ overdue' = overdue \ {t}
  /\ Goto(t, IF PageOf(k) = None THEN "cid" ELSE "page")
  /\ UNCHANGED <<usedCids, nextCid, pageOwner, cmdLock, submitted, scanning, rt, ccmd,
                 channel, closing, dropped>>

(* A mistake: taking the page without waiting for it.                      *)
AcquirePageUnchecked(t) ==
  /\ pc[t] = "page"
  /\ pageOwner' = [pageOwner EXCEPT ![PageOf(kind[t])] = t]
  /\ Goto(t, "cid")
  /\ UNCHANGED <<kind, call, cid, usedCids, nextCid, cmdLock, proxy, rt, ccmd, channel,
                 closing, dropped>>

AcquirePage(t) ==
  /\ pc[t] = "page"
  /\ pageOwner[PageOf(kind[t])] = None
  /\ pageOwner' = [pageOwner EXCEPT ![PageOf(kind[t])] = t]
  /\ Goto(t, "cid")
  /\ UNCHANGED <<kind, call, cid, usedCids, nextCid, cmdLock, proxy, rt, ccmd, channel,
                 closing, dropped>>

(* down_interruptible() returns early; the command exists, its id is 0.    *)
AcquireInterrupted(t) ==
  /\ pc[t] = "page" /\ "interrupt" \in Fault
  /\ Goto(t, "bail")
  /\ UNCHANGED <<locals, cmdLock, proxy, rt, ccmd, channel, closing, dropped>>

(* A mistake: the next id whether or not it is free.                       *)
IsNextCid(c) == c = nextCid

(* xa_alloc_cyclic(): the first free id from next_cid_id on, wrapping.     *)
CidAfter(i) == (nextCid + i) % (MaxCid + 1)
IsNextFree(c) == \E i \in Cid : /\ c = CidAfter(i) /\ c \notin usedCids
                                /\ \A j \in 0 .. i - 1 : CidAfter(j) \in usedCids

(* A mistake: next_cid_id runs past the limit.                             *)
AllocCidNoWrap(t) ==
  /\ pc[t] = "cid"
  /\ \E c \in Cid : /\ IsNextFree(c)
                    /\ cid' = [cid EXCEPT ![t] = c]
                    /\ usedCids' = usedCids \cup {c}
                    /\ nextCid' = c + 1
  /\ Goto(t, "lock")
  /\ UNCHANGED <<kind, call, pageOwner, cmdLock, proxy, rt, ccmd, channel, closing, dropped>>

AllocCid(t) ==
  /\ pc[t] = "cid"
  /\ \E c \in Cid : /\ IsNextFree(c)
                    /\ cid' = [cid EXCEPT ![t] = c]
                    /\ usedCids' = usedCids \cup {c}
                    /\ nextCid' = (c + 1) % (MaxCid + 1)
  /\ Goto(t, "lock")
  /\ UNCHANGED <<kind, call, pageOwner, cmdLock, proxy, rt, ccmd, channel, closing, dropped>>

NoFreeCid(t) ==
  /\ pc[t] = "cid" /\ Cid \subseteq usedCids
  /\ Goto(t, "bail")
  /\ UNCHANGED <<locals, cmdLock, proxy, rt, ccmd, channel, closing, dropped>>

TakeCmdLock(t) ==
  /\ pc[t] = "lock" /\ cmdLock = None
  /\ cmdLock' = t
  /\ Goto(t, "write")
  /\ UNCHANGED <<locals, proxy, rt, ccmd, channel, closing, dropped>>

(* amc_proxy_request_*(): the request is written to the submission queue   *)
(* before the command is put on the list.                                  *)
WriteRequest(t) ==
  /\ pc[t] = "write" /\ closing # "closed"
  /\ pending' = pending \cup {RequestOf(t)}
  /\ Goto(t, "enlist")
  /\ UNCHANGED <<locals, cmdLock, proxy, rt, ccmd, completions, closing, dropped>>

(* No instance, or no free slot.  SET_FPT_PARTITION leaves here with       *)
(* gcq_cmd_lock held.                                                      *)
WriteFails(t) ==
  /\ pc[t] = "write" /\ (closing = "closed" \/ "writeFails" \in Fault)
  /\ Goto(t, IF kind[t] = "fpt" THEN "freeCid" ELSE "failed")
  /\ UNCHANGED <<locals, cmdLock, proxy, rt, ccmd, channel, closing, dropped>>

Enlist(t) ==
  /\ pc[t] = "enlist" /\ ProxyUnlocked
  /\ submitted' = Append(submitted, t)
  /\ Goto(t, "unlock")
  /\ UNCHANGED <<locals, cmdLock, signal, answer, overdue, scanning, rt, ccmd, channel,
                 closing, dropped>>

(* A mistake: the lock released only if the request went out.              *)
ReleaseCmdLockOnSuccess(t) ==
  /\ pc[t] \in {"unlock", "failed"}
  /\ cmdLock' = IF pc[t] = "unlock" THEN None ELSE cmdLock
  /\ Goto(t, IF pc[t] = "unlock" THEN "wait" ELSE "abort")
  /\ UNCHANGED <<locals, proxy, rt, ccmd, channel, closing, dropped>>

ReleaseCmdLock(t) ==
  /\ pc[t] \in {"unlock", "failed"}
  /\ cmdLock' = None
  /\ Goto(t, IF pc[t] = "unlock" THEN "wait" ELSE "abort")
  /\ UNCHANGED <<locals, proxy, rt, ccmd, channel, closing, dropped>>

(* wait_for_completion_killable()                                          *)
Wake(t) ==
  /\ pc[t] = "wait" /\ signal[t] # None
  /\ Goto(t, "woken")
  /\ UNCHANGED <<locals, cmdLock, proxy, rt, ccmd, channel, closing, dropped>>

Killed(t) ==
  /\ pc[t] = "wait" /\ "kill" \in Fault /\ t # Heartbeat
  /\ Goto(t, "abort")
  /\ UNCHANGED <<locals, cmdLock, proxy, rt, ccmd, channel, closing, dropped>>

(* timed_out or cmd_rcode is set, or the answer can be fetched.            *)
CheckResult(t) ==
  /\ pc[t] = "woken"
  /\ Goto(t, IF signal[t] = "answered" THEN "fetch" ELSE "abort")
  /\ UNCHANGED <<locals, cmdLock, proxy, rt, ccmd, channel, closing, dropped>>

(* amc_proxy_request_abort(): first the instance is looked up, then its    *)
(* lock taken and the command removed from the list.                       *)
FindInstance(t) ==
  /\ pc[t] = "abort"
  /\ Goto(t, IF closing = "closed" THEN "freeCid" ELSE "abortLock")
  /\ UNCHANGED <<locals, cmdLock, proxy, rt, ccmd, channel, closing, dropped>>

(* A mistake: aborting without taking the command off the list.            *)
RemoveSubmittedForgotten(t) ==
  /\ pc[t] = "abortLock" /\ ProxyUnlocked
  /\ Goto(t, "freeCid")
  /\ UNCHANGED <<locals, cmdLock, proxy, rt, ccmd, channel, closing, dropped>>

RemoveSubmitted(t) ==
  /\ pc[t] = "abortLock" /\ ProxyUnlocked
  /\ submitted' = RemoveFirst(submitted, t)
  /\ Goto(t, "freeCid")
  /\ UNCHANGED <<locals, cmdLock, signal, answer, overdue, scanning, rt, ccmd, channel,
                 closing, dropped>>

(* The answer, and for reads the page, are copied to the caller.           *)
Fetch(t) ==
  /\ pc[t] = "fetch"
  /\ Goto(t, "freeCid")
  /\ UNCHANGED <<locals, cmdLock, proxy, rt, ccmd, channel, closing, dropped>>

(* done: the id in the command is erased, whether it was allocated or not. *)
FreeCid(t) ==
  /\ pc[t] \in {"bail", "freeCid"}
  /\ usedCids' = usedCids \ {cid[t]}
  /\ Goto(t, "freePage")
  /\ UNCHANGED <<kind, call, cid, nextCid, pageOwner, cmdLock, proxy, rt, ccmd, channel,
                 closing, dropped>>

(* The page is given back and the command freed: nothing remains of it.    *)
FreePage(t) ==
  /\ pc[t] = "freePage"
  /\ pageOwner' = [p \in Page |-> IF pageOwner[p] = t THEN None ELSE pageOwner[p]]
  /\ kind' = [kind EXCEPT ![t] = "plain"]
  /\ cid' = [cid EXCEPT ![t] = 0]
  /\ signal' = [signal EXCEPT ![t] = None]
  /\ answer' = [answer EXCEPT ![t] = NoRequest]
  /\ overdue' = overdue \ {t} /\ dropped' = dropped \ {t}
  /\ Goto(t, "idle")
  /\ UNCHANGED <<call, usedCids, nextCid, cmdLock, submitted, scanning, rt, ccmd, channel,
                 closing>>

------------------------------------------------------------------------------
(* complete_response_thread()                                              *)

ReadCompletion ==
  /\ rt = "read"
  /\ IF completions = <<>>
     THEN rt' = "scan" /\ UNCHANGED <<ccmd, completions>>
     ELSE rt' = "complete" /\ ccmd' = Head(completions) /\ completions' = Tail(completions)
  /\ UNCHANGED <<pc, locals, cmdLock, proxy, pending, closing, dropped>>

First(t, S) == \E i \in DOMAIN submitted :
  submitted[i] = t /\ t \in S /\ \A j \in 1 .. i - 1 : submitted[j] \notin S

(* cmd_complete(): the first submitted command with the id gets the answer *)
(* and leaves the list; without one the answer is dropped.                 *)
MatchesAnything(t) == TRUE      \* a mistake: the id is not compared
Matches(t) == cid[t] = ccmd.cid
FirstMatch(t) == First(t, {u \in Thread : Matches(u)})

CompleteCommand(t) ==
  /\ rt = "complete" /\ ProxyUnlocked
  /\ FirstMatch(t)
  /\ answer' = [answer EXCEPT ![t] = ccmd]
  /\ submitted' = RemoveFirst(submitted, t)
  /\ signal' = [signal EXCEPT ![t] = IF @ = None THEN "answered" ELSE @]
  /\ rt' = "scan" /\ ccmd' = NoRequest
  /\ UNCHANGED <<pc, locals, cmdLock, overdue, scanning, channel, closing, dropped>>

DropCompletion ==
  /\ rt = "complete" /\ ProxyUnlocked
  /\ \A i \in DOMAIN submitted : ~Matches(submitted[i])
  /\ dropped' = dropped \cup {t \in Thread : pc[t] # "idle" /\ ccmd = RequestOf(t)}
  /\ rt' = "scan" /\ ccmd' = NoRequest
  /\ UNCHANGED <<pc, locals, cmdLock, proxy, channel, closing>>

(* submitted_cmd_check_timeout(): each command whose time has passed is    *)
(* signalled, in the order of the list, again if it was before.            *)
CheckTimeouts ==
  /\ rt = "scan" /\ ProxyUnlocked
  /\ scanning' = ToSet(submitted) \cap overdue
  /\ rt' = IF scanning' = {} THEN "read" ELSE "timeout"
  /\ UNCHANGED <<pc, locals, cmdLock, submitted, signal, answer, overdue, ccmd, channel,
                 closing, dropped>>

(* cmd_rcode is set and the completion signalled; then timed_out is set,   *)
(* with the waiter already running.                                        *)
SignalTimeout(t) ==
  /\ First(t, scanning) /\ signal[t] = None
  /\ signal' = [signal EXCEPT ![t] = "expiring"]
  /\ UNCHANGED <<pc, locals, cmdLock, submitted, answer, overdue, scanning, rt, ccmd,
                 channel, closing, dropped>>

(* A scan that drains the list has taken the command off it by now.        *)
MarkTimedOut(t) ==
  /\ First(t, scanning) /\ signal[t] # None
  /\ signal' = [signal EXCEPT ![t] = "expired"]
  /\ scanning' = scanning \ {t}
  /\ submitted' = IF rt = "timeout" THEN submitted ELSE RemoveFirst(submitted, t)
  /\ rt' = IF scanning' = {} /\ rt = "timeout" THEN "read" ELSE rt
  /\ UNCHANGED <<pc, locals, cmdLock, answer, overdue, ccmd, channel, closing, dropped>>

------------------------------------------------------------------------------
(* The firmware, the clock, and the end of the service.                    *)

(* Requests wait for different parts of the firmware, so answers come in   *)
(* any order; each request is answered at most once.                       *)
FwAnswer(r) ==
  /\ r \in pending
  /\ pending' = pending \ {r}
  /\ completions' = Append(completions, r)
  /\ UNCHANGED <<pc, locals, cmdLock, proxy, rt, ccmd, closing, dropped>>

(* The deadlines are long: unless the firmware may be late, only a command *)
(* whose answer was dropped reaches its own.                               *)
Expire(t) ==
  /\ pc[t] \in {"unlock", "wait"} /\ t \notin overdue
  /\ "late" \in Fault \/ t \in dropped
  /\ overdue' = overdue \cup {t}
  /\ UNCHANGED <<pc, locals, cmdLock, submitted, signal, answer, scanning, rt, ccmd, channel,
                 closing, dropped>>

(* unset_amc(): the heartbeat thread is stopped between two calls, then    *)
(* gcq_halted is set.                                                      *)
StopServices ==
  /\ closing = "open"
  /\ \A t \in Thread : pc[t] \in CloseUnder
  /\ Heartbeat \in Thread => pc[Heartbeat] = "idle"
  /\ closing' = "drain"
  /\ UNCHANGED <<pc, locals, cmdLock, proxy, rt, ccmd, channel, dropped>>

(* amc_proxy_close(): submitted_cmds_drain() removes commands that timed   *)
(* out until none is left.                                                 *)
Drain ==
  /\ closing = "drain" /\ ProxyUnlocked
  /\ scanning' = ToSet(submitted) \cap overdue
  /\ scanning' # {}
  /\ UNCHANGED <<pc, locals, cmdLock, submitted, signal, answer, overdue, rt, ccmd, channel,
                 closing, dropped>>

Drained ==
  /\ closing = "drain" /\ ProxyUnlocked
  /\ submitted = <<>>
  /\ closing' = "stop"
  /\ UNCHANGED <<pc, locals, cmdLock, proxy, rt, ccmd, channel, dropped>>

(* kthread_stop() waits for the end of an iteration; then gcq_close() and  *)
(* the instance is freed.                                                  *)
CloseInstance ==
  /\ closing = "stop" /\ rt = "read"
  /\ rt' = "stopped" /\ closing' = "closed"
  /\ UNCHANGED <<pc, locals, cmdLock, proxy, ccmd, channel, dropped>>

------------------------------------------------------------------------------
Before(t)    == AcquirePage(t) \/ AcquireInterrupted(t) \/ AllocCid(t) \/ NoFreeCid(t)
Send(t)      == TakeCmdLock(t) \/ WriteRequest(t) \/ WriteFails(t) \/ Enlist(t) \/ ReleaseCmdLock(t)
Finish(t)    == Wake(t) \/ CheckResult(t) \/ FindInstance(t) \/ RemoveSubmitted(t)
                  \/ Fetch(t) \/ FreeCid(t) \/ FreePage(t)
Respond      == ReadCompletion \/ (\E t \in Thread : CompleteCommand(t)) \/ DropCompletion
                  \/ CheckTimeouts \/ (\E t \in Thread : SignalTimeout(t) \/ MarkTimedOut(t))
Close        == Drain \/ Drained \/ CloseInstance

Next == \/ \E t \in Thread : \/ \E k \in KindsOf(t) : Submit(t, k)
                             \/ Before(t) \/ Send(t) \/ Finish(t) \/ Killed(t) \/ Expire(t)
        \/ Respond
        \/ \E r \in pending : FwAnswer(r)
        \/ StopServices \/ Close

Spec == Init /\ [][Next]_vars

(* Threads keep running, and semaphores and mutexes wake their waiters in  *)
(* order, so a step that is enabled again and again is taken.  Nothing     *)
(* obliges the firmware to answer, or a caller to call.                    *)
FairSpec ==
  /\ Spec
  /\ \A t \in Thread : SF_vars(Before(t) \/ Send(t) \/ Finish(t)) /\ WF_vars(Expire(t))
  /\ WF_vars(Respond) /\ SF_vars(Close)

------------------------------------------------------------------------------
TypeOK ==
  /\ pc \in [Thread -> AllPhases] /\ kind \in [Thread -> AllKinds]
  /\ call \in [Thread -> 0 .. MaxCalls] /\ cid \in [Thread -> Cid]
  /\ usedCids \subseteq Cid /\ nextCid \in Cid
  /\ pageOwner \in [Page -> Thread \cup {None}] /\ cmdLock \in Thread \cup {None}
  /\ submitted \in Seq(Thread) /\ scanning \subseteq Thread /\ overdue \subseteq Thread
  /\ signal \in [Thread -> {None, "answered", "expiring", "expired"}]
  /\ answer \in [Thread -> Request \cup {NoRequest}]
  /\ rt \in {"read", "complete", "scan", "timeout", "stopped"}
  /\ ccmd \in Request \cup {NoRequest}
  /\ pending \subseteq Request /\ completions \in Seq(Request) /\ dropped \subseteq Thread
  /\ closing \in {"open", "drain", "stop", "closed"}

(* Phases in which the command of a thread has the id it was given.        *)
InFlight(t) == pc[t] \in {"lock", "write", "enlist", "unlock", "failed", "wait", "woken",
                          "abort", "abortLock", "fetch", "freeCid"}

(* "Allocate unique id to the command": no other command has an id that is *)
(* in use, and the id stays reserved until the command gives it back.      *)
CidsUnique ==
  \A t \in Thread : InFlight(t) =>
    /\ cid[t] \in usedCids
    /\ \A u \in Thread \ {t} : InFlight(u) => cid[u] # cid[t]

(* A command is matched with its answer by the id alone, yet a caller that *)
(* is told of success got the answer to its own command.                   *)
OwnAnswer == \A t \in Thread : pc[t] = "fetch" => answer[t] = RequestOf(t)

(* The firmware works on a page only for the command that holds the page's *)
(* semaphore: no other caller fills or reads it meanwhile.                 *)
PageStaysWithRequest ==
  \A r \in pending : r.page # None =>
    /\ pageOwner[r.page] = r.thread
    /\ RequestOf(r.thread) = r

(* cmd_complete() and the scans for timeouts reach commands through the    *)
(* list; a caller may be killed, woken or timed out at any moment, and     *)
(* still frees its command only when neither holds on to it.               *)
CommandsAllocated ==
  \A t \in ToSet(submitted) \cup scanning :
    pc[t] \in {"unlock", "wait", "woken", "abort", "abortLock"}

(* A call returns, whatever the firmware does: its command is answered or  *)
(* times out, and nobody keeps a lock, a page or an id for ever.           *)
CallReturns == \A t \in Thread : pc[t] # "idle" ~> pc[t] = "idle"

(* "Drain the submitted command queue before killing the worker thread":   *)
(* the close comes to its end, although callers wait for answers that may  *)
(* never come, are killed, or are just being timed out.                    *)
CloseEnds == closing = "drain" ~> closing = "closed"

(* "stop receiving incoming commands": once amc_proxy_close() freed the    *)
(* instance no caller touches it.  The code leaves this to the wait for    *)
(* the last reference; where that wait is cut short it does not hold.      *)
InstanceAlive ==
  closing = "closed" => \A t \in Thread : pc[t] \notin {"write", "enlist", "abortLock"}
=============================================================================
