# TLA+ models of AMR

AMR runs a plug-in accelerator card. The AMC firmware on the card samples
sensors, writes flash and answers requests; the AMI driver, library and tool on
the host send those requests. This directory holds TLA+ models of the parts of
both whose correctness depends on the order in which several actors step, the
TLC configurations that check them, and TLAPS proofs. `PROJECT.json` relates
every definition to the lines it models and lists the runs, the mutants, the
findings, the hazards and the theorems.

Paths below leave out two prefixes: host driver files are in
`src/sw/AMI/driver/`, firmware files in `src/fw/AMC/src/`.

    tlc -config MCGCQRing.cfg MCGCQRing      # a run: configuration, MC module
    tlapm GCQRing_proofs.tla                 # the proofs of a module

## 1. Inventory

### How a request travels

    user thread --ioctl/sysfs/hwmon--> ami_top.c        reference on the device
       --> submit_gcq_command() (ami_amc_control.c)     id, page, lock, wait
       --> amc_proxy.c                                  list of submitted commands
       --> ami_gcq.c  == submission ring ==>  gcq_driver.c
       --> ami_proxy_driver.c (AMI task)                slot in xRxData, event
       --> in_band_telemetry.c / amc.c (same task)      answer, or pass on
       --> apc_proxy_driver.c (APC task, mailbox)       flash
       --> AMI mailbox --> AMI task == completion ring ==> ami_gcq.c
       --> complete_response_thread (amc_proxy.c)       match by id, wake the caller

### Components

| component | state | operations | what is hard | what makes it correct |
|---|---|---|---|---|
| sGCQ ring (`ami_gcq.c`, `gcq_driver.c`, `gcq_ring.h`) | slots in shared memory, two published tails, four cached tails | reserve, write, publish; poll, copy, give back | two processors and no lock; tails cached on both sides and wrapping | a bounded FIFO of whole messages |
| sGCQ link (same files) | header with magic, tails, one host instance | `xGCQInit`, soft reset, `gcq_open` with retries, fast forward, `gcq_close` | either side restarts while the other is reading its memory | an attached pair agrees on both rings; no request of an earlier boot is executed, no answer of one returned |
| Host command path (`ami_amc_control.c`, `amc_proxy.c`) | ids, page semaphores, `gcq_cmd_lock`, list of submitted commands, completions | `submit_gcq_command`, response thread, timeout scan, abort, drain and close | callers interrupted, killed and timed out at each step, while answers come late | each caller gets its own answer and returns; nothing freed stays on the list |
| Host heartbeat and log threads (`ami_amc_control.c`) | failure count, last printed log index | heartbeat every interval, fatal event, log dump | a fatal event from the thread that removal stops | the fatal event once, after the threshold; every log line printed once |
| Host device lifecycle (`ami_top.c`, `ami_cdev.c`, `ami_hwmon.c`) | `state`, `enabled`, reference count, `remove_sema`, applications | probe, open, close, register, sensor reads, fatal heartbeat, remove | removal against users that come and go, two teardown stages | nobody holds a deleted device; removal ends |
| Firmware request execution (`proxy_drivers/ami`, `apps/in_band`, `amc.c`, `proxy_drivers/apc`) | `xRxData` slots, two mailboxes, two tasks | take a request, raise, answer, pass on, complete, send | requests named by a slot number in two mailboxes; every queue can be full | each slot named once; each request answered once |
| APC flash operations (`apc_proxy_driver.c`, `ami_program.c`) | cached partition tables, boot device, download in chunks | download, copy, set flags, select, reset | the cache is written by one task and reloaded by the other | table in flash and cache agree |
| SMBus target (`device_drivers/smbus_driver`) | state of each instance, ARP, event buffer, circular log | interrupt and task events | the buffer is filled by an interrupt and emptied by a task | no command forgotten or answered too early; a target leaves the controller alone |
| ASDM and ASC (`apps/asdm`, `proxy_drivers/asc`) | sensor repositories; samples with minimum, maximum, average | refresh, read, thresholds | three kinds of reader against the refresher | a record is of one sample |
| BIM (`apps/bim`) | status of each module, state of the board | update, aggregate | order of updates | the board is as bad as its worst module |
| AXC (`proxy_drivers/axc`) | cage presence, selected page, cached pages | poll, read page | a module pulled during a read | no page of another module |
| BMC proxy, MCTP, PLDM (`proxy_drivers/bmc`, `apps/out_of_band`) | partial message, sequence numbers | assemble, dispatch | lost and repeated packets | only whole messages are dispatched |
| EVL, PLL, DAL, OSAL (`common/core_libs`, `osal`) | bindings; boot-log ring; menus; mailboxes, mutexes, tasks | bind, raise; log; post, pend, lock | callbacks run in the raiser's task | order of binding; bounded mailboxes |
| Muxed device (`fal/muxed_device`) | lock, selected channel | open, read, write | two devices behind one multiplexer | no access on another's channel |
| Firmware interfaces and device drivers (`fal`, `device_drivers`) | registers | thin adapters | hardware | - |
| Host sensors, PCI, VSEC, cdev, sysfs | sensor cache, capability lists | refresh, ioctl | refresh by several readers | the cache is of one moment |
| User library, tool (`src/sw/AMI/api`, `app`) | handle | ioctls; hot reset | hot reset removes and rescans the device | a handle is of the device that is there |

`PROJECT.json` has the same list with a status for each, and the hazards: the
places where a test would hardly reach what can go wrong, each with the
properties that cover it. Left out of that list as smaller, or as of a part that
is not modelled: the count of heartbeat failures (`ami_amc_control.c:1011`),
the bound on the log index (`:82`) and the undo of `setup_amc` (`:1827`); the probe
that tests the state and sets READY in two steps (`ami_top.c:370`); the event that
resets a target which is not the one it is for (`smbus_action.c:82`); and the
items on sensors in section 4.

## 2. Modules and how they correspond to the code

| module | models | checked by |
|---|---|---|
| `Channel` | the abstract promise of one ring: a bounded FIFO | as `IsChannel` |
| `GCQTails` | the arithmetic of the tails, the same on both sides | used by `GCQRing` and `GCQ` |
| `GCQRing` | one ring, one step per access to shared memory | `ring` |
| `GCQ` | both rings with header, boots, attach and close | `gcq` |
| `HostCommand` | `submit_gcq_command` and the proxy under it | `host_prompt`, `host_live` |
| `DeviceLifecycle` | probe, users, applications, removal | `device`, `device_lookup` |
| `AmcRequests` | both firmware tasks, slots and mailboxes | `requests` |
| `FlashPartitions` | images and partition tables in flash, the cached table | `flash`, `flash_set` |
| `Sensors` | samples, repositories, thresholds, and the answers from them | `sensors` |
| `SMBus` | targets and controller of the SMBus driver | `smbus_targets`, `smbus_commands` |

The proofs about a module `M` are in `M_proofs`, which every module of the table has
but `Channel` and `GCQTails`: the proofs of `GCQRing` and of `GCQ` begin with the
lemmas on tails that each needs. Section 5 says what they prove.

A definition whose comment calls it a mistake is not part of the system: it is a
plausible bug that a mutant puts in the place of the definition after it, to
show that a property is able to fail.

**GCQRing.** `slots`, `producedTail`, `consumedTail` are what both sides see;
`pProduced`, `pConsumed`, `cProduced`, `cConsumed` are `ulRingProduced` and
`ulRingConsumed` of each side. A producer takes a slot (`ReserveSlot`, `NoFreeSlot`),
writes it in two steps, and publishes; a consumer takes (`TakeSlot`), copies in two
steps, and publishes. Writing and copying take two steps since they are loops over
words; a slot or copy that mixes two messages is `Torn`. A poll first tests whether
both produced tails read all ones (`CheckLink`), which both drivers take for a dead
PCIe link, and only then looks for a message (`TakeSlot`, `FindNothing`). The tail of
the other queue is there as the one bit that this test sees, `otherAllOnes`, and
changes at any time. Both directions run the same algorithm with the roles swapped, so
one module stands for both. Memory is sequentially consistent here: the barriers and
cache maintenance of the firmware are taken to work.

**GCQ.** The steady state above is composed with what comes before it. Moving a
message is one step, which `GCQRing` justifies once `RingInOrder` holds;
`SessionRingsInOrder` says it holds whenever host and firmware are in session, so the
two modules together cover the link. Slots carry the boot in which they were written:
`NoResponseFromBeforeBoot` tells boots apart, not hosts. A host that attaches again in
the same boot goes on where the closed one stopped, since `gcq_fast_forward` copies
both tails, and does read the answers meant for that one: `AttachStartsFresh` says the
contrary and does not hold (section 4). The firmware may stop and boot again whatever
the host is doing, and the header may outlive it or not. `strayed` is history, no
state of the code: in this boot of the firmware a host went on with the header of
another, since it was attached, or past its test of the magic, or found the old magic.
The rings are then out of order until the host attaches again (section 4), so "in
session" excludes it; `NoRequestFromBeforeBoot` does not.

**HostCommand.** One phase (`pc`) per place in `submit_gcq_command` at which
another thread can change what comes next: page semaphore, id, lock, write,
enlist, unlock, wait, woken, abort (find the instance, then remove), and the exit
path. A command is allocated for one call, so the thread names it, and what it
held is gone when the call returns. `signal` is completion, `cmd_rcode` and
`timed_out` together, with `expiring` for the moment between `complete()` and
`timed_out = true`. `rt` and `ccmd` are the response thread. `scanning` holds the
commands that a walk of the list has still to time out, in the order of the list;
the scan for deadlines and the drain of the close are two such walks, and while
it is not empty `inst->lock` is held. `closing` is `unset_amc`
and `amc_proxy_close` with its drain. The firmware answers requests in any order
or not at all.

**DeviceLifecycle.** Lookup is two steps under `pf_dev_lock` (fetch the pointer,
look into it), so that what happens to freed memory is visible; a lookup in
freed memory may find anything. `NoLookUpAfterDelete` speaks of the removal of a
device whose probe had succeeded. Probe and remove are sequences of steps, with the
heartbeat thread in between. `drain` is the wait of the kernel for readers when
managed resources go, after the callback.

**AmcRequests.** The AMI task is `read`, `raise`, `pend`, `free` in a cycle,
because the in-band application and `amc.c` run inside its `raise`. Slots, both
mailboxes and both queues are bounded. The field `for` of a message records the
request it was made for; the code has only the slot number, and the property is
that the two agree.

**FlashPartitions.** `flash` holds chunks, each with its image, its number and whether
it was written whole; `table` is the partition table in flash and `valid`, `header`,
`cache` are what `iLoadFpt` makes of it, `failed` the devices for which it last
returned ERROR. The host may write any table, bad, empty or shorter than the one
before, and a load may fail at its header, at the allocation or at any entry; what it
had done by then stays, as in the code: the header count is taken over from a bad
table too, and `iRefreshFptData` frees the old table first. An operation of the host
is a plan of requests (`DownloadPlan`: an invalid boot tag first, the first chunk
last, as in `do_image_download`). `Accept` is the part of each request that the AMI
task carries out, `SetStart` and `SetFinish` the two halves of `iAPC_SetFptPartition`,
which takes no mutex. The APC task is `Pend` followed by the steps of one message:
chunks (`DownloadImage`, `CopyChunk`, `CopyFirst`), the digest (`Record`, `Store`),
the reload (`Forget`, `LoadHeader`, `LoadEntry`, `LoadFails`), `Announce`. `reader` is
any other task in `iAPC_GetFptPartition`. The code tests the number of an entry, at
most, never that the table is there. A task that works with an entry which is not
there goes astray (`SetNowhere`, `ReadNowhere`, `GoAstray`) and is not followed
further; the memory it reads or writes is not the table's. A `Reset` may fall between
any two steps and keeps only what is in flash.

**Sensors.** Three tasks and three mutexes. `asc` walks through a sweep (`Sweep`), the
limits of each sensor (`CheckLimits`), and for each rise the callbacks of `asdm.c`
(`KeepSensor`) and `bim.c` (`MonitorReads`, `MonitorRecords`), which run in the same
task; then the repositories take the sweep over (`TakeReadings`, `Store`). `ami`
answers a request record by record under the mutex of the repositories. `apc` changes
the table, or an entry for a new image, or entry and table for new flags, and raises
its events (`todo`), whose callbacks are bound in the order of start-up: `amc.c`,
which tells the host (`TellHost`), before `asdm.c`, which refreshes its copy
(`StartRefresh`, `GetPart`, `EndRefresh`). `taken` and `known` are history: the sweeps
taken over, and the last new table the host was told of. A critical section under the
mutex of `asc_proxy_driver.c` is one step.

**SMBus.** `fsm` is the state machine of each instance, one operator per state handler
of `smbus_state.c`, dispatched by `FSM`; `queue` its event queue, `inPlay` and
`active` the two words that say whose events come next. `IsrTargets`, `IsrController`
and `IsrExit` are the interrupt handler between two drains. It reads the latched bits
at its start (`seen`) and clears those bits at its end, so what is latched again in
between is lost with them. There is one error interrupt for both sides, so an error of
a target also enters the controller's half and empties its FIFOs if no command is in
play, and the other way round. Errors that only raise a bus warning (`"tgt_warn"`,
`"ctl_warn"`, TEXT and CEXT) change no instance; the constant `Errors` says which bits
the hardware may raise. `AppCheck`, `AppStart`, `AppPost`, `AppMask`, `AppEnable` are
`xSMBusControllerInitiateCommand` in the steps the handler can come between. The
hardware is external: a controller that works its descriptors off or fails
(`ControllerWorks`, `ControllerFails`), and a host on the bus that makes one
transaction at a time (`Bus...`). Interrupt bits latch, so an event that occurs twice
before the handler runs is one event. `cmd` is history: the last command accepted,
whether it was answered, and `hit`, whether the host addressed its instance meanwhile
or the command before left the controller at work or an interrupt latched
(`Leftover`); `lost`, whether a bit of the controller came again while the handler had
still to clear it.

**Composition.** The modules meet at interfaces that one side promises and the
other assumes:
- `GCQ` and `AmcRequests` take rings as FIFO queues: proved in `GCQRing_proofs`.
- `GCQ` takes a firmware that answers each request once, and `HostCommand` one
  that answers at most once in any order: `AnsweredOnce` and `EveryRequestSettled`.
- `HostCommand` runs with `CloseUnder` idle or waiting callers: the device is
  deleted only when nobody holds it (`NoRefAtDelete`), so `unset_amc` runs when
  callers that hold a reference have left. That the proxy is alive under them is
  not shown in `HostCommand`, and with a wait that was cut short (`ami_top.c:544`) it
  is not so: `MCHostClose.cfg` lets the close come at any moment (section 4).
- `AmcRequests` takes a host that sends each id once while it is in use:
  `CidsUnique`.
- `AmcRequests` has the route of a flash request and the answer to it;
  `FlashPartitions` has what is done in between, and takes from it that an answer
  belongs to its request. It shows that the APC task comes to an answer
  (`OperationEnds`), which `AmcRequests!FairSpec` assumes.
- `Sensors` takes from `FlashPartitions` that an entry read under the mutex is a
  loaded one (`ReadsLoadedEntry`), so that `GetPart` copies an entry of some table,
  and assumes in addition that no load fails and no table gets shorter; its AMI task
  is the same as that of `AmcRequests`.

## 3. Runs, and what each shows

| run | question | instance |
|---|---|---|
| `ring` | Is the ring a FIFO at every interleaving, and is every message taken unless the link looks dead? | 4 slots, tails modulo 8, 2 messages, all 8 starting tails, the other queue at or off all ones at any time |
| `gcq` | Do sides in session agree, and is no answer of an earlier boot returned and no request of one executed, wherever the firmware restarts? | 2 slots, tails modulo 4, 2 boots, 2 attempts to attach |
| `host_prompt` | Own id, own page, own answer? | 2 threads of 2 calls, 2 ids, three kinds of command, failing writes, close |
| `host_live` | Does every call return, does the close end, and is no freed command on the list or in a scan? | 2 threads of 1 call, 1 id, every fault, close meanwhile |
| `device` | Is the device deleted only when unused, and does removal end? | 2 applications, 1 reader |
| `requests` | Is each request answered once, under full queues? | 3 requests, 2 slots, mailboxes of 2 and 1, queues of 1, 4 kinds |
| `flash` | Is what looks bootable complete, does success mean done, is only the destination written, does no reader meet a table that is being read, does each operation end unless a task goes astray? | 3 partitions on 2 devices, images of 1 to 3 chunks, a shorter table, 2 operations, 1 reset, failing writes of chunks, entries and tables, failing reads of tables, failing loader |
| `sensors` | Is an answer of one sweep or table, is no rise over a limit lost, do the tasks never block each other? | 2 sensors, both in the total, 2 limits, 2 sweeps, 1 request, 1 reset or change of the table, an entry or its flags |
| `smbus_targets` | Do targets and a command on the same hardware leave each other alone? | 3 instances, one of each kind; 1 transaction of the host of any kind, 2 commands, errors and a warning of a target, errors of the controller |
| `smbus_commands` | Is a command carried out before it is called a success, and is it answered unless an interrupt is lost? | 1 instance, 27 commands over every protocol, blocks longer than the FIFO, 2 commands in a row, errors and warnings of the controller |
| `device_lookup` | violation: is a device looked into after its removal freed it? | 1 reader, no application |
| `flash_set` | violation: does a digest that was set reach the flash? | as `flash`, no faults and no reset, room for two messages |

Nine more configurations are not among these runs. Each is to be run by hand and ends in
the violation that section 4 describes:

| configuration | module | property that does not hold |
|---|---|---|
| `MCGCQRingStall.cfg` | `MCGCQRing` | `EveryMessageReceived` |
| `MCGCQReattach.cfg` | `MCGCQ` | `AttachStartsFresh` |
| `MCGCQReprobe.cfg` | `MCGCQ` | `RetryFindsFirmware` |
| `MCHostCidZero.cfg` | `MCHostCommand` | `CidsUnique` |
| `MCHostLockLeak.cfg` | `MCHostCommand` | `CallReturns` |
| `MCHostClose.cfg` | `MCHostCommand` | `InstanceAlive` |
| `MCSMBusLost.cfg` | `MCSMBus` | `CommandAnswered` |
| `MCFlashAstray.cfg` | `MCFlashPartitions` | `SetWritesAnEntry` |
| `MCFlashShort.cfg` | `MCFlashPartitions` | `ReadsEntry` |

**Bounds.** Tails modulo 8 with 4 slots wrap in every second round, and every
starting value is an initial state, so every relation of the six copies of the
tails occurs. Four slots separate "one too many" from "full" and from "empty".
Two slots and modulo 4 suffice for `GCQ`, whose rings move in single steps; two
boots are an old one and a new one. Two threads and one or two ids give id reuse,
contention for a page and for the lock, and exhaustion of the ids. Three requests
for two slots exhaust the slots; queues of one entry fill; a request mailbox of
one entry refuses. The answer mailbox is as large as the slots, as in the code
(8 slots, 10 messages; at least as large is all that `RequestsAssumption` asks).

In `flash` an image of one chunk has no separate first chunk, one of two fills a
partition, and one of three fits only the secondary device. Two operations are one
that leaves something behind and one that meets it, and a reset may cut either. The
shorter table makes an entry disappear under a reader and under a change of flags; a
bad table is what a failing write leaves. One message in the mailbox makes it full in
one step; `flash_set` needs two. In `sensors` two readings of one sensor cross a limit
and two sweeps may fall back below it; a second sensor tells whose record is whose;
one entry after the header makes a table of two parts that can be of two ages. One
request meets every step of the others; the tasks keep nothing from one request to the
next. One transaction of the host suffices in `smbus_targets` as a target's fields are
cleared at its end; a second command finds what the first one left. FIFO depth 8 is
between the commands that fit and those (9 bytes and more) that are topped up.

The word of the tails is small, so both tails are often all ones at once, which the
drivers take for a dead link (`gcq_driver.c:168`, `ami_gcq.c:357`). With 2^32 values
it takes longer and is no less certain: a request has one answer, so the two queues
get to the same place together, after 2^32 - 1 requests. `GCQRing` has the test; `GCQ`
leaves it out: a poll there may find nothing at any time, and no liveness is checked
that relies on traffic. `MaxCalls`, `MaxBoots`, `MaxResets`, `MaxSweeps`,
`MaxRequests`, `MaxChanges`, `MaxTraffic`, `MaxCommands` and the set `Request` of
`AmcRequests` end a run: most of those configurations say `CHECK_DEADLOCK FALSE`.
`DeviceLifecycle` ends when the device is gone.

**Symmetry** is used only by `host_prompt`, over callers, and it checks
invariants only.

**Fairness**, and why the code has it:
- `GCQRing`: a producer that took a slot goes on, and each consumer polls in
  a loop of its own task or thread. Nobody is obliged to send, on this queue or on the
  other. The test of the link is strongly fair: to fail at each poll and not hold
  between them, the other tail would have to go round between any two polls.
- `GCQ!ReprobeSpec` (by hand): the task of the firmware runs, `gcq_open` goes on, the
  driver is probed again while it is not attached.
- `HostCommand!FairSpec`: threads run; strong fairness for a thread in a call, as
  it waits on semaphores and mutexes that the kernel hands over in order;
  deadlines pass; the response thread runs. Neither the firmware nor a caller owes
  anything.
- `DeviceLifecycle!FairSpec`: callbacks run, lookups and reads end, and each
  application closes its file in the end. The last is an assumption about
  applications: the driver sends SIGBUS to those that registered.
- `AmcRequests!FairSpec`: both tasks run for ever. Nothing obliges the host to
  read, which is why an answer may be lost to a full queue.
- `FlashPartitions!FairSpec`: the two tasks and the host's thread run, a reader in the
  critical section leaves it or goes astray; strong fairness for the APC task's take
  of the mutex, which FreeRTOS gives to a waiter before a later comer.
- `Sensors!FairSpec`: the three tasks run. Sweeps are bounded, so a mutex cannot
  be taken away for ever and weak fairness is enough.
- `SMBus!FairSpec`: the task, the interrupt handler and the controller go on; the
  host on the bus owes nothing.

## 4. Findings

Disagreements between the code and what it says of itself, each the counterexample
of one run:
1. `device_lookup`: after `pcie_device_remove` has freed the device (`ami_top.c:547`), a
   sensor read looks into it (`:640`), as the managed `hwmon` tree goes only after the
   callback. A probe that fails after it registered the tree does the same (`:395`).
2. `flash_set`: `iAPC_SetFptPartition` changes a digest in the cache only and answers
   success; a reload of the table by the APC task, busy with an earlier change,
   drops it (`apc_proxy_driver.c:1187`). Without any race it is lost too when the
   flags are those the entry already has, as nothing is written then (`:2341`).

Each the counterexample of a configuration to run by hand:
- `MCGCQRingStall.cfg`: a message that brings both produced tails to all ones is not
  taken until another follows on either queue (`gcq_driver.c:168`, `ami_gcq.c:357`). As
  each request has one answer this happens to the answer of request 2^32 - 1, unless
  more requests are under way.
- `MCGCQReattach.cfg`: a host that attaches again while the same firmware runs
  meets answers to requests of the host that closed (`ami_gcq.c:303`).
- `MCGCQReprobe.cfg`: a `gcq_open` that gives up keeps the only instance, and every
  later open is refused (`ami_gcq.c:786`).
- `MCHostCidZero.cfg`: an exit before an id was allocated erases id 0, which another
  command may own (`ami_amc_control.c:1788`). Running out of ids leads to the
  same exit, so `CidsUnique` is checked where neither happens.
- `MCHostLockLeak.cfg`: a failing write of `SET_FPT_PARTITION` keeps `gcq_cmd_lock`
  (`ami_amc_control.c:1662`). The passing runs leave that kind of command out.
- `MCHostClose.cfg`: when the wait of the remove callback is interrupted
  (`ami_top.c:544`), the close frees the proxy under callers who go on to use it. The
  passing runs let it come when callers are idle or wait for an answer.
- `MCSMBusLost.cfg`: a data or descriptor interrupt that is latched again while the
  handler runs is cleared with the one it read (`smbus_interrupt_handler.c:355`). The end
  that follows meets a machine that still waits for the data and ignores it
  (`smbus_state.c:3169`), and the command is never answered: the driver has no time-out.
- `MCFlashAstray.cfg`: `iAPC_SetFptPartition` writes through the pointer of the table
  (`apc_proxy_driver.c:1186`) while the APC task has freed it for the change before. With a
  blank flash there is no table from the start, and the count it tests is the one
  copied from the bad header.
- `MCFlashShort.cfg`: `iAPC_GetFptPartition` tests the number of an entry before it has
  the mutex (`apc_proxy_driver.c:1060`), and reads past the end of a table that was
  replaced by a shorter one meanwhile.

Seen in the code or in the models:
- *Queue and commands.* A request is written before its command is enlisted, so a
  quick answer is dropped and its caller times out (`amc_proxy.c:1026`; action
  `DropCompletion`). After a timeout or a kill the id and the page are given back
  while the firmware still works on the request (`amc_proxy.c:589`,
  `ami_amc_control.c:1791`); the code asks for a hot reset then. `OwnAnswer` and
  `PageStaysWithRequest` are therefore checked where nobody leaves before the
  answer. A host that stays attached over a restart of the firmware publishes old
  tails (`gcq_driver.c:195`, `ami_gcq.c:363`), and a restart between the test of
  the magic and the copy of the tails mixes two boots (`ami_gcq.c:545`): both
  happen in `gcq`, and what the firmware executes is still never of an earlier boot.
- *Device.* The wait of the remove callback may be interrupted (`ami_top.c:544`), the
  probe may overwrite `NO_AMC` with `READY` (`ami_top.c:370`), an application may
  register after the kill (`ami_top.c:660`).
- *Requests.* An answer for which the host left no room is dropped and its slot is never
  freed (`ami_proxy_driver.c:2316`); each one makes the table of slots smaller for
  good, and with no slot left requests are read and dropped without an answer.
  `SlotCarriedOnce` and `EveryRequestSettled` allow it.
- *Flash.* A poll that timed out leaves `iAbortPollWait` set, and a later poll that
  succeeds at once does not clear it (`ospi.c:1261`, `:1291`), so reads fail from then
  on; the verification tries a failing read again without a bound
  (`apc_proxy_driver.c:2438`). `iSetFptFlags` always reloads the table of device 0, and
  `iAPC_SetFptPartition` does not ask whether the table is valid. A reload that fails
  leaves no table or entries that were not read, and the header's count all the
  same; nobody tests that the table is there.
- *Sensors.* After a new image the host is told before the repository is
  refreshed, the callback of `amc.c` being bound first (`amc.c:800`): an entry asked
  for at once may be the old one. A size request for a repository that is not
  mapped returns with the mutex held (`asdm.c:2600`), which the mapping of the
  in-band application keeps from happening. A partition entry that could not
  be read leaves a missing entry (`asdm.c:952`). The running average is of
  integers and freezes once the count exceeds the values; a reset does not
  restart the count. In the host, `delete_sensors` frees the repositories while
  the files of `hwmon` are still registered (`ami_top.c:510`), and the refresh of its
  cache takes no lock, as a TODO in `ami_sensor.c` says.
- *SMBus.* `ResetIsForTheTarget` and `AnnouncedWithReturnedId` of `SMBus` are
  stated and do not hold: the reset after an event of one instance forgets the
  active target even if that is another (`smbus_action.c:82`), and the application is
  told a transaction number one above the one it was given
  (`smbus_driver.c:860`, against `smbus_application_api_usage_examples.md:276`).
  An interrupt of the controller that comes while its interrupts are disabled stays
  latched until the handler runs for another reason, and the next command enables it
  without clearing it (`smbus_driver.c:896`). `NoCommandForgotten` and
  `SuccessMeansDone` leave out a command that starts with such a bit latched. If they
  left out only those that start with an enabled one, TLC would find no violation in
  the instance of `smbus_targets` with three commands either.
- *Log.* The log thread accepts an index it never reaches (`ami_amc_control.c:82`).

## 5. Proofs

TLAPS proves, for every value of the constants that satisfies the named
assumptions:

| module | theorem | statement |
|---|---|---|
| `GCQRing_proofs` | `Invariance` | `Spec => []IInv` |
| | `NoSlotRaceTheorem` | `Spec => []NoSlotRace` |
| | `NoTornReadTheorem` | `Spec => []NoTornRead` |
| | `RingImplementsChannel` | `Spec => IsChannel` |
| `GCQ_proofs` | `Inductive`, `Types` | `Spec => []IInv`, `Spec => []TypeOK` |
| | `SessionsAgree` | `Spec => []SessionRingsInOrder` |
| | `NoOldRequest` | `Spec => []NoRequestFromBeforeBoot` |
| | `NoOldResponse` | `Spec => []NoResponseFromBeforeBoot` |
| `HostCommand_proofs` | `TypesInductive`, `Types` | `Spec => []TypeInv`, `Spec => []TypeOK` |
| | `ListInductive`, `NeverFreedOnList` | `QuietClose`: `Spec => []CommandsAllocated` |
| | `CidsInductive`, `UniqueCids` | `IdsSuffice`: `Spec => []CidsUnique` |
| | `MatchedInductive`, `OwnAnswers` | `Prompt`: `Spec => []OwnAnswer` |
| | `PagesStay` | `Prompt`: `Spec => []PageStaysWithRequest` |
| `DeviceLifecycle_proofs` | `ReferencesCounted` | `Idle`: `Spec => []IInv` |
| | `DeleteIsSafe` | `Idle`: `Spec => []NoRefAtDelete` |
| | `NoNewReferences` | `Idle`: `Spec => NoNewRefs` |
| `AmcRequests_proofs` | `Inductive`, `Types` | `Spec => []IInv`, `Spec => []TypeOK` |
| | `CarriedOnce` | `Spec => []SlotCarriedOnce` |
| | `AnswersAlwaysFit` | `Spec => []MailboxRoom` |
| | `InOnePlace`, `OneAnswer` | `Spec => []Once`, `Spec => []AnsweredOnce` |
| `FlashPartitions_proofs` | `Inductive`, `Types` | `Spec => []IInv`, `Spec => []TypeOK` |
| | `ReadsLoaded` | `Spec => []ReadsLoadedEntry` |
| | `BootableComplete` | `Spec => []BootableIsComplete` |
| | `DestinationOnly` | `Spec => OnlyDestinationWritten` |
| | `SuccessIsDone` | `Spec => []SuccessMeansDone` |
| `Sensors_proofs` | `Inductive`, `Types` | `Spec => []IInv`, `Spec => []TypeOK` |
| | `ThresholdsFollow` | `Spec => []ThresholdCoversMax` |
| | `AnswersWhole` | `Spec => []AnswerIsWhole` |
| `SMBus_proofs` | `Invariant`, `Types` | `Spec => []IInv`, `Spec => []TypeOK` |
| | `NoForgotten` | `Spec => []NoCommandForgotten` |
| | `SuccessDone` | `Spec => []SuccessMeansDone` |
| | `WholeCommands` | `Spec => CommandIsWhole` |
| | `WholeWrites` | `Spec => WriteIsWhole` |
| | `Separation` | `Spec => TargetsLeaveController` |

Each follows the same course: a strengthening of the property that is inductive
(checked by TLC on the instance of the module's run first), one lemma per part of
it, in that lemma one step per action, and the theorem from `PTL`.

*Ring.* The assumptions are that the word is a multiple of the number of slots,
larger than it, and that `Torn` is no message. `NoSlotRace` is not inductive: it
follows from `TailsInOrder`, the six copies of the two tails lying in order on
the circle within one ring's length. Stale caches make a side see less than
there is, never more. `OneSlotAhead` ties the copies to the phases, `SlotsWhole`
says that what is readable is whole. The circle is handled by `Dist` and `Plus`:
`TailsStep` keeps the order, `SlotInjective` and `WindowDisjoint` turn distances
below the number of slots into different slots, and `WritePreservesReadable` says a
write leaves the readable slots alone. For the refinement, `Readable` is the queue;
publishing is `Send`, starting a copy is `Receive`, other steps stutter.

*Link.* Any number of slots, boots and attempts. `NoRequestFromBeforeBoot` is about
one step of the firmware, but what makes it true lies far back:
`SubmissionsOfBoot` says that all that the firmware has still to take bears the mark
of this boot, or else that every slot of the ring does. The second case is needed
since a host that stayed attached over a restart publishes a tail that has nothing
to do with the firmware's: the tails are then in no order, and the firmware may run
round the ring, but only over slots written since. The agreement of a session
needs `MagicComesLast` (a host that went past its test of the magic met no boot
since, so both rings have been reset), `HostKeepsTail`, and the order of the tails
of each ring, which holds from the reset of that ring on, before the host comes.

*Commands.* The hypotheses are not conveniences: without each of them TLC has a
counterexample, and sections 3 and 4 tell of those that the code meets. `QuietClose`:
the service is not closed under a caller on its way to the list. `ListInv` needs,
besides the property, that the list has no command twice, that what a walk has still
to visit is on the list, and that nothing on it is answered. `IdsSuffice`: nobody is
interrupted before it has an id and there are as many ids as callers; else id 0 is
given back that was never taken (`MCHostCidZero.cfg`). With it every id in use is
owned by a caller in flight (`CidsOwned`), and if all were in use by others, an
injection of the ids into the other callers would contradict their number (`CidLeft`).
`Prompt` adds to it that nobody leaves a request before its answer. Then a request is
in one place, with the firmware, in the ring or with the response thread, and its
caller is waiting for it with the same id (`WayOwn`, `WayOnce`); that the response
thread's search by id finds that caller uses that ids are unique.

*Device.* `Idle` says that the wait of the remove callback is not interrupted.
`RefsCounted` is the invariant: the count is the number of holders plus the
reference of the probe until removal returns it, and only the last put ups the
semaphore. `Phases` ties `freed`, `enabled` and the count to where probe and
remove are. `Enter` and `Exit` count one holder more or fewer.

*Requests.* `SlotCarriedOnce` counts the places that name a slot: both mailboxes and
what the two tasks hold. A slot in use is named by exactly one and a free one by
none. As every answer in the mailbox names another slot, there are at most as many
as slots (`AnswerFits`, by an injection), which is why the post of an answer never
fails although its result is not looked at (`RequestsAssumption`: the mailbox is as
large as the slots). `Once` counts the same for requests: one that was sent is in
the submission queue, in a slot, in the completion queue, received or refused, and in
one of them; from it, `AnsweredOnce`. The counting lemmas (`Places...`) say how many
positions of a sequence hold a member of a set, after an append and a tail.

*Flash.* Any partitions that do not overlap, any images that satisfy
`FlashAssumption`, `RequestAssumption` (requests of the six kinds of the driver), and
any tables, good or bad and of any length, any of whose writes and reads may fail;
`TableAssumption` only types them and says that device 0, whose table each change of
flags reloads, is there. `Handshake` says that the message of an operation is the one
the host waits for, with nothing behind it, and `PlanOK` that what is left of the plan
is its end. `TableTypes`: a cached table has the size its header says, or is not
there. `LoadsOK`: outside a load, a device whose last load did not fail has every
entry the header counts, and during a load those up to the one at hand. With
`Exclusive` a load happens only while the APC task holds the mutex, hence
`ReadsLoadedEntry`: what a reader meets is never half read, and an entry it misses is
one of the two cases of section 4, a failed load or a shorter table. `NamesOK` carries
the entries of a download or copy over to the write of its digest, for nobody but the
APC task itself takes a table away. `BootableIsComplete` is not inductive: `Progress`
has to say what each part of a download leaves behind. After its first message the tag
of the destination is invalid, after `w` messages the chunks `1 .. w - 1` are whole
(`Written`), and chunk 0 comes last; a reset at any moment leaves a tag that is
invalid or what it was. A copy needs more: the source must itself be complete, it must
not be longer than the destination, and the destination's tag stays invalid until the
chunks from 1 on agree (`CopyProgress`). `OnlyDestinationWritten` follows from that
and from `Elsewhere` (other partitions have other addresses). For `SuccessMeansDone`
the same invariant says what a plan carried out to its end has done.

*Sensors.* Any number of sensors, of entries, of sweeps and resets.
`SensorsAssumption` asks that limits are not 0, as those of the profiles are; a
limit of 0 would be reached by the values of a reset, whose threshold is 0. A
rise is handled some time after it was measured: in `Thresholds` each sensor is
covered, or the sweep has still to come to it and its highest value is the present
one, or it is the one at hand and the event carries its level. For
`AnswerIsWhole`: the repositories hold one sweep that was taken over
(`Repositories`), the mutex is held for the whole of a copy, and the table of the
repositories is behind that of the partitions only while a refresh is to come that
the host has not been told of (`Tables`). The model starts with a total of
0; that a fold over zeros is 0 is an induction over data, which is got from
the smallest number whose sum is not (`SmallestNumber`, `SumOfNothing`).

*SMBus.* Any instances of the three kinds, any commands and transactions, any depth of
the FIFO; `SMBusAssumption` only types the constants. That success is never early
depends on which events can be in the queue of the instance in play. `InTurn` says,
for each state of the controller's machine: what the hardware has still to do (before
the read starts, no descriptor that reads or ends), what is latched or about to be
posted, what is queued, and whether the controller runs. So an end that is latched or
queued means that the descriptor which ends the transfer was carried out (`stopped`).
What is latched counts only if the handler has not read it yet (`Unseen`), and with
what it has read and not yet posted it makes `Coming`, since at its end it clears what
it read. Two facts about order are part of it. The first event of a command is the
task's and stands alone in the queue, and behind a request for descriptors nothing
stands but the end (`Ordinary`): the interrupt handler looks at the bits in that order
and does not post again before the queues are empty. Otherwise data behind such a
request would meet a state that does not expect it and the command would be dropped.
`Fresh` is the moment at which the command has the lock and the task has not yet
posted. `Asking` makes the task's post whole: only an interrupt that addresses the
same instance can tear it, and that one is marked as `hit`. For the other instances
`Target` says that none gets into a state of a controller, since events of the
controller go to the instance in play alone (`OtherHandled`), and that one which is
about to accept a write has all its bytes (`Whole`). The lemmas come in layers: one
for each handler of a target (`...Outcome`) and of a controller (`...Turn`), then
`Dispatched` for the machine, `PlayHandled` and `OtherHandled` for an event of the
instance in play and of another, `EventKeeps` and its likes for each step.

*Only model-checked.* Every liveness property: `EveryMessageTaken`, `CallReturns`,
`CloseEnds`, `RemoveFinishes`, `EveryRequestSettled`, `OperationEnds`, `TasksComeBack`,
`AnsweredUnlessLost`, since liveness under fairness is out of the prover's reach. The
two properties of the violation runs, and of the configurations to run by hand,
are counterexamples and have nothing to prove. Every other invariant and action
property of a passing run is a theorem.


## 6. What is not modelled, and why

- Data: payloads, copies of pages, sensor conversion, packet formats, command
  line, log text. Properties here are about order and ownership.
- Memory ordering below sequential consistency, and interrupts of the queue:
  both sides poll.
- In `AmcRequests`: the test mode of the in-band application, the debug menus
  (which inject requests of their own), the opcode `PDI_PROGRAM`, which the host never
  sends, and unknown opcodes. After a reset the firmware is frozen; its next
  boot is the subject of `GCQ`. Only the APC task takes the flash lock, so a busy
  flash does not occur.
- In `FlashPartitions`: the host waits for each answer and carries out one
  operation at a time (`ioctl_sema`). The addresses and sizes of the partitions are the
  same in every table. A failing write of a table leaves the old one or one with a bad
  header, and damage to an entry of a table is left out; a failing write of an entry is
  only warned of, as in the code; a failing write of a chunk leaves the old chunk or a
  damaged one. Writing and verifying a chunk is one step, chunks of a download
  and of a copy are the same, and copies of less than a packet are left out. Each
  entry of a table has a sector of its own, and reads of chunks do not fail. What a
  task does after it went astray is not followed.
- In `Sensors`: every sensor is enabled and has one quantity. Mutexes are waited
  for without end, so that taking one does not fail, and reads of the partition
  table succeed. Of a change of flags, the write to the cached entry by the AMI task and
  the reload by the APC task are one step (`ChangeTable`). Left out are board information, the second version of the requests,
  single-sensor and size answers, the operational states set by PLDM
  (`out_of_band_telemetry.c:368`) and the module states of BIM, which are read
  again at each event.
- In `SMBus`: the host starts a transaction only when no bit of the last one is
  latched, and sends READ after all its bytes; it may refuse a byte at any
  visit of the descriptors. After an error the controller halts until its FIFO is
  reset. Address resolution, host notify and the circular log are left out.
- `OSAL`, `EVL`: taken over where they are used (mailboxes, mutexes, callbacks in
  the raiser's task), not modelled by themselves. FreeRTOS is external.
- Two cards: one host instance exists in `ami_gcq.c`.
- `setup_amc` undoing its steps after a failure; the heartbeat count; the log
  thread.
- AXC, the muxed device: each operation is one critical section of one mutex,
  so interleavings cannot disorder it; what is left is register traffic.
- MCTP and PLDM, the firmware interfaces, profiles, device drivers, the library and
  the tool: sequential conversion, or input and output. They make up most of the
  lines of the repository: the lines mapped are a small share of all of them, and
  of those with concurrency in them a large one.
- The sensor cache of the host: refreshed without a lock, so a model could show
  only that anything may be read.

## 7. Plan

Done, in order of importance: `GCQTails`, `GCQRing` with `Channel`; `GCQ`;
`HostCommand`; `DeviceLifecycle`; `AmcRequests`; `FlashPartitions`; `SMBus`; `Sensors`;
the proofs of all of them.

Next, a proof: that the single steps of `GCQ` are those of `GCQRing` seen from afar,
as a refinement.

Models that could follow: the heartbeat count and the log thread with the log ring
of PLL, composed with the close of `HostCommand`; the assembly of MCTP packets.
