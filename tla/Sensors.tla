------------------------------- MODULE Sensors -------------------------------
(***************************************************************************)
(* The sensor data of the card and the partition table, from the tasks     *)
(* that produce them to the answers to the host.  The ASC task             *)
(* (asc_proxy_driver.c) samples the sensors and raises events; the         *)
(* repositories of asdm.c and the monitor of bim.c hang on them as         *)
(* callbacks that run in the task that raises.  The AMI task answers       *)
(* requests out of the repositories, the APC task has them refreshed when  *)
(* the partition table changes, and the debug menu resets sensors.  Each   *)
(* of the three tables has a mutex of its own.                             *)
(***************************************************************************)
EXTENDS Integers, FiniteSetsExt, SequencesExt

CONSTANTS
  NumSensors,       \* ucNumSensors; sensor i is entry i of the tables
  PowerSensor,      \* those of the power repository, the others are of "temp"
  InTotal,          \* those with ucTotalPowerSensor
  Value,            \* what each sensor may read
  Limit,            \* the upper limits, <<warning, critical, fatal>>; those of the profiles are not 0
  NoLimit,          \* ASC_SENSOR_INVALID_VAL
  NumEntries,       \* entries of the partition table, after its header
  Request,          \* what the host may ask for: a repository, or "flags"
  MaxSweeps, MaxRequests,   \* bounds on the actions
  MaxChanges,               \* bound on the changes of the table and the resets together
  NoTask

Sensor == 1 .. NumSensors
Part   == 0 .. NumEntries                           \* 0 is the header
Status == {"notPresent", "valid", "unavailable"}

ASSUME SensorsAssumption ==
  /\ NumSensors \in Nat \ {0} /\ PowerSensor \subseteq Sensor /\ InTotal \subseteq PowerSensor
  /\ Value \in [Sensor -> SUBSET Nat]
  /\ Limit \in [1 .. 3 -> (Nat \ {0}) \cup {NoLimit}] /\ NoLimit \notin Nat
  /\ NumEntries \in Nat /\ Request \subseteq {"power", "temp", "total", "fpt", "flags"}
  /\ NoTask \notin {"ami", "apc"}
  /\ {MaxSweeps, MaxRequests, MaxChanges} \subseteq Nat

VARIABLES
  reading,          \* pxSensorData[].pxReadings
  threshold,        \* pxSensorData[].ulThresholdStatus
  count,            \* iNumberOfReadings
  asc,              \* the ASC task: where it is, and at which sensor
  data,             \* pxAscData: the reading and whose it is
  record,           \* pxSensorRecord of the sensor repositories
  total,            \* the record of the total power
  sums,             \* ulPowerCalcIterations
  asdmMutex,        \* pvOsalMutexHdl of the repositories
  ami,              \* the AMI task: its request and the answer so far
  table,            \* the cached partition table, by the change last made to a part
  apcMutex,         \* pvOsalMutexHdl of the APC proxy
  apc,              \* the APC task: what its events have it do
  fpt,              \* the copy of the table in its repository
  taken,            \* history: what the repositories took over at each sweep
  known,            \* history: the last new table the host has been told of
  sweeps, updates, requests, resets

vars == <<reading, threshold, count, asc, data, record, total, sums, asdmMutex, ami,
          table, apcMutex, apc, fpt, taken, known, sweeps, updates, requests, resets>>

sensors == <<reading, threshold, count>>
records == <<data, record, total, sums, taken>>
ascTask == <<asc, sweeps>>
amiTask == <<ami, requests>>
apcTask == <<table, apcMutex, apc, fpt, known, updates>>

Reset    == [value |-> 0, avg |-> 0, max |-> 0, status |-> "notPresent"]
Of(s, r) == [sensor |-> s, reading |-> r]
All      == [s \in Sensor |-> Of(s, reading[s])]

(* iASDM_Initialise() has read the sensors once, before any sweep.         *)
Init ==
  /\ reading = [s \in Sensor |-> Reset] /\ threshold = [s \in Sensor |-> 0]
  /\ count = [s \in Sensor |-> 0]
  /\ asc = [pc |-> "asleep"]
  /\ data = All /\ record = All /\ taken = << All >>
  /\ total = [value |-> 0, avg |-> 0, max |-> 0] /\ sums = 0
  /\ asdmMutex = NoTask
  /\ ami = [pc |-> "idle"]
  /\ table = [i \in Part |-> 0] /\ apcMutex = NoTask /\ apc = [pc |-> "idle"]
  /\ fpt = table /\ known = 0
  /\ sweeps = 0 /\ updates = 0 /\ requests = 0 /\ resets = 0

---------------------------------------------------------------------------
(* The sweep of the ASC task.  What is done under the mutex of the sensors *)
(* is one step: nothing else is ever taken while it is held.               *)

(* The running average of vProxyDriverTask() and iCalculateTotalPower(),   *)
(* in unsigned integers.                                                   *)
Average(avg, n, v) == avg - avg \div n + v \div n

(* What the sensors of a set may be read as.                               *)
Readings(S) == {v \in [S -> UNION {Value[s] : s \in S}] : \A s \in S : v[s] \in Value[s]}

(* A sensor that cannot be read keeps its last value, marked.              *)
Sweep ==
  /\ asc.pc = "asleep" /\ sweeps < MaxSweeps
  /\ \E answering \in SUBSET Sensor : \E v \in Readings(answering) :
       /\ count' = [s \in Sensor |-> IF s \in answering THEN count[s] + 1 ELSE count[s]]
       /\ reading' = [s \in Sensor |->
            IF s \in answering
            THEN [value |-> v[s], avg |-> Average(reading[s].avg, count'[s], v[s]),
                  max |-> Max({reading[s].max, v[s]}), status |-> "valid"]
            ELSE [reading[s] EXCEPT !.status = "unavailable"]]
  /\ asc' = [pc |-> "limits", at |-> 1] /\ sweeps' = sweeps + 1
  /\ UNCHANGED <<threshold, records, asdmMutex, amiTask, apcTask, resets>>

---------------------------------------------------------------------------
(* The limits, compared without the mutex, and the callbacks of the event  *)
(* of a sensor that is over one: asdm.c was bound first, then bim.c.       *)

(* The event of a value: the highest of the limits it has reached.         *)
Level(v) == Max({0} \cup {l \in 1 .. 3 : Limit[l] # NoLimit /\ v >= Limit[l]})

NextSensor == asc' = [pc |-> "limits", at |-> asc.at + 1]

CheckLimits ==
  /\ asc.pc = "limits" /\ asc.at \in Sensor
  /\ LET level == Level(reading[asc.at].value) IN
     IF level = 0 THEN NextSensor
     ELSE asc' = [pc |-> "event", at |-> asc.at, level |-> level]
  /\ UNCHANGED <<sensors, records, asdmMutex, amiTask, apcTask, sweeps, resets>>

(* iAscCallback() of asdm.c reads the sensor into the first entry of the   *)
(* table it keeps for all of them.                                         *)
KeepSensor ==
  /\ asc.pc = "event"
  /\ data' = [data EXCEPT ![1] = Of(asc.at, reading[asc.at])]
  /\ asc' = [asc EXCEPT !.pc = "monitor"]
  /\ UNCHANGED <<sensors, record, total, sums, taken, asdmMutex, amiTask, apcTask, sweeps, resets>>

(* A mistake: the monitor records the level of the last event.             *)
MonitorReadsAnyLevel ==
  /\ asc.pc = "monitor"
  /\ asc' = [asc EXCEPT !.pc = "record"]
  /\ UNCHANGED <<sensors, records, asdmMutex, amiTask, apcTask, sweeps, resets>>

(* iAscCallback() of bim.c, which records a level above the one it reads.  *)
MonitorReads ==
  /\ asc.pc = "monitor"
  /\ IF asc.level > threshold[asc.at] THEN asc' = [asc EXCEPT !.pc = "record"] ELSE NextSensor
  /\ UNCHANGED <<sensors, records, asdmMutex, amiTask, apcTask, sweeps, resets>>

MonitorRecords ==
  /\ asc.pc = "record"
  /\ threshold' = [threshold EXCEPT ![asc.at] = asc.level]
  /\ NextSensor
  /\ UNCHANGED <<reading, count, records, asdmMutex, amiTask, apcTask, sweeps, resets>>

---------------------------------------------------------------------------
(* The event of the end of the sweep: the repositories take it over.       *)

(* iASC_GetAllSensorData(), under the mutex of the sensors only.           *)
TakeReadings ==
  /\ asc.pc = "limits" /\ asc.at \notin Sensor
  /\ data' = All /\ taken' = Append(taken, All)
  /\ asc' = [pc |-> "store"]
  /\ UNCHANGED <<sensors, record, total, sums, asdmMutex, amiTask, apcTask, sweeps, resets>>

TotalOf(table1) ==
  MapThenSumSet(LAMBDA s : table1[s].reading.value,
                {s \in PowerSensor : table1[s].sensor \in InTotal})

(* iUpdateAsdmValues() and iCalculateTotalPower(), under the mutex of the  *)
(* repositories.                                                           *)
Store ==
  /\ asc.pc = "store" /\ asdmMutex = NoTask
  /\ record' = data
  /\ LET power == TotalOf(data) IN
       /\ sums' = sums + 1
       /\ total' = [value |-> power, max |-> Max({total.max, power}),
                    avg |-> Average(total.avg, sums', power)]
  /\ asc' = [pc |-> "asleep"]
  /\ UNCHANGED <<sensors, data, taken, asdmMutex, amiTask, apcTask, sweeps, resets>>

---------------------------------------------------------------------------
(* iASC_ResetAllSensorData() and its siblings, from the debug menu.        *)

ResetSensors ==
  /\ resets + updates < MaxChanges
  /\ \E S \in {Sensor} \cup {{s} : s \in Sensor} :
       reading' = [s \in Sensor |-> IF s \in S THEN Reset ELSE reading[s]]
  /\ resets' = resets + 1
  /\ UNCHANGED <<threshold, count, ascTask, records, asdmMutex, amiTask, apcTask>>

---------------------------------------------------------------------------
(* The AMI task: iASDM_PopulateResponse() and iAPC_GetFptPartition().      *)

(* The records of a repository, in their order: GetAll and GetSdr copy the  *)
(* same ones.                                                              *)
InOrder(S) == SetToSortSeq(S, <)

Members(repo) ==
  CASE repo = "power" -> InOrder(PowerSensor)
    [] repo = "temp"  -> InOrder(Sensor \ PowerSensor)
    [] repo = "total" -> << "total" >>
    [] repo = "fpt"   -> [i \in 1 .. NumEntries + 1 |-> i - 1]

Ask ==
  /\ ami.pc = "idle" /\ requests < MaxRequests
  /\ \E r \in Request :
       ami' = [pc |-> IF r = "flags" THEN "flags" ELSE "take", req |-> r, got |-> <<>>,
               since |-> [sweep |-> Len(taken) - (IF asc.pc = "store" THEN 1 ELSE 0),
                          fpt |-> known]]
  /\ requests' = requests + 1
  /\ UNCHANGED <<sensors, ascTask, records, asdmMutex, apcTask, resets>>

(* A mistake: the answer is put together without the mutex.                *)
StartAnswerUnlocked ==
  /\ ami.pc = "take"
  /\ ami' = [ami EXCEPT !.pc = "copy"]
  /\ UNCHANGED <<sensors, ascTask, records, asdmMutex, apcTask, requests, resets>>

StartAnswer ==
  /\ ami.pc = "take" /\ asdmMutex = NoTask
  /\ asdmMutex' = "ami" /\ ami' = [ami EXCEPT !.pc = "copy"]
  /\ UNCHANGED <<sensors, ascTask, records, apcTask, requests, resets>>

CopyRecord ==
  /\ ami.pc = "copy" /\ Len(ami.got) < Len(Members(ami.req))
  /\ LET m == Members(ami.req)[Len(ami.got) + 1]
         v == CASE ami.req = "fpt"   -> fpt[m]
                [] ami.req = "total" -> total
                [] OTHER             -> record[m]
     IN  ami' = [ami EXCEPT !.got = Append(@, v)]
  /\ UNCHANGED <<sensors, ascTask, records, asdmMutex, apcTask, requests, resets>>

EndAnswer ==
  /\ ami.pc = "copy" /\ Len(ami.got) = Len(Members(ami.req))
  /\ asdmMutex' = NoTask /\ ami' = [ami EXCEPT !.pc = "answered"]
  /\ UNCHANGED <<sensors, ascTask, records, apcTask, requests, resets>>

(* The flags of a partition, read from the APC proxy under its mutex.      *)
ReadFlags ==
  /\ ami.pc = "flags" /\ apcMutex = NoTask
  /\ \E i \in Part \ {0} : ami' = [ami EXCEPT !.pc = "answered", !.got = << table[i] >>]
  /\ UNCHANGED <<sensors, ascTask, records, asdmMutex, apcTask, requests, resets>>

Answer ==
  /\ ami.pc = "answered"
  /\ ami' = [pc |-> "idle"]
  /\ UNCHANGED <<sensors, ascTask, records, asdmMutex, apcTask, requests, resets>>

---------------------------------------------------------------------------
(* The APC task, once it has changed the partition table for the host.     *)

(* A mistake: the events are raised with the mutex of the table held.      *)
ChangeTableAndHold ==
  /\ apc.pc = "idle" /\ resets + updates < MaxChanges
  /\ updates' = updates + 1
  /\ \/ /\ apcMutex = NoTask /\ apcMutex' = "apc"
        /\ table' = [i \in Part |-> updates']
        /\ apc' = [pc |-> "raise", todo |-> <<"refresh", "tell", "refresh">>]
     \/ /\ \E i \in Part \ {0} : table' = [table EXCEPT ![i] = updates']
        /\ apc' \in [pc : {"raise"}, todo : {<<"tell", "refresh">>, <<"refresh">>}]
        /\ UNCHANGED apcMutex
  /\ UNCHANGED <<sensors, ascTask, records, asdmMutex, amiTask, fpt, known, resets>>

(* New flags of a partition, which the host has been told of before, have  *)
(* the table loaded again, and FPT_FLAGS_UPDATED has the repository        *)
(* refreshed.                                                              *)
UpdateFptFlags == apcMutex = NoTask /\ apc' = [pc |-> "raise", todo |-> <<"refresh">>]

(* A new table is loaded under the mutex; a new image changes the entry of *)
(* its partition without it.  FPT_UPDATE has the repository refreshed.  At *)
(* DOWNLOAD_COMPLETE and COPY_COMPLETE iApcCallback() of amc.c, which was  *)
(* bound first, has the host told, and then the repository is refreshed.   *)
ChangeTable ==
  /\ apc.pc = "idle" /\ resets + updates < MaxChanges
  /\ updates' = updates + 1
  /\ \/ /\ apcMutex = NoTask
        /\ table' = [i \in Part |-> updates']
        /\ apc' = [pc |-> "raise", todo |-> <<"refresh", "tell", "refresh">>]
     \/ /\ \E i \in Part \ {0} : table' = [table EXCEPT ![i] = updates']
        /\ \/ apc' = [pc |-> "raise", todo |-> <<"tell", "refresh">>]
           \/ UpdateFptFlags
  /\ UNCHANGED <<sensors, ascTask, records, asdmMutex, amiTask, apcMutex, fpt, known, resets>>

Raise(todo) == IF todo = <<>> THEN [pc |-> "idle"] ELSE [pc |-> "raise", todo |-> todo]

TellHost ==
  /\ apc.pc = "raise" /\ Head(apc.todo) = "tell"
  /\ known' = table[0]
  /\ apc' = Raise(Tail(apc.todo))
  /\ UNCHANGED <<sensors, ascTask, records, asdmMutex, amiTask, table, apcMutex, fpt, updates,
                 resets>>

(* iApcCallback() of asdm.c: the repository is read again, part by part,   *)
(* with its mutex held and that of the table taken for each of them.       *)
StartRefresh ==
  /\ apc.pc = "raise" /\ Head(apc.todo) = "refresh" /\ asdmMutex = NoTask
  /\ asdmMutex' = "apc"
  /\ apc' = [pc |-> "get", todo |-> Tail(apc.todo), got |-> <<>>]
  /\ UNCHANGED <<sensors, ascTask, records, amiTask, table, apcMutex, fpt, known, updates, resets>>

GetPart ==
  /\ apc.pc = "get" /\ Len(apc.got) \in Part /\ apcMutex = NoTask
  /\ apc' = [apc EXCEPT !.got = Append(@, table[Len(@)])]
  /\ UNCHANGED <<sensors, ascTask, records, asdmMutex, amiTask, table, apcMutex, fpt, known,
                 updates, resets>>

(* iUpdateAsdmFpt().                                                       *)
EndRefresh ==
  /\ apc.pc = "get" /\ Len(apc.got) \notin Part
  /\ fpt' = [i \in Part |-> apc.got[i + 1]]
  /\ asdmMutex' = NoTask
  /\ apc' = Raise(apc.todo)
  /\ UNCHANGED <<sensors, ascTask, records, amiTask, table, apcMutex, known, updates, resets>>

---------------------------------------------------------------------------

AscTask ==
  Sweep \/ CheckLimits \/ KeepSensor \/ MonitorReads \/ MonitorRecords \/ TakeReadings \/ Store

AmiTask == StartAnswer \/ CopyRecord \/ EndAnswer \/ ReadFlags \/ Answer

ApcTask == StartRefresh \/ GetPart \/ EndRefresh \/ TellHost

Next == AscTask \/ AmiTask \/ ApcTask \/ Ask \/ ChangeTable \/ ResetSensors

Spec == Init /\ [][Next]_vars

(* The tasks are scheduled for ever.  What the host asks for and what is   *)
(* typed at the debug menu is up to them.                                  *)
FairSpec == Spec /\ WF_vars(AscTask) /\ WF_vars(AmiTask) /\ WF_vars(ApcTask)

---------------------------------------------------------------------------
(* Properties.                                                             *)

TypeOK ==
  /\ \A s \in Sensor :
       /\ reading[s].status \in Status
       /\ {reading[s].value, reading[s].avg, reading[s].max} \subseteq Nat
       /\ record[s].sensor \in Sensor /\ data[s].sensor \in Sensor
  /\ threshold \in [Sensor -> 0 .. 3] /\ count \in [Sensor -> 0 .. MaxSweeps]
  /\ {asdmMutex, apcMutex} \subseteq {"asc", "ami", "apc", NoTask}
  /\ table \in [Part -> 0 .. MaxChanges] /\ fpt \in [Part -> 0 .. MaxChanges]

(* What is answered to a request if the repositories are those of a sweep. *)
OfSweep(req, t) ==
  CASE req = "total" -> /\ Len(ami.got) = 1 /\ ami.got[1].value = TotalOf(t)
    [] OTHER -> ami.got = [k \in 1 .. Len(Members(req)) |-> t[Members(req)[k]]]

(* An answer is all of one sweep, not older than the one stored when it    *)
(* was asked for, each record with the reading of its own sensor, the      *)
(* total power the sum of that sweep; or it is the last new partition      *)
(* table the host had been told of, or a later one.  At stake are the      *)
(* mutex of the repositories, the table that iAscCallback() (asdm.c) keeps *)
(* outside it and overwrites for each event, and the order in which        *)
(* callbacks are bound and events are raised.                              *)
AnswerIsWhole ==
  ami.pc = "answered" /\ ami.req # "flags" =>
    IF ami.req = "fpt"
    THEN /\ \A i \in Part : ami.got[i + 1] >= ami.since.fpt
         /\ \A i \in Part : ami.got[i + 1] >= ami.got[1]
    ELSE \E n \in ami.since.sweep .. Len(taken) : OfSweep(ami.req, taken[n])

(* When a sweep and its callbacks are over the threshold status of each    *)
(* sensor is at least the level of the highest value it has had since it   *)
(* was last reset: iAscCallback() (bim.c) follows a rise and never lowers  *)
(* it, though the limits are compared and the status is read and set       *)
(* without one mutex around them.                                          *)
ThresholdCoversMax ==
  asc.pc = "asleep" => \A s \in Sensor : Level(reading[s].max) <= threshold[s]

(* No task waits for ever for one of the mutexes its callbacks take in     *)
(* turn: a sweep is stored, a request answered and the host told.          *)
TasksComeBack ==
  /\ asc.pc # "asleep" ~> asc.pc = "asleep"
  /\ ami.pc # "idle" ~> ami.pc = "idle"
  /\ apc.pc # "idle" ~> apc.pc = "idle"
=============================================================================
