--------------------------- MODULE Sensors_proofs ---------------------------
(***************************************************************************)
(* Proofs about Sensors: the threshold status of a sensor covers whatever  *)
(* it has read (asc_proxy_driver.c, bim.c), and an answer to the host is   *)
(* of one sweep or of one partition table (asdm.c).                        *)
(***************************************************************************)
EXTENDS Sensors, FiniteSetTheorems, SequenceTheorems, WellFoundedInduction, TLAPS

Reading == [value : Nat, avg : Nat, max : Nat, status : Status]
Record  == [sensor : Sensor, reading : Reading]

AscState == [pc : {"asleep", "store"}]
            \cup [pc : {"limits"}, at : 1 .. NumSensors + 1]
            \cup [pc : {"event", "monitor", "record"}, at : Sensor, level : 1 .. 3]
ApcState == [pc : {"idle"}]
            \cup [pc : {"raise"}, todo : {<<"refresh", "tell", "refresh">>,
                                          <<"tell", "refresh">>, <<"refresh">>}]
            \cup [pc : {"get"}, todo : {<<"tell", "refresh">>, <<>>}, got : Seq(Nat)]

Typed ==
  /\ reading \in [Sensor -> Reading] /\ threshold \in [Sensor -> 0 .. 3]
  /\ sweeps \in 0 .. MaxSweeps /\ count \in [Sensor -> 0 .. sweeps]
  /\ asc \in AscState /\ apc \in ApcState
  /\ data \in [Sensor -> Record] /\ record \in [Sensor -> Record]
  /\ taken \in Seq([Sensor -> Record])
  /\ updates \in Nat /\ resets \in Nat /\ updates + resets <= MaxChanges
  /\ table \in [Part -> 0 .. updates] /\ fpt \in [Part -> 0 .. updates] /\ known \in Nat

Mutexes ==
  /\ asdmMutex \in {"ami", "apc", NoTask} /\ apcMutex = NoTask
  /\ asdmMutex = "ami" <=> ami.pc = "copy"
  /\ asdmMutex = "apc" <=> apc.pc = "get"

(* A sensor whose highest value was followed, and one the sweep has still  *)
(* to come to.                                                             *)
Covered(s) == Level(reading[s].max) <= threshold[s]
Rising(s)  == Level(reading[s].max) <= Level(reading[s].value)

Thresholds ==
  \A s \in Sensor :
    CASE asc.pc \in {"asleep", "store"} -> Covered(s)
      [] asc.pc = "limits" -> Covered(s) \/ (asc.at <= s /\ Rising(s))
      [] OTHER -> /\ \/ Covered(s)
                     \/ asc.at = s /\ Level(reading[s].max) <= asc.level
                     \/ asc.at < s /\ Rising(s)
                  /\ asc.pc = "record" => asc.level > threshold[asc.at]

(* The number of the sweep that the repositories hold.                     *)
Stored == IF asc.pc = "store" THEN Len(taken) - 1 ELSE Len(taken)

Repositories ==
  /\ Stored \in 1 .. Len(taken) /\ record = taken[Stored] /\ total.value = TotalOf(record)
  /\ asc.pc = "store" => data = taken[Len(taken)]

(* The record that is copied for the member of a repository.               *)
Item(req, m) ==
  CASE req = "fpt" -> fpt[m] [] req = "total" -> total [] OTHER -> record[m]

Answers ==
  /\ ami.pc \in {"idle", "take", "copy", "flags", "answered"}
  /\ ami.pc # "idle" =>
       /\ ami = [pc |-> ami.pc, req |-> ami.req, got |-> ami.got, since |-> ami.since]
       /\ ami.since = [sweep |-> ami.since.sweep, fpt |-> ami.since.fpt]
       /\ ami.req \in Request
       /\ ami.since.sweep \in 1 .. Stored /\ ami.since.fpt \in 0 .. known
  /\ ami.pc \in {"take", "copy"} => ami.req # "flags"
  /\ ami.pc = "flags" => ami.req = "flags"
  /\ ami.pc = "take" => ami.got = <<>>
  /\ ami.pc = "copy" =>
       \E n \in Nat :
         ami.got = [k \in 1 .. n |-> Item(ami.req, Members(ami.req)[k])]

(* The repository is behind the table only while a refresh is to come that *)
(* the host has not been told of.                                          *)
Tables ==
  /\ known <= table[0]
  /\ \A i \in Part : table[0] <= table[i] /\ fpt[0] <= fpt[i] /\ known <= fpt[i]
  /\ apc.pc = "idle" \/ (apc.pc = "raise" /\ Head(apc.todo) = "tell")
       => \A i \in Part : table[0] <= fpt[i]
  /\ apc.pc = "get" => /\ Len(apc.got) <= NumEntries + 1
                       /\ \A k \in 1 .. Len(apc.got) : apc.got[k] = table[k - 1]

IInv == Typed /\ Mutexes /\ Thresholds /\ Repositories /\ Tables /\ Answers /\ AnswerIsWhole

(***************************************************************************)
(* Sums, levels, averages and the members of a repository.                 *)

LEMMA SmallestNumber ==
  ASSUME NEW T, T \subseteq Nat, T # {}
  PROVE  \E n \in T : \A m \in T : n <= m
<1> DEFINE R == {p \in Nat \X Nat : p[1] < p[2]}
<1>1. IsWellFoundedOn(R, Nat)
  BY NatLessThanWellFounded, Zenon DEF OpToRel
<1>2. PICK n \in T : \A m \in T : <<m, n>> \notin R
  <2> HIDE DEF R
  <2> QED BY <1>1, WFMin
<1>3. \A m \in T : ~(m < n)
  BY <1>2
<1> QED BY <1>3, SMT

(* The total of sensors that read nothing: the sum of iCalculateTotalPower *)
(* is a recursive function over sets, and 0 satisfies its equation.        *)
LEMMA SumOfNothing ==
  ASSUME NEW t, \A s \in PowerSensor : t[s].reading.value = 0
  PROVE  TotalOf(t) = 0
<1> DEFINE P == {s \in PowerSensor : t[s].sensor \in InTotal}
           Sums(f) == f = [S \in SUBSET P |->
                             IF S = {} THEN 0
                             ELSE LET x == CHOOSE x \in S : TRUE
                                  IN  t[x].reading.value + f[S \ {x}]]
           sum == CHOOSE f : Sums(f)
<1>1. TotalOf(t) = sum[P]
  BY DEF TotalOf, MapThenSumSet, MapThenFoldSet
<1>2. Sums([S \in SUBSET P |-> 0])
  OBVIOUS
<1>3. Sums(sum)
  BY <1>2
<1>4. IsFiniteSet(P)
  <2>1. P \in SUBSET (1 .. NumSensors)
    BY SensorsAssumption DEF Sensor
  <2>2. IsFiniteSet(1 .. NumSensors)
    <3>1. 1 \in Int /\ NumSensors \in Int
      BY SensorsAssumption
    <3> QED BY <3>1, FS_Interval
  <2> HIDE DEF P
  <2> QED BY <2>1, <2>2, FS_Subset
<1>5. ASSUME sum[P] # 0 PROVE FALSE
  <2> DEFINE Wrong == {S \in SUBSET P : sum[S] # 0}
             Sizes == {Cardinality(S) : S \in Wrong}
  <2>1. \A S \in SUBSET P : IsFiniteSet(S) /\ Cardinality(S) \in Nat
    BY <1>4, FS_Subset, FS_CardinalityType
  <2>2. Sizes \subseteq Nat /\ Sizes # {}
    BY <1>5, <2>1
  <2>3. PICK n \in Sizes : \A m \in Sizes : n <= m
    <3> HIDE DEF Sizes
    <3> QED BY <2>2, SmallestNumber
  <2>4. PICK S \in Wrong : n = Cardinality(S)
    BY <2>3
  <2>5. S # {}
    BY <1>3, <2>4
  <2>6. PICK x \in S : x = CHOOSE y \in S : TRUE
    BY <2>5
  <2>7. sum[S] = t[x].reading.value + sum[S \ {x}]
    BY <1>3, <2>4, <2>5, <2>6
  <2>8. t[x].reading.value = 0
    BY <2>4, <2>6
  <2>9. sum[S \ {x}] # 0
    BY <2>4, <2>7, <2>8
  <2>10. Cardinality(S \ {x}) = n - 1 /\ n \in Nat
    BY <2>1, <2>4, <2>6, FS_RemoveElement
  <2>11. Cardinality(S \ {x}) \in Sizes
    BY <2>4, <2>9
  <2>12. n <= n - 1
    BY <2>3, <2>10, <2>11
  <2> QED BY <2>10, <2>12
<1> QED BY <1>1, <1>5

LEMMA MaxOfTwo ==
  ASSUME NEW a \in Nat, NEW b \in Nat
  PROVE  /\ Max({a, b}) \in {a, b}
         /\ Max({a, b}) >= a /\ Max({a, b}) >= b
<1> DEFINE P(x) == x \in {a, b} /\ \A y \in {a, b} : x >= y
<1>1. \E x : P(x)
  <2>1. P(a) \/ P(b)
    OBVIOUS
  <2> QED BY <2>1
<1>2. P(CHOOSE x : P(x))
  BY <1>1
<1>3. Max({a, b}) = CHOOSE x : P(x)
  BY DEF Max
<1> QED BY <1>2, <1>3

(* A level is at most 3, none for a sensor that reads nothing, and grows   *)
(* with the value.                                                         *)
LEMMA Levels ==
  /\ \A v \in Nat : Level(v) \in 0 .. 3
  /\ Level(0) = 0
  /\ \A v, w \in Nat : v <= w => Level(v) <= Level(w)
<1> DEFINE S(v) == {0} \cup {l \in 1 .. 3 : Limit[l] # NoLimit /\ v >= Limit[l]}
<1>1. ASSUME NEW v \in Nat
      PROVE  Level(v) \in S(v) /\ \A y \in S(v) : Level(v) >= y
  <2>1. S(v) \subseteq {0, 1, 2, 3} /\ 0 \in S(v)
    OBVIOUS
  <2>2. Level(v) = CHOOSE x \in S(v) : \A y \in S(v) : x >= y
    BY DEF Level, Max
  <2> HIDE DEF S
  <2>3. \E x \in S(v) : \A y \in S(v) : x >= y
    <3>1. CASE 3 \in S(v)
      BY <2>1, <3>1
    <3>2. CASE 3 \notin S(v) /\ 2 \in S(v)
      BY <2>1, <3>2
    <3>3. CASE 3 \notin S(v) /\ 2 \notin S(v) /\ 1 \in S(v)
      BY <2>1, <3>3
    <3>4. CASE 3 \notin S(v) /\ 2 \notin S(v) /\ 1 \notin S(v)
      BY <2>1, <3>4
    <3> QED BY <3>1, <3>2, <3>3, <3>4
  <2> QED BY <2>2, <2>3
<1>2. \A v \in Nat : Level(v) \in 0 .. 3
  BY <1>1
<1>3. Level(0) = 0
  <2>1. \A l \in 1 .. 3 : Limit[l] # NoLimit => Limit[l] \in Nat \ {0}
    BY SensorsAssumption
  <2>2. S(0) = {0}
    BY <2>1
  <2> QED BY <1>1, <2>2
<1>4. ASSUME NEW v \in Nat, NEW w \in Nat, v <= w PROVE Level(v) <= Level(w)
  <2>1. \A l \in 1 .. 3 : Limit[l] # NoLimit => Limit[l] \in Nat
    BY SensorsAssumption
  <2>2. S(v) \subseteq S(w)
    BY <1>4, <2>1
  <2>3. Level(v) \in S(w)
    BY <1>1, <2>2
  <2>4. Level(w) >= Level(v)
    BY <1>1, <2>3
  <2>5. Level(v) \in Nat /\ Level(w) \in Nat
    BY <1>2
  <2> QED BY <2>4, <2>5
<1> QED BY <1>2, <1>3, <1>4

(* The running average never falls below 0.                                *)
LEMMA AverageType ==
  ASSUME NEW a \in Nat, NEW n \in Nat \ {0}, NEW v \in Nat
  PROVE  Average(a, n, v) \in Nat
<1>1. a \div n \in Nat /\ a \div n <= a /\ v \div n \in Nat
  OBVIOUS
<1> QED BY <1>1 DEF Average

LEMMA MembersType ==
  /\ Len(Members("total")) = 1
  /\ Len(Members("fpt")) = NumEntries + 1
  /\ \A k \in 1 .. NumEntries + 1 : Members("fpt")[k] = k - 1
<1>1. Len(Members("total")) = 1
  BY DEF Members
<1>2. Members("fpt") = [i \in 1 .. NumEntries + 1 |-> i - 1]
  BY DEF Members
<1> QED BY <1>1, <1>2, SensorsAssumption

(***************************************************************************)
(* The types.                                                              *)

LEMMA SensorParts ==
  /\ Sensor = 1 .. NumSensors /\ NumSensors \in Nat \ {0} /\ Sensor \subseteq Nat
  /\ Part = 0 .. NumEntries /\ NumEntries \in Nat /\ 0 \in Part
  /\ Reset \in Reading
  BY SensorsAssumption DEF Sensor, Part, Reset, Reading, Status

LEMMA AllType ==
  ASSUME reading \in [Sensor -> Reading]
  PROVE  All \in [Sensor -> Record]
  BY DEF All, Of, Record

LEMMA SweepStep ==
  ASSUME Typed, Sweep
  PROVE  /\ sweeps' \in 0 .. MaxSweeps /\ count' \in [Sensor -> 0 .. sweeps']
         /\ reading' \in [Sensor -> Reading]
         /\ \A s \in Sensor :
              \/ /\ reading'[s].max = reading[s].max
                 /\ reading'[s].value = reading[s].value
              \/ /\ reading'[s].max \in {reading[s].max, reading'[s].value}
                 /\ reading'[s].max >= reading[s].max
<1>1. PICK answering \in SUBSET Sensor : \E v \in Readings(answering) :
       /\ count' = [s \in Sensor |-> IF s \in answering THEN count[s] + 1 ELSE count[s]]
       /\ reading' = [s \in Sensor |->
            IF s \in answering
            THEN [value |-> v[s], avg |-> Average(reading[s].avg, count'[s], v[s]),
                  max |-> Max({reading[s].max, v[s]}), status |-> "valid"]
            ELSE [reading[s] EXCEPT !.status = "unavailable"]]
  BY DEF Sweep
<1>0. PICK v \in Readings(answering) :
       /\ count' = [s \in Sensor |-> IF s \in answering THEN count[s] + 1 ELSE count[s]]
       /\ reading' = [s \in Sensor |->
            IF s \in answering
            THEN [value |-> v[s], avg |-> Average(reading[s].avg, count'[s], v[s]),
                  max |-> Max({reading[s].max, v[s]}), status |-> "valid"]
            ELSE [reading[s] EXCEPT !.status = "unavailable"]]
  BY <1>1
<1>2. sweeps' = sweeps + 1 /\ sweeps' \in 0 .. MaxSweeps /\ sweeps \in Nat
  BY SensorsAssumption DEF Sweep, Typed
<1>3. \A s \in Sensor : count[s] \in 0 .. sweeps
  BY DEF Typed
<1>4. \A s \in Sensor : count'[s] \in 0 .. sweeps' /\ (s \in answering => count'[s] \in Nat \ {0})
  BY <1>0, <1>2, <1>3
<1>5. count' \in [Sensor -> 0 .. sweeps']
  BY <1>0, <1>4
<1>6. ASSUME NEW s \in Sensor
      PROVE  /\ reading'[s] \in Reading
             /\ \/ /\ reading'[s].max = reading[s].max
                   /\ reading'[s].value = reading[s].value
                \/ /\ reading'[s].max \in {reading[s].max, reading'[s].value}
                   /\ reading'[s].max >= reading[s].max
  <2>1. reading[s] \in Reading
    BY DEF Typed
  <2>2. CASE s \in answering
    <3>1. v[s] \in Nat
      BY <2>2, SensorsAssumption DEF Readings
    <3>2. Average(reading[s].avg, count'[s], v[s]) \in Nat
      BY <1>4, <2>1, <2>2, <3>1, AverageType DEF Reading
    <3>3. reading'[s] = [value |-> v[s], avg |-> Average(reading[s].avg, count'[s], v[s]),
                         max |-> Max({reading[s].max, v[s]}), status |-> "valid"]
      BY <1>0, <2>2
    <3>4. /\ Max({reading[s].max, v[s]}) \in {reading[s].max, v[s]}
          /\ Max({reading[s].max, v[s]}) >= reading[s].max
      BY <2>1, <3>1, MaxOfTwo DEF Reading
    <3> QED BY <2>1, <3>1, <3>2, <3>3, <3>4 DEF Reading, Status
  <2>3. CASE s \notin answering
    <3>1. reading'[s] = [reading[s] EXCEPT !.status = "unavailable"]
      BY <1>0, <2>3
    <3> QED BY <2>1, <3>1 DEF Reading, Status
  <2> QED BY <2>2, <2>3
<1>7. reading' \in [Sensor -> Reading]
  BY <1>0, <1>6
<1> QED BY <1>2, <1>5, <1>6, <1>7

LEMMA ResetStep ==
  ASSUME Typed, ResetSensors
  PROVE  /\ reading' \in [Sensor -> Reading]
         /\ \A s \in Sensor : reading'[s] \in {reading[s], Reset}
<1>1. PICK S \in {Sensor} \cup {{s} : s \in Sensor} :
        reading' = [s \in Sensor |-> IF s \in S THEN Reset ELSE reading[s]]
  BY DEF ResetSensors
<1> QED BY <1>1, SensorParts DEF Typed

LEMMA NextSensorType ==
  ASSUME asc.at \in Sensor, NextSensor
  PROVE  asc' \in AscState
<1>1. asc.at + 1 \in 1 .. NumSensors + 1
  BY SensorParts
<1> QED BY <1>1 DEF NextSensor, AscState

LEMMA AscTypes ==
  ASSUME Typed, [Next]_vars
  PROVE  /\ reading' \in [Sensor -> Reading] /\ threshold' \in [Sensor -> 0 .. 3]
         /\ sweeps' \in 0 .. MaxSweeps /\ count' \in [Sensor -> 0 .. sweeps']
         /\ asc' \in AscState
         /\ data' \in [Sensor -> Record] /\ record' \in [Sensor -> Record]
         /\ taken' \in Seq([Sensor -> Record])
<1> USE DEF Typed
<1>1. CASE Sweep
  <2>1. asc' \in AscState
    BY <1>1, SensorParts DEF Sweep, AscState
  <2> QED BY <1>1, <2>1, SweepStep DEF Sweep, records
<1>2. CASE CheckLimits
  <2>1. reading[asc.at].value \in Nat /\ asc.at \in Sensor
    BY <1>2 DEF CheckLimits, Reading
  <2>2. Level(reading[asc.at].value) \in 0 .. 3
    BY <2>1, Levels
  <2>3. CASE Level(reading[asc.at].value) = 0
    BY <1>2, <2>1, <2>3, NextSensorType DEF CheckLimits, sensors, records
  <2>4. CASE Level(reading[asc.at].value) # 0
    <3>1. Level(reading[asc.at].value) \in 1 .. 3
      BY <2>2, <2>4
    <3>2. asc' = [pc |-> "event", at |-> asc.at, level |-> Level(reading[asc.at].value)]
      BY <1>2, <2>4 DEF CheckLimits
    <3>3. asc' \in AscState
      BY <2>1, <3>1, <3>2 DEF AscState
    <3> QED BY <1>2, <3>3 DEF CheckLimits, sensors, records
  <2> QED BY <2>3, <2>4
<1>3. CASE KeepSensor
  <2>1. asc.pc = "event" /\ asc \in AscState
    BY <1>3 DEF KeepSensor
  <2>2. asc.at \in Sensor /\ asc' \in AscState
    BY <1>3, <2>1 DEF KeepSensor, AscState
  <2>3. Of(asc.at, reading[asc.at]) \in Record
    BY <2>2 DEF Of, Record
  <2>4. data' \in [Sensor -> Record]
    BY <1>3, <2>3 DEF KeepSensor
  <2> QED BY <1>3, <2>2, <2>4 DEF KeepSensor, sensors
<1>4. CASE MonitorReads
  <2>1. asc.pc = "monitor" /\ asc \in AscState
    BY <1>4 DEF MonitorReads
  <2>2. asc' \in AscState
    <3>1. asc.at \in Sensor /\ [asc EXCEPT !.pc = "record"] \in AscState
      BY <2>1 DEF AscState
    <3> QED BY <1>4, <3>1, NextSensorType DEF MonitorReads
  <2> QED BY <1>4, <2>2 DEF MonitorReads, sensors, records
<1>5. CASE MonitorRecords
  <2>1. asc.pc = "record" /\ asc \in AscState
    BY <1>5 DEF MonitorRecords
  <2>2. asc.at \in Sensor /\ asc.level \in 0 .. 3
    BY <2>1 DEF AscState
  <2>3. threshold' \in [Sensor -> 0 .. 3]
    BY <1>5, <2>2 DEF MonitorRecords
  <2>4. asc' \in AscState
    BY <1>5, <2>2, NextSensorType DEF MonitorRecords
  <2> QED BY <1>5, <2>3, <2>4 DEF MonitorRecords, records
<1>6. CASE TakeReadings
  <2>1. asc' \in AscState
    BY <1>6 DEF TakeReadings, AscState
  <2>2. data' \in [Sensor -> Record] /\ taken' \in Seq([Sensor -> Record])
    BY <1>6, AllType DEF TakeReadings
  <2> QED BY <1>6, <2>1, <2>2 DEF TakeReadings, sensors
<1>7. CASE Store
  <2>1. asc' \in AscState
    BY <1>7 DEF Store, AscState
  <2> QED BY <1>7, <2>1 DEF Store, sensors
<1>8. CASE ResetSensors
  BY <1>8, ResetStep DEF ResetSensors, ascTask, records
<1>9. CASE AmiTask \/ Ask \/ ApcTask \/ ChangeTable \/ UNCHANGED vars
  <2>1. UNCHANGED <<sensors, ascTask, records>>
    BY <1>9 DEF AmiTask, Ask, ApcTask, ChangeTable, UpdateFptFlags, StartAnswer,
                CopyRecord, EndAnswer, ReadFlags,
         Answer, StartRefresh, GetPart, EndRefresh, TellHost, vars, sensors, ascTask, records
  <2> QED BY <2>1 DEF sensors, ascTask, records
<1> QED BY <1>1, <1>2, <1>3, <1>4, <1>5, <1>6, <1>7, <1>8, <1>9 DEF Next, AscTask

LEMMA TableTaken ==
  ASSUME Typed, Tables, EndRefresh
  PROVE  fpt' = table
<1>1. apc \in ApcState /\ apc.pc = "get" /\ Len(apc.got) \notin Part
  BY DEF EndRefresh, Typed
<1>2. apc.got \in Seq(Nat)
  BY <1>1 DEF ApcState
<1>3. Len(apc.got) \in Nat /\ Len(apc.got) <= NumEntries + 1
  BY <1>1, <1>2 DEF Tables
<1>4. Len(apc.got) = NumEntries + 1
  BY <1>1, <1>3, SensorParts
<1>5. \A i \in Part : i + 1 \in 1 .. Len(apc.got) /\ (i + 1) - 1 = i
  BY <1>4, SensorParts
<1>6. \A i \in Part : apc.got[i + 1] = table[i]
  BY <1>1, <1>5 DEF Tables
<1>7. fpt' = [i \in Part |-> apc.got[i + 1]]
  BY DEF EndRefresh
<1> QED BY <1>6, <1>7 DEF Typed

(* What is left of the events that a change of the table raises.           *)
LEMMA Todo ==
  ASSUME apc \in ApcState, apc.pc = "raise"
  PROVE  /\ Head(apc.todo) = "tell" => apc.todo = <<"tell", "refresh">>
                                      /\ Tail(apc.todo) = <<"refresh">>
         /\ Head(apc.todo) = "refresh" => Tail(apc.todo) \in {<<"tell", "refresh">>, <<>>}
<1>1. apc.todo \in {<<"refresh", "tell", "refresh">>, <<"tell", "refresh">>, <<"refresh">>}
  BY DEF ApcState
<1>2. CASE apc.todo = <<"refresh", "tell", "refresh">>
  BY <1>2
<1>3. CASE apc.todo = <<"tell", "refresh">>
  BY <1>3
<1>4. CASE apc.todo = <<"refresh">>
  BY <1>4
<1> QED BY <1>1, <1>2, <1>3, <1>4

LEMMA ApcTypes ==
  ASSUME Typed, Tables, [Next]_vars
  PROVE  /\ apc' \in ApcState
         /\ updates' \in Nat /\ resets' \in Nat /\ updates' + resets' <= MaxChanges
         /\ table' \in [Part -> 0 .. updates'] /\ fpt' \in [Part -> 0 .. updates'] /\ known' \in Nat
<1> USE DEF Typed
<1>1. CASE ChangeTable
  <2>1. /\ updates' = updates + 1 /\ updates' \in Nat /\ resets' = resets
        /\ updates' + resets' <= MaxChanges /\ fpt' = fpt /\ known' = known
    BY <1>1, SensorsAssumption DEF ChangeTable, UpdateFptFlags
  <2>2. \A n \in 0 .. updates : n \in 0 .. updates'
    BY <2>1
  <2>3. \/ table' = [i \in Part |-> updates']
        \/ \E i \in Part \ {0} : table' = [table EXCEPT ![i] = updates']
    BY <1>1 DEF ChangeTable, UpdateFptFlags
  <2>4. updates' \in 0 .. updates'
    BY <2>1
  <2>5. table' \in [Part -> 0 .. updates'] /\ fpt' \in [Part -> 0 .. updates']
    BY <2>1, <2>2, <2>3, <2>4
  <2>6. apc' \in ApcState
    BY <1>1 DEF ChangeTable, UpdateFptFlags, ApcState
  <2> QED BY <2>1, <2>5, <2>6
<1>2. CASE TellHost
  <2>1. table[0] \in Nat
    BY SensorParts
  <2>2. apc' = Raise(<<"refresh">>)
    BY <1>2, Todo DEF TellHost
  <2>3. apc' \in ApcState
    BY <2>2 DEF ApcState, Raise
  <2> QED BY <1>2, <2>1, <2>3 DEF TellHost
<1>3. CASE StartRefresh
  <2>1. Tail(apc.todo) \in {<<"tell", "refresh">>, <<>>} /\ <<>> \in Seq(Nat)
    BY <1>3, Todo DEF StartRefresh
  <2>2. apc' \in ApcState
    BY <1>3, <2>1 DEF StartRefresh, ApcState
  <2> QED BY <1>3, <2>2 DEF StartRefresh
<1>4. CASE GetPart
  <2>1. apc.pc = "get" /\ apc \in ApcState /\ Len(apc.got) \in Part
    BY <1>4 DEF GetPart
  <2>2. table[Len(apc.got)] \in Nat /\ apc.got \in Seq(Nat)
    BY <2>1 DEF ApcState
  <2>3. Append(apc.got, table[Len(apc.got)]) \in Seq(Nat)
    BY <2>2
  <2>4. apc' \in ApcState
    BY <1>4, <2>1, <2>3 DEF GetPart, ApcState
  <2> QED BY <1>4, <2>4 DEF GetPart
<1>5. CASE EndRefresh
  <2>1. apc' \in ApcState
    BY <1>5 DEF EndRefresh, ApcState, Raise
  <2> QED BY <1>5, <2>1, TableTaken DEF EndRefresh
<1>6. CASE ResetSensors
  BY <1>6, SensorsAssumption, SMTT(30) DEF ResetSensors, apcTask
<1>7. CASE AscTask \/ AmiTask \/ Ask \/ UNCHANGED vars
  <2>1. UNCHANGED <<apcTask, resets>>
    BY <1>7 DEF AscTask, AmiTask, Ask, Sweep, CheckLimits, KeepSensor, MonitorReads, MonitorRecords,
         TakeReadings, Store, StartAnswer, CopyRecord, EndAnswer, ReadFlags, Answer, vars, apcTask
  <2> QED BY <2>1 DEF apcTask
<1> QED BY <1>1, <1>2, <1>3, <1>4, <1>5, <1>6, <1>7 DEF Next, ApcTask

(***************************************************************************)
(* The mutexes: that of the repositories is held for the whole of an       *)
(* answer and of a refresh.                                                *)

LEMMA MutexStep ==
  ASSUME IInv, [Next]_vars
  PROVE  Mutexes'
<1> USE DEF Mutexes
<1>0. Mutexes /\ Typed /\ Answers /\ NoTask \notin {"ami", "apc"}
  BY SensorsAssumption DEF IInv
<1>1. CASE StartAnswer
  <2>1. ami.pc = "take" /\ ami' = [ami EXCEPT !.pc = "copy"]
    BY <1>1 DEF StartAnswer
  <2>2. ami'.pc = "copy"
    BY <1>0, <2>1 DEF Answers
  <2> QED BY <1>0, <1>1, <2>2 DEF StartAnswer, apcTask
<1>2. CASE CopyRecord
  <2>1. ami.pc = "copy" /\ \E v : ami' = [ami EXCEPT !.got = v]
    BY <1>2 DEF CopyRecord
  <2>2. ami'.pc = "copy"
    BY <1>0, <2>1 DEF Answers
  <2> QED BY <1>0, <1>2, <2>1, <2>2 DEF CopyRecord, apcTask
<1>3. CASE EndAnswer
  <2>1. ami.pc = "copy" /\ ami' = [ami EXCEPT !.pc = "answered"]
    BY <1>3 DEF EndAnswer
  <2>2. ami'.pc = "answered"
    BY <1>0, <2>1 DEF Answers
  <2> QED BY <1>0, <1>3, <2>1, <2>2 DEF EndAnswer, apcTask
<1>4. CASE ReadFlags
  <2>1. ami.pc = "flags" /\ \E v : ami' = [ami EXCEPT !.pc = "answered", !.got = v]
    BY <1>4 DEF ReadFlags
  <2>2. ami'.pc = "answered"
    BY <1>0, <2>1 DEF Answers
  <2> QED BY <1>0, <1>4, <2>1, <2>2 DEF ReadFlags, apcTask
<1>5. CASE Answer
  BY <1>0, <1>5 DEF Answer, apcTask
<1>6. CASE Ask
  BY <1>0, <1>6 DEF Ask, apcTask
<1>7. CASE ChangeTable
  BY <1>0, <1>7 DEF ChangeTable, UpdateFptFlags, amiTask
<1>8. CASE TellHost
  BY <1>0, <1>8 DEF TellHost, amiTask, Raise
<1>9. CASE StartRefresh
  BY <1>0, <1>9 DEF StartRefresh, amiTask
<1>10. CASE GetPart
  <2>1. apc.pc = "get" /\ apc'.pc = "get"
    BY <1>0, <1>10 DEF GetPart, Typed, ApcState
  <2> QED BY <1>0, <1>10, <2>1 DEF GetPart, amiTask
<1>11. CASE EndRefresh
  BY <1>0, <1>11 DEF EndRefresh, amiTask, Raise
<1>12. CASE AscTask \/ ResetSensors \/ UNCHANGED vars
  <2>1. UNCHANGED <<asdmMutex, apcMutex, ami, apc>>
    BY <1>12 DEF AscTask, Sweep, CheckLimits, KeepSensor, MonitorReads, MonitorRecords,
         TakeReadings, Store, ResetSensors, vars, amiTask, apcTask
  <2> QED BY <1>0, <2>1
<1> QED BY <1>1, <1>2, <1>3, <1>4, <1>5, <1>6, <1>7, <1>8, <1>9, <1>10, <1>11, <1>12
       DEF Next, AmiTask, ApcTask

(***************************************************************************)
(* The thresholds.                                                         *)

LEMMA AscParts ==
  ASSUME asc \in AscState
  PROVE  /\ asc.pc \in {"asleep", "store", "limits", "event", "monitor", "record"}
         /\ asc.pc = "limits" => asc.at \in 1 .. NumSensors + 1
         /\ asc.pc \in {"event", "monitor", "record"} => asc.at \in Sensor
  BY DEF AscState

(* What a sensor may show between the sweep and its own event.             *)
LEMMA ThresholdStep ==
  ASSUME IInv, [Next]_vars
  PROVE  Thresholds'
<1>0. Typed /\ Thresholds /\ Typed'
  <2>1. Typed /\ Thresholds /\ Tables
    BY DEF IInv
  <2>2. Typed'
    BY <2>1, AscTypes, ApcTypes DEF Typed
  <2> QED BY <2>1, <2>2
<1>1. SUFFICES ASSUME NEW s \in Sensor
               PROVE  CASE asc'.pc \in {"asleep", "store"} -> Covered(s)'
                        [] asc'.pc = "limits" -> Covered(s)' \/ (asc'.at <= s /\ Rising(s)')
                        [] OTHER -> /\ \/ Covered(s)'
                                       \/ asc'.at = s /\ Level(reading'[s].max) <= asc'.level
                                       \/ asc'.at < s /\ Rising(s)'
                                    /\ asc'.pc = "record" => asc'.level > threshold'[asc'.at]
  BY DEF Thresholds, Covered, Rising
<1>2. (CASE asc.pc \in {"asleep", "store"} -> Covered(s)
         [] asc.pc = "limits" -> Covered(s) \/ (asc.at <= s /\ Rising(s))
         [] OTHER -> /\ \/ Covered(s)
                        \/ asc.at = s /\ Level(reading[s].max) <= asc.level
                        \/ asc.at < s /\ Rising(s)
                     /\ asc.pc = "record" => asc.level > threshold[asc.at])
  BY <1>0 DEF Thresholds
<1>3. s \in Nat /\ (asc.pc \in {"limits", "event", "monitor", "record"} => asc.at \in Nat)
  <2>1. 1 .. NumSensors + 1 \subseteq Nat
    BY SensorParts
  <2> QED BY <1>0, <2>1, AscParts, SensorParts DEF Typed
<1>4. /\ reading[s].max \in Nat /\ reading[s].value \in Nat
      /\ reading'[s].max \in Nat /\ reading'[s].value \in Nat
      /\ threshold[s] \in 0 .. 3
  BY <1>0 DEF Typed, Reading
<1>5. /\ Level(reading[s].max) \in 0 .. 3 /\ Level(reading[s].value) \in 0 .. 3
      /\ Level(reading'[s].max) \in 0 .. 3 /\ Level(reading'[s].value) \in 0 .. 3
  BY <1>4, Levels
<1>6. CASE Sweep
  <2>1. asc.pc = "asleep" /\ asc' = [pc |-> "limits", at |-> 1] /\ threshold' = threshold
    BY <1>6 DEF Sweep
  <2>2. Covered(s)
    BY <1>2, <2>1
  <2>3. \/ reading'[s].max = reading[s].max
        \/ reading'[s].max = reading'[s].value
    BY <1>0, <1>6, SweepStep
  <2>4. Covered(s)' \/ Rising(s)'
    BY <1>5, <2>1, <2>2, <2>3 DEF Covered, Rising
  <2>5. 1 <= s
    BY SensorParts
  <2> QED BY <2>1, <2>4, <2>5
<1>7. CASE CheckLimits
  <2>1. asc.pc = "limits" /\ asc.at \in Sensor /\ UNCHANGED <<reading, threshold>>
    BY <1>7 DEF CheckLimits, sensors
  <2>2. Covered(s) \/ (asc.at <= s /\ Rising(s))
    BY <1>2, <2>1
  <2>3. CASE Level(reading[asc.at].value) = 0
    <3>1. asc' = [pc |-> "limits", at |-> asc.at + 1]
      BY <1>7, <2>3 DEF CheckLimits, NextSensor
    <3>2. asc.at = s /\ Rising(s) => Covered(s)
      BY <1>4, <1>5, <2>3 DEF Covered, Rising
    <3>3. Covered(s) \/ (asc.at + 1 <= s /\ Rising(s))
      BY <1>3, <2>1, <2>2, <3>2
    <3> QED BY <2>1, <3>1, <3>3 DEF Covered, Rising
  <2>4. CASE Level(reading[asc.at].value) # 0
    <3>1. asc' = [pc |-> "event", at |-> asc.at, level |-> Level(reading[asc.at].value)]
      BY <1>7, <2>4 DEF CheckLimits
    <3>2. asc.at = s /\ Rising(s) => Level(reading[s].max) <= Level(reading[asc.at].value)
      BY DEF Rising
    <3>3. \/ Covered(s)
          \/ asc.at = s /\ Level(reading[s].max) <= Level(reading[asc.at].value)
          \/ asc.at < s /\ Rising(s)
      BY <1>3, <2>1, <2>2, <3>2
    <3> QED BY <2>1, <3>1, <3>3 DEF Covered, Rising
  <2> QED BY <2>3, <2>4
<1>8. CASE KeepSensor
  <2>1. asc.pc = "event" /\ UNCHANGED <<reading, threshold>>
    BY <1>8 DEF KeepSensor, sensors
  <2>2. asc' = [asc EXCEPT !.pc = "monitor"] /\ asc \in AscState
    BY <1>0, <1>8 DEF KeepSensor, Typed
  <2>3. asc'.pc = "monitor" /\ asc'.at = asc.at /\ asc'.level = asc.level
    BY <2>1, <2>2 DEF AscState
  <2> QED BY <1>2, <2>1, <2>3 DEF Covered, Rising
<1>9. CASE MonitorReads
  <2>1. asc.pc = "monitor" /\ UNCHANGED <<reading, threshold>> /\ asc \in AscState
    BY <1>0, <1>9 DEF MonitorReads, sensors, Typed
  <2>2. \/ Covered(s)
        \/ asc.at = s /\ Level(reading[s].max) <= asc.level
        \/ asc.at < s /\ Rising(s)
    BY <1>2, <2>1
  <2>3. CASE asc.level > threshold[asc.at]
    <3>1. asc'.pc = "record" /\ asc'.at = asc.at /\ asc'.level = asc.level
      BY <1>9, <2>1, <2>3 DEF MonitorReads, AscState
    <3> QED BY <2>1, <2>2, <2>3, <3>1 DEF Covered, Rising
  <2>4. CASE ~(asc.level > threshold[asc.at])
    <3>1. asc' = [pc |-> "limits", at |-> asc.at + 1] /\ asc.level \in 1 .. 3
      BY <1>9, <2>1, <2>4 DEF MonitorReads, NextSensor, AscState
    <3>2. asc.at = s /\ Level(reading[s].max) <= asc.level => Covered(s)
      BY <1>4, <1>5, <2>4, <3>1 DEF Covered
    <3>3. Covered(s) \/ (asc.at + 1 <= s /\ Rising(s))
      BY <1>3, <2>1, <2>2, <3>2
    <3> QED BY <2>1, <3>1, <3>3 DEF Covered, Rising
  <2> QED BY <2>3, <2>4
<1>10. CASE MonitorRecords
  <2>1. asc.pc = "record" /\ asc.at \in Sensor /\ asc.level \in 1 .. 3 /\ UNCHANGED reading
        /\ threshold' = [threshold EXCEPT ![asc.at] = asc.level]
        /\ asc' = [pc |-> "limits", at |-> asc.at + 1]
    BY <1>0, <1>10 DEF MonitorRecords, NextSensor, Typed, AscState
  <2>2. /\ \/ Covered(s)
           \/ asc.at = s /\ Level(reading[s].max) <= asc.level
           \/ asc.at < s /\ Rising(s)
        /\ asc.level > threshold[asc.at]
    BY <1>2, <2>1
  <2>3. CASE asc.at = s
    <3>1. threshold'[s] = asc.level
      BY <1>0, <2>1, <2>3 DEF Typed
    <3>2. Level(reading[s].max) <= asc.level
      BY <1>4, <1>5, <2>1, <2>2, <2>3, <1>3 DEF Covered
    <3> QED BY <2>1, <3>1, <3>2 DEF Covered
  <2>4. CASE asc.at # s
    <3>1. threshold'[s] = threshold[s]
      BY <1>0, <2>1, <2>4 DEF Typed
    <3>2. Covered(s) \/ (asc.at + 1 <= s /\ Rising(s))
      BY <1>3, <2>1, <2>2, <2>4
    <3> QED BY <2>1, <3>1, <3>2 DEF Covered, Rising
  <2> QED BY <2>3, <2>4
<1>11. CASE TakeReadings
  <2>1. asc.pc = "limits" /\ asc.at \notin Sensor /\ asc' = [pc |-> "store"]
        /\ UNCHANGED <<reading, threshold>>
    BY <1>11 DEF TakeReadings, sensors
  <2>2. asc.at = NumSensors + 1
    <3>1. asc.at \in 1 .. NumSensors + 1
      BY <1>0, <2>1, AscParts DEF Typed
    <3> QED BY <2>1, <3>1, SensorParts
  <2>3. Covered(s)
    BY <1>2, <1>3, <2>1, <2>2, SensorParts
  <2> QED BY <2>1, <2>3 DEF Covered
<1>12. CASE Store
  <2>1. asc.pc = "store" /\ asc' = [pc |-> "asleep"] /\ UNCHANGED <<reading, threshold>>
    BY <1>12 DEF Store, sensors
  <2> QED BY <1>2, <2>1 DEF Covered
<1>13. CASE ResetSensors
  <2>1. UNCHANGED <<asc, threshold>> /\ reading'[s] \in {reading[s], Reset}
    BY <1>0, <1>13, ResetStep DEF ResetSensors, ascTask
  <2>2. CASE reading'[s] = reading[s]
    BY <1>2, <2>1, <2>2 DEF Covered, Rising
  <2>3. CASE reading'[s] = Reset
    <3>1. Level(reading'[s].max) = 0
      BY <2>3, Levels DEF Reset
    <3>2. Covered(s)'
      BY <1>4, <2>1, <3>1 DEF Covered
    <3>3. asc.pc = "record" => asc.level > threshold[asc.at]
      BY <1>2
    <3> QED BY <2>1, <3>2, <3>3
  <2> QED BY <2>1, <2>2, <2>3
<1>14. CASE AmiTask \/ Ask \/ ApcTask \/ ChangeTable \/ UNCHANGED vars
  <2>1. UNCHANGED <<reading, threshold, asc>>
    BY <1>14 DEF AmiTask, Ask, ApcTask, ChangeTable, UpdateFptFlags, StartAnswer,
                 CopyRecord, EndAnswer, ReadFlags,
         Answer, StartRefresh, GetPart, EndRefresh, TellHost, vars, sensors, ascTask
  <2> QED BY <1>2, <2>1 DEF Covered, Rising
<1> QED BY <1>6, <1>7, <1>8, <1>9, <1>10, <1>11, <1>12, <1>13, <1>14 DEF Next, AscTask

(***************************************************************************)
(* The repositories hold the sweep last taken over, or, before it is       *)
(* stored, the one before it.                                              *)

LEMMA RepositoryStep ==
  ASSUME IInv, [Next]_vars
  PROVE  /\ Repositories'
         /\ Stored' >= Stored
         /\ Len(taken') >= Len(taken) /\ \A n \in 1 .. Len(taken) : taken'[n] = taken[n]
<1>0. Typed /\ Repositories /\ taken \in Seq([Sensor -> Record]) /\ Len(taken) \in Nat
  BY DEF IInv, Typed
<1>1. CASE TakeReadings
  <2>1. /\ asc.pc = "limits" /\ asc'.pc = "store" /\ data' = All /\ taken' = Append(taken, All)
        /\ UNCHANGED <<record, total>> /\ All \in [Sensor -> Record]
    BY <1>0, <1>1, AllType DEF TakeReadings, Typed
  <2>2. /\ Len(taken') = Len(taken) + 1 /\ taken'[Len(taken')] = All
        /\ \A n \in 1 .. Len(taken) : taken'[n] = taken[n]
    BY <1>0, <2>1
  <2>3. Stored = Len(taken) /\ Stored' = Len(taken)
    BY <1>0, <2>1, <2>2 DEF Stored
  <2>4. Repositories'
    BY <1>0, <2>1, <2>2, <2>3 DEF Repositories
  <2> QED BY <1>0, <2>2, <2>3, <2>4
<1>2. CASE Store
  <2>1. /\ asc.pc = "store" /\ asc'.pc = "asleep" /\ UNCHANGED <<data, taken>>
        /\ record' = data /\ total'.value = TotalOf(data)
    BY <1>2 DEF Store
  <2>2. Stored = Len(taken) - 1 /\ Stored' = Len(taken)
    BY <2>1 DEF Stored
  <2>3. Repositories'
    BY <1>0, <2>1, <2>2 DEF Repositories
  <2> QED BY <1>0, <2>1, <2>2, <2>3
<1>3. CASE KeepSensor
  <2>1. asc.pc = "event" /\ asc'.pc = "monitor" /\ UNCHANGED <<taken, record, total>>
    BY <1>0, <1>3 DEF KeepSensor, Typed, AscState
  <2>2. Stored = Len(taken) /\ Stored' = Len(taken)
    BY <2>1 DEF Stored
  <2>3. Repositories'
    BY <1>0, <2>1, <2>2 DEF Repositories
  <2> QED BY <1>0, <2>1, <2>2, <2>3
<1>4. CASE Sweep \/ CheckLimits \/ MonitorReads \/ MonitorRecords
  <2>1. asc.pc \in {"asleep", "limits", "monitor", "record"}
        /\ asc'.pc \in {"limits", "event", "record"} /\ UNCHANGED <<data, taken, record, total>>
    BY <1>0, <1>4 DEF Sweep, CheckLimits, MonitorReads, MonitorRecords, NextSensor, records, Typed,
         AscState
  <2>2. Stored = Len(taken) /\ Stored' = Len(taken)
    BY <2>1 DEF Stored
  <2>3. Repositories'
    BY <1>0, <2>1, <2>2 DEF Repositories
  <2> QED BY <1>0, <2>1, <2>2, <2>3
<1>5. CASE AmiTask \/ Ask \/ ApcTask \/ ChangeTable \/ ResetSensors \/ UNCHANGED vars
  <2>1. UNCHANGED <<data, taken, record, total, asc>>
    BY <1>5 DEF AmiTask, Ask, ApcTask, ChangeTable, UpdateFptFlags, StartAnswer,
                CopyRecord, EndAnswer, ReadFlags,
         Answer, StartRefresh, GetPart, EndRefresh, TellHost, ResetSensors, vars, ascTask, records
  <2>2. Stored' = Stored /\ Stored \in Nat
    BY <1>0, <2>1 DEF Stored, Repositories
  <2>3. Repositories'
    BY <1>0, <2>1, <2>2 DEF Repositories
  <2> QED BY <1>0, <2>1, <2>2, <2>3
<1> QED BY <1>1, <1>2, <1>3, <1>4, <1>5 DEF Next, AscTask

(***************************************************************************)
(* The copy of the partition table is never older than what the host knows.*)

LEMMA TableStep ==
  ASSUME IInv, [Next]_vars
  PROVE  Tables' /\ known <= known'
<1>0. Typed /\ Tables /\ apc \in ApcState /\ known \in Nat /\ 0 \in Part
  BY SensorParts DEF IInv, Typed
<1>1. \A i \in Part : table[i] \in Nat /\ fpt[i] \in Nat /\ table[i] <= updates
  BY <1>0 DEF Typed
<1>2. CASE ChangeTable
  <2>1. /\ apc.pc = "idle" /\ fpt' = fpt /\ known' = known /\ updates' = updates + 1
        /\ updates \in Nat
    BY <1>0, <1>2 DEF ChangeTable, UpdateFptFlags, Typed
  <2>2. \A i \in Part : table[0] <= fpt[i]
    BY <1>0, <2>1 DEF Tables
  <2>3. CASE /\ table' = [i \in Part |-> updates']
             /\ apc' = [pc |-> "raise", todo |-> <<"refresh", "tell", "refresh">>]
    <3>1. Head(apc'.todo) = "refresh" /\ apc'.pc = "raise"
      BY <2>3
    <3>2. \A i \in Part : table'[i] = updates + 1
      BY <2>1, <2>3
    <3>3. known' <= table'[0]
      BY <1>0, <1>1, <2>1, <3>2 DEF Tables
    <3> QED BY <1>0, <2>1, <3>1, <3>2, <3>3 DEF Tables
  <2>4. CASE /\ \E i \in Part \ {0} : table' = [table EXCEPT ![i] = updates']
             /\ \E todo : apc' = [pc |-> "raise", todo |-> todo]
    <3>1. apc'.pc = "raise"
      BY <2>4
    <3>2. PICK p \in Part \ {0} : table' = [table EXCEPT ![p] = updates']
      BY <2>4
    <3>3. table'[0] = table[0] /\ \A i \in Part : table'[i] \in {table[i], updates + 1}
      BY <1>0, <2>1, <3>2 DEF Typed
    <3>4. \A i \in Part : table'[0] <= table'[i]
      BY <1>0, <1>1, <2>1, <3>3 DEF Tables
    <3> QED BY <1>0, <2>1, <2>2, <3>1, <3>3, <3>4 DEF Tables
  <2> QED BY <1>2, <2>3, <2>4 DEF ChangeTable, UpdateFptFlags
<1>3. CASE TellHost
  <2>1. /\ apc.pc = "raise" /\ Head(apc.todo) = "tell" /\ known' = table[0]
        /\ UNCHANGED <<table, fpt>> /\ apc' = Raise(<<"refresh">>)
    BY <1>0, <1>3, Todo DEF TellHost
  <2>2. apc' = [pc |-> "raise", todo |-> <<"refresh">>]
    BY <2>1 DEF Raise
  <2>3. Head(apc'.todo) = "refresh" /\ apc'.pc = "raise"
    BY <2>2
  <2>4. \A i \in Part : table[0] <= fpt[i]
    BY <1>0, <2>1 DEF Tables
  <2> QED BY <1>0, <1>1, <2>1, <2>3, <2>4 DEF Tables
<1>4. CASE StartRefresh
  <2>1. apc'.pc = "get" /\ apc'.got = <<>> /\ UNCHANGED <<table, fpt, known>>
    BY <1>4 DEF StartRefresh
  <2> QED BY <1>0, <2>1, SensorParts DEF Tables
<1>5. CASE GetPart
  <2>1. apc.pc = "get" /\ Len(apc.got) \in Part /\ UNCHANGED <<table, fpt, known>>
        /\ apc' = [apc EXCEPT !.got = Append(@, table[Len(@)])]
    BY <1>5 DEF GetPart
  <2>2. apc.got \in Seq(Nat) /\ table[Len(apc.got)] \in Nat
    BY <1>0, <1>1, <2>1 DEF ApcState
  <2>3. apc'.pc = "get" /\ apc'.got = Append(apc.got, table[Len(apc.got)])
    BY <1>0, <2>1 DEF ApcState
  <2>4. /\ Len(apc'.got) = Len(apc.got) + 1
        /\ \A k \in 1 .. Len(apc.got) : apc'.got[k] = apc.got[k]
        /\ apc'.got[Len(apc.got) + 1] = table[Len(apc.got)]
    BY <2>2, <2>3
  <2>5. Len(apc.got) \in Nat /\ Len(apc.got) + 1 <= NumEntries + 1
    BY <2>1, <2>2, SensorParts
  <2>6. ASSUME NEW k \in 1 .. Len(apc'.got) PROVE apc'.got[k] = table'[k - 1]
    <3>1. CASE k \in 1 .. Len(apc.got)
      BY <1>0, <2>1, <2>4, <3>1 DEF Tables
    <3>2. CASE k = Len(apc.got) + 1
      BY <2>1, <2>4, <2>5, <3>2
    <3> QED BY <2>4, <2>5, <3>1, <3>2
  <2> QED BY <1>0, <2>1, <2>3, <2>4, <2>5, <2>6 DEF Tables
<1>6. CASE EndRefresh
  <2>1. fpt' = table /\ UNCHANGED <<table, known>> /\ apc'.pc \in {"idle", "raise"}
    BY <1>0, <1>6, TableTaken DEF EndRefresh, Raise
  <2>2. \A i \in Part : known <= table[i]
    BY <1>0, <1>1 DEF Tables
  <2> QED BY <1>0, <2>1, <2>2 DEF Tables
<1>7. CASE AscTask \/ AmiTask \/ Ask \/ ResetSensors \/ UNCHANGED vars
  <2>1. UNCHANGED <<apc, table, fpt, known>>
    BY <1>7 DEF AscTask, AmiTask, Ask, Sweep, CheckLimits, KeepSensor, MonitorReads, MonitorRecords,
         TakeReadings, Store, StartAnswer, CopyRecord, EndAnswer, ReadFlags, Answer, ResetSensors,
         vars, apcTask
  <2> QED BY <1>0, <2>1 DEF Tables
<1> QED BY <1>2, <1>3, <1>4, <1>5, <1>6, <1>7 DEF Next, ApcTask

(***************************************************************************)
(* The answers.                                                            *)

(* A record appended to those copied so far.                               *)
LEMMA AppendItem ==
  ASSUME NEW n \in Nat, NEW f, NEW v, v = f[n + 1]
  PROVE  Append([k \in 1 .. n |-> f[k]], v) = [k \in 1 .. n + 1 |-> f[k]]
<1> DEFINE S == {f[k] : k \in 1 .. n + 1}
           s == [k \in 1 .. n |-> f[k]]
           t == [k \in 1 .. n + 1 |-> f[k]]
<1>1. s \in [1 .. n -> S] /\ v \in S
  OBVIOUS
<1>2. s \in Seq(S) /\ Len(s) = n
  BY <1>1
<1>3. Append(s, v) \in Seq(S) /\ Len(Append(s, v)) = n + 1
  BY <1>1, <1>2
<1>4. \A k \in 1 .. n + 1 : Append(s, v)[k] = f[k]
  BY <1>1, <1>2
<1>5. DOMAIN Append(s, v) = 1 .. n + 1
  BY <1>3
<1> HIDE DEF s
<1>6. Append(s, v) = [k \in 1 .. n + 1 |-> Append(s, v)[k]]
  BY <1>3, <1>5
<1> QED BY <1>4, <1>6 DEF s

(* Whoever has asked keeps what it asked for while the others go on.       *)
LEMMA AnswersKept ==
  ASSUME IInv, [Next]_vars, ami' = ami,
         ami.pc = "copy" => UNCHANGED <<record, total, fpt>>
  PROVE  Answers' /\ AnswerIsWhole'
<1>1. Answers /\ AnswerIsWhole /\ Repositories /\ Typed
  BY DEF IInv
<1>2. /\ Stored' >= Stored /\ Stored' \in Nat /\ Stored \in Nat /\ known' \in Nat /\ known <= known'
      /\ known \in Nat
  <2>1. Repositories' /\ Stored' >= Stored /\ known <= known'
    BY RepositoryStep, TableStep
  <2>2. known' \in Nat /\ known \in Nat
    BY <1>1, ApcTypes DEF IInv, Typed
  <2> QED BY <1>1, <2>1, <2>2 DEF Repositories
<1>3. 1 .. Stored \subseteq 1 .. Stored' /\ 0 .. known \subseteq 0 .. known'
  BY <1>2
<1>4. Answers'
  <2>1. ami.pc = "copy" => UNCHANGED <<record, total, fpt>>
    OBVIOUS
  <2>2. \A r, m : ami.pc = "copy" => Item(r, m)' = Item(r, m)
    BY <2>1 DEF Item
  <2> QED BY <1>1, <1>3, <2>2 DEF Answers
<1>5. AnswerIsWhole'
  <2>1. Len(taken') >= Len(taken) /\ \A n \in 1 .. Len(taken) : taken'[n] = taken[n]
    BY RepositoryStep
  <2>2. Len(taken) \in Nat /\ Len(taken') \in Nat
    BY <1>1, AscTypes DEF Typed
  <2>3. CASE ami.pc = "answered" /\ ami.req # "flags" /\ ami.req # "fpt"
    <3>1. PICK n \in ami.since.sweep .. Len(taken) : OfSweep(ami.req, taken[n])
      BY <1>1, <2>3 DEF AnswerIsWhole
    <3>2. ami.since.sweep \in Nat \ {0}
      BY <1>1, <1>2, <2>3 DEF Answers
    <3>3. n \in 1 .. Len(taken) /\ n \in ami.since.sweep .. Len(taken')
      BY <2>1, <2>2, <3>1, <3>2
    <3>4. taken'[n] = taken[n]
      BY <2>1, <3>3
    <3>5. OfSweep(ami.req, taken[n])'
      BY <3>1, <3>4 DEF OfSweep
    <3> QED BY <2>3, <3>3, <3>5 DEF AnswerIsWhole
  <2>4. CASE ~(ami.pc = "answered" /\ ami.req # "flags" /\ ami.req # "fpt")
    BY <1>1, <2>4 DEF AnswerIsWhole
  <2> QED BY <2>3, <2>4
<1> QED BY <1>4, <1>5

LEMMA AnswerStep ==
  ASSUME IInv, [Next]_vars
  PROVE  Answers' /\ AnswerIsWhole'
<1>0. Answers /\ AnswerIsWhole /\ Repositories /\ Tables /\ Typed /\ Mutexes
  BY DEF IInv
<1>1. CASE Ask
  <2>1. PICK r \in Request :
          ami' = [pc |-> IF r = "flags" THEN "flags" ELSE "take", req |-> r, got |-> <<>>,
                  since |-> [sweep |-> Len(taken) - (IF asc.pc = "store" THEN 1 ELSE 0),
                             fpt |-> known]]
    BY <1>1 DEF Ask
  <2>2. UNCHANGED <<taken, asc, known>>
    BY <1>1 DEF Ask, ascTask, records, apcTask
  <2>3. Len(taken) \in Nat /\ known \in Nat
    BY <1>0 DEF Typed
  <2>4. Len(taken) - (IF asc.pc = "store" THEN 1 ELSE 0) = Stored /\ Stored' = Stored
    BY <2>2, <2>3 DEF Stored
  <2>5. Stored \in 1 .. Stored /\ known \in 0 .. known
    BY <1>0, <2>3 DEF Repositories
  <2>6. Answers'
    BY <2>1, <2>2, <2>4, <2>5 DEF Answers
  <2> QED BY <2>1, <2>6 DEF AnswerIsWhole
<1>2. CASE StartAnswer
  <2>1. ami.pc = "take" /\ ami' = [ami EXCEPT !.pc = "copy"]
        /\ UNCHANGED <<taken, asc, known, record, total, fpt>>
    BY <1>2 DEF StartAnswer, ascTask, records, apcTask
  <2>2. ami' = [pc |-> "copy", req |-> ami.req, got |-> <<>>, since |-> ami.since]
    BY <1>0, <2>1 DEF Answers
  <2>3. <<>> = [k \in 1 .. 0 |-> Item(ami.req, Members(ami.req)[k])']
    OBVIOUS
  <2>4. Stored' = Stored
    BY <2>1 DEF Stored
  <2>5. Answers'
    BY <1>0, <2>1, <2>2, <2>3, <2>4 DEF Answers
  <2> QED BY <2>2, <2>5 DEF AnswerIsWhole
<1>3. CASE CopyRecord
  <2> DEFINE f == [k \in Nat |-> Item(ami.req, Members(ami.req)[k])]
             item == Item(ami.req, Members(ami.req)[Len(ami.got) + 1])
  <2>1. ami.pc = "copy" /\ ami' = [ami EXCEPT !.got = Append(@, item)]
        /\ UNCHANGED <<taken, asc, known, record, total, fpt>>
    BY <1>3 DEF CopyRecord, ascTask, records, apcTask, Item
  <2>2. PICK n \in Nat : ami.got = [k \in 1 .. n |-> f[k]]
    BY <1>0, <2>1 DEF Answers
  <2>3. Len(ami.got) = n /\ item = f[n + 1]
    BY <2>2
  <2>4. Append(ami.got, item) = [k \in 1 .. n + 1 |-> f[k]]
    <3> HIDE DEF f, item
    <3> QED BY <2>2, <2>3, AppendItem
  <2>5. ami' = [pc |-> "copy", req |-> ami.req, got |-> [k \in 1 .. n + 1 |-> f[k]],
                since |-> ami.since]
    <3> HIDE DEF f, item
    <3> QED BY <1>0, <2>1, <2>4 DEF Answers
  <2>6. Stored' = Stored
    BY <2>1 DEF Stored
  <2>7. \A r, m : Item(r, m)' = Item(r, m)
    BY <2>1 DEF Item
  <2>8. n + 1 \in Nat /\ [k \in 1 .. n + 1 |-> f[k]]
                          = [k \in 1 .. n + 1 |-> Item(ami.req, Members(ami.req)[k])]
    OBVIOUS
  <2>9. Answers'
    <3> HIDE DEF f
    <3>1. ami'.req = ami.req /\ ami'.got = [k \in 1 .. n + 1 |-> f[k]]
      BY <2>5
    <3>2. \A k \in 1 .. n + 1 : Item(ami.req, Members(ami.req)[k])' = f[k]
      BY <2>1, <2>7, <3>1 DEF f, Item
    <3>3. (ami.got = [k \in 1 .. n + 1 |-> Item(ami.req, Members(ami.req)[k])])'
      BY <3>1, <3>2
    <3>4. (\E m \in Nat : ami.got = [k \in 1 .. m |-> Item(ami.req, Members(ami.req)[k])])'
      BY <2>8, <3>3
    <3> QED BY <1>0, <2>1, <2>5, <2>6, <3>4 DEF Answers
  <2> QED BY <2>5, <2>9 DEF AnswerIsWhole
<1>4. CASE EndAnswer
  <2>1. ami.pc = "copy" /\ ami' = [ami EXCEPT !.pc = "answered"]
        /\ Len(ami.got) = Len(Members(ami.req))
        /\ UNCHANGED <<taken, asc, known, record, total, fpt>>
    BY <1>4 DEF EndAnswer, ascTask, records, apcTask
  <2>2. ami' = [pc |-> "answered", req |-> ami.req, got |-> ami.got, since |-> ami.since]
    BY <1>0, <2>1 DEF Answers
  <2>3. Stored' = Stored
    BY <2>1 DEF Stored
  <2>4. Answers'
    BY <1>0, <2>1, <2>2, <2>3 DEF Answers
  <2>5. PICK n \in Nat : ami.got = [k \in 1 .. n |-> Item(ami.req, Members(ami.req)[k])]
    BY <1>0, <2>1 DEF Answers
  <2>6. Len(ami.got) = n /\ n = Len(Members(ami.req))
    BY <2>1, <2>5
  <2>7. CASE ami.req = "fpt"
    <3>1. n = NumEntries + 1 /\ \A k \in 1 .. n : Members("fpt")[k] = k - 1
      BY <2>6, <2>7, MembersType
    <3>2. \A k \in 1 .. n : ami.got[k] = fpt[k - 1]
      BY <2>5, <2>7, <3>1 DEF Item
    <3>3. \A i \in Part : i + 1 \in 1 .. n /\ (i + 1) - 1 = i
      BY <3>1, SensorParts
    <3>4. \A i \in Part : ami.got[i + 1] = fpt[i]
      BY <3>2, <3>3
    <3>5. ami.got[1] = fpt[0]
      BY <3>2, <3>1, SensorParts
    <3>6. \A i \in Part : fpt[i] \in Nat /\ known <= fpt[i] /\ fpt[0] <= fpt[i]
      BY <1>0 DEF Typed, Tables
    <3>7. ami.since.fpt \in Nat /\ ami.since.fpt <= known /\ known \in Nat
      BY <1>0, <2>1 DEF Answers, Typed
    <3>8. \A i \in Part : ami.got[i + 1] >= ami.since.fpt /\ ami.got[i + 1] >= ami.got[1]
      <4>1. ASSUME NEW i \in Part
            PROVE  ami.got[i + 1] >= ami.since.fpt /\ ami.got[i + 1] >= ami.got[1]
        <5>1. fpt[0] \in Nat /\ fpt[i] \in Nat /\ known <= fpt[i] /\ fpt[0] <= fpt[i]
          BY <3>6, SensorParts
        <5> QED BY <3>4, <3>5, <3>7, <5>1
      <4> QED BY <4>1
    <3>9. AnswerIsWhole'
      BY <2>2, <2>7, <3>8 DEF AnswerIsWhole
    <3> QED BY <2>4, <3>9
  <2>8. CASE ami.req # "fpt"
    <3>1. OfSweep(ami.req, taken[Stored])'
      <4>1. record = taken[Stored] /\ total.value = TotalOf(record)
        BY <1>0 DEF Repositories
      <4>2. ASSUME ami.req = "total"
            PROVE  Len(ami.got) = 1 /\ ami.got[1].value = TotalOf(taken[Stored])
        <5>1. n = 1
          BY <2>6, <4>2, MembersType
        <5>2. ami.got[1] = total
          BY <2>5, <4>2, <5>1 DEF Item
        <5> QED BY <2>6, <4>1, <5>1, <5>2
      <4>3. ASSUME ami.req # "total"
            PROVE  ami.got = [k \in 1 .. Len(Members(ami.req)) |->
                                taken[Stored][Members(ami.req)[k]]]
        BY <2>5, <2>6, <2>8, <4>1, <4>3 DEF Item
      <4> QED BY <2>1, <2>2, <2>3, <4>2, <4>3 DEF OfSweep
    <3>2. ami.since.sweep \in 1 .. Stored /\ Stored \in 1 .. Len(taken) /\ Len(taken) \in Nat
      BY <1>0, <2>1 DEF Answers, Repositories, Typed
    <3>3. Stored \in ami.since.sweep .. Len(taken)
      BY <3>2
    <3>4. AnswerIsWhole'
      BY <2>1, <2>2, <2>3, <2>8, <3>1, <3>3 DEF AnswerIsWhole
    <3> QED BY <2>4, <3>4
  <2> QED BY <2>7, <2>8
<1>5. CASE ReadFlags
  <2>1. ami.pc = "flags" /\ UNCHANGED <<taken, asc, known, record, total, fpt>>
        /\ \E v : ami' = [ami EXCEPT !.pc = "answered", !.got = v]
    BY <1>5 DEF ReadFlags, ascTask, records, apcTask
  <2>2. PICK v : ami' = [pc |-> "answered", req |-> "flags", got |-> v, since |-> ami.since]
    BY <1>0, <2>1 DEF Answers
  <2>3. Stored' = Stored
    BY <2>1 DEF Stored
  <2>4. Answers'
    BY <1>0, <2>1, <2>2, <2>3 DEF Answers
  <2> QED BY <2>2, <2>4 DEF AnswerIsWhole
<1>6. CASE Answer
  <2>1. ami' = [pc |-> "idle"]
    BY <1>6 DEF Answer
  <2> QED BY <2>1 DEF Answers, AnswerIsWhole
<1>7. CASE Store
  <2>1. asdmMutex = NoTask /\ ami' = ami
    BY <1>7 DEF Store, amiTask
  <2>2. ami.pc # "copy"
    BY <1>0, <2>1, SensorsAssumption DEF Mutexes
  <2> QED BY <2>1, <2>2, AnswersKept
<1>8. CASE EndRefresh
  <2>1. apc.pc = "get" /\ ami' = ami
    BY <1>8 DEF EndRefresh, amiTask
  <2>2. ami.pc # "copy"
    BY <1>0, <2>1 DEF Mutexes
  <2> QED BY <2>1, <2>2, AnswersKept
<1>9. CASE \/ Sweep \/ CheckLimits \/ KeepSensor \/ MonitorReads \/ MonitorRecords \/ TakeReadings
           \/ ChangeTable \/ TellHost \/ StartRefresh \/ GetPart \/ ResetSensors \/ UNCHANGED vars
  <2>1. UNCHANGED <<ami, record, total, fpt>>
    BY <1>9 DEF Sweep, CheckLimits, KeepSensor, MonitorReads, MonitorRecords, TakeReadings,
         ChangeTable, UpdateFptFlags, TellHost, StartRefresh, GetPart, ResetSensors, vars,
         records, amiTask, apcTask
  <2> QED BY <2>1, AnswersKept
<1> QED BY <1>1, <1>2, <1>3, <1>4, <1>5, <1>6, <1>7, <1>8, <1>9
       DEF Next, AscTask, AmiTask, ApcTask

(***************************************************************************)
(* The invariant.                                                          *)

LEMMA InitInv == ASSUME Init PROVE IInv
<1> USE DEF Init
<1>1. reading \in [Sensor -> Reading]
  BY SensorParts
<1>2. All \in [Sensor -> Record]
  BY <1>1, AllType
<1>3. Typed
  <2>1. 0 \in 0 .. MaxSweeps /\ 0 <= MaxChanges
    BY SensorsAssumption
  <2>2. asc \in AscState /\ apc \in ApcState
    BY DEF AscState, ApcState
  <2> QED BY <1>1, <1>2, <2>1, <2>2 DEF Typed
<1>4. Mutexes
  BY SensorsAssumption DEF Mutexes
<1>5. Thresholds
  BY Levels DEF Thresholds, Covered, Reset
<1>6. Repositories
  <2>1. Stored = 1 /\ Len(taken) = 1 /\ record = taken[1]
    BY DEF Stored
  <2>2. \A s \in PowerSensor : record[s].reading.value = 0
    BY SensorsAssumption DEF All, Of, Reset
  <2>3. TotalOf(record) = 0
    BY <2>2, SumOfNothing
  <2> QED BY <2>1, <2>3 DEF Repositories
<1>7. Tables
  BY SensorParts DEF Tables
<1>8. Answers /\ AnswerIsWhole
  BY DEF Answers, AnswerIsWhole
<1> QED BY <1>3, <1>4, <1>5, <1>6, <1>7, <1>8 DEF IInv

(* Who holds which mutex, what each sensor's threshold covers, of which    *)
(* sweep the repositories are, and what an answer is made of so far, in    *)
(* every state of the three tasks (vProxyDriverTask(), iAscCallback(),     *)
(* iASDM_PopulateResponse()).                                              *)
THEOREM Inductive == Spec => []IInv
<1>1. Init => IInv
  BY InitInv
<1>2. IInv /\ [Next]_vars => IInv'
  <2>1. SUFFICES ASSUME IInv, [Next]_vars PROVE IInv'
    OBVIOUS
  <2>2. Typed /\ Tables
    BY <2>1 DEF IInv
  <2>3. Typed'
    BY <2>1, <2>2, AscTypes, ApcTypes DEF Typed
  <2> QED BY <2>1, <2>3, MutexStep, ThresholdStep, RepositoryStep, TableStep, AnswerStep DEF IInv
<1> QED BY <1>1, <1>2, PTL DEF Spec

(* The readings, the tables of the repositories and the thresholds keep    *)
(* their types, the running average included (vProxyDriverTask()).         *)
THEOREM Types == Spec => []TypeOK
<1>1. IInv => TypeOK
  <2>1. SUFFICES ASSUME IInv PROVE TypeOK
    OBVIOUS
  <2>2. Typed /\ Mutexes
    BY <2>1 DEF IInv
  <2>3. \A s \in Sensor : reading[s] \in Reading /\ record[s] \in Record /\ data[s] \in Record
    BY <2>2 DEF Typed
  <2>4. 0 .. sweeps \subseteq 0 .. MaxSweeps /\ 0 .. updates \subseteq 0 .. MaxChanges
    BY <2>2, SensorsAssumption DEF Typed
  <2>5. threshold \in [Sensor -> 0 .. 3] /\ count \in [Sensor -> 0 .. MaxSweeps]
        /\ table \in [Part -> 0 .. MaxChanges] /\ fpt \in [Part -> 0 .. MaxChanges]
    BY <2>2, <2>4 DEF Typed
  <2> QED BY <2>2, <2>3, <2>5 DEF TypeOK, Mutexes, Reading, Record
<1> QED BY <1>1, Inductive, PTL

(* A rise over a limit is never lost, though the sensors are compared and  *)
(* the status is read and set without one mutex around them                *)
(* (asc_proxy_driver.c, iAscCallback() of bim.c).                          *)
THEOREM ThresholdsFollow == Spec => []ThresholdCoversMax
<1>1. IInv => ThresholdCoversMax
  BY DEF IInv, Thresholds, Covered, ThresholdCoversMax
<1> QED BY <1>1, Inductive, PTL

(* What the host is answered is of one sweep, not older than the one       *)
(* stored when it asked, or the last partition table it knows of or a      *)
(* later one (iASDM_PopulateResponse(), iApcCallback()).                   *)
THEOREM AnswersWhole == Spec => []AnswerIsWhole
<1>1. IInv => AnswerIsWhole
  BY DEF IInv
<1> QED BY <1>1, Inductive, PTL
=============================================================================
