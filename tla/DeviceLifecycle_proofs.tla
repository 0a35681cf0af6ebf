------------------------ MODULE DeviceLifecycle_proofs ------------------------
(***************************************************************************)
(* For any number of applications and readers: the references are counted  *)
(* exactly, and unless the wait of the remove callback is interrupted the  *)
(* device is deleted only after the last user let go.                      *)
(***************************************************************************)
EXTENDS DeviceLifecycle, FiniteSetTheorems, TLAPS

Idle == RemoveFault = FALSE

LEMMA UsersFinite == IsFiniteSet(User)
BY DeviceAssumption, FS_Union DEF User

(* The users that hold a reference can be counted.                         *)
LEMMA HoldersFinite == IsFiniteSet(Holders) /\ Cardinality(Holders) \in Nat
BY UsersFinite, FS_Subset, FS_CardinalityType DEF Holders

LEMMA HoldersFinitePrimed == IsFiniteSet(Holders') /\ Cardinality(Holders') \in Nat
BY UsersFinite, FS_Subset, FS_CardinalityType DEF Holders

(* A user that comes in is one more, a user that leaves one fewer.         *)
LEMMA Enter ==
  ASSUME NEW u \in User, TypeOK, user[u] # "in", user' = [user EXCEPT ![u] = "in"]
  PROVE  Cardinality(Holders') = Cardinality(Holders) + 1
<1>1. Holders' = Holders \cup {u} /\ u \notin Holders
  BY DEF Holders, TypeOK
<1> QED BY <1>1, HoldersFinite, FS_AddElement

LEMMA Exit ==
  ASSUME NEW u \in User, TypeOK, user[u] = "in", user' = [user EXCEPT ![u] = "out"]
  PROVE  Cardinality(Holders') = Cardinality(Holders) - 1 /\ Cardinality(Holders) > 0
<1>1. Holders' = Holders \ {u} /\ u \in Holders
  BY DEF Holders, TypeOK
<1>2. Cardinality(Holders') = Cardinality(Holders) - 1
  BY <1>1, HoldersFinite, FS_RemoveElement
<1> QED BY <1>2, HoldersFinite, HoldersFinitePrimed

LEMMA Same ==
  ASSUME NEW u \in User, TypeOK, user[u] # "in",
         user' = user \/ user' = [user EXCEPT ![u] = "out"] \/ user' = [user EXCEPT ![u] = "looked"]
  PROVE  Holders' = Holders
BY DEF Holders, TypeOK

LEMMA Initially == Init => IInv
<1> SUFFICES ASSUME Init PROVE IInv
  OBVIOUS
<1>1. Cardinality(Holders) = 0
  <2>1. Holders = {}
    BY DEF Holders, Init
  <2> QED BY <2>1, FS_EmptySet
<1>2. TypeOK
  <2>1. /\ enabled \in BOOLEAN /\ freed \in BOOLEAN /\ cdevUp \in BOOLEAN
        /\ hwmonUp \in BOOLEAN /\ halted \in BOOLEAN
    BY Zenon DEF Init
  <2>2. user \in [User -> {"out", "looked", "in"}]
    BY DEF Init
  <2>3. state \in State /\ heartbeat \in {"none", "alive", "halting", "fatal"}
    BY DEF Init, State
  <2> QED BY <2>1, <2>2, <2>3 DEF Init, TypeOK
<1>3. RefsCounted
  BY <1>1 DEF Init, RefsCounted, ProbeRef
<1>4. Phases
  BY DEF Init, Phases
<1> QED BY <1>2, <1>3, <1>4 DEF IInv

(* The probe, the heartbeat and the deregistering of applications do not   *)
(* touch references.                                                       *)
LEMMA ProbeKeeps == IInv /\ Probe => IInv'
<1> SUFFICES ASSUME IInv, Probe PROVE IInv'
  OBVIOUS
<1>1. UNCHANGED <<user, remove, refcount, removeSema, freed>>
  BY DEF Probe, ProbeAmc, ProbeSensors, ProbeCdev, ProbeCheckState, ProbeReady, ProbeEnable,
         device, users
<1>2. Holders' = Holders
  BY <1>1 DEF Holders
<1>3. TypeOK'
  <2> USE DEF IInv, TypeOK, State, device, users
  <2>1. CASE ProbeAmc
    BY <2>1, ZenonT(30) DEF ProbeAmc
  <2>2. CASE ProbeSensors
    BY <2>2, ZenonT(30) DEF ProbeSensors
  <2>3. CASE ProbeCdev
    BY <2>3 DEF ProbeCdev
  <2>4. CASE ProbeCheckState \/ ProbeReady \/ ProbeEnable
    BY <2>4, ZenonT(30) DEF ProbeCheckState, ProbeReady, ProbeEnable
  <2> QED BY <2>1, <2>2, <2>3, <2>4 DEF Probe
<1>4. RefsCounted'
  BY <1>1, <1>2 DEF IInv, RefsCounted, ProbeRef
<1>5. Phases'
  BY <1>1 DEF Probe, ProbeAmc, ProbeSensors, ProbeCdev, ProbeCheckState, ProbeReady,
     ProbeEnable, device, IInv, Phases
<1> QED BY <1>3, <1>4, <1>5 DEF IInv

LEMMA ProbeFailKeeps == IInv /\ ProbeFail => IInv'
<1> SUFFICES ASSUME IInv, ProbeFail PROVE IInv'
  OBVIOUS
<1>1. TypeOK'
  BY DEF ProbeFail, users, IInv, TypeOK
<1>2. Phases'
  BY DEF ProbeFail, IInv, Phases
<1> QED BY <1>1, <1>2 DEF ProbeFail, IInv, RefsCounted

LEMMA HeartbeatKeeps == IInv /\ Heartbeat => IInv'
<1> SUFFICES ASSUME IInv, Heartbeat PROVE IInv'
  OBVIOUS
<1>1. UNCHANGED <<user, remove, refcount, removeSema, freed, probe, enabled>>
  BY DEF Heartbeat, HeartbeatFatal, HeartbeatNoAmc, device, users
<1>2. Holders' = Holders
  BY <1>1 DEF Holders
<1>3. TypeOK'
  BY DEF Heartbeat, HeartbeatFatal, HeartbeatNoAmc, device, users, IInv, TypeOK, State
<1> QED BY <1>1, <1>2, <1>3 DEF IInv, RefsCounted, Phases, ProbeRef

LEMMA UserKeeps ==
  ASSUME NEW u \in User, IInv,
         LookUp(u) \/ TakeRef(u) \/ Leave(u) \/ Register(u) \/ Deregister(u) \/ ReadCritical(u)
  PROVE  IInv'
<1> USE DEF IInv
<1>1. CASE LookUp(u)
  <2>1. Holders' = Holders
    BY <1>1, Same DEF LookUp
  <2>2. UNCHANGED <<remove, refcount, removeSema, freed, probe, enabled>> /\ TypeOK'
    BY <1>1 DEF LookUp, TypeOK, device
  <2> QED BY <2>1, <2>2 DEF RefsCounted, Phases, ProbeRef
<1>2. CASE TakeRef(u)
  <2>1. UNCHANGED <<remove, removeSema, freed, probe, enabled>> /\ TypeOK'
    BY <1>2 DEF TakeRef, TypeOK
  <2>2. Phases'
    BY <1>2, <2>1 DEF TakeRef, Phases, TypeOK
  <2>3. CASE ~freed /\ enabled /\ refcount > 0 /\ user' = [user EXCEPT ![u] = "in"]
                 /\ refcount' = refcount + 1
    <3>1. Cardinality(Holders') = Cardinality(Holders) + 1
      BY <1>2, <2>3, Enter DEF TakeRef
    <3>2. ProbeRef \in Nat /\ ProbeRef' = ProbeRef
      BY <2>1 DEF ProbeRef
    <3>3. removeSema = 0
      BY <2>3 DEF RefsCounted, TypeOK
    <3>4. refcount' = Cardinality(Holders') + ProbeRef'
      BY <2>3, <3>1, <3>2, HoldersFinite DEF RefsCounted
    <3> QED BY <2>1, <2>2, <3>3, <3>4 DEF RefsCounted
  <2>4. CASE UNCHANGED refcount /\ user' = [user EXCEPT ![u] = "out"]
    <3>1. Holders' = Holders
      BY <1>2, <2>4, Same DEF TakeRef
    <3> QED BY <2>1, <2>2, <2>4, <3>1 DEF RefsCounted, ProbeRef
  <2>5. CASE freed
    BY <2>1, <2>2, <2>5 DEF RefsCounted
  <2> QED BY <1>2, <2>3, <2>4, <2>5 DEF TakeRef
<1>3. CASE Leave(u)
  <2>1. Cardinality(Holders') = Cardinality(Holders) - 1 /\ Cardinality(Holders) > 0
    BY <1>3, Exit DEF Leave
  <2>2. UNCHANGED <<remove, freed, probe, enabled, state, cdevUp, hwmonUp, apps, signalled,
                    heartbeat, halted>>
    BY <1>3 DEF Leave
  <2>3. user' \in [User -> {"out", "looked", "in"}]
    BY <1>3 DEF Leave, TypeOK
  <2>4. CASE freed
    <3>1. UNCHANGED <<refcount, removeSema>>
      BY <1>3, <2>4 DEF Leave
    <3> QED BY <2>2, <2>3, <2>4, <3>1 DEF TypeOK, RefsCounted, Phases
  <2>5. CASE ~freed
    <3>1. PutRef
      BY <1>3, <2>5 DEF Leave
    <3>2. ProbeRef \in Nat /\ ProbeRef' = ProbeRef
      BY <2>2 DEF ProbeRef
    <3>3. refcount = Cardinality(Holders) + ProbeRef /\ refcount > 0 /\ removeSema = 0
      BY <2>1, <2>5, <3>2, HoldersFinite DEF RefsCounted, TypeOK
    <3>4. refcount' = Cardinality(Holders') + ProbeRef' /\ refcount' \in Nat
      BY <2>1, <3>1, <3>2, <3>3, HoldersFinite, HoldersFinitePrimed DEF PutRef, TypeOK
    <3>5. removeSema' \in 0 .. 1 /\ (removeSema' > 0 => refcount' = 0)
      BY <3>1, <3>3 DEF PutRef, TypeOK
    <3>6. TypeOK'
      BY <2>2, <2>3, <3>4, <3>5 DEF TypeOK
    <3>7. Phases'
      BY <2>2, <2>5, <3>3 DEF Phases
    <3> QED BY <3>4, <3>5, <3>6, <3>7 DEF RefsCounted
  <2> QED BY <2>4, <2>5
<1>4. CASE Register(u) \/ Deregister(u) \/ ReadCritical(u)
  <2>1. UNCHANGED <<user, remove, refcount, removeSema, freed, probe, enabled>>
    BY <1>4 DEF Register, Deregister, ReadCritical, device
  <2>2. Holders' = Holders
    BY <2>1 DEF Holders
  <2>3. TypeOK'
    BY <1>4 DEF Register, Deregister, ReadCritical, KillApps, device, TypeOK
  <2> QED BY <2>1, <2>2, <2>3 DEF RefsCounted, Phases, ProbeRef
<1> QED BY <1>1, <1>2, <1>3, <1>4

LEMMA RemoveKeeps == Idle /\ IInv /\ (RemoveDisable \/ Remove) => IInv'
<1> SUFFICES ASSUME Idle, IInv, RemoveDisable \/ Remove PROVE IInv'
  OBVIOUS
<1> USE DEF IInv
<1>0. Holders' = Holders
  BY DEF Remove, RemoveDisable, RemovePut, RemoveKill, RemoveWait, DeleteServices, DeleteData,
         ReleaseManaged, Holders, users, PutRef, KillApps
<1>1. CASE RemoveDisable
  <2>1. TypeOK'
    BY <1>1 DEF RemoveDisable, TypeOK, users
  <2> QED BY <1>0, <1>1, <2>1 DEF RemoveDisable, RefsCounted, Phases, ProbeRef
<1>2. CASE RemovePut
  <2>1. refcount = Cardinality(Holders) + 1 /\ ~freed /\ removeSema = 0
    BY <1>2, HoldersFinite DEF RemovePut, RefsCounted, ProbeRef, Phases, TypeOK
  <2>2. refcount' = Cardinality(Holders') /\ refcount' \in Nat
    BY <1>0, <1>2, <2>1, HoldersFinite DEF RemovePut, PutRef
  <2>3. removeSema' \in 0 .. 1 /\ (removeSema' > 0 => refcount' = 0)
    BY <1>2, <2>1 DEF RemovePut, PutRef, TypeOK
  <2>4. TypeOK'
    BY <1>2, <2>2, <2>3 DEF RemovePut, TypeOK, users
  <2>5. RefsCounted'
    BY <1>2, <2>2, <2>3, HoldersFinitePrimed DEF RemovePut, RefsCounted, ProbeRef
  <2>6. Phases'
    BY <1>2 DEF RemovePut, Phases
  <2> QED BY <2>4, <2>5, <2>6
<1>3. CASE RemoveKill
  <2>1. TypeOK'
    BY <1>3 DEF RemoveKill, KillApps, TypeOK, device
  <2> QED BY <1>0, <1>3, <2>1 DEF RemoveKill, device, RefsCounted, Phases, ProbeRef
<1>4. CASE RemoveWait
  <2>1. removeSema > 0 /\ removeSema' = removeSema - 1
    BY <1>4 DEF RemoveWait, Idle
  <2>2. TypeOK'
    BY <1>4, <2>1 DEF RemoveWait, TypeOK, users
  <2>3. refcount = 0
    BY <1>4, <2>1 DEF RemoveWait, Phases, RefsCounted
  <2> QED BY <1>0, <1>4, <2>1, <2>2, <2>3 DEF RemoveWait, RefsCounted, Phases, ProbeRef, TypeOK
<1>5. CASE DeleteServices
  <2>1. TypeOK'
    BY <1>5 DEF DeleteServices, TypeOK, State
  <2> QED BY <1>0, <1>5, <2>1 DEF DeleteServices, RefsCounted, Phases, ProbeRef
<1>6. CASE DeleteData \/ ReleaseManaged
  <2>1. TypeOK'
    BY <1>6 DEF DeleteData, ReleaseManaged, TypeOK, users
  <2>2. RefsCounted'
    BY <1>6 DEF DeleteData, ReleaseManaged, RefsCounted, Phases
  <2>3. Phases'
    BY <1>6 DEF DeleteData, ReleaseManaged, Phases
  <2> QED BY <2>1, <2>2, <2>3
<1> QED BY <1>1, <1>2, <1>3, <1>4, <1>5, <1>6 DEF Remove

LEMMA Inductive == Idle /\ IInv /\ [Next]_vars => IInv'
<1> SUFFICES ASSUME Idle, IInv, [Next]_vars PROVE IInv'
  OBVIOUS
<1>1. CASE UNCHANGED vars
  <2>1. Holders' = Holders
    BY <1>1 DEF vars, Holders
  <2> QED BY <1>1, <2>1 DEF vars, IInv, TypeOK, RefsCounted, Phases, ProbeRef, Holders
<1>2. CASE Next
  BY <1>2, ProbeKeeps, ProbeFailKeeps, HeartbeatKeeps, UserKeeps, RemoveKeeps DEF Next
<1> QED BY <1>1, <1>2

(* The references are counted exactly, whatever users, the heartbeat and   *)
(* the probe do, as long as the wait for remove_sema is not interrupted.   *)
THEOREM ReferencesCounted ==
  ASSUME Idle
  PROVE  Spec => []IInv
<1>1. IInv /\ [Next]_vars => IInv'
  BY Inductive
<1> QED BY <1>1, Initially, PTL DEF Spec

(* pcie_device_remove() deletes a device that nobody holds.                *)
THEOREM DeleteIsSafe ==
  ASSUME Idle
  PROVE  Spec => []NoRefAtDelete
<1>1. IInv => NoRefAtDelete
  <2> SUFFICES ASSUME IInv, remove \in {"services", "free"} PROVE Holders = {}
    BY DEF NoRefAtDelete
  <2>1. Cardinality(Holders) + ProbeRef = 0 /\ ProbeRef = 0
    BY DEF IInv, RefsCounted, Phases, ProbeRef
  <2>2. Cardinality(Holders) = 0
    BY <2>1, HoldersFinite
  <2> QED BY <2>2, HoldersFinite, FS_EmptySet
<1> QED BY <1>1, ReferencesCounted, PTL

(* A step of a device that is disabled lets no new holder in.              *)
LEMMA NobodyComesIn ==
  IInv /\ [Next]_vars => [(remove # "none" /\ ~freed) => Holders' \subseteq Holders]_vars
<1> SUFFICES ASSUME IInv, Next, remove # "none", ~freed PROVE Holders' \subseteq Holders
  BY DEF vars
<1>1. ~enabled
  BY DEF IInv, Phases
<1>2. CASE Probe \/ ProbeFail \/ RemoveDisable \/ Remove \/ Heartbeat
  <2>1. UNCHANGED user
    BY <1>2 DEF Probe, ProbeAmc, ProbeSensors, ProbeCdev, ProbeCheckState, ProbeReady,
       ProbeEnable, ProbeFail, RemoveDisable, Remove, RemovePut, RemoveKill, RemoveWait, DeleteServices,
       DeleteData, ReleaseManaged, Heartbeat, HeartbeatFatal, HeartbeatNoAmc, device, users
  <2> QED BY <2>1 DEF Holders
<1>3. ASSUME NEW u \in User, LookUp(u) \/ TakeRef(u) \/ Leave(u) \/ Register(u) \/ Deregister(u)
                               \/ ReadCritical(u)
      PROVE  Holders' \subseteq Holders
  <2>1. \/ user' = user
        \/ user' = [user EXCEPT ![u] = "out"]
        \/ user' = [user EXCEPT ![u] = "looked"]
    BY <1>1, <1>3 DEF LookUp, TakeRef, Leave, Register, Deregister, ReadCritical
  <2> QED BY <2>1 DEF Holders, IInv, TypeOK
<1> QED BY <1>2, <1>3 DEF Next

(* get_pf_dev_entry() refuses a disabled device: once pcie_device_remove() *)
(* has started, nobody new gets a reference to it.                         *)
THEOREM NoNewReferences ==
  ASSUME Idle
  PROVE  Spec => NoNewRefs
BY ReferencesCounted, NobodyComesIn, PTL DEF Spec, NoNewRefs
=============================================================================
