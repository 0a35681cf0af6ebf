--------------------------- MODULE DeviceLifecycle ---------------------------
(***************************************************************************)
(* The life of one device in the host driver (ami_top.c): probe, the       *)
(* references taken by users of its device file and of its hwmon tree,     *)
(* applications registered to be killed, the heartbeat thread giving the   *)
(* firmware up, and removal, which has to wait for all of them.            *)
(***************************************************************************)
EXTENDS Naturals, FiniteSets

CONSTANTS
  App,              \* processes that open the device file
  Reader,           \* readers of a hwmon or sysfs attribute
  RemoveFault       \* whether the wait of the remove callback may be interrupted

ASSUME DeviceAssumption == /\ IsFiniteSet(App) /\ IsFiniteSet(Reader)
                           /\ App \cap Reader = {}
                           /\ RemoveFault \in BOOLEAN

User == App \cup Reader

VARIABLES
  probe,            \* where create_pf_dev_data() is
  remove,           \* where pcie_device_remove() is
  state,            \* pf_dev->state
  enabled,          \* pf_dev->enabled
  refcount,         \* pf_dev->refcount
  removeSema,       \* pf_dev->remove_sema
  freed,            \* whether pf_dev was freed
  cdevUp,           \* whether the device file can be opened
  hwmonUp,          \* whether the hwmon tree can be read
  user,             \* per user: out, looked up pf_dev, or holding a reference
  apps,             \* pf_dev->apps
  signalled,        \* applications that were sent SIGBUS
  heartbeat,        \* the heartbeat thread
  halted            \* gcq_halted

vars == <<probe, remove, state, enabled, refcount, removeSema, freed, cdevUp, hwmonUp,
          user, apps, signalled, heartbeat, halted>>
device == <<state, enabled, refcount, removeSema, freed, cdevUp, hwmonUp>>
users  == <<user, apps, signalled>>

State == {"init", "ready", "missingInfo", "compat", "noAmc", "initError", "shutdown"}

Holders == {u \in User : user[u] = "in"}
PfDevUnlocked == \A u \in User : user[u] # "looked"        \* pf_dev_lock

------------------------------------------------------------------------------
Init ==
  /\ probe = "amc" /\ remove = "none"
  /\ state = "init" /\ enabled = FALSE
  /\ refcount = 1 /\ removeSema = 0 /\ freed = FALSE         \* kref_init(), sema_init()
  /\ cdevUp = FALSE /\ hwmonUp = FALSE
  /\ user = [u \in User |-> "out"] /\ apps = {} /\ signalled = {}
  /\ heartbeat = "none" /\ halted = TRUE

------------------------------------------------------------------------------
(* create_pf_dev_data()                                                    *)

(* setup_amc() starts the heartbeat thread, finds an unsupported firmware  *)
(* version, or fails, which does not end the probe.                        *)
ProbeAmc ==
  /\ probe = "amc"
  /\ \/ heartbeat' = "alive" /\ halted' = FALSE /\ probe' = "sensors" /\ UNCHANGED state
     \/ state' = "compat" /\ halted' = FALSE /\ probe' = "cdev" /\ UNCHANGED heartbeat
     \/ state' = "noAmc" /\ probe' = "cdev" /\ UNCHANGED <<heartbeat, halted>>
  /\ UNCHANGED <<remove, enabled, refcount, removeSema, freed, cdevUp, hwmonUp, users>>

(* discover_sensors() and register_hwmon().                                *)
ProbeSensors ==
  /\ probe = "sensors"
  /\ \/ hwmonUp' = TRUE /\ UNCHANGED state
     \/ state' = "initError" /\ UNCHANGED hwmonUp
  /\ probe' = "cdev"
  /\ UNCHANGED <<remove, enabled, refcount, removeSema, freed, cdevUp, users, heartbeat, halted>>

ProbeCdev ==
  /\ probe = "cdev"
  /\ cdevUp' = TRUE
  /\ probe' = "check"
  /\ UNCHANGED <<remove, state, enabled, refcount, removeSema, freed, hwmonUp, users,
                 heartbeat, halted>>

(* "if (pf_dev->state == PF_DEV_STATE_INIT)", and then the assignment.     *)
ProbeCheckState ==
  /\ probe = "check"
  /\ probe' = IF state = "init" THEN "ready" ELSE "enable"
  /\ UNCHANGED <<remove, device, users, heartbeat, halted>>

ProbeReady ==
  /\ probe = "ready"
  /\ state' \in {"ready", "missingInfo"}
  /\ probe' = "enable"
  /\ UNCHANGED <<remove, enabled, refcount, removeSema, freed, cdevUp, hwmonUp, users,
                 heartbeat, halted>>

ProbeEnable ==
  /\ probe = "enable"
  /\ enabled' = TRUE
  /\ probe' = "done"
  /\ UNCHANGED <<remove, state, refcount, removeSema, freed, cdevUp, hwmonUp, users,
                 heartbeat, halted>>

(* register_hwmon(), register_sysfs() or create_cdev() failed: the service  *)
(* goes, then the memory; what is managed goes when probe has returned.     *)
ProbeFail ==
  /\ probe \in {"sensors", "cdev"} /\ heartbeat # "halting"
  /\ probe' = "failed" /\ remove' = "devres"
  /\ heartbeat' = "none" /\ halted' = TRUE
  /\ freed' = TRUE
  /\ UNCHANGED <<state, enabled, refcount, removeSema, cdevUp, hwmonUp, users>>

------------------------------------------------------------------------------
(* Users.  get_pf_dev_entry() runs under pf_dev_lock: it fetches the       *)
(* pointer, then looks at the device it points to.                         *)

LookUp(u) ==
  /\ user[u] = "out" /\ u \notin signalled
  /\ PfDevUnlocked
  /\ IF u \in App THEN cdevUp ELSE hwmonUp
  /\ user' = [user EXCEPT ![u] = "looked"]
  /\ UNCHANGED <<probe, remove, device, apps, signalled, heartbeat, halted>>

(* A mistake: the reference is taken of a device that is being removed.    *)
TakeRefIgnoringEnabled(u) ==
  /\ user[u] = "looked"
  /\ user' = [user EXCEPT ![u] = "in"] /\ refcount' = refcount + 1
  /\ UNCHANGED <<probe, remove, state, enabled, removeSema, freed, cdevUp, hwmonUp, apps,
                 signalled, heartbeat, halted>>

(* What memory that was freed says of the device may be anything.          *)
TakeRef(u) ==
  /\ user[u] = "looked"
  /\ \/ ~freed /\ enabled /\ refcount > 0
        /\ user' = [user EXCEPT ![u] = "in"] /\ refcount' = refcount + 1
     \/ (freed \/ ~enabled \/ refcount = 0)
        /\ user' = [user EXCEPT ![u] = "out"] /\ UNCHANGED refcount
     \/ freed /\ user' = [user EXCEPT ![u] = "in"] /\ UNCHANGED refcount
  /\ UNCHANGED <<probe, remove, state, enabled, removeSema, freed, cdevUp, hwmonUp, apps,
                 signalled, heartbeat, halted>>

(* Mistakes: the last reference does not wake the remove callback, and     *)
(* every reference does.                                                   *)
PutRefSilently == refcount' = refcount - 1 /\ UNCHANGED removeSema
PutRefAlwaysUp == refcount' = refcount - 1 /\ removeSema' = removeSema + 1

(* put_pf_dev_entry(): the last reference ups remove_sema.                 *)
PutRef ==
  /\ refcount' = refcount - 1
  /\ removeSema' = IF refcount = 1 THEN removeSema + 1 ELSE removeSema

(* dev_close(), also on behalf of a process that died, or the end of a     *)
(* hwmon read.                                                             *)
Leave(u) ==
  /\ user[u] = "in"
  /\ IF freed THEN UNCHANGED <<refcount, removeSema>> ELSE PutRef
  /\ user' = [user EXCEPT ![u] = "out"]
  /\ UNCHANGED <<probe, remove, state, enabled, freed, cdevUp, hwmonUp, apps, signalled,
                 heartbeat, halted>>

(* AMI_IOC_APP_SETUP                                                       *)
Register(u) ==
  /\ user[u] = "in" /\ u \in App /\ u \notin apps /\ u \notin signalled
  /\ state \notin {"init", "shutdown"}
  /\ apps' = apps \cup {u}
  /\ UNCHANGED <<probe, remove, device, user, signalled, heartbeat, halted>>

Deregister(u) ==
  /\ user[u] = "in" /\ u \in apps
  /\ state \notin {"init", "shutdown"}
  /\ apps' = apps \ {u}
  /\ UNCHANGED <<probe, remove, device, user, signalled, heartbeat, halted>>

(* kill_pf_dev_apps()                                                      *)
KillApps == signalled' = signalled \cup apps /\ apps' = {}

(* A sensor read over its critical limit kills the applications.           *)
ReadCritical(u) ==
  /\ user[u] = "in" /\ u \in Reader /\ apps # {}
  /\ KillApps
  /\ UNCHANGED <<probe, remove, device, user, heartbeat, halted>>

------------------------------------------------------------------------------
(* The heartbeat thread: amc_event_cb() on a fatal event.                  *)

HeartbeatFatal ==
  /\ heartbeat = "alive"
  /\ halted' = TRUE                 \* stop_gcq_services()
  /\ heartbeat' = "halting"
  /\ UNCHANGED <<probe, remove, device, users>>

HeartbeatNoAmc ==
  /\ heartbeat = "halting"
  /\ state' = "noAmc"
  /\ heartbeat' = "fatal"
  /\ UNCHANGED <<probe, remove, enabled, refcount, removeSema, freed, cdevUp, hwmonUp, users,
                 halted>>

------------------------------------------------------------------------------
(* pcie_device_remove()                                                    *)

RemoveDisable ==
  /\ probe = "done" /\ remove = "none" /\ PfDevUnlocked
  /\ enabled' = FALSE
  /\ remove' = "put"
  /\ UNCHANGED <<probe, state, refcount, removeSema, freed, cdevUp, hwmonUp, users, heartbeat,
                 halted>>

RemovePut ==
  /\ remove = "put"
  /\ PutRef
  /\ remove' = "kill"
  /\ UNCHANGED <<probe, state, enabled, freed, cdevUp, hwmonUp, users, heartbeat, halted>>

RemoveKill ==
  /\ remove = "kill"
  /\ KillApps
  /\ remove' = "wait"
  /\ UNCHANGED <<probe, device, user, heartbeat, halted>>

(* down_interruptible(): an interrupted wait is logged and forgotten.      *)
RemoveWait ==
  /\ remove = "wait"
  /\ \/ removeSema > 0 /\ removeSema' = removeSema - 1
     \/ RemoveFault /\ UNCHANGED removeSema
  /\ remove' = "services"
  /\ UNCHANGED <<probe, state, enabled, refcount, freed, cdevUp, hwmonUp, users, heartbeat,
                 halted>>

(* delete_pf_dev_data(): the list of applications, the heartbeat thread,   *)
(* the service and the device file go; then the memory.                    *)
DeleteServices ==
  /\ remove = "services" /\ heartbeat # "halting"
  /\ apps' = {} /\ heartbeat' = "none" /\ halted' = TRUE
  /\ state' = "shutdown" /\ cdevUp' = FALSE
  /\ remove' = "free"
  /\ UNCHANGED <<probe, enabled, refcount, removeSema, freed, hwmonUp, user, signalled>>

DeleteData ==
  /\ remove = "free"
  /\ freed' = TRUE
  /\ remove' = "devres"
  /\ UNCHANGED <<probe, state, enabled, refcount, removeSema, cdevUp, hwmonUp, users,
                 heartbeat, halted>>

(* Managed resources go after the callback: the hwmon tree takes no new    *)
(* readers, then those it has are waited for.                              *)
ReleaseManaged ==
  /\ \/ remove = "devres" /\ remove' = "drain"
     \/ remove = "drain" /\ remove' = "done" /\ \A u \in Reader : user[u] = "out"
  /\ hwmonUp' = FALSE
  /\ UNCHANGED <<probe, state, enabled, refcount, removeSema, freed, cdevUp, users, heartbeat,
                 halted>>

------------------------------------------------------------------------------
Probe     == ProbeAmc \/ ProbeSensors \/ ProbeCdev \/ ProbeCheckState \/ ProbeReady \/ ProbeEnable
Remove    == RemovePut \/ RemoveKill \/ RemoveWait \/ DeleteServices \/ DeleteData \/ ReleaseManaged
Heartbeat == HeartbeatFatal \/ HeartbeatNoAmc

Next == \/ Probe \/ ProbeFail \/ RemoveDisable \/ Remove \/ Heartbeat
        \/ \E u \in User : \/ LookUp(u) \/ TakeRef(u) \/ Leave(u)
                           \/ Register(u) \/ Deregister(u) \/ ReadCritical(u)

Spec == Init /\ [][Next]_vars

(* The callbacks run, a lookup and the read of an attribute end.           *)
CallbacksRun ==
  /\ WF_vars(Remove) /\ WF_vars(HeartbeatNoAmc)
  /\ \A u \in User : WF_vars(TakeRef(u))
  /\ \A u \in Reader : WF_vars(Leave(u))

(* Every application closes the device file some day.                      *)
FairSpec == Spec /\ CallbacksRun /\ \A u \in App : WF_vars(Leave(u))

------------------------------------------------------------------------------
TypeOK ==
  /\ probe \in {"amc", "sensors", "cdev", "check", "ready", "enable", "done", "failed"}
  /\ remove \in {"none", "put", "kill", "wait", "services", "free", "devres", "drain",
                "done"}
  /\ state \in State /\ enabled \in BOOLEAN
  /\ refcount \in Nat /\ removeSema \in 0 .. 1
  /\ freed \in BOOLEAN /\ cdevUp \in BOOLEAN /\ hwmonUp \in BOOLEAN
  /\ user \in [User -> {"out", "looked", "in"}]
  /\ apps \subseteq App /\ signalled \subseteq App
  /\ heartbeat \in {"none", "alive", "halting", "fatal"} /\ halted \in BOOLEAN

(* Every reference is somebody's: a user's, or the one of the probe until  *)
(* the remove callback gives it back; only the last one ups remove_sema.   *)
ProbeRef == IF remove \in {"none", "put"} THEN 1 ELSE 0
RefsCounted ==
  ~freed => /\ refcount = Cardinality(Holders) + ProbeRef
            /\ removeSema > 0 => refcount = 0

Phases ==
  /\ freed <=> remove \in {"devres", "drain", "done"}
  /\ remove # "none" => probe \in {"done", "failed"} /\ ~enabled
  /\ enabled => probe = "done"
  /\ remove \in {"services", "free"} => refcount = 0

IInv == TypeOK /\ RefsCounted /\ Phases

(* "Safe to delete data": when pcie_device_remove() deletes the device     *)
(* every user that got hold of a reference has given it back.              *)
NoRefAtDelete == remove \in {"services", "free"} => Holders = {}

(* "prevent any further reference increases": from the moment the device   *)
(* is disabled until it is freed its users only leave.                     *)
NoNewRefs == [][(remove # "none" /\ ~freed) => Holders' \subseteq Holders]_vars

(* Removal ends: each reference is given back and the last one wakes it.   *)
RemoveFinishes == remove = "put" ~> remove = "done"

(* "Safe to delete data" once more: when delete_pf_dev_data() has freed the *)
(* device, get_pf_dev_entry() does not look into it.                       *)
NoLookUpAfterDelete == (freed /\ probe = "done") => \A u \in User : user[u] # "looked"
=============================================================================
