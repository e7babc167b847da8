----------------------------- MODULE VfioDevSet -----------------------------
(***************************************************************************)
(* The devices of vfio-pci that one slot or bus reset affects              *)
(* (device/vfio_pci.c): binding and unbinding, the first open and the last *)
(* release of each, and vfio_pci_try_bus_reset, which resets all of them   *)
(* when the last user of a device left it in need of a reset and nobody    *)
(* uses any of them.                                                       *)
(*                                                                         *)
(* Opens and releases are serialized by a lock that the devices of the set *)
(* share (vfio_pci_reflck); probing, unbinding and the hot reset ioctl run *)
(* beside them.  One step of an operation is one action; what the PCI core *)
(* and vfio answer is a choice.  disable_idle_d3 is off (its default).     *)
(***************************************************************************)
EXTENDS Naturals, FiniteSets

CONSTANTS
  Device,    \* the functions of one slot or bus
  Lock,      \* identities of reflck structures
  Resets,    \* a slot or bus reset exists (pci_probe_reset_slot / _bus)
  MaxUsers   \* BOUND: opens of a device at a time

ASSUME DeviceAssumption == IsFiniteSet(Device)
ASSUME ResetsAssumption == Resets \in BOOLEAN
ASSUME MaxUsersAssumption == MaxUsers \in Nat \ {0}

NoLock == "null"

ASSUME NoLockAssumption == NoLock \notin Lock

Awake == "D0"
Asleep == "D3hot"

VARIABLES
  stage,      \* "free", "added", "attached", "ready", "leaving" (see below)
  reflck,     \* the lock each device is attached to
  refcnt,     \* its users
  needsReset, \* needs_reset
  resetWorks, \* reset_works
  pstate,     \* its power state
  op,         \* what runs under each lock: an open or a release, and its step
  woken       \* devices left awake by something other than a user

vars == <<stage, reflck, refcnt, needsReset, resetWorks, pstate, op, woken>>
device == <<stage, reflck, refcnt, needsReset, resetWorks, pstate, woken>>

\* An operation: where it is, on whose behalf, the devices of devs, and ret = 0.
NoOp == [at |-> "none", dev |-> {}, taken |-> {}, ok |-> FALSE]
Op(at, d) == [at |-> at, dev |-> {d}, taken |-> {}, ok |-> FALSE]

Init ==
  /\ stage = [d \in Device |-> "free"]
  /\ reflck = [d \in Device |-> NoLock]
  /\ refcnt = [d \in Device |-> 0]
  /\ needsReset = [d \in Device |-> FALSE]
  /\ resetWorks = [d \in Device |-> FALSE]
  /\ pstate = [d \in Device |-> Awake]
  /\ op = [l \in Lock |-> NoOp]
  /\ woken = {}

\* vfio-core holds a device for its users and for who has taken it.
Referenced(d) ==
  refcnt[d] > 0 \/ \E l \in Lock : d \in op[l].dev \cup op[l].taken

\* vfio_device_get_from_dev: what it finds is gone with the last reference.
Found(d) ==
  \/ stage[d] \in {"added", "attached", "ready"}
  \/ stage[d] = "leaving" /\ Referenced(d)

-----------------------------------------------------------------------------
(* vfio_pci_probe and vfio_pci_remove *)

\* vfio_add_group_dev of a zeroed structure: users can find the device now.
\* (An open before the lock is attached dereferences a null pointer; it is not
\* modelled: OpenFirst and OpenMore need a lock.)
ProbeAdd(d) ==
  /\ stage[d] = "free"
  /\ stage' = [stage EXCEPT ![d] = "added"]
  /\ needsReset' = [needsReset EXCEPT ![d] = FALSE]
  /\ resetWorks' = [resetWorks EXCEPT ![d] = FALSE]
  /\ UNCHANGED <<reflck, refcnt, pstate, op, woken>>

\* A mutant of ProbeAttach that looks at no other device of the set.
ProbeAttachAlone(d) ==
  /\ stage[d] = "added"
  /\ \E l \in Lock \ {reflck[e] : e \in Device} :
       reflck' = [reflck EXCEPT ![d] = l]
  /\ stage' = [stage EXCEPT ![d] = "attached"]
  /\ UNCHANGED <<refcnt, needsReset, resetWorks, pstate, op, woken>>

\* vfio_pci_reflck_attach, under reflck_lock: the lock of a device of the set
\* that has one, else a new one.
ProbeAttach(d) ==
  LET shared == {reflck[e] : e \in {e \in Device : Found(e)}} \ {NoLock} IN
  /\ stage[d] = "added"
  /\ \E l \in IF shared # {} THEN shared
              ELSE Lock \ {reflck[e] : e \in Device} :
       reflck' = [reflck EXCEPT ![d] = l]
  /\ stage' = [stage EXCEPT ![d] = "attached"]
  /\ UNCHANGED <<refcnt, needsReset, resetWorks, pstate, op, woken>>

\* No memory for a new lock: vfio_del_group_dev.
ProbeFails(d) ==
  /\ stage[d] = "added"
  /\ ~\E e \in Device : Found(e) /\ reflck[e] # NoLock
  /\ stage' = [stage EXCEPT ![d] = "leaving"]
  /\ UNCHANGED <<reflck, refcnt, needsReset, resetWorks, pstate, op, woken>>

\* The end of probe puts the device to sleep, whoever opened it meanwhile.
ProbePark(d) ==
  /\ stage[d] = "attached"
  /\ stage' = [stage EXCEPT ![d] = "ready"]
  /\ pstate' = [pstate EXCEPT ![d] = Asleep]
  /\ woken' = woken \ {d}
  /\ UNCHANGED <<reflck, refcnt, needsReset, resetWorks, op>>

\* vfio_del_group_dev gives up its reference and waits for the others.
RemoveBegin(d) ==
  /\ stage[d] = "ready"
  /\ stage' = [stage EXCEPT ![d] = "leaving"]
  /\ UNCHANGED <<reflck, refcnt, needsReset, resetWorks, pstate, op, woken>>

\* ... and vfio_pci_remove drops the lock and wakes the device.
RemoveEnd(d) ==
  /\ stage[d] = "leaving"
  /\ ~Referenced(d)
  /\ stage' = [stage EXCEPT ![d] = "free"]
  /\ pstate' = [pstate EXCEPT ![d] = IF reflck[d] = NoLock THEN pstate[d] ELSE Awake]
  /\ reflck' = [reflck EXCEPT ![d] = NoLock]
  /\ woken' = woken \ {d}
  /\ UNCHANGED <<refcnt, needsReset, resetWorks, op>>

-----------------------------------------------------------------------------
(* vfio_pci_open *)

CanLock(d) == Found(d) /\ reflck[d] # NoLock /\ op[reflck[d]] = NoOp

Step(l, at) == op' = [op EXCEPT ![l].at = at]
Unlock(l)   == op' = [op EXCEPT ![l] = NoOp]

OpenMore(d) ==
  /\ CanLock(d)
  /\ refcnt[d] \in 1..(MaxUsers - 1)
  /\ refcnt' = [refcnt EXCEPT ![d] = refcnt[d] + 1]
  /\ UNCHANGED <<stage, reflck, needsReset, resetWorks, pstate, op, woken>>

\* The first open: vfio_pci_enable wakes the device first.
OpenFirst(d) ==
  /\ CanLock(d)
  /\ refcnt[d] = 0
  /\ op' = [op EXCEPT ![reflck[d]] = Op("enable", d)]
  /\ pstate' = [pstate EXCEPT ![d] = Awake]
  /\ UNCHANGED <<stage, reflck, refcnt, needsReset, resetWorks, woken>>

\* vfio_pci_enable succeeds; whether the function reset worked is kept.
Enabled(l) ==
  /\ op[l].at = "enable"
  /\ \E d \in op[l].dev :
       /\ refcnt' = [refcnt EXCEPT ![d] = 1]
       /\ \E works \in BOOLEAN : resetWorks' = [resetWorks EXCEPT ![d] = works]
       /\ woken' = woken \ {d}
  /\ Unlock(l)
  /\ UNCHANGED <<stage, reflck, needsReset, pstate>>

\* pci_enable_device, the device lock or vfio_config_init fails: the open fails
\* and leaves the device as it is.
EnableFails(l) ==
  /\ op[l].at = "enable"
  /\ \E d \in op[l].dev :
       /\ \E works \in BOOLEAN : resetWorks' = [resetWorks EXCEPT ![d] = works]
       /\ woken' = woken \cup {d}
  /\ Unlock(l)
  /\ UNCHANGED <<stage, reflck, refcnt, needsReset, pstate>>

\* The device specific regions fail: "disable_exit".
EnableUndone(l) ==
  /\ op[l].at = "enable"
  /\ \E d \in op[l].dev, works \in BOOLEAN :
       resetWorks' = [resetWorks EXCEPT ![d] = works]
  /\ Step(l, "disable")
  /\ UNCHANGED <<stage, reflck, refcnt, needsReset, pstate, woken>>

-----------------------------------------------------------------------------
(* vfio_pci_release and vfio_pci_disable *)

ReleaseMore(d) ==
  /\ CanLock(d)
  /\ refcnt[d] > 1
  /\ refcnt' = [refcnt EXCEPT ![d] = refcnt[d] - 1]
  /\ UNCHANGED <<stage, reflck, needsReset, resetWorks, pstate, op, woken>>

ReleaseLast(d) ==
  /\ CanLock(d)
  /\ refcnt[d] = 1
  /\ refcnt' = [refcnt EXCEPT ![d] = 0]
  /\ op' = [op EXCEPT ![reflck[d]] = Op("disable", d)]
  /\ UNCHANGED <<stage, reflck, needsReset, resetWorks, pstate, woken>>

\* The function reset may clean the device; then vfio_pci_try_bus_reset, which
\* gives up at once without a reset method or memory.
Disable(l) ==
  /\ op[l].at = "disable"
  /\ \E d \in op[l].dev :
       \E clean \in IF resetWorks[d] THEN BOOLEAN ELSE {FALSE} :
         needsReset' = [needsReset EXCEPT ![d] = ~clean]
  /\ \E next \in {"park"} \cup (IF Resets THEN {"walk"} ELSE {}) : Step(l, next)
  /\ UNCHANGED <<stage, reflck, refcnt, resetWorks, pstate, woken>>

\* A mutant of Take that does not look at the users of the device.
TakeUsed(l) ==
  /\ op[l].at = "walk"
  /\ \E d \in Device \ op[l].taken :
       IF Found(d)
       THEN op' = [op EXCEPT ![l].taken = @ \cup {d}]
       ELSE Step(l, "put")
  /\ UNCHANGED device

\* vfio_pci_get_unused_devs on the next device of the bus.
Take(l) ==
  /\ op[l].at = "walk"
  /\ \E d \in Device \ op[l].taken :
       IF Found(d) /\ refcnt[d] = 0
       THEN op' = [op EXCEPT ![l].taken = @ \cup {d}]
       ELSE Step(l, "put")
  /\ UNCHANGED device

\* All of them are unused: is there one to reset?
Decide(l) ==
  /\ op[l].at = "walk"
  /\ op[l].taken = Device
  /\ Step(l, IF \E d \in Device : needsReset[d] THEN "reset" ELSE "put")
  /\ UNCHANGED device

\* pci_reset_bus wakes what it resets, all of it when it succeeds.
BusReset(l) ==
  /\ op[l].at = "reset"
  /\ \E ok \in BOOLEAN, awake \in SUBSET Device :
       /\ ok => awake = Device
       /\ op' = [op EXCEPT ![l].at = "put", ![l].ok = ok]
       /\ pstate' = [d \in Device |-> IF d \in awake THEN Awake ELSE pstate[d]]
       /\ woken' = IF ok THEN woken ELSE woken \cup awake
  /\ UNCHANGED <<stage, reflck, refcnt, needsReset, resetWorks>>

\* Mutants of Put: only the device that was closed is marked clean; no device goes
\* back to sleep.
PutOwn(l) ==
  /\ op[l].at = "put"
  /\ \E d \in op[l].taken :
       /\ op' = [op EXCEPT ![l].taken = @ \ {d}]
       /\ IF op[l].ok /\ d \in op[l].dev
          THEN needsReset' = [needsReset EXCEPT ![d] = FALSE]
          ELSE UNCHANGED needsReset
       /\ IF op[l].ok /\ d \notin op[l].dev
          THEN pstate' = [pstate EXCEPT ![d] = Asleep] /\ woken' = woken \ {d}
          ELSE UNCHANGED <<pstate, woken>>
  /\ UNCHANGED <<stage, reflck, refcnt, resetWorks>>

PutAwake(l) ==
  /\ op[l].at = "put"
  /\ \E d \in op[l].taken :
       /\ op' = [op EXCEPT ![l].taken = @ \ {d}]
       /\ needsReset' = [needsReset EXCEPT ![d] = ~op[l].ok /\ @]
  /\ UNCHANGED <<stage, reflck, refcnt, resetWorks, pstate, woken>>

\* put_devs: one device of the loop.
Put(l) ==
  /\ op[l].at = "put"
  /\ \E d \in op[l].taken :
       /\ op' = [op EXCEPT ![l].taken = @ \ {d}]
       /\ IF op[l].ok
          THEN needsReset' = [needsReset EXCEPT ![d] = FALSE]
          ELSE UNCHANGED needsReset
       /\ IF op[l].ok /\ d \notin op[l].dev
          THEN pstate' = [pstate EXCEPT ![d] = Asleep] /\ woken' = woken \ {d}
          ELSE UNCHANGED <<pstate, woken>>
  /\ UNCHANGED <<stage, reflck, refcnt, resetWorks>>

PutDone(l) ==
  /\ op[l].at = "put"
  /\ op[l].taken = {}
  /\ Step(l, "park")
  /\ UNCHANGED device

\* The end of vfio_pci_disable puts its own device to sleep.
Park(l) ==
  /\ op[l].at = "park"
  /\ pstate' = [d \in Device |-> IF d \in op[l].dev THEN Asleep ELSE pstate[d]]
  /\ woken' = woken \ op[l].dev
  /\ Unlock(l)
  /\ UNCHANGED <<stage, reflck, refcnt, needsReset, resetWorks>>

-----------------------------------------------------------------------------
(* The resets a user asks for: vfio_pci_ioctl does not take the lock. *)

\* VFIO_DEVICE_RESET: the PCI core wakes the function it resets.
FunctionReset(d) ==
  /\ refcnt[d] > 0
  /\ resetWorks[d]
  /\ pstate' = [pstate EXCEPT ![d] = Awake]
  /\ UNCHANGED <<stage, reflck, refcnt, needsReset, resetWorks, op, woken>>

\* VFIO_DEVICE_PCI_HOT_RESET by a user who owns the groups of all the devices;
\* it wakes what it resets, and may fail half-way.
HotReset(d) ==
  /\ Resets
  /\ refcnt[d] > 0
  /\ \E awake \in SUBSET Device :
       /\ pstate' = [e \in Device |-> IF e \in awake THEN Awake ELSE pstate[e]]
       /\ woken' = woken \cup awake
  /\ UNCHANGED <<stage, reflck, refcnt, needsReset, resetWorks, op>>

-----------------------------------------------------------------------------

Next ==
  \/ \E d \in Device :
       \/ ProbeAdd(d) \/ ProbeAttach(d) \/ ProbeFails(d) \/ ProbePark(d)
       \/ RemoveBegin(d) \/ RemoveEnd(d)
       \/ OpenFirst(d) \/ OpenMore(d) \/ ReleaseMore(d) \/ ReleaseLast(d)
       \/ FunctionReset(d) \/ HotReset(d)
  \/ \E l \in Lock :
       \/ Enabled(l) \/ EnableFails(l) \/ EnableUndone(l) \/ Disable(l)
       \/ Take(l) \/ Decide(l) \/ BusReset(l) \/ Put(l) \/ PutDone(l) \/ Park(l)

Spec == Init /\ [][Next]_vars

-----------------------------------------------------------------------------
(* Properties *)

Steps == {"none", "enable", "disable", "walk", "reset", "put", "park"}

\* The type of the state; refcnt never falls below zero.
TypeOK ==
  /\ stage \in [Device -> {"free", "added", "attached", "ready", "leaving"}]
  /\ reflck \in [Device -> Lock \cup {NoLock}]
  /\ refcnt \in [Device -> 0..MaxUsers]
  /\ needsReset \in [Device -> BOOLEAN]
  /\ resetWorks \in [Device -> BOOLEAN]
  /\ pstate \in [Device -> {Awake, Asleep}]
  /\ op \in [Lock -> [at : Steps, dev : SUBSET Device,
                      taken : SUBSET Device, ok : BOOLEAN]]
  /\ woken \subseteq Device

\* The devices of a set share one lock, in whatever order they are probed and
\* removed (vfio_pci_reflck_attach and the kref of vfio_pci_reflck).
OneLock ==
  \A d, e \in Device :
    reflck[d] # NoLock /\ reflck[e] # NoLock /\ Found(d) /\ Found(e)
      => reflck[d] = reflck[e]

\* vfio_pci_try_bus_reset resets the set only while every device of it is bound
\* to vfio-pci and unused, and no open or release of any of them is under way.
ResetIsExclusive ==
  \A l \in Lock : op[l].at = "reset" =>
    /\ \A d \in Device : Found(d) /\ refcnt[d] = 0
    /\ \A m \in Lock \ {l} : op[m] = NoOp

\* A bus reset that worked leaves no device of the set in need of a reset.
ResetCleans ==
  \A l \in Lock : op[l].at = "park" /\ op[l].ok => \A d \in Device : ~needsReset[d]

\* An unused device sleeps, unless a failed open, a failed bus reset or a hot
\* reset left it awake: try_bus_reset puts to sleep what it woke.
UnusedSleeps ==
  \A d \in Device :
    stage[d] = "ready" /\ ~Referenced(d) /\ d \notin woken => pstate[d] = Asleep

\* No operation on one device puts another that is in use to sleep; only the
\* end of probe can, to a device that was opened before it.
NoSleepUnderUser ==
  [][\A d \in Device :
       refcnt[d] > 0 /\ pstate[d] = Awake /\ pstate'[d] = Asleep
         => stage[d] = "attached"]_vars

\* "idle, unused devices" are what sleeps (disable_idle_d3): a device in use is
\* awake.  An open that comes before the end of probe breaks this.
UsedIsAwake == \A d \in Device : refcnt[d] > 0 => pstate[d] = Awake

=============================================================================
