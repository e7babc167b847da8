--------------------------- MODULE DriverHandover ---------------------------
(***************************************************************************)
(* One PCI function between the drivers of this repository: pwplug, which  *)
(* quiets it for the power cut (device/pwplug.c), and vfio-pci with the    *)
(* first open and the last release (device/vfio_pci.c).                    *)
(*                                                                         *)
(* The device lock keeps the callbacks of the two drivers apart, so one    *)
(* callback is one action, and one action more for each of its error       *)
(* paths.  The calls into the PCI core are external: whether they work is  *)
(* a choice.  A probe that an open overtakes is in VfioDevSet.             *)
(***************************************************************************)
EXTENDS Naturals

CONSTANT MaxLeaked  \* BOUND: enables an earlier driver never took back

ASSUME MaxLeakedAssumption == MaxLeaked \in Nat

Power == {"D0", "D3hot", "D3cold"}

VARIABLES
  driver,     \* the driver it is bound to: "none", "pwplug", "vfio-pci"
  inUse,      \* a user of vfio-pci has it open
  enables,    \* enable_cnt: pci_enable_device less pci_disable_device
  leaked,     \* what enable_cnt was before these drivers came
  master,     \* it may master the bus: PCI_COMMAND_MASTER
  resetWorks, \* reset_works
  pstate      \* its power state

vars == <<driver, inUse, enables, leaked, master, resetWorks, pstate>>

\* Whatever bound it before may have left it enabled, and a bus master.
Init ==
  /\ driver = "none"
  /\ inUse = FALSE
  /\ leaked \in 0..MaxLeaked
  /\ enables = leaked
  /\ master \in BOOLEAN
  /\ resetWorks = FALSE
  /\ pstate \in Power

-----------------------------------------------------------------------------
(* The PCI core (external) *)

\* pci_set_power_state(to) works, falls short of D3cold, or does nothing.
SetPower(from, to) ==
  {from, to} \cup (IF to = "D3cold" THEN {"D3hot"} ELSE {})

\* pci_disable_device stops the bus master with the last enable.
MasterAfterDisable(m, count) == m /\ count > 0

-----------------------------------------------------------------------------
(* pwplug *)

\* probe: pci_enable_device, then pci_disable, which stops the bus master,
\* takes the enable back and asks for D3cold.  It only asks whether a slot or a
\* bus reset exists, and resets nothing.
PwplugProbe ==
  /\ driver = "none"
  /\ driver' = "pwplug"
  /\ master' = FALSE
  /\ pstate' \in SetPower("D0", "D3cold")
  /\ UNCHANGED <<inUse, enables, leaked, resetWorks>>

\* pci_enable_device failed.
PwplugProbeFails ==
  /\ driver = "none"
  /\ pstate' \in SetPower(pstate, "D0")
  /\ UNCHANGED <<driver, inUse, enables, leaked, master, resetWorks>>

\* remove returns before the calls that would wake and enable the function.
PwplugRemove ==
  /\ driver = "pwplug"
  /\ driver' = "none"
  /\ UNCHANGED <<inUse, enables, leaked, master, resetWorks, pstate>>

-----------------------------------------------------------------------------
(* vfio-pci: probe and remove *)

\* What an earlier driver left in the command register stays there.
VfioProbe ==
  /\ driver = "none"
  /\ driver' = "vfio-pci"
  /\ resetWorks' = FALSE
  /\ pstate' \in UNION {SetPower(p, "D3hot") : p \in SetPower(pstate, "D0")}
  /\ UNCHANGED <<inUse, enables, leaked, master>>

VfioRemove ==
  /\ driver = "vfio-pci"
  /\ ~inUse
  /\ driver' = "none"
  /\ pstate' \in SetPower(pstate, "D0")
  /\ UNCHANGED <<inUse, enables, leaked, master, resetWorks>>

-----------------------------------------------------------------------------
(* vfio-pci: the first open (vfio_pci_enable) *)

\* Every open begins so: D0, and no bus master in the state that is saved.
Opening ==
  /\ driver = "vfio-pci"
  /\ ~inUse
  /\ pstate' \in SetPower(pstate, "D0")
  /\ UNCHANGED <<driver, leaked>>

\* pci_enable_device fails.
OpenRefused ==
  /\ Opening
  /\ master' = FALSE
  /\ UNCHANGED <<inUse, enables, resetWorks>>

\* A mutant of OpenBusy that forgets to take the enable back.
OpenBusyKept ==
  /\ Opening
  /\ master' = FALSE
  /\ enables' = enables + 1
  /\ UNCHANGED <<inUse, resetWorks>>

\* pci_try_reset_function finds the device locked: the enable is taken back.
OpenBusy ==
  /\ Opening
  /\ master' = FALSE
  /\ UNCHANGED <<inUse, enables, resetWorks>>

\* vfio_config_init fails: the enable is taken back.
OpenNoConfig ==
  /\ Opening
  /\ master' = FALSE
  /\ resetWorks' \in BOOLEAN
  /\ UNCHANGED <<inUse, enables>>

Open ==
  /\ Opening
  /\ master' = FALSE
  /\ resetWorks' \in BOOLEAN
  /\ enables' = enables + 1
  /\ inUse' = TRUE

-----------------------------------------------------------------------------
(* vfio-pci: the last release (vfio_pci_disable) *)

\* pci_clear_master is the first call; the mutant does without it.
StopDmaLate(m) == m
StopDma(m) == FALSE

\* With count enables and bus master m.  The saved state is reloaded; when that
\* fails and no reset works, the rest is skipped.  Else the command register is
\* cleared and restored from a state saved without bus master.
Disable(m, count, works) ==
  \E reloaded \in BOOLEAN :
    LET m2 == IF reloaded \/ works THEN FALSE ELSE StopDma(m) IN
    /\ master' = MasterAfterDisable(m2, count - 1)
    /\ enables' = count - 1

\* The device specific regions fail: the open undoes itself.
OpenUndone ==
  /\ driver = "vfio-pci"
  /\ ~inUse
  /\ resetWorks' \in BOOLEAN
  /\ Disable(FALSE, enables + 1, resetWorks')
  /\ pstate' \in UNION {SetPower(p, "D3hot") : p \in SetPower(pstate, "D0")}
  /\ UNCHANGED <<driver, inUse, leaked>>

Release ==
  /\ inUse
  /\ inUse' = FALSE
  /\ Disable(master, enables, resetWorks)
  /\ pstate' \in UNION {SetPower(p, "D3hot") : p \in {pstate, "D0"}}
  /\ UNCHANGED <<driver, leaked, resetWorks>>

\* The user writes the command register (vfio_basic_config_write).
UserSetsMaster ==
  /\ inUse
  /\ master' \in BOOLEAN
  /\ UNCHANGED <<driver, inUse, enables, leaked, resetWorks, pstate>>

-----------------------------------------------------------------------------

Next ==
  \/ PwplugProbe \/ PwplugProbeFails \/ PwplugRemove
  \/ VfioProbe \/ VfioRemove
  \/ OpenRefused \/ OpenBusy \/ OpenNoConfig \/ Open \/ OpenUndone
  \/ Release \/ UserSetsMaster

Spec == Init /\ [][Next]_vars

-----------------------------------------------------------------------------
(* Properties *)

\* The type of the state; enable_cnt never falls below zero.
TypeOK ==
  /\ driver \in {"none", "pwplug", "vfio-pci"}
  /\ inUse \in BOOLEAN
  /\ leaked \in 0..MaxLeaked
  /\ enables \in 0..(MaxLeaked + 1)
  /\ master \in BOOLEAN
  /\ resetWorks \in BOOLEAN
  /\ pstate \in Power

\* Every path of pwplug's probe and of vfio-pci's open and release, the error
\* paths included, takes back the enables it made: only an open function has
\* one more than was found.
EnablesBalanced == enables = leaked + (IF inUse THEN 1 ELSE 0)

\* A function that pwplug holds masters no bus, even one an earlier driver left
\* enabled: it is quiet when its supply is cut.
QuietUnderPwplug == driver = "pwplug" => ~master

\* No driver leaves a function that nobody uses as a bus master that was none
\* before, and none after its last user, whichever call of the release failed.
QuietAfterUser == [][~inUse' /\ (inUse \/ ~master) => ~master']_vars

=============================================================================
