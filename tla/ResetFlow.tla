------------------------------ MODULE ResetFlow ------------------------------
(***************************************************************************)
(* The host program (host/main.cpp): reset_GPU takes the listed PCI        *)
(* functions away from vfio-pci, hands them to pwplug, removes them from   *)
(* the kernel, cuts and restores the supply of the card, rescans the bus   *)
(* and gives the functions back to vfio-pci; setGpu switches the supply.   *)
(*                                                                         *)
(* The operations of host/pci.cpp are writes to sysfs.  QFile buffers      *)
(* them: a call returns true as soon as the file could be opened, and what *)
(* the kernel answers is never seen.  The kernel and the users of vfio-pci *)
(* are external; the power switch is PowerPort, which SerialLink           *)
(* implements.                                                             *)
(***************************************************************************)
EXTENDS Naturals, Sequences, PowerCommands

CONSTANTS
  Device,   \* the PCI functions of the card
  List,     \* the functions named with -s, in their order
  MayKill,  \* the process may be killed at any point
  MayBoot,  \* the board may restart
  Loadable  \* the drivers whose modules come and go

Driver == {"vfio-pci", "pwplug", "other"}

ASSUME ListAssumption == List \in Seq(Device) /\ List # <<>>
ASSUME LoadableAssumption == Loadable \subseteq Driver

NoDriver == "none"
Listed == {List[j] : j \in 1..Len(List)}

VARIABLES
  pc,        \* where the program is; "idle" when it does not run
  i,         \* position of the current loop in List
  mode,      \* what it was asked to do: "reset", "on", "off"
  root,      \* it may write to sysfs
  exit,      \* how the latest run ended
  reported,  \* devices it reported as not found
  asker,     \* the mode of the run that sent the latest power command
  present,   \* devices the kernel knows
  driver,    \* the driver each is bound to
  held,      \* devices that a user of vfio-pci has open
  loaded,    \* drivers that are loaded
  before,    \* devices present when the run began
  rescanned, \* somebody else rescanned the bus since the removal began
  power, inflight, busy, served, last, result, rebooted \* see PowerPort

Port == INSTANCE PowerPort

portVars == <<power, inflight, busy, served, last, result, rebooted>>
sysfs    == <<present, driver, held, loaded>>
run      == <<mode, root, before>>
vars == <<pc, i, exit, reported, asker, rescanned, run, sysfs, portVars>>

Init ==
  /\ pc = "idle"
  /\ i = 1
  /\ mode = None
  /\ root = FALSE
  /\ exit = None
  /\ reported = {}
  /\ asker = None
  /\ present = Device
  /\ driver \in [Device -> Driver \cup {NoDriver}]
  /\ held = {}
  /\ loaded = Driver
  /\ before = {}
  /\ rescanned = FALSE
  /\ Port!Init

-----------------------------------------------------------------------------
(* The kernel: what a write to sysfs does (external) *)

Absent == Device \ present

\* A driver's remove callback has run.
Unbound(d, drv) ==
  driver' = IF driver[d] = drv THEN [driver EXCEPT ![d] = NoDriver] ELSE driver

\* Binding may be refused: no such device, it has a driver, its id does not
\* match, or probe fails.
BindMayWork(d, drv) ==
  \/ /\ d \in present
     /\ driver[d] = NoDriver
     /\ drv \in loaded
     /\ driver' = [driver EXCEPT ![d] = drv]
  \/ UNCHANGED driver

\* A rescan finds the functions that answer by then, none while the card is
\* dark, and the drivers may probe what it finds.
Discover ==
  \E found \in SUBSET Absent :
    /\ found # {} => power
    /\ present' = present \cup found
    /\ driver' \in [Device -> loaded \cup {NoDriver} \cup {driver[d] : d \in present}]
    /\ \A d \in Device \ found : driver'[d] = driver[d]
    /\ \A d \in found : driver'[d] \in loaded \cup {NoDriver}

-----------------------------------------------------------------------------
(* host/pci.cpp: only root may open the files, which are there while the     *)
(* driver, or the device, is.                                                *)

isDriverLoad(drv) == drv \in loaded
isDeviceExists(d) == d \in present
isBind(drv, d)    == d \in present /\ driver[d] = drv

bind(drv, d) ==
  IF root /\ isDriverLoad(drv) THEN BindMayWork(d, drv) ELSE UNCHANGED driver

unbind(drv, d) == IF root THEN Unbound(d, drv) ELSE UNCHANGED driver

remove(d) ==
  IF root /\ isDeviceExists(d)
  THEN present' = present \ {d} /\ driver' = [driver EXCEPT ![d] = NoDriver]
  ELSE UNCHANGED <<present, driver>>

-----------------------------------------------------------------------------
(* The program: control *)

Goto(label) == pc' = label /\ UNCHANGED <<exit, i>>

Exit(code) == pc' = "idle" /\ exit' = code /\ UNCHANGED i

\* The end of a loop body: the next device, or the statement after the loop.
NextDevice(label) ==
  /\ IF i < Len(List) THEN i' = i + 1 /\ pc' = pc ELSE i' = 1 /\ pc' = label
  /\ UNCHANGED exit

rest == <<reported, asker, rescanned, run>>

\* main(): the two operations and their parameters.
Run(m) ==
  /\ pc = "idle"
  /\ pc' = IF m = "reset" THEN "drivers" ELSE "open"
  /\ i' = 1
  /\ mode' = m
  /\ root' \in BOOLEAN
  /\ exit' = None
  /\ reported' = {}
  /\ before' = present
  /\ UNCHANGED <<asker, rescanned, sysfs, portVars>>

\* isDriverLoad, for both drivers.
CheckDrivers ==
  /\ pc = "drivers"
  /\ IF ~isDriverLoad("pwplug") THEN Exit("3")
     ELSE IF ~isDriverLoad("vfio-pci") THEN Exit("4")
     ELSE Goto("open")
  /\ UNCHANGED <<rest, sysfs, portVars>>

\* serial.open().
OpenPort ==
  /\ pc = "open"
  /\ \/ Port!Open /\ Goto(IF mode = "reset" THEN "ping" ELSE "switch")
     \/ UNCHANGED portVars /\ Exit(IF mode = "reset" THEN "-1" ELSE "error")
  /\ UNCHANGED <<rest, sysfs>>

\* A call of sendCommand begins; Port!Ack and Port!Fail end it.
Send(label, c, waiting) ==
  /\ pc = label
  /\ Port!Ask(c)
  /\ Goto(waiting)
  /\ asker' = IF c = Ping THEN asker ELSE mode
  /\ UNCHANGED <<reported, rescanned, run, sysfs>>

SendPing == Send("ping", Ping, "pinging")
SendOff  == Send("cut", Off, "cutting")
SendOn   == Send("restore", On, "restoring")
SendOne  == Send("switch", IF mode = "on" THEN On ELSE Off, "switching")

\* ... and this is what the program does with what it returned.
Returned(label) ==
  /\ pc = label
  /\ ~busy
  /\ UNCHANGED <<rest, sysfs, portVars>>

PingReturned ==
  /\ Returned("pinging")
  /\ IF result = "ok" THEN Goto("unbindVfio") ELSE Exit("-2")

\* A mutant that leaves the power-on to the end of the run and forgets it.
OffReturnedDark ==
  /\ Returned("cutting")
  /\ IF result = "ok" THEN Goto("rescan") ELSE Exit("-3")

OffReturned ==
  /\ Returned("cutting")
  /\ IF result = "ok" THEN Goto("restore") ELSE Exit("-3")

\* A mutant that counts a failed power-on as done only when it was acknowledged.
OnReturnedWhenOk ==
  /\ Returned("restoring")
  /\ result = "ok"
  /\ Goto("rescan")

\* A power-on that failed is reported and the run goes on.
OnReturned ==
  /\ Returned("restoring")
  /\ Goto("rescan")

OneReturned ==
  /\ Returned("switching")
  /\ Exit(IF result = "ok" THEN "0" ELSE "error")

-----------------------------------------------------------------------------
(* The program: the sysfs loops *)

\* vfio_pci.unbind(device): the kernel waits for the users of the device.
UnbindVfio ==
  /\ pc = "unbindVfio"
  /\ root => List[i] \notin held
  /\ unbind("vfio-pci", List[i])
  /\ NextDevice("unbindPwplug")
  /\ UNCHANGED <<rest, present, held, loaded, portVars>>

\* pwplug.unbind(device), before the cut and after the rescan.
UnbindPwplug(label, next) ==
  /\ pc = label
  /\ unbind("pwplug", List[i])
  /\ NextDevice(next)
  /\ UNCHANGED <<rest, present, held, loaded, portVars>>

\* pwplug.bind(device): the only write whose failed open ends the run.
BindPwplug ==
  /\ pc = "bindPwplug"
  /\ bind("pwplug", List[i])
  /\ IF root /\ isDriverLoad("pwplug") THEN NextDevice("check") ELSE Exit("-1")
  /\ UNCHANGED <<rest, present, held, loaded, portVars>>

\* A mutant of CheckBound that removes each device as soon as it is checked.
CheckBoundAndRemove ==
  /\ pc = "check"
  /\ IF isBind("pwplug", List[i])
     THEN /\ remove(List[i])
          /\ NextDevice("cut")
          /\ UNCHANGED rescanned
     ELSE Exit("-1") /\ UNCHANGED <<present, driver, rescanned>>
  /\ UNCHANGED <<reported, asker, run, held, loaded, portVars>>

\* pwplug.isBind(device), which is what tells whether the bind worked.
CheckBound ==
  /\ pc = "check"
  /\ IF isBind("pwplug", List[i])
     THEN NextDevice("remove") /\ rescanned' = IF i < Len(List) THEN rescanned ELSE FALSE
     ELSE Exit("-1") /\ UNCHANGED rescanned
  /\ UNCHANGED <<reported, asker, run, sysfs, portVars>>

\* A mutant of Remove that forgets that the card has more than one function.
RemoveFirst ==
  /\ pc = "remove"
  /\ root => List[i] \notin held
  /\ remove(List[i])
  /\ Goto("cut")
  /\ UNCHANGED <<rest, held, loaded, portVars>>

\* pci.remove(device): its failure is taken for "already removed".
Remove ==
  /\ pc = "remove"
  /\ root => List[i] \notin held
  /\ remove(List[i])
  /\ NextDevice("cut")
  /\ UNCHANGED <<rest, held, loaded, portVars>>

\* A mutant of Rescan that takes what it found to be free of drivers.
RescanThenBind ==
  /\ pc = "rescan"
  /\ IF root THEN Discover /\ Goto("bindVfio")
     ELSE UNCHANGED <<present, driver>> /\ Exit("-4")
  /\ UNCHANGED <<rest, held, loaded, portVars>>

\* pci.rescan().
Rescan ==
  /\ pc = "rescan"
  /\ IF root THEN Discover /\ Goto("unbindPwplug2")
     ELSE UNCHANGED <<present, driver>> /\ Exit("-4")
  /\ UNCHANGED <<rest, held, loaded, portVars>>

\* vfio_pci.bind(device): nobody looks whether it worked.
BindVfio ==
  /\ pc = "bindVfio"
  /\ bind("vfio-pci", List[i])
  /\ NextDevice("report")
  /\ UNCHANGED <<rest, present, held, loaded, portVars>>

\* pci.isDeviceExists(device).
Report ==
  /\ pc = "report"
  /\ reported' = IF isDeviceExists(List[i]) THEN reported ELSE reported \cup {List[i]}
  /\ IF i < Len(List) THEN i' = i + 1 /\ UNCHANGED <<pc, exit>> ELSE Exit("0")
  /\ UNCHANGED <<asker, rescanned, run, sysfs, portVars>>

\* The process dies; a call in progress never returns.
Kill ==
  /\ MayKill
  /\ pc # "idle"
  /\ Exit("killed")
  /\ IF busy THEN Port!Fail ELSE UNCHANGED portVars
  /\ UNCHANGED <<rest, sysfs>>

Program ==
  \/ CheckDrivers
  \/ OpenPort
  \/ SendPing
  \/ PingReturned
  \/ UnbindVfio
  \/ UnbindPwplug("unbindPwplug", "bindPwplug")
  \/ BindPwplug
  \/ CheckBound
  \/ Remove
  \/ SendOff
  \/ OffReturned
  \/ SendOn
  \/ OnReturned
  \/ Rescan
  \/ UnbindPwplug("unbindPwplug2", "bindVfio")
  \/ BindVfio
  \/ Report
  \/ SendOne
  \/ OneReturned

-----------------------------------------------------------------------------
(* The rest of the machine (external) *)

flow == <<pc, i, exit, reported, asker, run>>

\* A user opens a device of vfio-pci, unless its unbinding or removal is waiting.
VfioOpen(d) ==
  /\ d \in present \ held
  /\ driver[d] = "vfio-pci"
  /\ ~(root /\ pc \in {"unbindVfio", "remove"} /\ List[i] = d)
  /\ held' = held \cup {d}
  /\ UNCHANGED <<flow, rescanned, present, driver, loaded, portVars>>

VfioRelease(d) ==
  /\ d \in held
  /\ held' = held \ {d}
  /\ UNCHANGED <<flow, rescanned, present, driver, loaded, portVars>>

\* Somebody else writes to /sys/bus/pci/rescan.
ForeignRescan ==
  /\ Discover
  /\ rescanned' = TRUE
  /\ UNCHANGED <<flow, held, loaded, portVars>>

\* rmmod unbinds the devices of the driver.
Unload(drv) ==
  /\ drv \in loaded
  /\ drv = "vfio-pci" => held = {}
  /\ loaded' = loaded \ {drv}
  /\ driver' = [d \in Device |-> IF driver[d] = drv THEN NoDriver ELSE driver[d]]
  /\ UNCHANGED <<flow, rescanned, present, held, portVars>>

\* modprobe binds the devices without a driver that the module's ids match: with ids=
\* of vfio-pci any of them; pwplug has no ids before somebody writes to new_id.
Load(drv) ==
  /\ drv \notin loaded
  /\ loaded' = loaded \cup {drv}
  /\ \E matched \in SUBSET {d \in present : driver[d] = NoDriver} :
       /\ drv = "pwplug" => matched = {}
       /\ driver' = [d \in Device |-> IF d \in matched THEN drv ELSE driver[d]]
  /\ UNCHANGED <<flow, rescanned, present, held, portVars>>

\* The power switch answers, times out, obeys late, or restarts.
CallReturns == (Port!Ack \/ Port!Fail) /\ UNCHANGED <<flow, rescanned, sysfs>>

Board ==
  /\ Port!Execute \/ Port!Drop \/ (MayBoot /\ Port!Reboot)
  /\ UNCHANGED <<flow, rescanned, sysfs>>

-----------------------------------------------------------------------------

Next ==
  \/ \E m \in {"reset", "on", "off"} : Run(m)
  \/ Program
  \/ Kill
  \/ \E d \in Device : VfioOpen(d) \/ VfioRelease(d)
  \/ ForeignRescan
  \/ \E drv \in Loadable : Unload(drv) \/ Load(drv)
  \/ CallReturns
  \/ Board

\* The program runs, a call of sendCommand ends (SessionEnds of SerialLink),
\* and a user asked to give a device back (vfio_pci_request) does so.
Fairness ==
  /\ WF_vars(Program)
  /\ WF_vars(CallReturns)
  /\ \A d \in Device : WF_vars(VfioRelease(d))

Spec == Init /\ [][Next]_vars /\ Fairness

-----------------------------------------------------------------------------
(* Properties *)

Labels == {"idle", "drivers", "open", "ping", "pinging", "unbindVfio",
           "unbindPwplug", "bindPwplug", "check", "remove", "cut", "cutting",
           "restore", "restoring", "rescan", "unbindPwplug2", "bindVfio",
           "report", "switch", "switching"}

\* The type of the state; i never leaves the list of devices.
TypeOK ==
  /\ Port!TypeOK
  /\ pc \in Labels
  /\ i \in 1..Len(List)
  /\ mode \in {None, "reset", "on", "off"}
  /\ root \in BOOLEAN
  /\ exit \in {None, "0", "3", "4", "-1", "-2", "-3", "-4", "error", "killed"}
  /\ reported \subseteq Device
  /\ asker \in {None, "reset", "on", "off"}
  /\ present \subseteq Device
  /\ driver \in [Device -> Driver \cup {NoDriver}]
  /\ held \subseteq Device
  /\ loaded \subseteq Driver
  /\ before \subseteq Device
  /\ rescanned \in BOOLEAN

\* reset_GPU never cuts the supply under a listed device that the kernel still
\* knows, neither by its own power-off nor by one the board obeys after the
\* call gave up, unless somebody else rescanned the bus since the removal.
NoHotCut ==
  [][power /\ ~power' /\ asker = "reset"
       => rescanned \/ Listed \cap present = {}]_vars

\* A run that ends with 0 left the supply on, whenever the board restarted; the
\* exception is a power-on call that failed, which reset_GPU only reports.
PowerRestored ==
  mode = "reset" /\ exit = "0" => last = On /\ (power \/ result = "fail")

\* A run that gives up before the removal has lost none of the devices.
EarlyExitKeepsDevices ==
  mode = "reset" /\ exit \in {"3", "4", "-1", "-2"} => before \subseteq present

\* After a run that ended with 0, no listed device is left with pwplug and what
\* is missing was reported, unless somebody else's rescan interfered.
HandedBack ==
  mode = "reset" /\ exit = "0" /\ ~rescanned =>
    \A d \in Listed : driver[d] # "pwplug" /\ (d \in present \/ d \in reported)

\* A run ends, whatever the board and the kernel do, once users give back the
\* devices they are asked for.
RunEnds == pc # "idle" ~> pc = "idle"

\* The dark phase of a reset ends: once the power-off was acknowledged, the card
\* is supplied again or the power-on call has failed, if the program lives on.
CutIsTemporary ==
  mode = "reset" /\ pc \in {"cutting", "restore"} /\ result = "ok" /\ ~power
    ~> power \/ (last = On /\ result = "fail") \/ exit = "killed"

-----------------------------------------------------------------------------
(* The inductive invariant behind NoHotCut, PowerRestored,                  *)
(* EarlyExitKeepsDevices and HandedBack (see ResetFlowProofs).              *)

Waiting == {"pinging", "cutting", "restoring", "switching"}

\* From the acknowledged ping to the power-off nothing is on the line.
Synced == {"unbindVfio", "unbindPwplug", "bindPwplug", "check", "remove", "cut"}

Final == {"rescan", "unbindPwplug2", "bindVfio", "report"}

\* Where the program is tells what it was asked to do and how the call stands.
ControlInv ==
  /\ pc \notin {"idle", "open", "switch", "switching"} => mode = "reset"
  /\ pc \in {"switch", "switching"} => mode # "reset"
  /\ pc # "idle" => exit = None
  /\ pc \in {"check", "remove"} => root
  /\ busy => pc \in Waiting
  /\ pc \in Waiting /\ ~busy => result # None
  /\ pc \in Synced => result = "ok"

\* The listed devices are gone, or somebody else brought them back.
Gone == rescanned \/ Listed \cap present = {}

\* A power-off of reset_GPU exists only while the listed devices are gone.
CutInv ==
  /\ pc = "remove" => rescanned \/ \A j \in 1..(i - 1) : List[j] \notin present
  /\ pc \in {"cut", "cutting"} => Gone
  /\ inflight = Off /\ asker = "reset" => Gone

\* After the power-off comes the power-on, and it has returned.
RestoreInv ==
  /\ pc = "restoring" => last = On
  /\ pc \in Final \/ (mode = "reset" /\ exit = "0") => last = On /\ result # None

\* Up to the check of the binding nothing was removed.
EarlyInv ==
  /\ pc \in {"drivers", "open", "ping", "pinging", "unbindVfio",
             "unbindPwplug", "bindPwplug", "check"} => before \subseteq present
  /\ EarlyExitKeepsDevices

\* The loops after the rescan: the devices behind i are free of pwplug, then seen
\* or reported, unless somebody else's rescan brought one back with a driver.
HandInv ==
  /\ pc \in {"cut", "cutting", "restore", "restoring", "rescan"} => i = 1
  /\ pc = "unbindPwplug2" => root
  /\ ~rescanned =>
       /\ pc = "unbindPwplug2" => \A j \in 1..(i - 1) : driver[List[j]] # "pwplug"
       /\ pc \in {"bindVfio", "report"} => \A d \in Listed : driver[d] # "pwplug"
       /\ pc = "report" => \A j \in 1..(i - 1) : List[j] \in present \cup reported
  /\ HandedBack

FlowInv == ControlInv /\ CutInv /\ RestoreInv /\ EarlyInv /\ HandInv

=============================================================================
