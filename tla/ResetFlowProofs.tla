-------------------------- MODULE ResetFlowProofs ---------------------------
(***************************************************************************)
(* Proofs about ResetFlow, for every card (Device), every list of devices  *)
(* and every behaviour of the kernel, the board and the users.             *)
(*                                                                         *)
(* The line is the part the properties hinge on, so the proofs first show  *)
(* that the program uses the port as PowerPort asks (PortUse), and take    *)
(* the invariant of the port from PowerPortProofs.                         *)
(***************************************************************************)
EXTENDS ResetFlow, TLAPS

PortFacts == INSTANCE PowerPortProofs

PortInv == Port!TypeOK /\ Port!PortInv

\* Every step of the flow is a step of the port or leaves it alone.
LEMMA PortUse == [Next]_vars => [Port!Next]_portVars
<1> SUFFICES ASSUME [Next]_vars PROVE [Port!Next]_portVars
  OBVIOUS
<1>1. CASE Program
  <2>1. CASE OpenPort
    BY <2>1 DEF OpenPort, Port!Next
  <2>2. ASSUME NEW label, NEW c \in Cmd, NEW waiting, Send(label, c, waiting)
        PROVE  Port!Next
    BY <2>2 DEF Send, Port!Next, Port!Cmd, Cmd, Port!Off, Port!On, Port!Ping,
                Off, On, Ping
  <2>3. CASE SendPing \/ SendOff \/ SendOn \/ SendOne
    BY <2>2, <2>3 DEF SendPing, SendOff, SendOn, SendOne, Cmd, Off, On, Ping
  <2>4. CASE PingReturned \/ OffReturned \/ OnReturned \/ OneReturned
    BY <2>4 DEF PingReturned, OffReturned, OnReturned, OneReturned, Returned
  <2>5. CASE CheckDrivers \/ UnbindVfio \/ BindPwplug \/ CheckBound \/ Remove
             \/ Rescan \/ BindVfio \/ Report
    BY <2>5 DEF CheckDrivers, UnbindVfio, BindPwplug, CheckBound, Remove,
           Rescan, BindVfio, Report, isDriverLoad, unbind, bind, isBind,
           remove, isDeviceExists
  <2>6. ASSUME NEW label, NEW next, UnbindPwplug(label, next)
        PROVE  UNCHANGED portVars
    BY <2>6 DEF UnbindPwplug, unbind
  <2> QED
    BY <1>1, <2>1, <2>3, <2>4, <2>5, <2>6 DEF Program
<1>2. CASE Kill
  BY <1>2 DEF Kill, Port!Next
<1>3. CASE CallReturns \/ Board
  BY <1>3 DEF CallReturns, Board, Port!Next
<1>4. ASSUME NEW m, Run(m) PROVE UNCHANGED portVars
  BY <1>4 DEF Run
<1>5. ASSUME NEW d, VfioOpen(d) \/ VfioRelease(d) PROVE UNCHANGED portVars
  BY <1>5 DEF VfioOpen, VfioRelease
<1>6. ASSUME NEW drv, Unload(drv) \/ Load(drv) PROVE UNCHANGED portVars
  BY <1>6 DEF Unload, Load
<1>7. CASE ForeignRescan
  BY <1>7 DEF ForeignRescan
<1>8. CASE UNCHANGED vars
  BY <1>8 DEF vars, portVars
<1> QED
  BY <1>1, <1>2, <1>3, <1>4, <1>5, <1>6, <1>7, <1>8 DEF Next

\* The port of ResetFlow is the port of PowerPortProofs.
LEMMA SamePort ==
  /\ Port!Init <=> PortFacts!Init
  /\ [Port!Next]_portVars <=> [PortFacts!Next]_(PortFacts!vars)
  /\ Port!TypeOK <=> PortFacts!TypeOK
  /\ Port!PortInv <=> PortFacts!PortInv
<1> USE DEF Port!Off, Port!On, Port!Ping, Port!Cmd, Port!None,
            PortFacts!Off, PortFacts!On, PortFacts!Ping, PortFacts!Cmd, PortFacts!None
<1>1. Port!Init <=> PortFacts!Init
  BY DEF Port!Init, PortFacts!Init
<1>2. [Port!Next]_portVars <=> [PortFacts!Next]_(PortFacts!vars)
  BY DEF portVars, PortFacts!vars, Port!Next, PortFacts!Next,
         Port!Open, Port!Ask, Port!Ack, Port!Fail, Port!Drop, Port!Execute,
         Port!Reboot, Port!Effect, PortFacts!Open, PortFacts!Ask, PortFacts!Ack,
         PortFacts!Fail, PortFacts!Drop, PortFacts!Execute, PortFacts!Reboot,
         PortFacts!Effect
<1>3. Port!TypeOK <=> PortFacts!TypeOK
  BY DEF Port!TypeOK, PortFacts!TypeOK
<1>4. Port!PortInv <=> PortFacts!PortInv
  BY DEF Port!PortInv, PortFacts!PortInv, Port!Settles, PortFacts!Settles,
         Port!Obeyed, PortFacts!Obeyed
<1> QED
  BY <1>1, <1>2, <1>3, <1>4

\* The switch starts in a state that satisfies the invariant of PowerPort.
LEMMA PortInvInit == Init => PortInv
BY SamePort, PortFacts!PortTypeInit, PortFacts!PortInvInit DEF Init, PortInv

\* Every step of the program and of the machine keeps that invariant.
LEMMA PortInvStep == PortInv /\ [Next]_vars => PortInv'
<1> SUFFICES ASSUME PortInv, [Next]_vars PROVE PortInv'
  OBVIOUS
<1>1. [PortFacts!Next]_(PortFacts!vars) /\ PortFacts!TypeOK /\ PortFacts!PortInv
  BY PortUse, SamePort DEF PortInv
<1>2. PortFacts!TypeOK' /\ PortFacts!PortInv'
  BY <1>1, PortFacts!PortTypeStep, PortFacts!PortInvStep
<1>3. Port!TypeOK' <=> PortFacts!TypeOK'
  BY SamePort, PTL
<1>4. Port!PortInv' <=> PortFacts!PortInv'
  BY SamePort, PTL
<1> QED
  BY <1>2, <1>3, <1>4 DEF PortInv

-----------------------------------------------------------------------------
(* Types *)

\* The list of devices is not empty, so every loop has a first pass.
LEMMA ListFacts == Len(List) \in Nat /\ 1 \in 1..Len(List)
                   /\ \A j \in 1..Len(List) : List[j] \in Device
BY ListAssumption

\* What the kernel does keeps the functions of the card and their drivers.
LEMMA KernelTypes ==
  ASSUME TypeOK, NEW d \in Device, NEW drv \in Driver
  PROVE  /\ Unbound(d, drv) => driver' \in [Device -> Driver \cup {NoDriver}]
         /\ BindMayWork(d, drv) => driver' \in [Device -> Driver \cup {NoDriver}]
         /\ Discover => /\ present' \subseteq Device
                        /\ present \subseteq present'
                        /\ driver' \in [Device -> Driver \cup {NoDriver}]
<1> USE DEF TypeOK
<1>1. Unbound(d, drv) => driver' \in [Device -> Driver \cup {NoDriver}]
  BY DEF Unbound
<1>2. BindMayWork(d, drv) => driver' \in [Device -> Driver \cup {NoDriver}]
  BY DEF BindMayWork
<1>3. Discover => present' \subseteq Device /\ present \subseteq present'
  BY DEF Discover, Absent
<1>4. Discover => driver' \in [Device -> Driver \cup {NoDriver}]
  BY DEF Discover
<1> QED
  BY <1>1, <1>2, <1>3, <1>4

\* The control helpers keep the position inside the list.
LEMMA LoopTypes ==
  ASSUME TypeOK, NEW label \in Labels
  PROVE  /\ NextDevice(label) => pc' \in Labels /\ i' \in 1..Len(List) /\ exit' = exit
         /\ Goto(label) => pc' \in Labels /\ i' \in 1..Len(List) /\ exit' = exit
BY ListFacts DEF TypeOK, NextDevice, Goto

\* The initial state has the types.
LEMMA TypeInit == Init => TypeOK
BY PortInvInit, ListFacts
   DEF Init, TypeOK, PortInv, Labels, None, Driver

\* Every step of the program, the kernel and the board keeps the types.
LEMMA TypeStep == PortInv /\ TypeOK /\ [Next]_vars => TypeOK'
<1> SUFFICES ASSUME PortInv, TypeOK, [Next]_vars PROVE TypeOK'
  OBVIOUS
<1>p. Port!TypeOK'
  BY PortInvStep DEF PortInv
<1> USE ListFacts
<1>1. ASSUME NEW m \in {"reset", "on", "off"}, Run(m) PROVE TypeOK'
  BY <1>1, <1>p DEF Run, TypeOK, sysfs, Labels, None
<1>2. CASE CheckDrivers
  BY <1>2, <1>p DEF CheckDrivers, TypeOK, Goto, Exit, rest, run, sysfs,
           Labels, isDriverLoad
<1>3. CASE OpenPort
  BY <1>3, <1>p DEF OpenPort, TypeOK, Goto, Exit, rest, run, sysfs, Labels
<1>4. CASE SendPing \/ SendOff \/ SendOn \/ SendOne
  BY <1>4, <1>p DEF SendPing, SendOff, SendOn, SendOne, Send, TypeOK, Goto,
                    run, sysfs, Labels
<1>5. CASE PingReturned \/ OffReturned \/ OnReturned \/ OneReturned
  BY <1>5, <1>p DEF PingReturned, OffReturned, OnReturned, OneReturned, Returned,
                    TypeOK, Goto, Exit, rest, run, sysfs, Labels
<1>6. CASE UnbindVfio
  <2>1. driver' \in [Device -> Driver \cup {NoDriver}]
    BY <1>6, KernelTypes DEF UnbindVfio, TypeOK, Driver, unbind
  <2> QED
    BY <1>6, <2>1, <1>p, LoopTypes DEF UnbindVfio, TypeOK, rest, run, Labels, unbind
<1>7. ASSUME NEW label, NEW next \in Labels, UnbindPwplug(label, next) PROVE TypeOK'
  <2>1. driver' \in [Device -> Driver \cup {NoDriver}]
    BY <1>7, KernelTypes DEF UnbindPwplug, TypeOK, Driver, unbind
  <2> QED
    BY <1>7, <2>1, <1>p, LoopTypes DEF UnbindPwplug, TypeOK, rest, run, unbind
<1>8. CASE BindPwplug
  <2>1. driver' \in [Device -> Driver \cup {NoDriver}]
    BY <1>8, KernelTypes DEF BindPwplug, TypeOK, Driver, bind, isDriverLoad
  <2> QED
    BY <1>8, <2>1, <1>p, LoopTypes DEF BindPwplug, Exit, TypeOK, rest, run, Labels, bind,
           isDriverLoad
<1>9. CASE CheckBound
  BY <1>9, <1>p, LoopTypes DEF CheckBound, Exit, TypeOK, run, sysfs, Labels, isBind
<1>10. CASE Remove
  BY <1>10, <1>p, LoopTypes DEF Remove, TypeOK, rest, run, Labels, remove, isDeviceExists
<1>11. CASE Rescan
  <2>1. present' \subseteq Device /\ driver' \in [Device -> Driver \cup {NoDriver}]
    BY <1>11, KernelTypes DEF Rescan, TypeOK, Driver
  <2> QED
    BY <1>11, <2>1, <1>p DEF Rescan, Goto, Exit, TypeOK, rest, run, Labels
<1>12. CASE BindVfio
  <2>1. driver' \in [Device -> Driver \cup {NoDriver}]
    BY <1>12, KernelTypes DEF BindVfio, TypeOK, Driver, bind, isDriverLoad
  <2> QED
    BY <1>12, <2>1, <1>p, LoopTypes DEF BindVfio, TypeOK, rest, run, Labels, bind, isDriverLoad
<1>13. CASE Report
  BY <1>13, <1>p DEF Report, Exit, TypeOK, run, sysfs, Labels, isDeviceExists
<1>14. CASE Kill
  BY <1>14, <1>p DEF Kill, Exit, TypeOK, rest, run, sysfs, Labels
<1>15. ASSUME NEW d \in Device, VfioOpen(d) \/ VfioRelease(d) PROVE TypeOK'
  BY <1>15, <1>p DEF VfioOpen, VfioRelease, TypeOK, flow, run
<1>16. CASE ForeignRescan
  <2>1. present' \subseteq Device /\ driver' \in [Device -> Driver \cup {NoDriver}]
    BY <1>16, KernelTypes DEF ForeignRescan, TypeOK, Driver
  <2> QED
    BY <1>16, <2>1, <1>p DEF ForeignRescan, TypeOK, flow, run
<1>17. ASSUME NEW drv \in Loadable, Unload(drv) \/ Load(drv) PROVE TypeOK'
  BY <1>17, <1>p, LoadableAssumption DEF Unload, Load, TypeOK, flow, run
<1>18. CASE CallReturns \/ Board
  BY <1>18, <1>p DEF CallReturns, Board, TypeOK, flow, run, sysfs
<1>19. CASE UNCHANGED vars
  BY <1>19, <1>p DEF vars, TypeOK, run, sysfs
<1>20. ASSUME Program PROVE TypeOK'
  BY <1>20, <1>2, <1>3, <1>4, <1>5, <1>6, <1>7, <1>8, <1>9, <1>10, <1>11, <1>12,
     <1>13 DEF Program, Labels
<1> QED
  BY <1>1, <1>14, <1>15, <1>16, <1>17, <1>18, <1>19, <1>20 DEF Next

\* TypeOK, for every card and every list of its functions.
THEOREM TypeCorrect == Spec => []TypeOK
<1>1. Spec => PortInv /\ TypeOK /\ [][Next]_vars
  BY PortInvInit, TypeInit DEF Spec
<1> QED
  BY <1>1, PortInvStep, TypeStep, PTL

-----------------------------------------------------------------------------
(* The flow invariant *)

\* An acknowledged call left nothing on the line, and what is on the line is
\* the latest command.
LEMMA Line == PortInv => /\ result = "ok" => ~busy /\ inflight = None
                         /\ inflight = None \/ inflight = last
BY DEF PortInv, Port!PortInv, Port!None, None

\* What the port's own steps leave alone.
LEMMA PortSteps ==
  /\ Port!Ack => busy /\ ~busy' /\ result' = "ok" /\ inflight' = inflight /\ last' = last
  /\ Port!Fail => /\ busy /\ ~busy' /\ result' = "fail" /\ last' = last
                  /\ inflight' = inflight \/ inflight' = None
  /\ Port!Execute \/ Port!Drop \/ Port!Reboot =>
       busy' = busy /\ result' = result /\ last' = last /\ inflight' = None
  /\ Port!Open => ~busy /\ ~busy' /\ inflight = None /\ inflight' = None
  /\ \A c : Port!Ask(c) => /\ busy' /\ result' = None /\ last' = c
                           /\ inflight' = c \/ inflight' = None
<1>1. Port!Ack => busy /\ ~busy' /\ result' = "ok" /\ inflight' = inflight /\ last' = last
  BY DEF Port!Ack
<1>2. Port!Fail => /\ busy /\ ~busy' /\ result' = "fail" /\ last' = last
                   /\ inflight' = inflight \/ inflight' = None
  BY DEF Port!Fail, Port!None, None
<1>3. Port!Execute \/ Port!Drop \/ Port!Reboot =>
        busy' = busy /\ result' = result /\ last' = last /\ inflight' = None
  BY DEF Port!Execute, Port!Drop, Port!Reboot, Port!None, None
<1>4. Port!Open => ~busy /\ ~busy' /\ inflight = None /\ inflight' = None
  BY DEF Port!Open, Port!None, None
<1>5. \A c : Port!Ask(c) => /\ busy' /\ result' = None /\ last' = c
                            /\ inflight' = c \/ inflight' = None
  BY DEF Port!Ask, Port!None, None
<1> QED
  BY <1>1, <1>2, <1>3, <1>4, <1>5

\* Before the first run every part of the invariant holds.
LEMMA FlowInit == Init => FlowInv
BY ListFacts DEF Init, Port!Init, FlowInv, ControlInv, CutInv, RestoreInv, EarlyInv,
   EarlyExitKeepsDevices, HandInv, HandedBack, Waiting, Synced, Final, None, Port!None, Off

\* Where the program is: which run it is, and how its call stands.
LEMMA ControlStep ==
  TypeOK /\ PortInv /\ ControlInv /\ [Next]_vars => ControlInv'
<1> SUFFICES ASSUME TypeOK, PortInv, ControlInv, [Next]_vars PROVE ControlInv'
  OBVIOUS
<1> USE PortSteps, Line DEF ControlInv, Waiting, Synced, None
<1>1. ASSUME NEW m, Run(m) PROVE ControlInv'
  BY <1>1 DEF Run, portVars
<1>2. CASE CheckDrivers
  BY <1>2 DEF CheckDrivers, Goto, Exit, rest, run, portVars,
           isDriverLoad
<1>3. CASE OpenPort
  BY <1>3 DEF OpenPort, Goto, Exit, rest, run, portVars
<1>4. CASE SendPing \/ SendOff \/ SendOn \/ SendOne
  BY <1>4 DEF SendPing, SendOff, SendOn, SendOne, Send, Goto, run
<1>5. CASE PingReturned \/ OffReturned \/ OnReturned \/ OneReturned
  BY <1>5 DEF PingReturned, OffReturned, OnReturned, OneReturned, Returned,
              Goto, Exit, rest, run, portVars
<1>6. CASE UnbindVfio \/ UnbindPwplug("unbindPwplug", "bindPwplug")
           \/ UnbindPwplug("unbindPwplug2", "bindVfio") \/ BindVfio \/ Remove
  BY <1>6 DEF UnbindVfio, UnbindPwplug, BindVfio, Remove, NextDevice,
           rest, run, portVars, unbind, bind, isDriverLoad, remove,
           isDeviceExists
<1>7. CASE BindPwplug
  BY <1>7 DEF BindPwplug, NextDevice, Exit, rest, run, portVars, bind,
           isDriverLoad
<1>8. CASE CheckBound
  BY <1>8 DEF CheckBound, NextDevice, Exit, run, portVars, isBind
<1>9. CASE Rescan
  BY <1>9 DEF Rescan, Goto, Exit, rest, run, portVars
<1>10. CASE Report
  BY <1>10 DEF Report, Exit, run, portVars, isDeviceExists
<1>11. CASE Kill
  BY <1>11 DEF Kill, Exit, rest, run, portVars
<1>12. ASSUME NEW d, VfioOpen(d) \/ VfioRelease(d) PROVE ControlInv'
  BY <1>12 DEF VfioOpen, VfioRelease, flow, run, portVars
<1>13. CASE ForeignRescan
  BY <1>13 DEF ForeignRescan, flow, run, portVars
<1>14. ASSUME NEW drv, Unload(drv) \/ Load(drv) PROVE ControlInv'
  BY <1>14 DEF Unload, Load, flow, run, portVars
<1>15. CASE CallReturns \/ Board
  BY <1>15 DEF CallReturns, Board, flow, run
<1>16. CASE UNCHANGED vars
  BY <1>16 DEF vars, run, portVars
<1>17. ASSUME Program PROVE ControlInv'
  BY <1>17, <1>2, <1>3, <1>4, <1>5, <1>6, <1>7, <1>8, <1>9, <1>10 DEF Program
<1> QED
  BY <1>1, <1>11, <1>12, <1>13, <1>14, <1>15, <1>16, <1>17 DEF Next

\* A loop body ends in its loop or at the next label.
LEMMA LoopSteps ==
  ASSUME TypeOK, NEW label, NextDevice(label)
  PROVE  /\ exit' = exit
         /\ \/ i < Len(List) /\ pc' = pc /\ i' = i + 1
            \/ i = Len(List) /\ pc' = label /\ i' = 1
BY ListFacts DEF TypeOK, NextDevice

\* A step of the port leaves no power-off on the line that was not there.
LEMMA OffStays == CallReturns \/ Board =>
  /\ inflight' = inflight \/ inflight' = None
  /\ UNCHANGED <<pc, i, asker, present, rescanned, mode, exit, last, before>>
BY PortSteps DEF CallReturns, Board, flow, run, sysfs

\* The cut.  Gone is established by the removal loop, one device a turn; only
\* a rescan can bring a device back, somebody else's is what rescanned records,
\* and at the program's own the power-off is no longer on the line.
LEMMA CutStep ==
  TypeOK /\ PortInv /\ ControlInv /\ RestoreInv /\ CutInv /\ [Next]_vars => CutInv'
<1> SUFFICES ASSUME TypeOK, PortInv, ControlInv, RestoreInv, CutInv, [Next]_vars
             PROVE  CutInv'
  OBVIOUS
<1> USE DEF CutInv, Gone, None, Off, On, Ping
<1>1. ASSUME NEW m, Run(m) PROVE CutInv'
  BY <1>1 DEF Run, sysfs, portVars
<1>2. CASE CheckDrivers
  BY <1>2 DEF CheckDrivers, Goto, Exit, rest, run, sysfs, portVars,
           isDriverLoad
<1>3. CASE OpenPort
  BY <1>3, PortSteps DEF OpenPort, Goto, Exit, rest, run, sysfs, portVars
<1>4. CASE SendPing \/ SendOff \/ SendOn
  BY <1>4, PortSteps DEF SendPing, SendOff, SendOn, Send, Goto, run, sysfs
<1>5. CASE SendOne
  BY <1>5, PortSteps DEF SendOne, Send, Goto, run, sysfs, ControlInv
<1>6. CASE PingReturned \/ OffReturned \/ OnReturned \/ OneReturned
  BY <1>6 DEF PingReturned, OffReturned, OnReturned, OneReturned, Returned,
              Goto, Exit, rest, run, sysfs, portVars
<1>7. CASE UnbindVfio \/ UnbindPwplug("unbindPwplug", "bindPwplug")
           \/ UnbindPwplug("unbindPwplug2", "bindVfio") \/ BindVfio
  BY <1>7 DEF UnbindVfio, UnbindPwplug, BindVfio, NextDevice, rest, run,
           portVars, unbind, bind, isDriverLoad
<1>8. CASE BindPwplug
  BY <1>8 DEF BindPwplug, NextDevice, Exit, rest, run, portVars, bind,
           isDriverLoad
<1>9. CASE CheckBound
  <2>1. inflight' = None
    BY <1>9, Line DEF CheckBound, portVars, ControlInv, Synced, isBind
  <2>a. NextDevice("remove") \/ Exit("-1")
    BY <1>9 DEF CheckBound, isBind
  <2>b. pc = "check"
    BY <1>9 DEF CheckBound, isBind
  <2>2. pc' = "remove" => i' = 1
    BY <2>a, <2>b, LoopSteps DEF Exit
  <2>3. pc' \notin {"cut", "cutting"}
    BY <2>a, <2>b, LoopSteps DEF Exit
  <2>4. pc' = "remove" => \A j \in 1..(i' - 1) : List[j] \notin present'
    BY <2>2, ListFacts
  <2> QED
    BY <2>1, <2>3, <2>4
<1>10. CASE Remove
  <2>1. root /\ pc = "remove" /\ present' = present \ {List[i]}
    BY <1>10 DEF Remove, ControlInv, remove, isDeviceExists
  <2>2. rescanned \/ \A j \in 1..i : List[j] \notin present'
    BY <2>1, ListFacts DEF TypeOK
  <2>3. rescanned' = rescanned /\ asker' = asker /\ inflight' = inflight
    BY <1>10 DEF Remove, rest, portVars, remove, isDeviceExists
  <2>4. \/ i < Len(List) /\ pc' = "remove" /\ i' = i + 1
        \/ i = Len(List) /\ pc' = "cut" /\ i' = 1
    <3>1. NextDevice("cut")
      BY <1>10 DEF Remove, remove, isDeviceExists
    <3> QED
      BY <2>1, <3>1, LoopSteps
  <2>5. CASE i < Len(List) /\ pc' = "remove" /\ i' = i + 1
    BY <2>1, <2>2, <2>3, <2>5, ListFacts DEF TypeOK
  <2>6. CASE i = Len(List) /\ pc' = "cut" /\ i' = 1
    <3>1. Gone'
      BY <2>2, <2>3, <2>6 DEF Listed
    <3> QED
      BY <2>6, <3>1
  <2> QED
    BY <2>4, <2>5, <2>6
<1>11. CASE Rescan
  <2>1. inflight # Off
    BY <1>11, Line DEF Rescan, RestoreInv, Final
  <2> QED
    BY <1>11, <2>1 DEF Rescan, Goto, Exit, rest, run, portVars
<1>12. CASE Report
  BY <1>12 DEF Report, Exit, run, sysfs, portVars, isDeviceExists
<1>13. CASE Kill
  BY <1>13, PortSteps DEF Kill, Exit, rest, run, sysfs, portVars
<1>14. ASSUME NEW d, VfioOpen(d) \/ VfioRelease(d) PROVE CutInv'
  BY <1>14 DEF VfioOpen, VfioRelease, flow, run, portVars
<1>15. CASE ForeignRescan
  BY <1>15 DEF ForeignRescan
<1>16. ASSUME NEW drv, Unload(drv) \/ Load(drv) PROVE CutInv'
  BY <1>16 DEF Unload, Load, flow, run, portVars
<1>17. CASE CallReturns \/ Board
  BY <1>17, OffStays
<1>18. CASE UNCHANGED vars
  BY <1>18 DEF vars, run, sysfs, portVars
<1>19. ASSUME Program PROVE CutInv'
  BY <1>19, <1>2, <1>3, <1>4, <1>5, <1>6, <1>7, <1>8, <1>9, <1>10, <1>11, <1>12
     DEF Program
<1> QED
  BY <1>1, <1>13, <1>14, <1>15, <1>16, <1>17, <1>18, <1>19 DEF Next

\* The way back: the power-on is the latest command and has returned.
LEMMA RestoreStep ==
  TypeOK /\ PortInv /\ ControlInv /\ RestoreInv /\ [Next]_vars => RestoreInv'
<1> SUFFICES ASSUME TypeOK, PortInv, ControlInv, RestoreInv, [Next]_vars
             PROVE  RestoreInv'
  OBVIOUS
<1> USE DEF RestoreInv, Final, None, Waiting
<1>1. ASSUME NEW m, Run(m) PROVE RestoreInv'
  BY <1>1 DEF Run, portVars
<1>2. CASE CheckDrivers
  BY <1>2 DEF CheckDrivers, Goto, Exit, rest, run, portVars,
           isDriverLoad
<1>3. CASE OpenPort
  BY <1>3 DEF OpenPort, Goto, Exit, rest, run, ControlInv
<1>4. CASE SendPing \/ SendOff \/ SendOn \/ SendOne
  BY <1>4, PortSteps DEF SendPing, SendOff, SendOn, SendOne, Send, Goto, run, ControlInv
<1>5. CASE PingReturned \/ OffReturned \/ OnReturned \/ OneReturned
  BY <1>5 DEF PingReturned, OffReturned, OnReturned, OneReturned, Returned,
              Goto, Exit, rest, run, portVars, ControlInv
<1>6. CASE UnbindVfio \/ UnbindPwplug("unbindPwplug", "bindPwplug")
           \/ UnbindPwplug("unbindPwplug2", "bindVfio") \/ BindVfio \/ Remove
  BY <1>6 DEF UnbindVfio, UnbindPwplug, BindVfio, Remove, NextDevice,
           rest, run, portVars, unbind, bind, isDriverLoad, remove,
           isDeviceExists
<1>7. CASE BindPwplug
  BY <1>7 DEF BindPwplug, NextDevice, Exit, rest, run, portVars, bind,
           isDriverLoad
<1>8. CASE CheckBound
  BY <1>8 DEF CheckBound, NextDevice, Exit, run, portVars, isBind
<1>9. CASE Rescan
  BY <1>9 DEF Rescan, Goto, Exit, rest, run, portVars
<1>10. CASE Report
  BY <1>10 DEF Report, Exit, run, portVars, isDeviceExists
<1>11. CASE Kill
  BY <1>11 DEF Kill, Exit, rest, run
<1>12. ASSUME NEW d, VfioOpen(d) \/ VfioRelease(d) PROVE RestoreInv'
  BY <1>12 DEF VfioOpen, VfioRelease, flow, run, portVars
<1>13. CASE ForeignRescan
  BY <1>13 DEF ForeignRescan, flow, run, portVars
<1>14. ASSUME NEW drv, Unload(drv) \/ Load(drv) PROVE RestoreInv'
  BY <1>14 DEF Unload, Load, flow, run, portVars
<1>15. CASE CallReturns \/ Board
  BY <1>15, PortSteps DEF CallReturns, Board, flow, run, ControlInv
<1>16. CASE UNCHANGED vars
  BY <1>16 DEF vars, run, portVars
<1>17. ASSUME Program PROVE RestoreInv'
  BY <1>17, <1>2, <1>3, <1>4, <1>5, <1>6, <1>7, <1>8, <1>9, <1>10 DEF Program
<1> QED
  BY <1>1, <1>11, <1>12, <1>13, <1>14, <1>15, <1>16, <1>17 DEF Next

\* Only the removal takes devices away, and it comes after the last early exit.
LEMMA EarlyStep ==
  TypeOK /\ ControlInv /\ EarlyInv /\ [Next]_vars => EarlyInv'
<1> SUFFICES ASSUME TypeOK, ControlInv, EarlyInv, [Next]_vars PROVE EarlyInv'
  OBVIOUS
<1> USE DEF EarlyInv, EarlyExitKeepsDevices, None
<1>1. ASSUME NEW m, Run(m) PROVE EarlyInv'
  BY <1>1 DEF Run, sysfs
<1>2. CASE CheckDrivers
  BY <1>2 DEF CheckDrivers, Goto, Exit, rest, run, sysfs, isDriverLoad
<1>3. CASE OpenPort
  BY <1>3 DEF OpenPort, Goto, Exit, rest, run, sysfs
<1>4. CASE SendPing \/ SendOff \/ SendOn \/ SendOne
  BY <1>4 DEF SendPing, SendOff, SendOn, SendOne, Send, Goto, run, sysfs
<1>5. CASE PingReturned \/ OffReturned \/ OnReturned \/ OneReturned
  BY <1>5 DEF PingReturned, OffReturned, OnReturned, OneReturned, Returned,
              Goto, Exit, rest, run, sysfs, ControlInv
<1>6. CASE UnbindVfio \/ UnbindPwplug("unbindPwplug", "bindPwplug")
           \/ UnbindPwplug("unbindPwplug2", "bindVfio") \/ BindVfio
  BY <1>6 DEF UnbindVfio, UnbindPwplug, BindVfio, NextDevice, rest, run,
           unbind, bind, isDriverLoad
<1>7. CASE BindPwplug
  BY <1>7 DEF BindPwplug, NextDevice, Exit, rest, run, bind,
           isDriverLoad
<1>8. CASE CheckBound
  BY <1>8 DEF CheckBound, NextDevice, Exit, run, sysfs, isBind
<1>9. CASE Remove
  BY <1>9 DEF Remove, NextDevice, rest, run, ControlInv, remove,
           isDeviceExists
<1>10. CASE Rescan
  BY <1>10 DEF Rescan, Goto, Exit, rest, run, ControlInv
<1>11. CASE Report
  BY <1>11 DEF Report, Exit, run, sysfs, isDeviceExists
<1>12. CASE Kill
  BY <1>12 DEF Kill, Exit, rest, run, sysfs
<1>13. ASSUME NEW d, VfioOpen(d) \/ VfioRelease(d) PROVE EarlyInv'
  BY <1>13 DEF VfioOpen, VfioRelease, flow, run
<1>14. CASE ForeignRescan
  BY <1>14 DEF ForeignRescan, Discover, flow, run
<1>15. ASSUME NEW drv, Unload(drv) \/ Load(drv) PROVE EarlyInv'
  BY <1>15 DEF Unload, Load, flow, run
<1>16. CASE CallReturns \/ Board
  BY <1>16, OffStays
<1>17. CASE UNCHANGED vars
  BY <1>17 DEF vars, run, sysfs
<1>18. ASSUME Program PROVE EarlyInv'
  BY <1>18, <1>2, <1>3, <1>4, <1>5, <1>6, <1>7, <1>8, <1>9, <1>10, <1>11 DEF Program
<1> QED
  BY <1>1, <1>12, <1>13, <1>14, <1>15, <1>16, <1>17, <1>18 DEF Next

\* Behind the rescan only vfio-pci is bound, and nothing is removed.
LEMMA HandStep ==
  TypeOK /\ ControlInv /\ HandInv /\ [Next]_vars => HandInv'
<1> SUFFICES ASSUME TypeOK, ControlInv, HandInv, [Next]_vars PROVE HandInv'
  OBVIOUS
<1> USE DEF HandInv, HandedBack, None
<1>1. ASSUME NEW m, Run(m) PROVE HandInv'
  BY <1>1 DEF Run, sysfs
<1>2. CASE CheckDrivers
  BY <1>2 DEF CheckDrivers, Goto, Exit, rest, run, sysfs, isDriverLoad
<1>3. CASE OpenPort
  BY <1>3 DEF OpenPort, Goto, Exit, rest, run, sysfs
<1>4. CASE SendPing \/ SendOff \/ SendOn \/ SendOne
  BY <1>4 DEF SendPing, SendOff, SendOn, SendOne, Send, Goto, run, sysfs
<1>5. CASE PingReturned \/ OffReturned \/ OnReturned \/ OneReturned
  BY <1>5 DEF PingReturned, OffReturned, OnReturned, OneReturned, Returned,
              Goto, Exit, rest, run, sysfs, ControlInv
<1>6. CASE UnbindVfio \/ UnbindPwplug("unbindPwplug", "bindPwplug") \/ BindPwplug
           \/ CheckBound
  <2>1. /\ pc' \notin {"cut", "cutting", "restore", "restoring", "rescan",
                       "unbindPwplug2", "bindVfio", "report"}
        /\ exit' # "0"
    BY <1>6 DEF UnbindVfio, UnbindPwplug, BindPwplug, CheckBound, NextDevice, Exit,
       ControlInv, unbind, bind, isDriverLoad, isBind
  <2> QED
    BY <2>1
<1>7. CASE Remove
  <2>1. NextDevice("cut") /\ pc = "remove"
    BY <1>7 DEF Remove, remove, isDeviceExists
  <2>2. exit' = None /\ (pc' = "remove" \/ (pc' = "cut" /\ i' = 1))
    BY <2>1, LoopSteps DEF ControlInv
  <2> QED
    BY <2>2
<1>8. CASE Rescan
  <2>1. \/ root /\ pc' = "unbindPwplug2" /\ exit' = exit
        \/ pc' = "idle" /\ exit' = "-4"
    BY <1>8 DEF Rescan, Goto, Exit
  <2>2. exit = None /\ root' = root /\ i' = 1
    BY <1>8 DEF Rescan, Goto, Exit, rest, run, ControlInv
  <2> QED
    BY <2>1, <2>2
<1>9. CASE UnbindPwplug("unbindPwplug2", "bindVfio")
  <2>1. /\ pc = "unbindPwplug2" /\ root /\ Unbound(List[i], "pwplug")
        /\ NextDevice("bindVfio") /\ UNCHANGED <<rescanned, root, mode>> /\ exit = None
    BY <1>9 DEF UnbindPwplug, unbind, rest, run, ControlInv
  <2>2. i \in 1..Len(List) /\ List[i] \in Device /\ driver \in [Device -> Driver \cup {NoDriver}]
    BY ListFacts DEF TypeOK
  <2>3. driver'[List[i]] # "pwplug" /\ \A d \in Device : driver'[d] \in {driver[d], NoDriver}
    BY <2>1, <2>2 DEF Unbound, NoDriver
  <2>4. rescanned \/ \A j \in 1..i : driver'[List[j]] # "pwplug"
    <3> SUFFICES ASSUME ~rescanned, NEW j \in 1..i PROVE driver'[List[j]] # "pwplug"
      OBVIOUS
    <3>1. CASE j = i
      BY <2>3, <3>1
    <3>2. CASE j # i
      <4>1. j \in 1..(i - 1) /\ List[j] \in Device
        BY <2>2, <3>2, ListFacts
      <4> QED
        BY <2>1, <2>3, <4>1 DEF NoDriver
    <3> QED
      BY <3>1, <3>2
  <2>5. exit' = None
    BY <2>1, LoopSteps
  <2>6. CASE pc' = pc /\ i' = i + 1
    BY <2>1, <2>2, <2>4, <2>5, <2>6
  <2>7. CASE i = Len(List) /\ pc' = "bindVfio" /\ i' = 1
    <3>1. rescanned \/ \A d \in Listed : driver'[d] # "pwplug"
      BY <2>4, <2>7 DEF Listed
    <3> QED
      BY <2>1, <2>5, <2>7, <3>1
  <2> QED
    BY <2>1, <2>6, <2>7, LoopSteps
<1>10. CASE BindVfio
  <2>1. /\ pc = "bindVfio" /\ NextDevice("report") /\ exit = None
        /\ UNCHANGED <<rescanned, root, mode, present, reported>>
        /\ driver' = driver \/ driver' = [driver EXCEPT ![List[i]] = "vfio-pci"]
    BY <1>10 DEF BindVfio, bind, isDriverLoad, BindMayWork, rest, run, ControlInv
  <2>2. \A d \in Device : driver[d] # "pwplug" => driver'[d] # "pwplug"
    BY <2>1, ListFacts DEF TypeOK
  <2>3. Listed \subseteq Device
    BY ListFacts DEF Listed
  <2>4. exit' = None /\ (pc' = "bindVfio" \/ (pc' = "report" /\ i' = 1))
    BY <2>1, LoopSteps
  <2> QED
    BY <2>1, <2>2, <2>3, <2>4
<1>18. CASE Report
  <2>1. /\ pc = "report" /\ UNCHANGED <<rescanned, mode, present, driver>>
        /\ reported \subseteq reported' /\ List[i] \in present \cup reported'
        /\ exit = None
        /\ IF i < Len(List) THEN i' = i + 1 /\ pc' = pc /\ exit' = exit
           ELSE pc' = "idle" /\ exit' = "0"
    BY <1>18 DEF Report, Exit, isDeviceExists, run, sysfs, ControlInv
  <2>2. i \in 1..Len(List) /\ Len(List) \in Nat
    BY ListFacts DEF TypeOK
  <2>3. rescanned \/ \A j \in 1..i : List[j] \in present' \cup reported'
    BY <2>1, <2>2
  <2>4. CASE i < Len(List)
    BY <2>1, <2>2, <2>3, <2>4
  <2>5. CASE ~(i < Len(List))
    <3>1. rescanned \/ \A d \in Listed : d \in present' \cup reported'
      BY <2>2, <2>3, <2>5 DEF Listed
    <3> QED
      BY <2>1, <2>5, <3>1
  <2> QED
    BY <2>4, <2>5
<1>11. CASE Kill
  BY <1>11 DEF Kill, Exit, rest, run, sysfs
<1>12. ASSUME NEW d, VfioOpen(d) \/ VfioRelease(d) PROVE HandInv'
  BY <1>12 DEF VfioOpen, VfioRelease, flow, run
<1>13. CASE ForeignRescan
  BY <1>13 DEF ForeignRescan, flow, run
<1>14. ASSUME NEW drv, Unload(drv) \/ Load(drv) PROVE HandInv'
  <2>1. /\ UNCHANGED <<pc, i, mode, root, exit, reported, rescanned, present>>
    BY <1>14 DEF Unload, Load, flow, run
  <2>2. \A d \in Device : driver[d] # "pwplug" => driver'[d] # "pwplug"
    BY <1>14 DEF Unload, Load, NoDriver
  <2>3. Listed \subseteq Device /\ \A j \in 1..(i - 1) : List[j] \in Device
    BY ListFacts DEF Listed, TypeOK
  <2> QED
    BY <2>1, <2>2, <2>3
<1>15. CASE CallReturns \/ Board
  <2>1. UNCHANGED <<flow, rescanned, sysfs>>
    BY <1>15 DEF CallReturns, Board
  <2> QED
    BY <2>1 DEF flow, run, sysfs
<1>16. CASE UNCHANGED vars
  BY <1>16 DEF vars, run, sysfs
<1>17. ASSUME Program PROVE HandInv'
  BY <1>17, <1>2, <1>3, <1>4, <1>5, <1>6, <1>7, <1>8, <1>9, <1>10, <1>18 DEF Program
<1> QED
  BY <1>1, <1>11, <1>12, <1>13, <1>14, <1>15, <1>16, <1>17 DEF Next

-----------------------------------------------------------------------------
(* The theorems *)

IInv == PortInv /\ TypeOK /\ FlowInv

\* The whole inductive invariant holds initially.
LEMMA IInvInit == Init => IInv
BY PortInvInit, TypeInit, FlowInit DEF IInv

\* The whole inductive invariant is kept by every step.
LEMMA IInvStep == IInv /\ [Next]_vars => IInv'
BY PortInvStep, TypeStep, ControlStep, CutStep, RestoreStep, EarlyStep, HandStep DEF IInv, FlowInv

\* Only executing a power-off darkens the card.
LEMMA OnlyExecuteCuts ==
  PortInv /\ [Next]_vars /\ power /\ ~power' => inflight = Off
<1> SUFFICES ASSUME PortInv, [Next]_vars, power, ~power' PROVE inflight = Off
  OBVIOUS
<1>1. Port!Execute => inflight = Off
  BY DEF PortInv, Port!TypeOK, Port!Execute, Port!Effect, Port!Cmd, Port!Off, Port!On,
         Port!Ping, Port!None, Off
<1>2. ~(Port!Open \/ Port!Ack \/ Port!Fail \/ Port!Drop \/ Port!Reboot)
  BY DEF Port!Open, Port!Ack, Port!Fail, Port!Drop, Port!Reboot
<1>3. \A c : ~Port!Ask(c)
  BY DEF Port!Ask
<1>4. [Port!Next]_portVars
  BY PortUse
<1> QED
  BY <1>1, <1>2, <1>3, <1>4 DEF Port!Next, portVars

\* reset_GPU never cuts the supply under a device the kernel still knows, for
\* any list of devices, any answers of the kernel and any loss on the line.
THEOREM NoHotCutHolds == Spec => NoHotCut
<1>1. Spec => IInv /\ [][Next]_vars
  BY IInvInit DEF Spec
<1>2. IInv /\ [Next]_vars =>
        [power /\ ~power' /\ asker = "reset"
           => rescanned \/ Listed \cap present = {}]_vars
  BY OnlyExecuteCuts DEF IInv, FlowInv, CutInv, Gone
<1> QED
  BY <1>1, <1>2, IInvStep, PTL DEF NoHotCut

\* A run of reset_GPU that ends with 0 left the card supplied, unless its
\* power-on call failed.
THEOREM PowerRestoredHolds == Spec => []PowerRestored
<1>1. Spec => IInv /\ [][Next]_vars
  BY IInvInit DEF Spec
<1>2. IInv => PowerRestored
  BY DEF IInv, FlowInv, RestoreInv, PowerRestored, PortInv, Port!PortInv, Port!TypeOK,
         Port!Settles, Port!On, Port!None, On, None
<1> QED
  BY <1>1, <1>2, IInvStep, PTL

\* A run that gives up early has removed nothing.
THEOREM EarlyExitHolds == Spec => []EarlyExitKeepsDevices
<1>1. Spec => IInv /\ [][Next]_vars
  BY IInvInit DEF Spec
<1>2. IInv => EarlyExitKeepsDevices
  BY DEF IInv, FlowInv, EarlyInv
<1> QED
  BY <1>1, <1>2, IInvStep, PTL

\* A run that ends with 0 leaves no listed device with pwplug and reports those that
\* are missing, whatever the kernel binds, refuses or finds.
THEOREM HandedBackHolds == Spec => []HandedBack
<1>1. Spec => IInv /\ [][Next]_vars
  BY IInvInit DEF Spec
<1>2. IInv => HandedBack
  BY DEF IInv, FlowInv, HandInv
<1> QED
  BY <1>1, <1>2, IInvStep, PTL

=============================================================================
