------------------------------ MODULE PowerPort ------------------------------
(***************************************************************************)
(* What the serial power switch promises to the host program: the abstract *)
(* view of SerialUsb::sendCommand (host/serial.cpp) talking to the         *)
(* firmware (arduino/main.ino).                                            *)
(*                                                                         *)
(* A command is asked, the board may or may not get it, and the call       *)
(* returns true or false.  True means that the board has executed the      *)
(* command; false means nothing: the command may have been lost, executed, *)
(* or still be on its way.  SerialLink implements this module.             *)
(***************************************************************************)

EXTENDS PowerCommands

VARIABLES
  power,     \* gpuPower of the firmware, which is the MOSFET output
  inflight,  \* a command the board will still execute, or None
  busy,      \* a sendCommand call is in progress
  served,    \* the board executed the command of the call in progress
  last,      \* the command of the latest call
  result,    \* what the latest call returned: "ok", "fail"; None since open()
  rebooted   \* the board restarted since the latest call began

vars == <<power, inflight, busy, served, last, result, rebooted>>

\* setup() switches the GPU on before the port is opened.
Init ==
  /\ power = TRUE
  /\ inflight = None
  /\ busy = FALSE
  /\ served = FALSE
  /\ last = None
  /\ result = None
  /\ rebooted = FALSE

-----------------------------------------------------------------------------
(* The host *)

\* open() over a settled line: no earlier command is on its way.
Open ==
  /\ ~busy
  /\ inflight = None
  /\ result' = None
  /\ UNCHANGED <<power, inflight, busy, served, last, rebooted>>

\* A call begins.  Both callers give up after the first call that fails.
Ask(c) ==
  /\ ~busy
  /\ result # "fail"
  /\ busy' = TRUE
  /\ served' = FALSE
  /\ last' = c
  /\ result' = None
  /\ rebooted' = FALSE
  /\ inflight' \in {c, None}
  /\ UNCHANGED power

\* The call returns true: only a served command is acknowledged.
Ack ==
  /\ busy
  /\ served
  /\ busy' = FALSE
  /\ served' = FALSE
  /\ result' = "ok"
  /\ UNCHANGED <<power, inflight, last, rebooted>>

\* The call returns false, or its process dies: the command may stay behind.
Fail ==
  /\ busy
  /\ busy' = FALSE
  /\ served' = FALSE
  /\ result' = "fail"
  /\ inflight' \in {inflight, None}
  /\ UNCHANGED <<power, last, rebooted>>

\* Closing the port discards what was not transmitted.
Drop ==
  /\ ~busy
  /\ inflight # None
  /\ inflight' = None
  /\ UNCHANGED <<power, busy, served, last, result, rebooted>>

-----------------------------------------------------------------------------
(* The board *)

Execute ==
  /\ inflight # None
  /\ power' = Effect(inflight, power)
  /\ inflight' = None
  /\ served' = busy
  /\ UNCHANGED <<busy, last, result, rebooted>>

\* setup() powers the GPU; an answer not yet read may be lost with the port.
Reboot ==
  /\ power' = TRUE
  /\ inflight' = None
  /\ served' \in {served, FALSE}
  /\ rebooted' = TRUE
  /\ UNCHANGED <<busy, last, result>>

Next ==
  \/ Open
  \/ \E c \in Cmd : Ask(c)
  \/ Ack
  \/ Fail
  \/ Drop
  \/ Execute
  \/ Reboot

Spec == Init /\ [][Next]_vars

-----------------------------------------------------------------------------

\* The type of the state of the port.
TypeOK ==
  /\ power \in BOOLEAN
  /\ inflight \in Cmd \cup {None}
  /\ busy \in BOOLEAN
  /\ served \in BOOLEAN
  /\ last \in Cmd \cup {None}
  /\ result \in {None, "ok", "fail"}
  /\ rebooted \in BOOLEAN

\* The supply is what the latest command asked for.
Obeyed == (last = On => power) /\ (last = Off => ~power)

\* A power command that returned true has taken effect, and nothing still on
\* its way can undo it: unless the board restarted after it was asked, the GPU
\* is supplied after an acknowledged "on" and dark after an acknowledged "off"
\* (SerialUsb::setGpuPower, relied on by reset_GPU before it waits delay1).
Agreement == result = "ok" /\ ~rebooted => Obeyed

\* ... and the supply is on after an acknowledged "on" even if the board did
\* restart: setup() powers the GPU (what OnReturned in ResetFlow builds on).
OnHolds == result = "ok" /\ last = On => power

-----------------------------------------------------------------------------
(* The inductive invariant: Agreement and OnHolds speak of a call that has  *)
(* returned; what makes them true is settled when the board executes it.    *)

Settles == (rebooted \/ Obeyed) /\ (last = On => power)

PortInv ==
  /\ inflight \in {None, last}
  /\ busy => result = None
  /\ ~busy /\ result # "fail" => inflight = None
  /\ served => busy /\ inflight = None /\ Settles
  /\ result = "ok" => Settles

=============================================================================
