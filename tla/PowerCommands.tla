---------------------------- MODULE PowerCommands ----------------------------
(***************************************************************************)
(* The commands the host program sends to the power switch, by the letter  *)
(* that stands for each in a frame, and what executing one does to the     *)
(* supply of the GPU (cmdExec and setGpu in arduino/main.ino).             *)
(***************************************************************************)

Off  == "0"
On   == "1"
Ping == "9"
Cmd  == {Off, On, Ping}

None == "none"

\* The MOSFET after command c, when it was p before.
Effect(c, p) == IF c = On THEN TRUE ELSE IF c = Off THEN FALSE ELSE p

=============================================================================
