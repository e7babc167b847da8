---------------------------- MODULE MCVfioFunction ----------------------------
(***************************************************************************)
(* One function and what its drivers and its user do with it, for small    *)
(* instances: VfioLayout, the command register and the BARs of VfioHeader, *)
(* VfioCaps, VfioBars and DriverHandover share no state that changes, so   *)
(* each behaviour walks the capabilities and then goes on with one of the  *)
(* others, or with none.                                                   *)
(***************************************************************************)
EXTENDS VfioLayout, VfioHeader, VfioCaps, VfioBars, DriverHandover

VARIABLE part  \* what goes on once the device is open

handoverVars == vars
allVars == <<part, layoutVars, headerVars, capsVars, barsVars, handoverVars>>

\* Basic header of 8 bytes, then capabilities of 8 bytes: two cap chains and, from
\* 32, an extended chain.
StdPlaces == {8, 16, 24}
ExtPlaces == {32, 40, 48}
MCIds == {"null", "exp", "vndr", "odd", "broken", "new"}
MCLength == [i \in MCIds |-> CASE i = "exp" -> 6
                               [] i = "vndr" -> 8
                               [] i = "broken" -> -1
                               [] OTHER -> 0]

PlainStd == [p \in StdPlaces |-> [id |-> "exp", next |-> 0]]
PlainExt == [p \in ExtPlaces |->
               IF p = 48 THEN [id |-> "vndr", next |-> 0]
               ELSE [id |-> "odd", next |-> p + 8]]
Chained(listed, head, std, ext) ==
  [listed |-> listed, head |-> head,
   cap |-> [p \in StdPlaces \cup ExtPlaces |->
              IF p \in StdPlaces THEN std[p] ELSE ext[p]]]

\* Every chain of capabilities from the first place over one extended chain, every extended chain over
\* one chain of capabilities, and devices without.
MCDevices ==
  {Chained(TRUE, 8, std, PlainExt) :
     std \in [StdPlaces -> [id : MCIds \ {"null", "new"}, next : StdPlaces \cup {0}]]}
  \cup {Chained(TRUE, 8, PlainStd, ext) :
     ext \in [ExtPlaces -> [id : MCIds \ {"exp", "new"}, next : ExtPlaces \cup {0}]]}
  \cup {Chained(listed, 0, PlainStd, PlainExt) : listed \in BOOLEAN}

\* The extended chain begins with an id that is newer than the tables.
NewDevices ==
  {Chained(TRUE, 8, PlainStd, [PlainExt EXCEPT ![32].id = id, ![40].id = other]) :
     id \in {"odd", "new"}, other \in MCIds \ {"exp"}}

Function(kinds, r, v, n) ==
  [kind |-> [b \in 0..2 |-> kinds[b + 1]], rom |-> r, virtfn |-> v, nointx |-> n]
MCFunctions ==
  {Function(<<"mem64", "high", "io8">>, TRUE, FALSE, TRUE),
   Function(<<"none", "none", "mem">>, FALSE, FALSE, FALSE),
   Function(<<"io8", "mem64", "high">>, TRUE, FALSE, FALSE),
   Function(<<"io4", "mem", "io8">>, FALSE, FALSE, TRUE),
   Function(<<"mem", "none", "none">>, FALSE, TRUE, FALSE)}

MCBarLen == [b \in {"b0", "b1"} |-> IF b = "b0" THEN 16 ELSE 8]
MCTable  == [bar |-> "b0", offset |-> 6, size |-> 5]
Eventfd(bar, from, size) == [bar |-> bar, pos |-> from, size |-> size, data |-> 0]
\* Two in the first BAR, one in the second; one that runs into the table and one that
\* runs past the end are refused.
MCKeys == {Eventfd("b0", 4, 2), Eventfd("b0", 12, 4), Eventfd("b1", 0, 8),
           Eventfd("b0", 4, 4), Eventfd("b1", 4, 8)}

MCAccesses == {{0}, {1}, {2}, {3}, {0, 1}, {2, 3}, {0, 1, 2, 3}}

\* A chain that loops: what VfioLayout promises is about other chains, and is not
\* evaluated over and over while another part goes on.
Looping == Chained(TRUE, 8, [PlainStd EXCEPT ![8].next = 8], PlainExt)

\* The chains that are promised something are of regular hardware.
ASSUME RegularHardware == Regular

\* The parts that a behaviour is not about have one initial state each.
McInit ==
  /\ part \in {"layout", "command", "sizing", "caps", "bars", "handover"}
  /\ part \notin {"command", "sizing"} => pdev = CHOOSE f \in MCFunctions : f.virtfn
  /\ part # "caps" => capability = "vpd"
  /\ part # "handover" => leaked = 0 /\ master = FALSE /\ pstate = "D0"
  /\ part # "layout" => hw = Looping
  /\ LayoutInit
  /\ HeaderInit
  /\ CapsInit
  /\ BarsInit
  /\ Init

\* vfio_config_init, and then the part begins.
Walks == Walk /\ UNCHANGED <<part, headerVars, capsVars, barsVars, handoverVars>>
Opened(p) == part = p /\ phase \in {"ready", "failed"} /\ UNCHANGED <<part, layoutVars>>

McNext ==
  \/ Walks
  \/ Opened("layout") /\ UNCHANGED <<headerVars, capsVars, barsVars, handoverVars>>
  \/ /\ Opened("command") /\ CommandNext
     /\ UNCHANGED <<pdev, barVars, capsVars, barsVars, handoverVars>>
  \/ /\ Opened("sizing") /\ BarNext
     /\ UNCHANGED <<pdev, commandVars, capsVars, barsVars, handoverVars>>
  \/ Opened("caps") /\ CapsNext /\ UNCHANGED <<headerVars, barsVars, handoverVars>>
  \/ Opened("bars") /\ BarsNext /\ UNCHANGED <<headerVars, capsVars, handoverVars>>
  \/ Opened("handover") /\ Next /\ UNCHANGED <<headerVars, capsVars, barsVars>>

McSpec == McInit /\ [][McNext]_allVars /\ WF_allVars(Walks)

===============================================================================
