----------------------------- MODULE VfioHeader -----------------------------
(***************************************************************************)
(* The basic header of config space as a vfio-pci user sees it             *)
(* (device/vfio_pci_config.c): the memory and I/O enables of the command   *)
(* register with the restore of the BARs after a reset behind vfio's back, *)
(* and the virtual BARs with their sizing.                                 *)
(*                                                                         *)
(* A BAR is the set of its bits that are one, of the low bits only:        *)
(* 0 is I/O space (the enable in a ROM BAR), 2 is 64-bit, 3 is             *)
(* prefetchable, and the highest stands for the address.  Of the INTx      *)
(* disable only that of a function with a broken INTx is here, the rest is *)
(* in VfioIntx.                                                            *)
(*                                                                         *)
(* A reset behind vfio's back may come at any moment, also while a write   *)
(* of the command register runs: that write is as many steps as it has     *)
(* accesses that a reset can come between.                                 *)
(***************************************************************************)
EXTENDS Integers

CONSTANTS
  Functions,  \* the functions considered: kind of each BAR, rom, virtfn, nointx
  Written,    \* the values the user writes to BARs
  LastBar     \* the last BAR of the header, 5 in the code

Bars  == 0..LastBar
Rom   == LastBar + 1
Bits  == 0..4
Kinds == {"none", "io8", "io4", "mem", "mem64", "high"}

ASSUME BarAssumption == LastBar \in Nat
ASSUME WrittenAssumption == Written \subseteq SUBSET Bits
ASSUME FunctionAssumption ==
  Functions \subseteq
    {f \in [kind : [Bars -> Kinds], rom : BOOLEAN, virtfn : BOOLEAN, nointx : BOOLEAN] :
       \A b \in Bars : f.kind[b] = "high" <=> b > 0 /\ f.kind[b - 1] = "mem64"}

VARIABLES
  pdev,    \* the function
  phys,    \* mem and io of the hardware's command register
  virt,    \* the same in vconfig
  intxOff, \* INTx disable of the hardware
  lost,    \* the BARs whose hardware register no longer holds rbar
  stage,   \* where the write of the command register is, "idle" when none runs
  want,    \* mem and io that it writes
  cmd,     \* what it has read of the hardware's command register: mem, io, off
  nextBar, \* the BAR that it restores next
  raced,   \* history: a reset came after the checks of the write that ran last
  vbar,    \* the BARs in vconfig
  last     \* what the user last wrote there, or what it found

commandVars == <<phys, virt, intxOff, lost, stage, want, cmd, nextBar, raced>>
barVars == <<vbar, last>>
headerVars == <<pdev, commandVars, barVars>>

Commands == [mem : BOOLEAN, io : BOOLEAN]
Disabled == [mem |-> FALSE, io |-> FALSE]
Unread == [mem |-> FALSE, io |-> FALSE, off |-> FALSE]

\* The BARs that have an address: rbar is not 0.  The upper half of one below 4G is.
Assigned == {b \in Bars : pdev.kind[b] \notin {"none", "high"}}

-----------------------------------------------------------------------------
(* Sizing.                                                                  *)

\* ~(pci_resource_len - 1), and vfio_generate_bar_flags.
Mask(kind) ==
  CASE kind = "io4" -> {2, 3, 4}
    [] kind = "io8" -> {3, 4}
    [] kind \in {"mem", "mem64"} -> {4}
    [] OTHER -> {}
Flags(kind) ==
  CASE kind \in {"io4", "io8"} -> {0}
    [] kind = "mem64" -> {2, 3}
    [] OTHER -> {}

\* The loop of vfio_bar_fixup over the BARs v: what one turn makes of BAR b ...
Value(v, b) ==
  IF b \in Assigned THEN (v[b] \cap Mask(pdev.kind[b])) \cup Flags(pdev.kind[b]) ELSE {}
\* ... and whether the turn then skips the next BAR for its upper half.
Wide(v, b) == b \in Assigned /\ 2 \in Value(v, b)

\* A mutant of Skipped that gives the upper half a turn of its own.
SkippedNever(v, b) == FALSE

\* Of BARs in a row whose turn would skip the next, every other one has a turn.
Skipped(v, b) ==
  \E k \in 1..b :
    /\ k % 2 = 1
    /\ \A i \in 1..k : Wide(v, b - i)
    /\ k < b => ~Wide(v, b - k - 1)

\* vfio_bar_fixup.  An upper half keeps its bits, a ROM BAR its address and enable.
Fixup(v) ==
  [b \in Bars \cup {Rom} |->
     IF b = Rom THEN IF pdev.rom THEN v[b] \cap {0, 4} ELSE {}
     ELSE IF Skipped(v, b) THEN v[b] ELSE Value(v, b)]

\* What a real BAR of this kind reads after a write.
Register(b, written) ==
  CASE b = Rom -> IF pdev.rom THEN written \cap {0, 4} ELSE {}
    [] b # Rom /\ pdev.kind[b] = "high" -> written
    [] OTHER -> (written \cap Mask(pdev.kind[b])) \cup Flags(pdev.kind[b])

-----------------------------------------------------------------------------
(* The operations.                                                          *)

\* The BARs as the host has assigned them, with memory and I/O as it left them.
HeaderInit ==
  /\ pdev \in Functions
  /\ phys \in {c \in Commands : pdev.virtfn => c = Disabled}
  /\ virt = phys
  /\ intxOff = pdev.nointx
  /\ lost = {}
  /\ stage = "idle" /\ want = Disabled /\ cmd = Unread /\ nextBar = 0 /\ raced = FALSE
  /\ last = [b \in Bars \cup {Rom} |->
               IF b = Rom THEN IF pdev.rom THEN {4} ELSE {}
               ELSE IF b \in Assigned THEN {4} \cup Flags(pdev.kind[b]) ELSE {}]
  /\ vbar = last

\* A mutant of NeedBarRestore that stops one BAR short.
NeedBarRestoreShort == \E b \in Assigned : b \in lost /\ b < LastBar

\* vfio_need_bar_restore: the ROM is not looked at.
NeedBarRestore == \E b \in Assigned : b \in lost

\* vfio_basic_config_write of the command register, up to the reads of the command
\* register and of the BARs.  The last read stands for all: a reset before it clears a
\* BAR that is still to be looked at.  Of a virtual function nothing is restored.
CheckCommand ==
  /\ stage = "idle"
  /\ \E new \in Commands :
       LET restore == \/ new.mem /\ virt.mem /\ ~phys.mem
                      \/ new.io /\ virt.io /\ ~phys.io
                      \/ NeedBarRestore
       IN  /\ want' = new
           /\ stage' = IF restore /\ ~pdev.virtfn THEN "restore" ELSE "read"
  /\ raced' = FALSE
  /\ UNCHANGED <<phys, virt, intxOff, lost, cmd, nextBar>>

\* vfio_bar_restore, a BAR at a time, the ROM last ...
RestoreBar ==
  /\ stage = "restore"
  /\ lost' = lost \ {nextBar}
  /\ IF nextBar < Rom
       THEN nextBar' = nextBar + 1 /\ stage' = stage
       ELSE nextBar' = 0 /\ stage' = IF pdev.nointx THEN "hide" ELSE "read"
  /\ UNCHANGED <<phys, virt, intxOff, want, cmd, raced>>

\* ... and then the INTx disable, where vfio hides a broken INTx: the read of the
\* command register and the write of it.
ReadHardware(from, to) ==
  /\ stage = from
  /\ stage' = to
  /\ cmd' = [mem |-> phys.mem, io |-> phys.io, off |-> intxOff]
  /\ UNCHANGED <<phys, virt, intxOff, lost, want, nextBar, raced>>

HideIntx ==
  /\ stage = "hidden"
  /\ stage' = "read"
  /\ phys' = [mem |-> cmd.mem, io |-> cmd.io]
  /\ intxOff' = TRUE
  /\ cmd' = Unread
  /\ UNCHANGED <<virt, lost, want, nextBar, raced>>

\* The write of vfio_default_config_write, and the enables that vconfig keeps for the
\* next test.  A virtual function has no enables in its own header.
WriteBack ==
  /\ stage = "write"
  /\ stage' = "idle"
  /\ phys' = IF pdev.virtfn THEN Disabled ELSE want
  /\ virt' = want
  /\ intxOff' = cmd.off
  /\ want' = Disabled /\ cmd' = Unread
  /\ UNCHANGED <<lost, nextBar, raced>>

\* vfio_basic_config_write of a BAR.
WriteBar ==
  \E b \in Bars \cup {Rom}, value \in Written :
    /\ vbar' = [vbar EXCEPT ![b] = value]
    /\ last' = [last EXCEPT ![b] = value]

\* vfio_basic_config_read of a BAR.
ReadBar ==
  /\ vbar' = Fixup(vbar)
  /\ UNCHANGED last

\* The device resets itself, or something resets it without telling vfio.
BackdoorReset ==
  /\ phys' = Disabled
  /\ intxOff' = FALSE
  /\ lost' = Assigned \cup {Rom}
  /\ raced' = (stage # "idle")
  /\ UNCHANGED <<virt, stage, want, cmd, nextBar>>

CommandNext ==
  \/ CheckCommand
  \/ RestoreBar
  \/ ReadHardware("hide", "hidden")
  \/ HideIntx
  \/ ReadHardware("read", "write")
  \/ WriteBack
  \/ BackdoorReset

BarNext == WriteBar \/ ReadBar

HeaderNext ==
  \/ CommandNext /\ UNCHANGED <<pdev, barVars>>
  \/ BarNext /\ UNCHANGED <<pdev, commandVars>>

HeaderSpec == HeaderInit /\ [][HeaderNext]_headerVars

-----------------------------------------------------------------------------
(* What it promises.                                                        *)

HeaderTypeOK ==
  /\ pdev \in Functions
  /\ phys \in Commands
  /\ virt \in Commands
  /\ intxOff \in BOOLEAN
  /\ lost \subseteq Bars \cup {Rom}
  /\ stage \in {"idle", "restore", "hide", "hidden", "read", "write"}
  /\ want \in Commands
  /\ cmd \in [mem : BOOLEAN, io : BOOLEAN, off : BOOLEAN]
  /\ nextBar \in Bars \cup {Rom}
  /\ raced \in BOOLEAN
  /\ vbar \in [Bars \cup {Rom} -> SUBSET Bits]
  /\ last \in [Bars \cup {Rom} -> SUBSET Bits]

\* When a write of the command register has ended that no reset overtook, a function
\* with BARs that is not virtual decodes memory or I/O only with all of its BARs in
\* place, the ROM's included, and, where vfio hides a broken INTx, with INTx disabled:
\* however many resets came before, also in the middle of earlier writes and of their
\* restores, and whatever the user had enabled.  A reset between the checks of a write
\* and its end goes unnoticed by that write, which then enables BARs that are wiped
\* until the next one.
MemoryNeedsBars ==
  stage = "idle" /\ ~raced /\ ~pdev.virtfn /\ Assigned # {} /\ (phys.mem \/ phys.io) =>
    lost = {} /\ (pdev.nointx => intxOff)

\* Every BAR the user reads is what a BAR of the device's size and type would hold
\* after the user's last write to it, whatever was read or written in between.  The
\* exception: bit 2 of the address of a 4-byte I/O BAR is taken for
\* PCI_BASE_ADDRESS_MEM_TYPE_64, and the BAR after it for its upper half; when that
\* is the lower half of a 64-bit BAR, the upper one is cleared for good.
BarsSized ==
  \A b \in Bars \cup {Rom} :
    \/ Fixup(vbar)[b] = Register(b, last[b])
    \/ \E c \in Bars :
         /\ c < b /\ b # Rom
         /\ pdev.kind[c] = "io4"
         /\ 2 \in vbar[c] \/ pdev.kind[b] = "high"

=============================================================================
