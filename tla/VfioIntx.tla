------------------------------ MODULE VfioIntx ------------------------------
(***************************************************************************)
(* The INTx interrupt of a vfio-pci device (device/vfio_pci_intrs.c): the  *)
(* handler, masking and unmasking by ioctl, by eventfd and through the     *)
(* "INTx disable" bit of config space (vfio_basic_config_write), and the   *)
(* ioctls that turn INTx on and off and exchange the trigger.              *)
(*                                                                         *)
(* The masked flag is kept under irqlock; the notification of the user is  *)
(* sent after the lock was dropped, so it may come after anything else.    *)
(* The interrupt controller and the PCI core are external.                 *)
(***************************************************************************)
EXTENDS Naturals

CONSTANTS
  Kinds,        \* "shared": the device can mask itself (pci_2_3); "exclusive"
  Alone,        \* of each kind the stages of SET_IRQS that no config write overlaps
  Torn          \* kinds whose command register may change while it is written

Stages == {"enable", "type", "request", "exchange", "remask", "disable", "free"}

ASSUME KindsAssumption == Kinds \subseteq {"shared", "exclusive"}
ASSUME AloneAssumption == Alone \in [Kinds -> SUBSET Stages]
ASSUME TornAssumption == Torn \subseteq Kinds

\* vfio_intx_enable looks at virq_disabled before it has the type; disable_irq
\* does not stick across request_irq.
ASSUME OverlapAssumption ==
  /\ \A k \in Kinds : {"enable", "type"} \subseteq Alone[k]
  /\ "exclusive" \in Kinds => Alone["exclusive"] = Stages

VARIABLES
  kind,         \* pci_2_3, fixed at the first open
  intx,         \* irq_type is INTx, else none
  masked,       \* ctx[0].masked
  virqDisabled, \* virq_disabled
  trigger,      \* ctx[0].trigger is set and the handler is requested
  unmaskFd,     \* ctx[0].unmask: an eventfd unmasks
  disIntx,      \* INTX_DISABLE of the physical command register
  depth,        \* how often the irq was disabled
  line,         \* the device asserts its interrupt
  sending,      \* who is about to call vfio_send_intx_eventfd
  at,           \* where the SET_IRQS ioctl is, under igate
  cfg,          \* where the config write is
  notified,     \* the user's eventfd is signalled
  owed          \* it is the user who has to unmask

vars == <<kind, intx, masked, virqDisabled, trigger, unmaskFd, disIntx, depth,
          line, sending, at, cfg, notified, owed>>
hw   == <<disIntx, depth>>
user == <<line, notified, owed>>

Senders == {"irq", "ioctl", "config", "work"}

Init ==
  /\ kind \in Kinds
  /\ intx = FALSE
  /\ masked = FALSE
  /\ virqDisabled = FALSE
  /\ trigger = FALSE
  /\ unmaskFd = FALSE
  /\ disIntx = FALSE
  /\ depth = 0
  /\ line = FALSE
  /\ sending = {}
  /\ at = "idle"
  /\ cfg = "idle"
  /\ notified = FALSE
  /\ owed = FALSE

-----------------------------------------------------------------------------
(* Masking, under irqlock *)

Shared == kind = "shared"

\* The device masks itself, or else the interrupt controller does.
HwMasked == IF Shared THEN disIntx ELSE depth > 0

HwMask ==
  IF Shared THEN disIntx' = TRUE /\ UNCHANGED depth
  ELSE depth' = depth + 1 /\ UNCHANGED disIntx

\* enable_irq of an irq that is not disabled only warns.
HwUnmask ==
  IF Shared THEN disIntx' = FALSE /\ UNCHANGED depth
  ELSE depth' = (IF depth = 0 THEN 0 ELSE depth - 1) /\ UNCHANGED disIntx

\* Without INTx the physical bit follows the virtual one.
HwFollow(disable) ==
  IF Shared THEN disIntx' = disable /\ UNCHANGED depth ELSE UNCHANGED hw

\* vfio_pci_intx_mask.
IntxMask ==
  IF ~intx THEN HwFollow(TRUE) /\ UNCHANGED masked
  ELSE IF ~masked THEN HwMask /\ masked' = TRUE
  ELSE UNCHANGED <<masked, hw>>

\* A mutant of UnmaskHandler that does not send a pending interrupt again.
UnmaskHandlerSilent(who) ==
  /\ UNCHANGED sending
  /\ IF ~intx THEN HwFollow(FALSE) /\ UNCHANGED masked
     ELSE IF masked /\ ~virqDisabled /\ ~(Shared /\ line)
     THEN HwUnmask /\ masked' = FALSE
     ELSE UNCHANGED <<masked, hw>>

\* vfio_pci_intx_unmask_handler: an interrupt that is pending stays masked and
\* is sent again.
UnmaskHandler(who) ==
  IF ~intx THEN HwFollow(FALSE) /\ UNCHANGED <<masked, sending>>
  ELSE IF masked /\ ~virqDisabled
  THEN IF Shared /\ line
       THEN sending' = sending \cup {who} /\ UNCHANGED <<masked, hw>>
       ELSE HwUnmask /\ masked' = FALSE /\ UNCHANGED sending
  ELSE UNCHANGED <<masked, hw, sending>>

-----------------------------------------------------------------------------
(* The interrupt *)

\* vfio_intx_handler.  A shared handler that finds its own flag masked, or no
\* interrupt pending, does nothing.
Handler ==
  /\ trigger
  /\ line
  /\ ~HwMasked
  /\ "irq" \notin sending
  /\ Shared => ~masked
  /\ HwMask
  /\ masked' = TRUE
  /\ sending' = sending \cup {"irq"}
  /\ UNCHANGED <<kind, intx, virqDisabled, trigger, unmaskFd, at, cfg, user>>

\* vfio_send_intx_eventfd, by then without a lock.  (While INTx is on without a
\* trigger it has no step: the caller would not come back from there.)
Send(who) ==
  /\ who \in sending
  /\ sending' = sending \ {who}
  /\ IF intx /\ ~virqDisabled THEN trigger /\ notified' = TRUE ELSE UNCHANGED notified
  /\ UNCHANGED <<kind, intx, masked, virqDisabled, trigger, unmaskFd, hw, at, cfg,
                 line, owed>>

-----------------------------------------------------------------------------
(* VFIO_DEVICE_SET_IRQS, one at a time under igate *)

Ioctl ==
  /\ at = "idle"
  /\ "ioctl" \notin sending
  /\ UNCHANGED <<kind, virqDisabled, cfg, line, notified>>

\* The ioctl gets to its next stage; no config write is under way in some.
Go(stage) ==
  /\ at' = stage
  /\ stage \in Alone[kind] => cfg = "idle" /\ "config" \notin sending

\* vfio_pci_set_intx_mask.
UserMasks ==
  /\ Ioctl
  /\ intx
  /\ IntxMask
  /\ owed' = TRUE
  /\ UNCHANGED <<intx, trigger, unmaskFd, sending, at>>

\* vfio_pci_set_intx_unmask without an eventfd.
UserUnmasks ==
  /\ Ioctl
  /\ intx
  /\ UnmaskHandler("ioctl")
  /\ owed' = FALSE
  /\ UNCHANGED <<intx, trigger, unmaskFd, at>>

\* ... and with one: vfio_virqfd_enable, and vfio_virqfd_disable, which waits
\* for the work that sends.
UnmaskFd(on) ==
  /\ Ioctl
  /\ intx
  /\ unmaskFd # on
  /\ ~on => "work" \notin sending
  /\ unmaskFd' = on
  /\ UNCHANGED <<intx, masked, trigger, hw, sending, at, owed>>

\* vfio_pci_set_intx_trigger without an eventfd: a loopback test.
Loopback ==
  /\ Ioctl
  /\ intx
  /\ sending' = sending \cup {"ioctl"}
  /\ UNCHANGED <<intx, masked, trigger, unmaskFd, hw, at, owed>>

\* ... with the first one: vfio_intx_enable restores a virtual mask, in the
\* flag, in the device, and only then has the type; all of it without irqlock.
IntxEnable ==
  /\ Ioctl
  /\ ~intx
  /\ masked' = virqDisabled
  /\ Go("enable")
  /\ owed' = FALSE
  /\ UNCHANGED <<intx, trigger, unmaskFd, hw, sending>>

\* free_irq waits for a handler that runs.
FreeIrq ==
  /\ "irq" \notin sending
  /\ trigger' = FALSE

\* ... with another one, or with none: vfio_intx_set_signal frees the irq first.
Exchange(fd) ==
  /\ Ioctl
  /\ intx
  /\ FreeIrq
  /\ Go(fd)
  /\ UNCHANGED <<intx, masked, unmaskFd, hw, sending, owed>>

InIoctl == UNCHANGED <<kind, virqDisabled, cfg, user>>

\* A mutant of RestoreMask that leaves the device as masked as it was.
RestoreMaskNot ==
  /\ at = "enable"
  /\ Go("type")
  /\ InIoctl
  /\ UNCHANGED <<intx, masked, trigger, unmaskFd, hw, sending>>

RestoreMask ==
  /\ at = "enable"
  /\ HwFollow(masked)
  /\ Go("type")
  /\ InIoctl
  /\ UNCHANGED <<intx, masked, trigger, unmaskFd, sending>>

SetType ==
  /\ at = "type"
  /\ intx' = TRUE
  /\ Go("request")
  /\ InIoctl
  /\ UNCHANGED <<masked, trigger, unmaskFd, hw, sending>>

\* request_irq enables the irq.
Request ==
  /\ at \in {"request", "exchange"}
  /\ trigger' = TRUE
  /\ depth' = 0
  /\ Go("remask")
  /\ InIoctl
  /\ UNCHANGED <<intx, masked, unmaskFd, disIntx, sending>>

\* No memory, a bad eventfd, or request_irq fails.  INTx that was not on before
\* is turned off again.
RequestFails ==
  /\ at \in {"request", "exchange"}
  /\ Go(IF at = "request" THEN "disable" ELSE "idle")
  /\ InIoctl
  /\ UNCHANGED <<intx, masked, trigger, unmaskFd, hw, sending>>

\* A mutant of Remask that takes disable_irq to stick as DisINTx does.
RemaskNever ==
  /\ at = "remask"
  /\ Go("idle")
  /\ InIoctl
  /\ UNCHANGED <<intx, masked, trigger, unmaskFd, hw, sending>>

\* "INTx disable will stick across the new irq setup, disable_irq won't."
Remask ==
  /\ at = "remask"
  /\ Go("idle")
  /\ IF ~Shared /\ masked THEN depth' = depth + 1 ELSE UNCHANGED depth
  /\ InIoctl
  /\ UNCHANGED <<intx, masked, trigger, unmaskFd, disIntx, sending>>

\* vfio_intx_disable: the unmask eventfd, the handler, the type.
UserDisables ==
  /\ Ioctl
  /\ intx
  /\ Go("disable")
  /\ UNCHANGED <<intx, masked, trigger, unmaskFd, hw, sending, owed>>

DisableFd ==
  /\ at = "disable"
  /\ "work" \notin sending
  /\ unmaskFd' = FALSE
  /\ Go("free")
  /\ InIoctl
  /\ UNCHANGED <<intx, masked, trigger, hw, sending>>

DisableIrq ==
  /\ at = "free"
  /\ FreeIrq
  /\ intx' = FALSE
  /\ Go("idle")
  /\ InIoctl
  /\ UNCHANGED <<masked, unmaskFd, hw, sending>>

-----------------------------------------------------------------------------
(* The unmask eventfd: virqfd_wakeup calls the handler, a work item sends. *)

FdUnmasks ==
  /\ unmaskFd
  /\ "work" \notin sending
  /\ UnmaskHandler("work")
  /\ owed' = FALSE
  /\ UNCHANGED <<kind, intx, virqDisabled, trigger, unmaskFd, at, cfg, line, notified>>

-----------------------------------------------------------------------------
(* The command register with its "INTx disable" bit: vfio_basic_config_write.
   The user writes a virtual bit; the physical one goes along as it was read.  *)

\* vfio_default_config_write reads the physical register ...
ReadCommand ==
  /\ cfg = "idle"
  /\ "config" \notin sending
  /\ at \notin Alone[kind]
  /\ cfg' = IF kind \notin Torn THEN "written" ELSE IF disIntx THEN "set" ELSE "clear"
  /\ UNCHANGED <<kind, intx, masked, virqDisabled, trigger, unmaskFd, hw, sending, at,
                 user>>

\* ... and writes it back with the user's other bits, without irqlock.
WriteCommand ==
  /\ cfg \in {"set", "clear"}
  /\ disIntx' = (cfg = "set")
  /\ cfg' = "written"
  /\ UNCHANGED <<kind, intx, masked, virqDisabled, trigger, unmaskFd, depth, sending, at,
                 user>>

\* "Emulate INTx disable".
WriteIntxDisable(v) ==
  /\ cfg = "written"
  /\ virqDisabled' = v
  /\ cfg' = IF v = virqDisabled THEN "idle" ELSE IF v THEN "mask" ELSE "unmask"
  /\ UNCHANGED <<kind, intx, masked, trigger, unmaskFd, hw, sending, at, user>>

ConfigMasks ==
  /\ cfg = "mask"
  /\ IntxMask
  /\ cfg' = "idle"
  /\ UNCHANGED <<kind, intx, virqDisabled, trigger, unmaskFd, sending, at, user>>

\* A mutant of ConfigUnmasks that leaves the unmasking to the next ioctl.
ConfigUnmasksNot ==
  /\ cfg = "unmask"
  /\ cfg' = "idle"
  /\ UNCHANGED <<kind, intx, masked, virqDisabled, trigger, unmaskFd, hw, sending, at,
                 user>>

ConfigUnmasks ==
  /\ cfg = "unmask"
  /\ UnmaskHandler("config")
  /\ cfg' = "idle"
  /\ owed' = FALSE
  /\ UNCHANGED <<kind, intx, virqDisabled, trigger, unmaskFd, at, line, notified>>

-----------------------------------------------------------------------------
(* The device and its user (external) *)

quiet == <<kind, intx, masked, virqDisabled, trigger, unmaskFd, hw, sending, at, cfg>>

Assert   == ~line /\ line' = TRUE /\ UNCHANGED <<quiet, notified, owed>>
Deassert == line /\ line' = FALSE /\ UNCHANGED <<quiet, notified, owed>>

\* The user reads its eventfd, and owes an unmask.
Read == notified /\ notified' = FALSE /\ owed' = TRUE /\ UNCHANGED <<quiet, line>>

-----------------------------------------------------------------------------

Driver ==
  \/ Handler
  \/ \E who \in Senders : Send(who)
  \/ RestoreMask \/ SetType \/ Request \/ RequestFails \/ Remask
  \/ DisableFd \/ DisableIrq
  \/ WriteCommand
  \/ \E v \in BOOLEAN : WriteIntxDisable(v)
  \/ ConfigMasks \/ ConfigUnmasks

Next ==
  \/ Driver
  \/ UserMasks \/ UserUnmasks \/ UserDisables \/ Loopback \/ IntxEnable
  \/ \E on \in BOOLEAN : UnmaskFd(on)
  \/ \E fd \in {"exchange", "idle"} : Exchange(fd)
  \/ FdUnmasks
  \/ ReadCommand
  \/ Assert \/ Deassert \/ Read

\* An interrupt is delivered while it is asserted and not masked; the threads
\* that send, and the callers inside of the driver, go on.
Fairness ==
  /\ WF_vars(Handler)
  /\ \A who \in Senders : WF_vars(Send(who))
  /\ WF_vars(RestoreMask \/ SetType \/ Request \/ RequestFails \/ Remask
             \/ DisableFd \/ DisableIrq)
  /\ WF_vars(WriteCommand \/ (\E v \in BOOLEAN : WriteIntxDisable(v))
             \/ ConfigMasks \/ ConfigUnmasks)

Spec == Init /\ [][Next]_vars /\ Fairness

-----------------------------------------------------------------------------
(* Properties *)

\* The type of the state; an irq is never disabled more than twice.
TypeOK ==
  /\ kind \in Kinds
  /\ {intx, masked, virqDisabled, trigger, unmaskFd, disIntx, line, notified, owed}
       \subseteq BOOLEAN
  /\ depth \in 0..2
  /\ sending \subseteq Senders
  /\ at \in Stages \cup {"idle"}
  /\ cfg \in {"idle", "set", "clear", "written", "mask", "unmask"}

\* INTx is on, has a handler, and no ioctl or config write is half-way.
Steady == intx /\ trigger /\ at = "idle" /\ cfg = "idle"

\* What vfio believes masked is masked, through every exchange of the trigger.
MaskedIsMasked == Steady /\ masked => HwMasked

\* What vfio believes unmasked can interrupt: else nobody would ever unmask it,
\* since masking and unmasking look at the flag (a device that masks itself).
SharedIsLive == Steady /\ Shared /\ ~masked => ~HwMasked

\* ... the same of a device that is masked at the interrupt controller.
ExclusiveIsLive == Steady /\ ~Shared /\ ~masked => ~HwMasked

\* The physical bit is vfio's own, which "we use internally for interrupt control":
\* it stays what the flag says, also while the user writes the rest of the register.
FlagIsBit == Steady /\ Shared => (masked <=> HwMasked)

\* A masked interrupt is not forgotten: the user was notified, or owes an
\* unmask, or is about to be notified, however the masking by the handler met
\* the user's, the eventfd's and config space's.
NotForgotten ==
  Steady /\ masked /\ ~virqDisabled => notified \/ owed \/ sending # {}

\* An asserted interrupt reaches the user, unless it goes away or the user turns
\* INTx off, disables it or owes an unmask.
ReachesUser ==
  Shared /\ Steady /\ line /\ ~virqDisabled
    ~> notified \/ owed \/ ~line \/ virqDisabled \/ ~(intx /\ trigger)

=============================================================================
