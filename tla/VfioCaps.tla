------------------------------ MODULE VfioCaps ------------------------------
(***************************************************************************)
(* What a write to a capability of a vfio-pci device does                  *)
(* (device/vfio_pci_config.c): the permission tables with                  *)
(* vfio_default_config_write, and what power management, PCI Express,      *)
(* advanced features, VPD and MSI do besides.                              *)
(*                                                                         *)
(* Of each capability one dword is modelled, of its bits one of each sort, *)
(* as a field; of a field's value only whether it is one.  Capabilities    *)
(* share no state, so a behaviour is about one of them.  The accesses are  *)
(* the chunks that VfioLayout cuts.                                        *)
(***************************************************************************)
EXTENDS Integers

CONSTANTS
  Accesses,    \* the sets of bytes of a dword that an access may write
  Vectors,     \* how many MSI vectors the user may ask for
  VpdAddrs,    \* where there is vital product data
  VpdData,     \* and what it may be
  Readrqs,     \* the read requests a user sets, 128 << n of the eight there are
  MaxReadrq,   \* the largest the device takes
  Overlap      \* a write to the MSI capability may overlap SET_IRQS

ASSUME AccessAssumption == Accesses \subseteq (SUBSET (0..3)) \ {{}}
ASSUME VectorAssumption == Vectors \subseteq 1..32
ASSUME VpdAssumption == VpdAddrs # {} /\ VpdData # {}
ASSUME ReadrqAssumption == Readrqs \subseteq 0..7 /\ MaxReadrq \in 0..5
ASSUME OverlapIsBoolean == Overlap \in BOOLEAN

VARIABLES
  capability,  \* the one the behaviour is about
  hard,        \* its fields that are one in the hardware
  soft,        \* ... in vconfig
  rq,          \* READRQ: host's, hardware's and vconfig's; and the device's MPS
  vpd,         \* VPD: rom, the three registers in vconfig, the last request
  irqs,        \* irq_type is MSI, the vectors of pci_alloc_irq_vectors, msi_qmax
  msi          \* MSI flags in hardware, in vconfig, and about to be written

capsVars == <<capability, hard, soft, rq, vpd, irqs, msi>>

-----------------------------------------------------------------------------
(* The permission tables.                                                   *)

\* A field: its capability, name and byte, whether it is virtual and whether it is
\* writable, and the kind of the hardware's bit: "rw", "ro", or "w1c", cleared by
\* writing a one.
Field(cap, name, byte, virt, write, kind) ==
  [cap |-> cap, name |-> name, byte |-> byte, virt |-> virt, write |-> write,
   kind |-> kind]

Basic ==
  {Field("basic", "command",   0, FALSE, TRUE,  "rw"),
   Field("basic", "intx",      1, TRUE,  TRUE,  "rw"),
   Field("basic", "cap_list",  2, TRUE,  FALSE, "ro"),
   Field("basic", "errors",    3, FALSE, FALSE, "w1c")}
Pm ==
  {Field("pm",    "state",     0, FALSE, FALSE, "rw"),
   Field("pm",    "pme_en",    1, FALSE, TRUE,  "rw"),
   Field("pm",    "pme",       1, FALSE, TRUE,  "w1c")}
Exp ==
  {Field("exp",   "enables",   0, FALSE, TRUE,  "rw"),
   Field("exp",   "payload",   0, TRUE,  TRUE,  "rw"),
   Field("exp",   "phantom",   1, FALSE, FALSE, "rw"),
   Field("exp",   "flr",       1, TRUE,  TRUE,  "ro"),
   Field("exp",   "errors",    2, FALSE, FALSE, "w1c")}
Af ==
  {Field("af",    "flr",       0, TRUE,  TRUE,  "ro"),
   Field("af",    "pending",   1, FALSE, FALSE, "ro")}
Err ==
  {Field("err",   "status",    0, FALSE, TRUE,  "w1c"),
   Field("err",   "newer",     3, FALSE, FALSE, "w1c")}

Plain  == {"basic", "pm", "exp", "af", "err"}
Fields == {f \in Basic \cup Pm \cup Exp \cup Af \cup Err : f.cap = capability}
Named(name) == {f \in Fields : f.name = name}

\* What vfio_default_config_write makes of vconfig.
NewSoft(bytes, val) ==
  LET mine == {f \in Fields : f.byte \in bytes /\ f.write /\ f.virt}
  IN  (soft \ mine) \cup (val \cap mine)

\* A mutant of NewHard that hands the virtual bits through to the hardware.
NewHardAll(bytes, val) ==
  LET word == {f \in Fields : f.byte \in bytes}
      mine == {f \in word : f.write}
      new  == ((hard \cap word) \ mine) \cup (val \cap mine)
  IN  {f \in Fields :
         IF f.kind = "ro" \/ f \notin word \/ mine = {} THEN f \in hard
         ELSE IF f.kind = "rw" THEN f \in new
         ELSE f \in hard /\ f \notin new}

\* ... and of the hardware: if any bit goes there, the whole word is read and
\* written back.
NewHard(bytes, val) ==
  LET word == {f \in Fields : f.byte \in bytes}
      mine == {f \in word : f.write /\ ~f.virt}
      new  == ((hard \cap word) \ mine) \cup (val \cap mine)
  IN  {f \in Fields :
         IF f.kind = "ro" \/ f \notin word \/ mine = {} THEN f \in hard
         ELSE IF f.kind = "rw" THEN f \in new
         ELSE f \in hard /\ f \notin new}

\* The values an access can bring.
Values(bytes) == SUBSET {f \in Fields : f.byte \in bytes}

-----------------------------------------------------------------------------
(* The capabilities with such a table.                                      *)

\* The device raises a status.
Raise ==
  /\ capability \in Plain
  /\ \E f \in Fields : f.kind = "w1c" /\ hard' = hard \cup {f}
  /\ UNCHANGED <<capability, soft, rq, vpd, irqs, msi>>

\* Where writefn is vfio_default_config_write, or what it adds is in VfioHeader and
\* VfioIntx.
WriteDefault ==
  /\ capability \in {"basic", "err"}
  /\ \E bytes \in Accesses : \E val \in Values(bytes) :
       /\ hard' = NewHard(bytes, val)
       /\ soft' = NewSoft(bytes, val)
  /\ UNCHANGED <<capability, rq, vpd, irqs, msi>>

\* vfio_pm_config_write: pci_set_power_state works or does not.
WritePm ==
  /\ capability = "pm"
  /\ \E bytes \in Accesses, works \in BOOLEAN : \E val \in Values(bytes) :
       /\ LET new == NewHard(bytes, val)
          IN  hard' = IF 0 \in bytes /\ works
                        THEN (new \ Named("state")) \cup (val \cap Named("state"))
                        ELSE new
       /\ soft' = NewSoft(bytes, val)
  /\ UNCHANGED <<capability, rq, vpd, irqs, msi>>

\* The FLR bit is cleared in any case; pci_try_reset_function saves and restores
\* what can be written, if the device has an FLR and the lock is free.
Flr(h, s) ==
  /\ soft' = s \ Named("flr")
  /\ \/ hard' = h
     \/ Named("flr") \cap s # {} /\ hard' = {f \in h : f.kind # "w1c"}

Larger(a, b) == IF a > b THEN a ELSE b

\* vfio_exp_config_write: READRQ goes to the hardware when it has changed, but not
\* below the MPS; pcie_set_readrq refuses what the device does not take.
WriteExp ==
  /\ capability = "exp"
  /\ \E bytes \in Accesses :
     \E val \in Values(bytes), n \in IF 1 \in bytes THEN Readrqs ELSE {rq.virt} :
       /\ Flr(NewHard(bytes, val), NewSoft(bytes, val))
       /\ LET floored == Larger(n, rq.mps)
          IN  rq' = [rq EXCEPT !.virt = n,
                               !.hw = IF n # rq.virt /\ floored <= MaxReadrq
                                        THEN floored ELSE rq.hw]
  /\ UNCHANGED <<capability, vpd, irqs, msi>>

\* vfio_af_config_write.
WriteAf ==
  /\ capability = "af"
  /\ \E bytes \in Accesses : \E val \in Values(bytes) :
       /\ Flr(NewHard(bytes, val), NewSoft(bytes, val))
  /\ UNCHANGED <<capability, rq, vpd, irqs, msi>>

-----------------------------------------------------------------------------
(* VPD: the address with its flag F, and the data, all virtual.             *)

\* The access includes the upper byte of PCI_VPD_ADDR, so F is written.
Due(bytes) == 3 \in bytes

\* vfio_vpd_config_write of the address: F says whether the device is to be written
\* or read, and is toggled when that has been done.
WriteVpdAddr ==
  /\ capability = "vpd"
  /\ \E bytes \in Accesses, a \in VpdAddrs, f \in BOOLEAN, works \in BOOLEAN :
       /\ bytes \cap {2, 3} # {}
       /\ LET addr == IF 2 \in bytes THEN a ELSE vpd.addr
              flag == IF 3 \in bytes THEN f ELSE vpd.flag
              now  == [vpd EXCEPT !.addr = addr, !.flag = flag,
                         !.asked =
                           IF 3 \in bytes
                             THEN [addr |-> addr, flag |-> flag, data |-> vpd.data]
                             ELSE vpd.asked]
          IN  vpd' = IF ~Due(bytes) \/ ~works THEN now
                     ELSE IF flag
                       THEN [now EXCEPT !.rom[addr] = vpd.data, !.flag = FALSE]
                       ELSE [now EXCEPT !.data = vpd.rom[addr], !.flag = TRUE]
  /\ UNCHANGED <<capability, hard, soft, rq, irqs, msi>>

\* ... and of the data.
WriteVpdData ==
  /\ capability = "vpd"
  /\ \E d \in VpdData : vpd' = [vpd EXCEPT !.data = d]
  /\ UNCHANGED <<capability, hard, soft, rq, irqs, msi>>

-----------------------------------------------------------------------------
(* MSI: the flags are virtual, and vfio writes them to the hardware.        *)

\* fls(n * 2 - 1) - 1.
Qmax(n) == CHOOSE k \in 0..5 : 2 ^ k <= n * 2 - 1 /\ n * 2 - 1 < 2 ^ (k + 1)

Idle == [enable |-> FALSE, size |-> -1]

\* vfio_msi_enable: pci_alloc_irq_vectors turns MSI on; then the type and msi_qmax.
MsiOn ==
  /\ capability = "msi"
  /\ ~irqs.on
  /\ Overlap \/ msi.pending = Idle
  /\ \E n \in Vectors :
       /\ irqs' = [on |-> TRUE, vectors |-> n, qmax |-> Qmax(n)]
       /\ msi' = [msi EXCEPT !.hw = [enable |-> TRUE, size |-> Qmax(n)]]
  /\ UNCHANGED <<capability, hard, soft, rq, vpd>>

\* vfio_msi_disable: pci_free_irq_vectors turns it off; msi_qmax stays.
MsiOff ==
  /\ capability = "msi"
  /\ irqs.on
  /\ Overlap \/ msi.pending = Idle
  /\ irqs' = [irqs EXCEPT !.on = FALSE, !.vectors = 0]
  /\ msi' = [msi EXCEPT !.hw.enable = FALSE]
  /\ UNCHANGED <<capability, hard, soft, rq, vpd>>

\* A mutant of MsiFixup that takes any queue size.
MsiFixupAnySize(flags) ==
  [enable |-> flags.enable /\ irqs.on, size |-> flags.size]

\* "MSI is enabled via ioctl", and the queue size is bounded.
MsiFixup(flags) ==
  [enable |-> flags.enable /\ irqs.on,
   size   |-> IF flags.size > irqs.qmax THEN irqs.qmax ELSE flags.size]

\* vfio_msi_config_write at the flags or just before them ...
WriteMsi ==
  /\ capability = "msi"
  /\ msi.pending = Idle
  /\ \E bytes \in Accesses, enable \in BOOLEAN, size \in 0..5 :
       LET flags == MsiFixup(IF 2 \in bytes THEN [enable |-> enable, size |-> size]
                          ELSE msi.virt)
           first == CHOOSE b \in bytes : \A c \in bytes : b <= c
           end   == 1 + CHOOSE b \in bytes : \A c \in bytes : c <= b
       IN  /\ first <= 2 /\ end >= 2
           /\ msi' = [msi EXCEPT !.virt = flags, !.pending = flags]
  /\ UNCHANGED <<capability, hard, soft, rq, vpd, irqs>>

\* ... which are then written to the hardware.
MsiToHardware ==
  /\ capability = "msi"
  /\ msi.pending # Idle
  /\ msi' = [msi EXCEPT !.hw = msi.pending, !.pending = Idle]
  /\ UNCHANGED <<capability, hard, soft, rq, vpd, irqs>>

-----------------------------------------------------------------------------

CapsInit ==
  /\ capability \in Plain \cup {"vpd", "msi"}
  /\ hard \in SUBSET {f \in Fields : f.kind = "rw"}
  /\ soft = {f \in Fields : f.kind = "ro" /\ f.name # "flr"} \cup hard
  /\ rq \in {[host |-> n, hw |-> n, virt |-> n, mps |-> m] :
               n \in IF capability = "exp" THEN 0..MaxReadrq ELSE {0},
               m \in IF capability = "exp" THEN 0..MaxReadrq ELSE {0}}
  /\ LET a == CHOOSE a \in VpdAddrs : TRUE
         d == CHOOSE d \in VpdData : TRUE
     IN  vpd = [rom |-> [x \in VpdAddrs |-> d], addr |-> a, data |-> d, flag |-> FALSE,
                asked |-> [addr |-> a, flag |-> FALSE, data |-> d]]
  /\ irqs = [on |-> FALSE, vectors |-> 0, qmax |-> 0]
  /\ LET off == [enable |-> FALSE, size |-> 0]
     IN  msi = [hw |-> off, virt |-> off, pending |-> Idle]

CapsNext ==
  \/ Raise
  \/ WriteDefault
  \/ WritePm
  \/ WriteExp
  \/ WriteAf
  \/ WriteVpdAddr
  \/ WriteVpdData
  \/ MsiOn
  \/ MsiOff
  \/ WriteMsi
  \/ MsiToHardware

CapsSpec == CapsInit /\ [][CapsNext]_capsVars

-----------------------------------------------------------------------------
(* What they promise.                                                       *)

\* Bit by bit, a write changes what the tables say: a virtual bit never reaches the
\* hardware, one that may not be written keeps its value there and in vconfig, any
\* other is what the user wrote, and a status is cleared by a one.  The exception is
\* a status the user may not clear: read and written back with bits of its word that
\* go to the hardware, it is cleared with them.  The FLR bit reads as zero.
BitsExact ==
  /\ Named("flr") \cap soft = {}
  /\ \A bytes \in Accesses : \A val \in Values(bytes) :
       LET control == \E g \in Fields : g.byte \in bytes /\ g.write /\ ~g.virt
           inSoft  == NewSoft(bytes, val)
           inHard  == NewHard(bytes, val)
       IN  \A f \in Fields :
             /\ f \in inSoft <=>
                  IF f.byte \in bytes /\ f.virt /\ f.write THEN f \in val ELSE f \in soft
             /\ f \in inHard <=>
                  IF f.byte \notin bytes \/ f.virt THEN f \in hard
                  ELSE IF f.kind = "w1c" THEN
                    f \in hard /\ ~(IF f.write THEN f \in val ELSE control)
                  ELSE IF f.write THEN f \in val ELSE f \in hard

\* MSI is on in the hardware only while SET_IRQS has vectors for it, and never sends
\* more than those: whatever the user writes, in vectors turned on and off.
MsiBounded ==
  msi.hw.enable => irqs.on /\ 2 ^ msi.hw.size < 2 * irqs.vectors

\* Once F is toggled, the request that set it is done: the product data holds what
\* was to be written, whatever bytes of the registers the user wrote since.
VpdAnswers ==
  vpd.flag # vpd.asked.flag /\ vpd.asked.flag =>
    vpd.rom[vpd.asked.addr] = vpd.asked.data

\* The read request is the host's or at least the MPS.
ReadrqFloor == rq.hw = rq.host \/ rq.hw >= rq.mps

\* What MSI, VPD and PCI Express tell the user is so in the device.
CapsTrue == MsiBounded /\ VpdAnswers /\ ReadrqFloor

-----------------------------------------------------------------------------
(* The inductive invariants behind these (see VfioFunctionProofs).          *)

MsiFlags == [enable : BOOLEAN, size : 0..5]

\* The type of the state.
CapsTypeOK ==
  /\ capability \in Plain \cup {"vpd", "msi"}
  /\ hard \subseteq Fields
  /\ soft \subseteq Fields
  /\ rq \in [host : 0..7, hw : 0..7, virt : 0..7, mps : 0..7]
  /\ vpd \in [rom : [VpdAddrs -> VpdData], addr : VpdAddrs, data : VpdData, flag : BOOLEAN,
              asked : [addr : VpdAddrs, flag : BOOLEAN, data : VpdData]]
  /\ irqs \in [on : BOOLEAN, vectors : Nat, qmax : 0..5]
  /\ msi \in [hw : MsiFlags, virt : MsiFlags, pending : MsiFlags \cup {Idle}]

\* The queue size of the vectors bounds what is in the hardware and what is about to
\* be written there.
QueueBounded ==
  /\ irqs.on => irqs.vectors \in Vectors /\ irqs.qmax = Qmax(irqs.vectors)
  /\ msi.pending # Idle =>
       msi.pending.size <= irqs.qmax /\ (msi.pending.enable => irqs.on)
  /\ msi.hw.enable => irqs.on /\ msi.hw.size <= irqs.qmax

CapsInv ==
  CapsTypeOK /\ VpdAnswers /\ ReadrqFloor /\ Named("flr") \cap soft = {}

=============================================================================
