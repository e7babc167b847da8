# Verification of pcie-reset-fixer

The repository resets a graphics card that a virtual machine left in a bad
state by cutting its supply: a host program (`host/`) takes the card's PCI
functions away from vfio-pci, hands them to a small driver (`device/pwplug.c`),
removes them from the kernel, tells an Arduino (`arduino/main.ino`) over a
serial line to switch a MOSFET off and on, rescans the bus and gives the
functions back to vfio-pci. `device/vfio_pci*.c` is the source of the vfio-pci
driver that the host program works with; the Makefile builds pwplug only.

This directory holds TLA+ models of these programs, the TLC configurations that
check them, and proofs for TLAPS.

## The system's parts

| part | state | operations | meets |
|---|---|---|---|
| firmware (`main.ino`) | parser state, letter of the frame, `gpuPower` | `setup`, `loop`, `handleSerial`, `cmdExec`, `setGpu` | the serial line |
| serial session (`serial.cpp`) | the port, `responseData`, `retry`, last error | `open`, `flush`, `sendCommand`, `setGpuPower`, `ping`, `close` | the line, `main.cpp` |
| host program (`main.cpp`) | position in `reset_GPU`, the loops' device | `reset_GPU`, `setGpu`, `main` | the session, sysfs |
| sysfs (`pci.cpp`) | none (files) | `bind`, `unbind`, `isBind`, `remove`, `rescan`, `isDeviceExists`, `isDriverLoad` | the kernel |
| pwplug (`pwplug.c`) | enable count, bus master and power state of a function | `probe`, `remove`, load, unload | PCI core |
| vfio-pci device set (`vfio_pci.c`) | binding, `reflck`, `refcnt`, `needs_reset`, `reset_works`, power state | probe, remove, open, release, `vfio_pci_try_bus_reset`, reset ioctls | PCI core, vfio, users |
| vfio-pci interrupts (`vfio_pci_intrs.c`) | `irq_type`, `ctx`, `num_ctx`, `masked`, `virq_disabled` | INTx and MSI enable, disable, mask, trigger, handler; error and request eventfds | users' ioctls, config space, irq core |
| vfio-pci config space (`vfio_pci_config.c`) | `pci_config_map`, `vconfig`, `rbar`, `extended_caps`, `msi_qmax`, permission tables | `vfio_config_init` with the walks of the capability chains, `vfio_config_do_rw`, a read and a write function per capability | interrupts, resets, users' accesses |
| vfio-pci data access (`vfio_pci_rdwr.c`) | `barmap`, requested regions, ioeventfd list, `ioeventfds_nr` | BAR, ROM and VGA access, mmap of a BAR, ioeventfds, the release of all of it | users' threads, eventfds |

What makes it hard:

* The serial line keeps bytes between runs. A frame may be cut by a closed port
  or a killed process, an answer may come after the call that wanted it gave
  up, a command may be executed after its caller has returned an error, and the
  board may restart, which powers the card.
* `reset_GPU` has a dozen steps with other actors between them: users of
  vfio-pci, other processes that rescan, drivers that come and go, the board.
  Its sysfs writes are buffered by `QFile` and their errors are lost, so a
  `true` says only that a file could be opened.
* The functions of a slot share one reset. vfio-pci serializes their opens and
  releases by a lock they have to find in each other, while probe, remove and
  the ioctls run beside it.
* Every open and release has error paths that must take back what was done.
* INTx is masked and unmasked by its handler, by ioctls, by an eventfd and by a
  bit of config space; all of them look at one flag under `irqlock`, and send
  the notification after the lock was dropped. Turning INTx on, and exchanging
  the trigger, happens without that lock. MSI vectors interrupt while a call
  that sets or rolls back a block is half-way.
* The command register holds that bit too, and is read and written back without
  the lock while a user writes its other bits.
* Config space shows the user another chain of capabilities than the hardware's,
  through accesses of any size; a reset behind the driver's back wipes BARs that
  the user believes to be there.
* BARs are mapped on first use by whichever thread comes first, without a lock.

What makes each part correct is what its runs check, below.

## Modules

| module | models | state and actions |
|---|---|---|
| `PowerCommands` | the letters the host sends, `cmdExec`'s effect on the supply | no state |
| `PowerPort` | what `sendCommand` promises to its callers: the abstract specification | a call is asked, the board may execute it, the call acknowledges or fails; the board restarts |
| `SerialLink` | `serial.cpp` and `main.ino`, byte by byte | host phases (`closed`, `ready`, `writing`, `reading`), firmware parser, two byte queues; implements `PowerPort` |
| `ResetFlow` | `main.cpp` and `pci.cpp` over a `PowerPort` | `pc` is the statement of `reset_GPU`, `i` the loop's device; the kernel's devices, drivers and users are the environment |
| `VfioDevSet` | probe, remove, open, release, `try_bus_reset` and the reset ioctls for all functions of a slot | `stage` of each device's binding, `reflck`, `refcnt`, `needsReset`, and what runs under each lock (`op`) |
| `DriverHandover` | one function between pwplug and vfio-pci | enable count, bus master, power state; one action for each callback and each error path |
| `VfioIntx` | INTx of one open device: `vfio_intx_*`, `vfio_pci_intx_*`, the INTx ioctls and the command register in config space | `masked`, `virqDisabled` and the hardware (`disIntx`, or `depth` of `disable_irq`); `at` is the stage of SET_IRQS, `cfg` that of a config write (read, written back, INTx disable emulated), `sending` who is about to signal |
| `VfioMsi` | MSI and MSI-X vectors, and the error and request eventfds | `trigger`, handler and producer of each vector, `refs` of each eventfd; `op` and `j` are the call and the vector it is at, one action for each statement of `vfio_msi_set_vector_signal` that others can see |
| `VfioLayout` | `vfio_config_init`'s walk of the two chains, and the cutting of accesses in `vfio_config_do_rw` | `map` is `pci_config_map` byte by byte, `vheader` the headers in `vconfig`; one action for each way a turn of `vfio_cap_init` or `vfio_ecap_init` ends; `Chunk`, `CapStart` and `FromVconfig` are functions of an access |
| `VfioHeader` | the enables of the command register with the restore of BARs, and the virtual BARs | `phys` and `virt` are the two command registers, `lost` the BARs a reset wiped; `stage` is where a write of the command register is (checks, restore BAR by BAR, INTx disable read and written back, register read, written back), with a possible reset between any two, and `raced` records one; `vbar` are the BARs in `vconfig`; `Fixup` is `vfio_bar_fixup` |
| `VfioCaps` | the permission tables with `vfio_default_config_write`; the write functions of PM, PCI Express, AF, VPD and MSI | `hard` and `soft` are the bits that are one in the device and in `vconfig`; VPD's registers, the read request and MSI's flags as records |
| `VfioBars` | `vfio_pci_rdwr.c`, and `vfio_pci_mmap` and `vfio_pci_disable` as far as they map and unmap | `barmap`, `regions`, the ioeventfd list with its lock and counter; `at` and `job` are where each thread is and what it called; `DoIo` is the loop of `do_io_rw` |
| `*Proofs` | | the theorems |
| `MC*` | | constants for TLC; `MCVfioFunction` also composes the modules about one function |

`ResetFlow` uses `PowerPort` by `INSTANCE`: its calls are `Port!Ask`, `Port!Ack`
and `Port!Fail`, so what it is shown to do holds with every implementation of
`PowerPort`. `SerialLink` is one: its run checks `Port!Spec` under the mapping

* `power` is the firmware's `gpuPower`; `inflight` is the first command that the
  parser would execute if it read what is on the line (`Pending`: `Run` is the
  parser after each byte, `FirstFired` the letter it holds at the first newline
  that makes it act);
* `busy` is phase `writing` or `reading`; `served` says that the answer of the
  call in progress is on the line or in `responseData`;
* `result` is `outcome`, `last` is `sent`, `rebooted` is `restarted`.

`MCVfioFunction` puts `VfioLayout`, `VfioHeader`, `VfioCaps`, `VfioBars` and
`DriverHandover` together. They have no variable in common, and neither have the
two halves of `VfioHeader`, the command register and the virtual BARs, but the
function itself, so their product would only multiply the states: in each
behaviour `vfio_config_init` walks the capabilities of a device, and then one of
the other parts goes on, or none. (Where
another part goes on, the device is one whose chain loops; the properties of the
layout do not speak of it, and are so evaluated only where they matter.) What they
do share in the code is taken into account where it matters: INTx disable is in
`VfioIntx` (and as a virtual bit in `VfioCaps`), the accesses that `VfioCaps`
enumerates are the chunks of `VfioLayout`, and the vectors behind `MsiOn` are
those of `VfioMsi`.

Operators whose comment calls them a mutant are not part of any specification.
They are wrong versions of the definition they precede, one for each property,
used to see that the property can fail: put into the place of the definition,
they make TLC report the property violated. PROJECT.json lists them.

## Runs

| run | question | result |
|---|---|---|
| `serial_settled` | Does the protocol implement the power port over a line on which nothing of an earlier session is still moving? Does each session end, and does an acknowledged call leave the parser in step? | holds |
| `serial_unsettled` | What remains true when anything may be on the line at `open()`: torn frames, typed text, stale answers? | no spliced command, resynchronization at the first newline, an acknowledgement still means a command executed once |
| `reset` | Does `reset_GPU` cut the supply only under devices the kernel has let go, restore it, lose no device on an early exit, and hand the devices back? Does a run end, and does the dark phase? | holds, with the exceptions named in the properties, under the fairness below |
| `vfio_set` | Are resets of the set exclusive, clean and followed by sleep, whatever the order of probe, unbind, open and release? | holds |
| `vfio_used_awake` | Is a device in use awake? | no: see Findings |
| `intx` | Does the masked flag agree with the hardware, is no interrupt forgotten while it is masked, does an asserted one reach the user? | holds for a device that masks itself; for the other kind what is masked is masked, but see the next run |
| `intx_exclusive` | Can an unmasked INTx interrupt when the interrupt controller masks it? | no: see Findings |
| `msi` | Are references paired and handlers matched on each path through failures and roll-backs, are vectors freed last, does a failed call leave nothing of its own, does each call end? | holds |
| `request_relayed` | Does a device request go to the user that has the device? | no: see Findings |
| `intx_torn` | Does the INTx disable bit stay what the flag says while the user writes the command register? | no: see Findings |
| `vfio_function` | Does the user meet exactly the capabilities that are not hidden, whatever the sizes of its reads, and does the walk end over chains that loop? Are accesses cut within one capability? After a command write that no reset overtook, is memory decoded only with its BARs in place, whatever resets cut earlier writes short, and do BARs size as real ones? Do writes reach only the bits the tables allow, MSI only the vectors there are? Do threads map each BAR once, do eventfds fire into mapped BARs only, does a transfer move its bytes but the MSI-X table's? Do all error paths of both drivers pair their enables, and is an unused function never made a bus master? | holds |
| `vfio_new_id` | Does each extended position carry an id that has a permission table? | no: see Findings |

### Bounds

* `serial_*`: `Retries` stands for the 100 turns of the answer loop. An answer
  needs at most as many turns as it has characters; with 1 or 2 both the
  success, the failure with part of an answer and the failure at the last turn
  occur. `MaxBacklog` (bytes on their way to the board when a session may
  start or a person types) is at most 3: a frame has 4 bytes, so every proper
  prefix of one is left over. `MaxUnread` limits what `flush()` misses;
  `MaxBoots` the restarts. The scripts are those of the program: ping, off,
  on; off; on.
* `serial_settled` has `Settled = TRUE`: at `open()` all bytes of an earlier
  session have arrived and been read or discarded. Over an unsettled line a
  stale answer can acknowledge a command that is still on its way (the host
  compares only the echo of the letter), so `PowerPort` is implemented only
  with this assumption, and `serial_unsettled` checks what is left without it.
  The program does nothing to ensure it: runs that follow each other within the
  time-outs of the line are not covered by the refinement.
* `reset`: two functions, both listed. Loops over the list, partial failures
  at the second device and foreign rescans of one of them all occur; a third
  device adds no new relation between two of them. The proofs hold for any
  set. Kills, board restarts, and drivers that are unloaded or loaded (vfio-pci
  with `ids=` then binds free devices) occur in the liveness properties too,
  which say what is exempted: a killed run and a power-on that failed leave the
  card dark. `HandedBack` says that nothing stays with pwplug and that what is
  missing is reported, not that vfio-pci holds the device.
* `vfio_set`: two functions, two locks, two opens of each at a time. A
  function's own reset, its collateral and the order in which locks are found
  or made need two; the same specification also passes with three functions
  and three locks (2.3 million states), which is not kept as a run for its
  length.
* `vfio_function`: config space of 56 bytes: a header of 8, three places for
  capabilities of 8 bytes, three for extended ones. Three places make a first,
  a middle and a last one, and two hidden ones in a row; lengths that do not
  fill a dword, that abut, and that cannot be read occur. All chains over the
  places that begin at the first one, those that loop or point back included,
  are initial states, for one of the two chains at a time. `RegularHardware`, an
  assumption of `MCVfioFunction`, has TLC see that these devices are laid out as
  the theorems about chains ask (`Regular`). Accesses of each start and size are
  quantified over in the properties. Five functions with three BARs (of six) of
  every kind, with and without ROM, virtual, and with broken INTx; three BARs
  let a 64-bit BAR lie at either end, and a reset fall before, between and after
  those that a restore has written; the number of resets is not bounded. Of each permission table one bit of each
  sort, and every aligned access; at most four MSI vectors, one of the two values
  not a power of two; read requests below, at and above what the device takes.
  Two threads, two BARs, a list with room for two of the three ioeventfds that
  are allowed: one thread finds what the other is adding, and the list is full.
  An MSI-X table that begins and ends unaligned. Up to three enables left by an
  earlier driver.
* `vfio_new_id`: the same with the first extended capability hidden, of an old
  or of a new id.
* `intx`: no bound but the constants; the state is finite, `depth` never exceeds
  2 (proved: `IntxTypes`). `Alone` says which stages of SET_IRQS no config write
  overlaps: for a shared INTx those of `vfio_intx_enable`, which reads
  `virq_disabled` and sets the bit and the type without `irqlock` (if a write
  overlaps them, `SharedIsLive` is violated: try `Alone` empty, without
  `OverlapAssumption`); for an exclusive one all of them, since an overlap adds
  further unpaired `disable_irq` to the one `intx_exclusive` shows and `depth`
  would grow for ever. A user that serializes its config writes with its ioctls,
  as virtual machine monitors do, meets neither. `Torn` says for which kinds a
  mask or unmask may come between the read and the write-back of the command
  register; `intx` has it for exclusive devices, which do not mask there, and
  `intx_torn` for shared ones.
* `msi`: three vectors, so that a block can lie among vectors that are set and a
  roll-back passes more than one; two eventfds, which may be given for several
  vectors and as error or request eventfds too. Whether a step fails is free
  each time. `request_relayed` needs no vectors and has one.

### Fairness

* `SerialLink`: weak fairness of the host's own steps. Its waits have time-outs
  (`m_Timeout`, 500 ms), so some step of the program always comes. Nothing is
  assumed of the board.
* `ResetFlow`: weak fairness of the program, of the end of a call (what
  `SessionEnds` shows for `SerialLink`), and of a user's release. The last is
  an assumption about users: `vfio_pci_request` asks for the device, and the
  kernel's unbind, or removal, waits until it is given back and lets nobody open it
  meanwhile. No fairness is assumed of the
  board's execution of commands, of rescans or of driver loads.
* `VfioIntx`: weak fairness of the handler (an asserted level interrupt that is
  not masked is delivered), of each thread that is about to send, and of the
  ioctl and the config write once they have begun: none of them waits for a
  user. Nothing is assumed of users, of the unmask eventfd and of the device.
* `VfioMsi`: a call that has begun goes on; it runs alone under `igate`.
* `VfioLayout`: weak fairness of the walk, which is a loop of one thread.
* The other modules have safety properties only: what they begin waits for
  users, or is over in one step.

### Findings

`vfio_used_awake`: `vfio_pci_probe` publishes the device
(`vfio_add_group_dev`, `vfio_pci.c:1268`) and only at its end puts it to D3hot
(line 1300), without the lock. A user who opens it in between wakes it and then
has it put to sleep. The parameter's description (line 58) speaks of the low
power state "for idle, unused devices". In the same window, before
`vfio_pci_reflck_attach`, the lock itself is still null; that has no state to
model and is listed as a hazard.

`intx_exclusive`: `vfio_intx_set_signal` requests the irq, which enables it, and
afterwards disables it again if `masked` is set (`vfio_pci_intrs.c:222`). When
an interrupt arrives in between, the handler has already disabled the irq and
set the flag, so line 223 disables it once more. One unmask clears the flag and
leaves the irq disabled; as unmasking looks at the flag, nothing enables it
again until INTx is set up anew. A shared INTx masks in the device, where
masking twice is masking once, and is not affected.

`request_relayed`: the last release tears down the interrupt of `irq_type`, and
not `err_trigger` and `req_trigger` (`vfio_pci.c:333`). A request, or an error,
that concerns the next user is signalled to the eventfd of the former one, and
the log says that it was relayed to the user.

`intx_torn`: of the command register only INTx disable is virtual.
`vfio_default_config_write` (`vfio_pci_config.c:229`) reads the physical register,
takes the user's other bits and writes it back, INTx disable as it was read, all
without `irqlock`. A handler that masks in between sets the flag and the bit, and
the bit is then cleared: the interrupt is enabled while vfio takes it for masked.
The other way round an unmask is lost, and as unmasking looks at the flag, no
other one sets it right before the interrupt is masked again.

`vfio_new_id`: `vfio_ecap_init` hides extended capabilities without a known
length. If the first one of the chain is hidden, it stays as the anchor and its
dword is marked with its id (`vfio_pci_config.c:1587`), also an id above
`PCI_EXT_CAP_ID_MAX`, for which `ecap_perms` has no entry. The next access there
meets `WARN_ON(cap_id > PCI_EXT_CAP_ID_MAX)` (line 1793) and takes a function
pointer from behind the table. `ChainExact` is therefore about known ids.

Not runs, but met while reading the code for the models:

* `vfio_basic_config_write` checks the device and restores its BARs
  (`vfio_pci_config.c:555-580`), and `vfio_default_config_write` then reads the
  command register and writes it back (line 583, 229-243). A reset behind vfio's
  back in between enables memory and I/O with wiped BARs, and, where INTx is
  broken, perhaps without INTx disable, although the comment at lines 566-573 wants
  the device "restored before we allow it to enable the bars". The enables in
  `vconfig` then agree with the hardware, but the BARs still tell, so the next write
  of the command register puts it right. `MemoryNeedsBars` exempts the write that
  was overtaken (without `~raced` TLC finds this behaviour) and holds every later
  one to account.
* `vfio_msi_config_read` (`vfio_pci_config.c:1059`) puts the queue size into
  `vconfig[start]`, the capability's id and next pointer, and not at
  `PCI_MSI_FLAGS`. The next write of the flags is bounded all the same.
* A status that is cleared by writing a one (master abort in the status register,
  the errors of PCI Express device status) and that the user may not write is
  cleared whenever the user writes a word with bits that go to the hardware:
  `vfio_default_config_write` writes back the ones it has read. The comment on
  `perm_bits` (line 109) says "Writes are only permitted if they have a 1 bit
  here". `BitsExact` names the exception.
* With `Overlap = TRUE`, `CapsTrue` is violated: a write to MSI's flags checks
  `is_msi`, SET_IRQS turns MSI off, and the write then enables MSI without
  vectors. Nothing but the user's own order keeps them apart.
* `vfio_bar_fixup` takes bit 2 of a 4-byte I/O BAR's address for the 64-bit type
  and leaves the next BAR alone; `BarsSized` names the exception.
* `vfio_find_cap_start` merges two capabilities of one id that abut (the code asks
  the same, line 1052); `ChainExact` and `ChunksFit` leave them out.
* `vfio_ecap_init` returns 0 when a length cannot be determined (line 1546): the
  device opens, with what is left of the chain not shown.
* Two threads that map a BAR at once: one of them gets `-EBUSY` although the BAR
  is there a moment later.
* The eventfd of an ioeventfd can be closed by its user; the entry stays, counts
  against the limit, and refuses to be added again until it is removed.
* `bardirty` is set and never read.

pwplug logs "Reseting slot" and only calls
`pci_probe_reset_slot` and `pci_probe_reset_bus`, which ask whether a reset
would be possible (`pwplug.c:92`).

## Proofs

The theorems hold for every value of the constants under the named assumptions
of the modules: a non-empty list of devices, any finite set of functions of a
slot, any scripts, retries and typed bytes, any number of locks, vectors,
eventfds, threads and BARs, any BAR lengths and MSI-X table, any config space.
Most assumptions say of what type a constant is. Those that say more:

* `OverlapAssumption` of `VfioIntx`: which config writes do not overlap SET_IRQS
  (see the bounds);
* `TabledAssumption` of `VfioLayout`: only ids with a length have a permission
  table (`init_pci_cap_*_perm` are called for such ids only).

Some theorems have a hypothesis of their own, met by the configuration of the passing
run that checks the same property, where there is one:

* `"shared" \notin Torn` in `FlagMasks` and `FlagIsLive`: the command register is
  written at once; without it `intx_torn` is a counterexample;
* `Settled` in `NextFrameIsRun`, `LinkImplementsPort` and `AckedPowerHolds`; the
  last two also ask that nobody types a newline (`ForeignBytes \cap Newlines = {}`).
  Who types a magic, a letter and a newline commands the board without any call of
  the host, which the port has no step for: with a newline in `ForeignBytes` TLC
  finds that behaviour at once;
* `~Overlap` in `CapsAreTrue`: no write of the MSI flags overlaps SET_IRQS
  (see the Findings);
* an id of the tables for the first extended capability in `OnlyTheAnchorIsUnknown`;
  `vfio_new_id` is the counterexample without it;
* `Regular` in `ChunksAlwaysFit` and `ChainsAreExact`: the hardware is laid out as
  the PCI specification asks. Capabilities begin at dwords, are no shorter than one
  and do not overlap; they and the pointers to them stay in their half of the config
  space. The code takes it for granted: a capability that ran into the next one
  would be cut off in the map.

### Modules and arguments

* `PowerPortProofs`: `PortTypeCorrect`, `PortAgreement`. `Agreement` speaks of a
  call that has returned, and what makes it true happens earlier, when the board
  executes. `PortInv` therefore adds: what is in flight is the latest command;
  outside a call that failed nothing is in flight; a served call has nothing in
  flight and its effect is there.
* `Induction`: a least element, induction and iteration over the naturals, in a form
  the installed provers can use. The library's induction theorems have a predicate as
  parameter; here a fact P(n) is proved by showing that the set {n \in Nat : P(n)}
  has 0 and every successor. What the recursive functions of the models compute
  (`Run`, `Path`, `FirstShown`, `DoIo`) is proved with it, for arguments of every
  length.
* `SerialLinkProofs`: `LinkTypes`, `NothingSpliced`, `AckedIsExecuted`,
  `ParserResynchronizes`, `NextFrameIsRun`, `LinkImplementsPort`, `AckedPowerHolds`.
  None of the properties is inductive, since each speaks of the byte the parser is
  at, or of a call that is over, and not of what stands behind it on the line:
  - `FrameInv`, over any line: the newline of a frame comes right after that frame's
    letter, in the queue or in the parser. So a newline of the host fires the letter
    before it or none;
  - `CallInv`, over any line: every echo the host has read or can read is of a
    command that was executed;
  - `SettledInv`: a call has the line to itself. On it is the rest of its frame, then
    its answer, and after a success nothing, with the parser waiting for a magic;
  - `NewlineInv`: there is one newline at most, so one firing.

  `LinkImplementsPort` goes through the actions of both programs: a byte that does
  not fire leaves `Pending` as it was (`FirstFired` of a line is that of its tail
  after the first byte), the newline is `Execute`, the last character of the answer
  `Ack`, a time-out `Fail`, closing the port may be `Drop`. `AckedPowerHolds` is
  `PortAgreement` under that mapping.
* `ResetFlowProofs`: `TypeCorrect`, `NoHotCutHolds`, `PowerRestoredHolds`,
  `EarlyExitHolds`, `HandedBackHolds`. The inductive invariant is `FlowInv` with the
  types and the invariant of the port:
  - `ControlInv` ties the program's place to its mode and to the state of the
    call;
  - `CutInv` says that the removal loop has removed what is before `i`, that all
    listed devices are gone when the power-off is sent, and that they are gone as
    long as a power-off of `reset_GPU` is on its way, even after the program has
    given up. From it follows `NoHotCut`: only a power-off in flight cuts;
  - `RestoreInv` carries "the latest command is on" from the power-on to the end;
  - `EarlyInv` says that nothing was removed up to the check;
  - `HandInv` says how far each loop after the rescan is: what is before `i` is free
    of pwplug, and in the last loop present or reported.
  The port's invariant is reused by `INSTANCE PowerPortProofs`: every step of
  `ResetFlow` is a step of `PowerPort` or leaves its state alone (`PortSteps`).
* `VfioDevSetProofs`: `LockIsShared`, `BusResetAlone`, `BusResetCleans`,
  `UnusedAsleep`, `UsersStayAwake`. `OneLock` is not inductive: a lock could be
  dropped while another function still finds it. `SetInv` adds that a function has
  no lock before it is attached and is bound while somebody holds it, that what
  runs under a lock runs for one function attached to it (so at most one
  operation runs in the whole set, `OneRuns`), and that what the walk has taken is
  unused. `BusResetCleans` and `UnusedAsleep` need more: that what has been put
  back is clean, and what is at rest outside of an operation is asleep.
* `VfioIntxProofs`: `FlagMasks`, `FlagIsLive`, `MaskIsKnown`. The properties speak
  of moments when no ioctl and no config write is half-way. `StagesOK` says what
  each stage knows (INTx is off until it has its type, the handler is there only
  between `request_irq` and `free_irq`), `SharedAgrees` and `ExclusiveCounts` what
  the hardware is at each of them, and `NoneForgotten` who knows of a masked
  interrupt.
* `VfioMsiProofs`: `ReferencesBalance`, `HandlersSignalHeld`, `HandlersAreTriggers`,
  `HandlersGoFirst`, `FailureUndone`. The references are cardinalities of sets of
  places; the lemmas about exchanging one value of a function (`Recount`,
  `VectorExchange`, `SingleExchange`) say how they change. `CallOK` keeps the
  vector at hand within the block and the block within the vectors, `HandlersOK`
  allows one vector without its handler (the one at hand), and `UndoOK` says what
  of the block is as it was before the call.
* `VfioFunctionProofs`, the parts of one function:
  - `VfioLayout`: `LayoutTypes` (the walk stays inside the map, whatever the
    hardware's pointers are), `ChunksAlwaysFit`, `ChainsAreExact`, and
    `OnlyTheAnchorIsUnknown`, which says how far the finding of `vfio_new_id` goes. First the chains
    themselves: one that ends meets no place twice (`PathDistinct`), so it ends within
    the loops of the walk (`PathFits`, by counting dwords), and the search for the
    next capability that is shown goes along it (`SearchAlong`). The properties are
    about the finished map and headers; `LayoutInv` says what they are during the
    walk. `WalkInv`: the walk is where its turns have led it. `MapInv`: a mark is of
    a capability that covers it. `StdInv` and `ExtInv`: every header kept so far leads
    on to the next one that is shown, but for the last, which leads to the place at
    hand, and from there the search finds the same (`Threaded`). `SeenIs` then says
    that a read of any size and start gets the pointer of the virtual header, and
    `OneRun` that bytes of one mark are of one capability;
  - `VfioHeader`: `MemoryAlwaysNeedsBars`. What a reset in the middle of a write leaves
    behind must be seen by the next one, which does not look at the ROM or at INTx
    disable: `Noticed` says that outside a restore neither is lost without a BAR that
    is looked at, also in the register's value on its way back. `Restored` says how far
    a write that was not overtaken has come. `BarsAlwaysSized` (the BARs skipped
    as upper halves are those of the 64-bit ones, for any number of BARs; reading
    them changes nothing a later read shows);
  - `VfioCaps`: `CapsTypes`, `BitsAreExact`, `CapsAreTrue`. `CapsInv` is
    the types, the parts of `CapsTrue` about VPD and the read request, and that the
    bit of the function reset is never kept in `vconfig`. `QueueBounded` adds to MSI what is on its way: flags that are to be written are
    bounded by the vectors of the moment, and ask for MSI only while it is on;
  - `VfioBars`: `TransfersAreExact`, `RegionsAreMapped`, `EventfdsFireIntoMapped`,
    `ListIsCounted`. Each turn of `do_io_rw` is aligned, moves something, and lies on
    one side of the excluded range (`TurnFacts`); a transfer is the turn and the
    transfer of the rest (`DoIoWorks`), and by induction over its length covers its
    bytes once (`DoIoCovers`). A thread past `vfio_pci_setup_barmap` finds its BAR
    mapped, and no call runs while the device is closed, so entries of the list are
    in mapped BARs; who is between the lookup and the insertion holds the lock, so
    what it found still holds. `AllowedInv`: only what passed the checks gets there;
  - `DriverHandover`: `HandoverTypes`, `HandoverBalanced`, `PwplugHoldsQuiet`,
    `HandoverQuiet`. The invariant adds that only a function bound to vfio-pci is in
    use.

Every invariant and every action property that a passing run checks is a theorem,
and so is the refinement. The type invariants are proved and are not among the runs'
properties.

Only model-checked: the liveness properties (`SessionEnds`, `RunEnds`,
`CutIsTemporary`, `ReachesUser`, `CallEnds`, `WalkEnds`), as fairness and ENABLED
are out of the prover's reach.

## Not modelled

* The switch's debounce: `loop()` reads it and does not use it.
* The options of `main` and its error for a wrong or missing parameter: they
  return before any operation.
* `PCI::enable`, `new_id`, `loadDriver`, `unloadDriver`, `setD3Hot` of pwplug:
  never called. `isD3ColdAllowed` chooses a message.
* Of the interrupts: an INTx that is on without a trigger and sends all the same
  (the kernel would follow a null pointer), more than one open after another in
  `VfioIntx`, the masked DisINTx bit of devices with broken INTx, and loopback
  tests of MSI vectors, which change nothing.
* Of config space: how long a capability is (`vfio_cap_len` and its tables are the
  constant `Length`); the raw access to capabilities of vendors; errors of
  `pci_user_read_config` and `pci_user_write_config`; the read of MSI's queue size
  (above); what the PCI core does to BARs when a function leaves D3hot
  through its PM capability; two config writes at once, which vfio leaves to the user; the
  allocation of `vconfig` and of MSI's permissions.
* Of data access: faults at the user's buffer, which end a transfer early; byte
  order; the PCI resources behind `pci_request_selected_regions`, which may be
  refused at any time.
* The information ioctls, which report constants of the device; the bounds of
  `vfio_pci_mmap`; `vfio_pci_probe_mmaps`; and the hot reset information, whose
  two walks of the bus are disturbed only by the PCI core.
* A device that is opened before its lock is attached (a null pointer), and a
  lock that could not be allocated but is found by another probe.

## Plan

Most important behaviour first: `PowerPort`, `SerialLink`, `ResetFlow`,
`VfioDevSet`, `DriverHandover`, `VfioIntx`, `VfioMsi`, `VfioLayout`, `VfioHeader`,
`VfioCaps`, `VfioBars`, and the proofs in this order: the reset program, the
handover, the device set, the interrupts, the BARs, the header, the serial link with
its refinement, the capabilities' registers, the transfers, the chains. All of this
is done.

What could follow, each for a stated reason not done: a port that others
command too, which the refinement without the hypothesis about typed newlines would
need (no caller could rely on it); chains that
loop, of which the walk keeps what it met before the bound (`ChainExact` is silent
there); a `VfioIntx` over several opens in a row; the length of each capability as a
function of its registers.
