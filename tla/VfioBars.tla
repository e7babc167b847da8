------------------------------ MODULE VfioBars ------------------------------
(***************************************************************************)
(* The BARs of an open vfio-pci device (device/vfio_pci_rdwr.c, and mmap   *)
(* and disable in device/vfio_pci.c): mapping one on first use, reading    *)
(* and writing it around the MSI-X table, the ioeventfds that write to it, *)
(* and the release of all of it.                                           *)
(*                                                                         *)
(* Several threads of the user call at the same time; a statement that     *)
(* reads or writes the shared state is a step.  Only the list of           *)
(* ioeventfds has a lock.                                                  *)
(***************************************************************************)
EXTENDS Integers, FiniteSets, Sequences

CONSTANTS
  Threads,
  None,
  BarLen,       \* the length of each BAR there is
  Table,        \* the BAR of the MSI-X table, its offset and size
  RomLen,       \* the length of the ROM BAR
  RomSize,      \* and of the ROM in it
  Keys,         \* ioeventfds a user asks for: bar, pos, size and data
  MaxEventfds   \* VFIO_PCI_IOEVENTFD_MAX

BarIds == DOMAIN BarLen

ASSUME ThreadAssumption == None \notin Threads
ASSUME LengthAssumption ==
  /\ BarLen \in [BarIds -> Nat] /\ "rom" \notin BarIds
  /\ RomLen \in Nat /\ RomSize \in 0..RomLen
ASSUME TableAssumption ==
  Table \in [bar : BarIds \cup {"none"}, offset : Nat, size : Nat]
ASSUME KeyAssumption ==
  /\ IsFiniteSet(Keys) /\ MaxEventfds \in Nat
  /\ Keys \subseteq [bar : BarIds, pos : Nat, size : {1, 2, 4, 8}, data : Nat]

VARIABLES
  opened,   \* "open", "closing" (vfio_pci_disable runs) or "closed"
  barmap,   \* the BARs that are mapped
  regions,  \* those requested by this driver
  at,       \* where each thread is in its call
  job,      \* what it called: kind, bar, and for an ioeventfd key and add
  lock,     \* ioeventfds_lock
  list,     \* ioeventfds_list
  nr,       \* ioeventfds_nr
  wired     \* ioeventfds whose eventfd still triggers the handler

barsVars == <<opened, barmap, regions, at, job, lock, list, nr, wired>>
eventfds == <<lock, list, nr, wired>>

Labels == {"idle", "check", "request", "iomap", "lock", "find", "add"}
Jobs   == [kind : {"none", "rw", "mmap", "ioeventfd"}, bar : BarIds \cup {"none"},
           key : Keys \cup {None}, add : BOOLEAN]
NoJob  == [kind |-> "none", bar |-> "none", key |-> None, add |-> FALSE]

-----------------------------------------------------------------------------
(* One transfer.                                                            *)

Least(a, b) == IF a < b THEN a ELSE b

\* A mutant of IoTurn that measures the room before the excluded range from its end.
IoTurnPast(off, n, xStart, xEnd) ==
  [off |-> off, real |-> off < xStart \/ off >= xEnd,
   size |-> CASE n >= 4 /\ off % 4 = 0 -> 4
              [] n >= 2 /\ off % 2 = 0 /\ ~(n >= 4 /\ off % 4 = 0) -> 2
              [] OTHER -> 1]

\* One turn of the loop of do_io_rw with n bytes to go at off: how many bytes it
\* does, and whether it reaches the device.
IoTurn(off, n, xStart, xEnd) ==
  LET fillable == IF off < xStart THEN Least(n, xStart - off)
                  ELSE IF off >= xEnd THEN n ELSE 0
  IN  [off |-> off, real |-> fillable > 0,
       size |-> CASE fillable >= 4 /\ off % 4 = 0 -> 4
                  [] fillable >= 2 /\ off % 2 = 0 /\ ~(fillable >= 4 /\ off % 4 = 0) -> 2
                  [] fillable >= 1 /\ ~(fillable >= 2 /\ off % 2 = 0) -> 1
                  [] fillable = 0 -> Least(n, xEnd - off)]

\* do_io_rw.
DoIo(off, n, xStart, xEnd) ==
  LET rest[c \in 0..n] ==
        IF c = 0 THEN <<>>
        ELSE LET turn == IoTurn(off + n - c, c, xStart, xEnd)
             IN  <<turn>> \o rest[c - turn.size]
  IN  rest[n]

\* The excluded range of vfio_pci_bar_rw, and the end of the region.
Excluded(bar) ==
  IF bar = "rom" THEN <<RomSize, RomLen>>
  ELSE IF bar = Table.bar THEN <<Table.offset, Table.offset + Table.size>>
  ELSE <<0, 0>>
End(bar) == IF bar = "rom" THEN RomLen ELSE BarLen[bar]

\* vfio_pci_bar_rw of n bytes at pos: what it transfers, when it is not refused.
BarRw(bar, pos, n) ==
  LET x == Excluded(bar)
  IN  IF pos >= End(bar) THEN <<>>
      ELSE DoIo(pos, Least(n, End(bar) - pos), x[1], x[2])

\* vfio_pci_vga_rw: the legacy windows, and what a transfer of n bytes at pos does
\* inside the one it begins in.
VgaWindows == {<<\hA0000, \hC0000>>, <<\h3B0, \h3BC>>, <<\h3C0, \h3E0>>}
VgaRw(pos, n) ==
  LET w == CHOOSE w \in VgaWindows : w[1] <= pos /\ pos < w[2]
  IN  DoIo(pos - w[1], Least(n, w[2] - pos), 0, 0)

\* The checks of vfio_pci_ioeventfd before it maps the BAR.
Allowed(k) ==
  /\ k.pos + k.size <= BarLen[k.bar]
  /\ k.bar = Table.bar =>
       k.pos + k.size <= Table.offset \/ k.pos >= Table.offset + Table.size

-----------------------------------------------------------------------------
(* The calls.                                                               *)

BarsInit ==
  /\ opened = "open"
  /\ barmap = {}
  /\ regions = {}
  /\ at = [t \in Threads |-> "idle"]
  /\ job = [t \in Threads |-> NoJob]
  /\ lock = None
  /\ list = {}
  /\ nr = 0
  /\ wired = {}

Goto(t, label) == at' = [at EXCEPT ![t] = label]
Return(t) ==
  /\ Goto(t, "idle")
  /\ job' = [job EXCEPT ![t] = NoJob]

\* A thread reads, writes or maps a BAR, or adds or removes an ioeventfd.
Call(t) ==
  /\ opened = "open" /\ at[t] = "idle"
  /\ \/ \E b \in BarIds, kind \in {"rw", "mmap"} :
          job' = [job EXCEPT ![t] =
                    [kind |-> kind, bar |-> b, key |-> None, add |-> FALSE]]
     \/ \E k \in Keys, add \in BOOLEAN :
          /\ Allowed(k)
          /\ job' = [job EXCEPT ![t] =
                       [kind |-> "ioeventfd", bar |-> k.bar, key |-> k, add |-> add]]
  /\ Goto(t, "check")
  /\ UNCHANGED <<opened, barmap, regions, eventfds>>

\* Where a call goes on once its BAR is mapped; a transfer and a mapping are over.
Proceed(t) ==
  IF job[t].kind = "ioeventfd" THEN Goto(t, "lock") /\ UNCHANGED job ELSE Return(t)

\* vfio_pci_setup_barmap, and the same lines in vfio_pci_mmap.
CheckMapped(t) ==
  /\ at[t] = "check"
  /\ IF job[t].bar \in barmap THEN Proceed(t) ELSE Goto(t, "request") /\ UNCHANGED job
  /\ UNCHANGED <<opened, barmap, regions, eventfds>>

\* pci_request_selected_regions: one of two threads gets them, or someone else has.
RequestRegions(t) ==
  /\ at[t] = "request"
  /\ \/ /\ job[t].bar \notin regions
        /\ regions' = regions \cup {job[t].bar}
        /\ Goto(t, "iomap")
        /\ UNCHANGED job
     \/ /\ Return(t)
        /\ UNCHANGED regions
  /\ UNCHANGED <<opened, barmap, eventfds>>

\* A mutant of Iomap that keeps the regions when the mapping fails.
IomapKeeps(t) ==
  /\ at[t] = "iomap"
  /\ \/ barmap' = barmap \cup {job[t].bar} /\ Proceed(t)
     \/ Return(t) /\ UNCHANGED barmap
  /\ UNCHANGED <<opened, regions, eventfds>>

\* pci_iomap, and the regions given back when it fails.
Iomap(t) ==
  /\ at[t] = "iomap"
  /\ \/ barmap' = barmap \cup {job[t].bar} /\ Proceed(t) /\ UNCHANGED regions
     \/ regions' = regions \ {job[t].bar} /\ Return(t) /\ UNCHANGED barmap
  /\ UNCHANGED <<opened, eventfds>>

\* A mutant of Lock that takes none.
LockNothing(t) ==
  /\ at[t] = "lock"
  /\ Goto(t, "find")
  /\ UNCHANGED <<opened, barmap, regions, job, eventfds>>

\* mutex_lock(&vdev->ioeventfds_lock).
Lock(t) ==
  /\ at[t] = "lock"
  /\ lock = None
  /\ lock' = t
  /\ Goto(t, "find")
  /\ UNCHANGED <<opened, barmap, regions, job, list, nr, wired>>

\* The entry is there: it is removed (fd -1) or refused.
Found(t) ==
  LET k == job[t].key
  IN  /\ at[t] = "find"
      /\ k \in list
      /\ IF job[t].add THEN UNCHANGED <<list, nr, wired>>
         ELSE /\ list' = list \ {k}
              /\ nr' = nr - 1
              /\ wired' = wired \ {k}
      /\ lock' = None
      /\ Return(t)
      /\ UNCHANGED <<opened, barmap, regions>>

\* It is not: there is nothing to remove, or no room.
NotFound(t) ==
  /\ at[t] = "find"
  /\ job[t].key \notin list
  /\ IF ~job[t].add \/ nr >= MaxEventfds
       THEN lock' = None /\ Return(t)
       ELSE Goto(t, "add") /\ UNCHANGED <<lock, job>>
  /\ UNCHANGED <<opened, barmap, regions, list, nr, wired>>

\* The entry is allocated and its eventfd wired, or either fails.
Add(t) ==
  /\ at[t] = "add"
  /\ \/ /\ list' = list \cup {job[t].key}
        /\ nr' = nr + 1
        /\ wired' = wired \cup {job[t].key}
     \/ UNCHANGED <<list, nr, wired>>
  /\ lock' = None
  /\ Return(t)
  /\ UNCHANGED <<opened, barmap, regions>>

Step(t) ==
  \/ CheckMapped(t)
  \/ RequestRegions(t)
  \/ Iomap(t)
  \/ Lock(t)
  \/ Found(t)
  \/ NotFound(t)
  \/ Add(t)

\* The user closes an eventfd: its virqfd goes, the entry stays.
EventfdGone ==
  /\ \E k \in wired : wired' = wired \ {k}
  /\ UNCHANGED <<opened, barmap, regions, at, job, lock, list, nr>>

\* The last release comes when no call is running.
LastRelease ==
  /\ opened = "open"
  /\ \A t \in Threads : at[t] = "idle"
  /\ opened' = "closing"
  /\ UNCHANGED <<barmap, regions, at, job, eventfds>>

\* vfio_pci_disable takes down the ioeventfds one by one ...
DropEventfd ==
  /\ opened = "closing"
  /\ \E k \in list :
       /\ list' = list \ {k}
       /\ wired' = wired \ {k}
       /\ nr' = IF list = {k} THEN 0 ELSE nr
  /\ UNCHANGED <<opened, barmap, regions, at, job, lock>>

\* A mutant of UnmapBar that does not wait for the ioeventfds.
UnmapBarEarly ==
  /\ opened = "closing"
  /\ \E b \in barmap :
       /\ barmap' = barmap \ {b}
       /\ regions' = regions \ {b}
  /\ UNCHANGED <<opened, at, job, eventfds>>

\* ... and then the BARs.
UnmapBar ==
  /\ opened = "closing"
  /\ list = {}
  /\ \E b \in barmap :
       /\ barmap' = barmap \ {b}
       /\ regions' = regions \ {b}
  /\ UNCHANGED <<opened, at, job, eventfds>>

Closed ==
  /\ opened = "closing"
  /\ list = {} /\ barmap = {}
  /\ opened' = "closed"
  /\ UNCHANGED <<barmap, regions, at, job, eventfds>>

Reopen ==
  /\ opened = "closed"
  /\ opened' = "open"
  /\ UNCHANGED <<barmap, regions, at, job, eventfds>>

BarsNext ==
  \/ \E t \in Threads : Call(t) \/ Step(t)
  \/ EventfdGone
  \/ LastRelease
  \/ DropEventfd
  \/ UnmapBar
  \/ Closed
  \/ Reopen

BarsSpec == BarsInit /\ [][BarsNext]_barsVars

-----------------------------------------------------------------------------
(* What they promise.                                                       *)

BarsTypeOK ==
  /\ opened \in {"open", "closing", "closed"}
  /\ barmap \subseteq BarIds
  /\ regions \subseteq BarIds
  /\ at \in [Threads -> Labels]
  /\ job \in [Threads -> Jobs]
  /\ lock \in Threads \cup {None}
  /\ list \subseteq Keys
  /\ nr \in Int
  /\ wired \subseteq Keys

\* Two threads that map a BAR at once never map it twice: exactly the mapped BARs
\* and those a thread is just mapping are requested, each by one thread, and a
\* closed device has none.
RegionsFollow ==
  LET mapping(b) == {t \in Threads : at[t] = "iomap" /\ job[t].bar = b}
  IN  /\ \A b \in regions : b \in barmap <=> mapping(b) = {}
      /\ \A b \in BarIds : mapping(b) # {} => b \in regions
      /\ \A t, u \in Threads :
           at[t] = "iomap" /\ at[u] = "iomap" /\ job[t].bar = job[u].bar => t = u
      /\ barmap \subseteq regions
      /\ opened = "closed" => regions = {}

\* An eventfd that can still fire writes into a BAR that is mapped, also while the
\* device is being closed, and one that cannot be looked up any more never fires.
FiresIntoMapped == wired \subseteq list /\ \A k \in wired : k.bar \in barmap

\* The counter that bounds the list is its length, between two editions of it, and
\* the bound holds, whatever the threads do at the same time.
ListCounted ==
  /\ lock = None /\ opened # "closing" => nr = Cardinality(list)
  /\ Cardinality(list) <= MaxEventfds

\* The transfer io, asked for n bytes at pos of something that ends at end, moves
\* each of the bytes there are, once and in order, the ones that reach the device in
\* aligned pieces, and it reaches it exactly for the bytes that x does not exclude.
Moves(io, pos, n, end, x) ==
  LET after(i) == IF i = 0 THEN pos ELSE io[i].off + io[i].size
  IN  /\ after(Len(io)) = IF pos < end THEN Least(pos + n, end) ELSE pos
      /\ \A i \in 1..Len(io) :
           /\ io[i].off = after(i - 1)
           /\ io[i].real => io[i].off % io[i].size = 0
           /\ \A q \in io[i].off..after(i) - 1 : io[i].real <=> q < x[1] \/ q >= x[2]

\* Every read or write of a BAR, of the ROM or of a VGA window moves exactly what
\* it was asked for, but for the MSI-X table and what is beyond the ROM: no byte of
\* those is reached, and no eventfd that can fire writes one either.
TransfersExact ==
  /\ LET begins == {t \in Threads : job[t].kind = "rw" /\ at[t] = "check"}
         asked  == {job[t].bar : t \in begins}
     IN  asked # {} =>
       /\ \A bar \in asked \cup {"rom"} : \A pos \in 0..End(bar), n \in 1..9 :
            Moves(BarRw(bar, pos, n), pos, n, End(bar), Excluded(bar))
       /\ \A w \in VgaWindows : \A pos \in w[2] - 5..w[2] - 1, n \in 1..9 :
            Moves(VgaRw(pos, n), pos - w[1], n, w[2] - w[1], <<0, 0>>)
  /\ \A k \in wired, q \in 0..7 :
       q < k.size /\ k.bar = Table.bar =>
         k.pos + q < Table.offset \/ k.pos + q >= Table.offset + Table.size

=============================================================================
