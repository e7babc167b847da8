------------------------------- MODULE VfioMsi -------------------------------
(***************************************************************************)
(* The MSI and MSI-X vectors of a vfio-pci device and the single eventfds  *)
(* of errors and of device requests (device/vfio_pci_intrs.c): turning the *)
(* vectors on, setting a block of them, the roll-back when one fails,      *)
(* turning them off by ioctl or at the last release.                       *)
(*                                                                         *)
(* The calls run one at a time under igate, a statement at a time here: a  *)
(* vector that has its handler may interrupt at any step.  eventfds, the   *)
(* irq core and the irq bypass are external.                               *)
(***************************************************************************)
EXTENDS Integers, FiniteSets

CONSTANTS
  Fds,      \* the eventfds of users
  None,
  Irqs      \* vfio_pci_get_irq_count, of MSI and of MSI-X

ASSUME NoneAssumption == None \notin Fds
ASSUME IrqsAssumption == Irqs \in Nat \ {0}

VARIABLES
  open,       \* the device is open
  mine,       \* the eventfds its present user has registered
  type,       \* irq_type
  num,        \* num_ctx: that many vectors are allocated
  trigger,    \* ctx[].trigger
  irq,        \* the eventfd a requested handler signals
  producers,  \* vectors registered with the irq bypass
  refs,       \* the driver's references to an eventfd
  single,     \* err_trigger and req_trigger
  op,         \* the call that runs, under igate
  block,      \* the first and the last vector it sets
  j,          \* the vector it is at
  half,       \* it has freed that vector's handler, not yet its eventfd
  fresh,      \* it has turned the vectors on
  before,     \* the triggers when it began
  failed      \* it fails

vars == <<open, mine, type, num, trigger, irq, producers, refs, single, op, block,
          j, half, fresh, before, failed>>
call    == <<op, block, j, half, fresh, before, failed>>
vectors == <<trigger, irq, producers>>

Vectors == 0..Irqs - 1
Types   == {"msi", "msix"}
Off     == [v \in Vectors |-> None]
Singles == {"err", "req"}

Init ==
  /\ open = FALSE
  /\ mine = {}
  /\ type = "none"
  /\ num = 0
  /\ trigger = Off
  /\ irq = Off
  /\ producers = {}
  /\ refs = [fd \in Fds |-> 0]
  /\ single = [which \in Singles |-> None]
  /\ op = "idle"
  /\ block = <<0, 0>>
  /\ j = 0
  /\ half = FALSE
  /\ fresh = FALSE
  /\ before = Off
  /\ failed = FALSE

\* Take(held, fd) and Put(held, fd) are eventfd_ctx_fdget and eventfd_ctx_put.
Take(held, fd) == [held EXCEPT ![fd] = @ + 1]
Put(held, fd)  == IF fd = None THEN held ELSE [held EXCEPT ![fd] = @ - 1]

-----------------------------------------------------------------------------
(* The calls of set_irqs_ioctl *)

Ioctl == open /\ op = "idle"

Starts(kind, first, last) ==
  /\ op' = kind
  /\ block' = <<first, last>>
  /\ j' = first
  /\ half' = FALSE
  /\ before' = trigger
  /\ failed' = FALSE

\* vfio_msi_enable, which has all vectors up to the last of the block or none;
\* set_msi_trigger goes on with the block.
MsiEnable(t, first, last) ==
  /\ Ioctl
  /\ type = "none"
  /\ type' = t
  /\ num' = last + 1
  /\ Starts("set", first, last)
  /\ fresh' = TRUE
  /\ UNCHANGED <<open, mine, vectors, refs, single>>

\* set_msi_trigger with vectors on; a block beyond them is refused.
SetBlock(first, last) ==
  /\ Ioctl
  /\ type \in Types
  /\ last < num
  /\ Starts("set", first, last)
  /\ fresh' = FALSE
  /\ UNCHANGED <<open, mine, type, num, vectors, refs, single>>

\* A mutant of DisablesVectors that frees them with their handlers.
DisablesVectorsAtOnce ==
  /\ type \in Types
  /\ Starts("vectors", 0, num - 1)
  /\ fresh' = FALSE
  /\ UNCHANGED <<mine, type, num, vectors, refs, single>>

\* vfio_msi_disable begins: a block of all vectors, without eventfds.
DisablesVectors ==
  /\ type \in Types
  /\ Starts("off", 0, num - 1)
  /\ fresh' = FALSE
  /\ UNCHANGED <<mine, type, num, vectors, refs, single>>

MsiDisable == Ioctl /\ DisablesVectors /\ UNCHANGED open

\* INTx excludes the vectors and is excluded by them (see VfioIntx).
Intx ==
  /\ Ioctl
  /\ \/ type = "none" /\ type' = "intx"
     \/ type = "intx" /\ type' = "none"
  /\ UNCHANGED <<open, mine, num, vectors, refs, single, call>>

\* A mutant of SetSingle that forgets the eventfd it replaces.
SetSingleLeaks(which, fd) ==
  /\ Ioctl
  /\ single' = [single EXCEPT ![which] = fd]
  /\ refs' = IF fd = None THEN Put(refs, single[which]) ELSE Take(refs, fd)
  /\ mine' = mine \cup ({fd} \ {None})
  /\ UNCHANGED <<open, type, num, vectors, call>>

\* set_ctx_trigger_single for errors and requests: a new eventfd, or none.  One
\* that is bad changes nothing.
SetSingle(which, fd) ==
  /\ Ioctl
  /\ single' = [single EXCEPT ![which] = fd]
  /\ LET held == IF fd = None THEN refs ELSE Take(refs, fd)
     IN  refs' = Put(held, single[which])
  /\ mine' = mine \cup ({fd} \ {None})
  /\ UNCHANGED <<open, type, num, vectors, call>>

-----------------------------------------------------------------------------
(* vfio_msi_set_vector_signal for vector j, and the loop of its caller *)

Within == UNCHANGED <<open, mine, single>>

\* A mutant of FreeHandler that leaves it to the next request_irq.
FreeHandlerLate ==
  /\ op \in {"set", "roll", "off"}
  /\ trigger[j] # None
  /\ ~half
  /\ half' = TRUE
  /\ producers' = producers \ {j}
  /\ Within
  /\ UNCHANGED <<type, num, trigger, irq, refs, op, block, j, fresh, before, failed>>

\* A mutant of FreeHandler that leaves the producer registered.
FreeHandlerOnly ==
  /\ op \in {"set", "roll", "off"}
  /\ trigger[j] # None
  /\ ~half
  /\ half' = TRUE
  /\ irq' = [irq EXCEPT ![j] = None]
  /\ Within
  /\ UNCHANGED <<type, num, trigger, producers, refs, op, block, j, fresh, before, failed>>

\* The handler goes first, then what it signals.
FreeHandler ==
  /\ op \in {"set", "roll", "off"}
  /\ trigger[j] # None
  /\ ~half
  /\ half' = TRUE
  /\ irq' = [irq EXCEPT ![j] = None]
  /\ producers' = producers \ {j}
  /\ Within
  /\ UNCHANGED <<type, num, trigger, refs, op, block, j, fresh, before, failed>>

PutTrigger ==
  /\ half
  /\ half' = FALSE
  /\ refs' = Put(refs, trigger[j])
  /\ trigger' = [trigger EXCEPT ![j] = None]
  /\ Within
  /\ UNCHANGED <<type, num, irq, producers, op, block, j, fresh, before, failed>>

\* Vector j is off: with an fd, it is set up again.
Cleared(kind) == op = kind /\ trigger[j] = None

NextVector ==
  /\ IF j = block[2] THEN op' = "idle" /\ UNCHANGED j ELSE j' = j + 1 /\ UNCHANGED op
  /\ Within
  /\ UNCHANGED <<type, num, block, half, fresh, before, failed>>

LeaveOff == Cleared("set") /\ NextVector /\ UNCHANGED <<vectors, refs>>

\* The bypass may refuse the producer, which is no failure.
Install(fd, bypass) ==
  /\ Cleared("set")
  /\ refs' = Take(refs, fd)
  /\ irq' = [irq EXCEPT ![j] = fd]
  /\ producers' = IF bypass THEN producers \cup {j} ELSE producers
  /\ trigger' = [trigger EXCEPT ![j] = fd]
  /\ IF j = block[2] THEN op' = "idle" /\ UNCHANGED j ELSE j' = j + 1 /\ UNCHANGED op
  /\ mine' = mine \cup {fd}
  /\ UNCHANGED <<open, single, type, num, block, half, fresh, before, failed>>

\* No memory, a bad eventfd, request_irq fails: this vector is off, and those
\* of the block before it are turned off.
InstallFails ==
  /\ Cleared("set")
  /\ op' = "roll"
  /\ failed' = TRUE
  /\ Within
  /\ UNCHANGED <<type, num, vectors, refs, block, j, half, fresh, before>>

RolledBack == UNCHANGED <<type, num, vectors, refs, half, fresh, before, failed, block>>

\* A mutant of RollBack that stops one vector early.
RollBackShort ==
  /\ Cleared("roll")
  /\ IF j > block[1] + 1 THEN j' = j - 1 /\ UNCHANGED op
     ELSE IF fresh THEN op' = "off" /\ j' = 0
     ELSE op' = "idle" /\ UNCHANGED j
  /\ Within
  /\ RolledBack

\* A mutant of RollBack that compares j unsigned.
RollBackUnsigned ==
  /\ Cleared("roll")
  /\ IF j > block[1] \/ block[1] = 0 THEN j' = (j + Irqs - 1) % Irqs /\ UNCHANGED op
     ELSE IF fresh THEN op' = "off" /\ j' = 0
     ELSE op' = "idle" /\ UNCHANGED j
  /\ Within
  /\ RolledBack

\* Down to the first vector of the block; vectors that this call has turned on
\* are turned off.
RollBack ==
  /\ Cleared("roll")
  /\ IF j > block[1] THEN j' = j - 1 /\ UNCHANGED op
     ELSE IF fresh THEN op' = "off" /\ j' = 0
     ELSE op' = "idle" /\ UNCHANGED j
  /\ Within
  /\ RolledBack

TurnOff ==
  /\ Cleared("off")
  /\ IF j = num - 1 THEN op' = "vectors" /\ UNCHANGED j ELSE j' = j + 1 /\ UNCHANGED op
  /\ Within
  /\ UNCHANGED <<type, num, vectors, refs, block, half, fresh, before, failed>>

\* pci_free_irq_vectors.
FreeVectors ==
  /\ op = "vectors"
  /\ op' = "idle"
  /\ type' = "none"
  /\ num' = 0
  /\ Within
  /\ UNCHANGED <<vectors, refs, block, j, half, fresh, before, failed>>

-----------------------------------------------------------------------------
(* The first open and the last release *)

Open ==
  /\ ~open
  /\ op = "idle"
  /\ open' = TRUE
  /\ mine' = {}
  /\ UNCHANGED <<type, num, vectors, refs, single, call>>

\* vfio_pci_disable calls set_irqs_ioctl for the type that is on, and no other.
Release ==
  /\ Ioctl
  /\ open' = FALSE
  /\ IF type \in Types THEN DisablesVectors
     ELSE type' = "none" /\ UNCHANGED <<mine, num, vectors, refs, single, call>>

\* Whom vfio_pci_request, and vfio_pci_aer_err_detected, would signal.
Relays(which) == single[which]

Steps ==
  \/ FreeHandler \/ PutTrigger \/ LeaveOff \/ InstallFails \/ RollBack \/ TurnOff
  \/ FreeVectors
  \/ \E fd \in Fds, bypass \in BOOLEAN : Install(fd, bypass)

Next ==
  \/ Steps
  \/ \E t \in Types, first, last \in Vectors : first <= last /\ MsiEnable(t, first, last)
  \/ \E first, last \in Vectors : first <= last /\ SetBlock(first, last)
  \/ MsiDisable
  \/ Intx
  \/ \E which \in Singles, fd \in Fds \cup {None} : SetSingle(which, fd)
  \/ Open \/ Release

\* A call that has begun goes on.
Spec == Init /\ [][Next]_vars /\ WF_vars(Steps)

-----------------------------------------------------------------------------
(* Properties *)

\* The type of the state.
TypeOK ==
  /\ {open, half, fresh, failed} \subseteq BOOLEAN
  /\ mine \subseteq Fds
  /\ type \in Types \cup {"none", "intx"}
  /\ num \in 0..Irqs
  /\ {trigger, irq, before} \subseteq [Vectors -> Fds \cup {None}]
  /\ producers \subseteq Vectors
  /\ refs \in [Fds -> Nat]
  /\ single \in [Singles -> Fds \cup {None}]
  /\ op \in {"idle", "set", "roll", "off", "vectors"}
  /\ block \in Vectors \X Vectors
  /\ j \in Vectors

\* The driver has one reference for each place an eventfd is kept in, on every
\* path through failures and roll-backs: none leaks and none is put twice.
Balanced ==
  \A fd \in Fds :
    refs[fd] = Cardinality({v \in Vectors : trigger[v] = fd})
             + Cardinality({which \in Singles : single[which] = fd})

\* A vector may interrupt at any time: the eventfd its handler signals is held.
HandlersHeld == \A v \in Vectors : irq[v] # None => refs[irq[v]] > 0

\* Between calls the handlers, and the producers of the irq bypass, are those of
\* the triggers; what a call leaves would otherwise stay for good, as only a
\* trigger is ever freed.
HandlersMatch ==
  op = "idle" => irq = trigger /\ \A v \in producers : trigger[v] # None

\* No vector outlives its allocation (the PCI core does not survive freeing one
\* that has a handler), and no handler the last release.
FreedLast ==
  /\ \A v \in Vectors : v >= num => irq[v] = None
  /\ ~open /\ op = "idle" => irq = Off /\ type = "none"

\* A call that fails leaves no eventfd of its own behind: each vector of its
\* block is off or as it was, the other vectors are as they were.
FailedSetsNothing ==
  op = "idle" /\ failed =>
    \A v \in Vectors :
      \/ trigger[v] = before[v]
      \/ trigger[v] = None /\ v >= block[1] /\ v <= block[2]

\* Each call ends: the roll-back, which counts down to vector zero, too.
CallEnds == op # "idle" ~> op = "idle"

\* A device request is relayed to the user that has the device, or to none.
RelaysToUser == open /\ Relays("req") # None => Relays("req") \in mine

=============================================================================
