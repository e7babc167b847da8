--------------------------- MODULE VfioIntxProofs ---------------------------
(***************************************************************************)
(* Proofs about VfioIntx: the masked flag and the hardware agree through   *)
(* every interleaving of the handler, the ioctls, the unmask eventfd and   *)
(* config space, and no masked interrupt is forgotten.                     *)
(***************************************************************************)
EXTENDS VfioIntx, TLAPS

\* What the stages of SET_IRQS know: INTx is off until it has the type, and the
\* handler is there only between request_irq and free_irq.
StagesOK ==
  /\ at \in Alone[kind] => cfg = "idle"
  /\ at \in {"enable", "type"} => ~intx /\ masked = virqDisabled
  /\ at \in {"request", "exchange", "remask", "disable", "free"} => intx
  /\ at \in {"request", "exchange"} => ~trigger
  /\ at \in {"request", "free"} => ~unmaskFd
  /\ trigger => intx
  /\ unmaskFd => intx
  /\ cfg = "mask" => virqDisabled
  /\ cfg \in {"set", "clear"} => kind \in Torn

\* A device that masks itself is masked as the flag says, from before INTx is on,
\* if its command register is not torn.
SharedAgrees ==
  kind = "shared" =>
    /\ depth = 0
    /\ kind \notin Torn /\ (intx \/ at = "type") => (masked <=> disIntx)

\* At the interrupt controller a masked interrupt is disabled at least once, and
\* one that is not masked at most once; request_irq starts anew.
ExclusiveCounts ==
  kind = "exclusive" =>
    /\ intx /\ trigger /\ at # "remask" /\ masked => depth > 0
    /\ at = "remask" => depth < 2 /\ (masked \/ depth = 0)
    /\ intx /\ at \notin {"request", "disable", "free"} => masked \/ depth < 2

\* A masked interrupt is known to the user or to who sends it, also half-way.
NoneForgotten ==
  intx /\ masked /\ ~virqDisabled /\ cfg # "unmask" => notified \/ owed \/ sending # {}

\* The inductive invariant.
IntxInv == TypeOK /\ StagesOK /\ SharedAgrees /\ ExclusiveCounts /\ NoneForgotten

\* Before the first open INTx is off.
LEMMA InitIntx == Init => IntxInv
<1> SUFFICES ASSUME Init PROVE IntxInv
  OBVIOUS
<1>1. TypeOK
  <2>1. depth \in 0..2 /\ sending \subseteq Senders
    BY DEF Init
  <2>2. {intx, masked, virqDisabled, trigger, unmaskFd, disIntx, line, notified, owed}
          \subseteq BOOLEAN
    BY DEF Init
  <2> QED
    BY <2>1, <2>2 DEF Init, TypeOK
<1>2. StagesOK
  BY AloneAssumption DEF Init, StagesOK, Stages
<1>3. SharedAgrees /\ ExclusiveCounts /\ NoneForgotten
  BY DEF Init, SharedAgrees, ExclusiveCounts, NoneForgotten
<1> QED
  BY <1>1, <1>2, <1>3 DEF IntxInv

\* What the constants say of a device of either kind.
LEMMA Overlaps ==
  ASSUME TypeOK
  PROVE  /\ kind = "shared" \/ kind = "exclusive"
         /\ "enable" \in Alone[kind] /\ "type" \in Alone[kind]
         /\ kind = "exclusive" => Alone[kind] = Stages
BY KindsAssumption, OverlapAssumption DEF TypeOK

\* Every step of the handler, the ioctls, the eventfds and config space keeps it.
LEMMA IntxStep == IntxInv /\ [Next]_vars => IntxInv'
<1> SUFFICES ASSUME IntxInv, [Next]_vars PROVE IntxInv'
  OBVIOUS
<1>0. /\ kind = "shared" \/ kind = "exclusive"
      /\ "enable" \in Alone[kind] /\ "type" \in Alone[kind]
      /\ kind = "exclusive" => Alone[kind] = Stages
  BY Overlaps DEF IntxInv
<1>1. CASE Handler
  <2>1. TypeOK'
    <3>1. depth' \in 0..2
      BY <1>0, <1>1 DEF Handler, HwMasked, Shared, HwMask, user, Stages, Senders,
        IntxInv, TypeOK, StagesOK
    <3>2. masked' \in BOOLEAN /\ disIntx' \in BOOLEAN
      BY <1>0, <1>1 DEF Handler, HwMasked, Shared, HwMask, user, Stages, Senders,
        IntxInv, TypeOK, StagesOK
    <3>3. sending' \subseteq Senders
      BY <1>0, <1>1 DEF Handler, HwMasked, Shared, HwMask, user, Stages, Senders,
        IntxInv, TypeOK, StagesOK
    <3> QED
      BY <1>1, <3>1, <3>2, <3>3 DEF Handler, Ioctl, user, IntxInv, TypeOK
  <2>2. StagesOK'
    BY <1>0, <1>1 DEF Handler, HwMasked, Shared, HwMask, user, Stages, IntxInv, TypeOK,
      StagesOK
  <2>3. SharedAgrees'
    BY <1>0, <1>1 DEF Handler, HwMasked, Shared, HwMask, user, Stages, IntxInv, TypeOK,
      StagesOK, SharedAgrees
  <2>4. ExclusiveCounts'
    BY <1>0, <1>1 DEF Handler, HwMasked, Shared, HwMask, user, Stages, IntxInv, TypeOK,
      StagesOK, ExclusiveCounts
  <2>5. NoneForgotten'
    BY <1>0, <1>1 DEF Handler, HwMasked, Shared, HwMask, user, Stages, IntxInv, TypeOK,
      StagesOK, NoneForgotten
  <2> QED
    BY <2>1, <2>2, <2>3, <2>4, <2>5 DEF IntxInv
<1>2. ASSUME NEW who \in Senders, Send(who) PROVE IntxInv'
  <2>1. TypeOK'
    BY <1>0, <1>2 DEF Send, hw, Stages, Senders, IntxInv, TypeOK, StagesOK
  <2>2. StagesOK'
    BY <1>0, <1>2 DEF Send, hw, Stages, IntxInv, TypeOK, StagesOK
  <2>3. SharedAgrees'
    BY <1>0, <1>2 DEF Send, hw, Stages, IntxInv, TypeOK, StagesOK, SharedAgrees
  <2>4. ExclusiveCounts'
    BY <1>0, <1>2 DEF Send, hw, Stages, IntxInv, TypeOK, StagesOK, ExclusiveCounts
  <2>5. NoneForgotten'
    BY <1>0, <1>2 DEF Send, hw, Stages, IntxInv, TypeOK, StagesOK, NoneForgotten
  <2> QED
    BY <2>1, <2>2, <2>3, <2>4, <2>5 DEF IntxInv
<1>3. CASE UserMasks
  <2>1. TypeOK'
    <3>1. depth' \in 0..2
      BY <1>0, <1>3 DEF UserMasks, Ioctl, IntxMask, HwFollow, HwMask, hw, Shared,
        Stages, Senders, IntxInv, TypeOK, StagesOK,
        SharedAgrees, ExclusiveCounts
    <3>2. masked' \in BOOLEAN /\ disIntx' \in BOOLEAN
      BY <1>0, <1>3 DEF UserMasks, Ioctl, IntxMask, HwFollow, HwMask, hw, Shared,
        Stages, Senders, IntxInv, TypeOK, StagesOK
    <3>3. sending' \subseteq Senders
      BY <1>0, <1>3 DEF UserMasks, Ioctl, IntxMask, HwFollow, HwMask, hw, Shared,
        Stages, Senders, IntxInv, TypeOK, StagesOK
    <3> QED
      BY <1>3, <3>1, <3>2, <3>3 DEF UserMasks, Ioctl, user, IntxInv, TypeOK
  <2>2. StagesOK'
    BY <1>0, <1>3 DEF UserMasks, Ioctl, IntxMask, HwFollow, HwMask, hw, Shared, Stages,
      IntxInv, TypeOK, StagesOK
  <2>3. SharedAgrees'
    BY <1>0, <1>3 DEF UserMasks, Ioctl, IntxMask, HwFollow, HwMask, hw, Shared, Stages,
      IntxInv, TypeOK, StagesOK, SharedAgrees
  <2>4. ExclusiveCounts'
    BY <1>0, <1>3 DEF UserMasks, Ioctl, IntxMask, HwFollow, HwMask, hw, Shared, Stages,
      IntxInv, TypeOK, StagesOK, ExclusiveCounts
  <2>5. NoneForgotten'
    BY <1>0, <1>3 DEF UserMasks, Ioctl, IntxMask, HwFollow, HwMask, hw, Shared, Stages,
      IntxInv, TypeOK, StagesOK, NoneForgotten
  <2> QED
    BY <2>1, <2>2, <2>3, <2>4, <2>5 DEF IntxInv
<1>4. CASE UserUnmasks
  <2>1. TypeOK'
    <3>1. depth' \in 0..2
      BY <1>0, <1>4 DEF UserUnmasks, Ioctl, UnmaskHandler, HwFollow, Shared, hw,
        HwUnmask, Stages, Senders, IntxInv, TypeOK, StagesOK
    <3>2. masked' \in BOOLEAN /\ disIntx' \in BOOLEAN
      BY <1>0, <1>4 DEF UserUnmasks, Ioctl, UnmaskHandler, HwFollow, Shared, hw,
        HwUnmask, Stages, Senders, IntxInv, TypeOK, StagesOK
    <3>3. sending' \subseteq Senders
      BY <1>0, <1>4 DEF UserUnmasks, Ioctl, UnmaskHandler, HwFollow, Shared, hw,
        HwUnmask, Stages, Senders, IntxInv, TypeOK, StagesOK
    <3> QED
      BY <1>4, <3>1, <3>2, <3>3 DEF UserUnmasks, Ioctl, user, IntxInv, TypeOK
  <2>2. StagesOK'
    BY <1>0, <1>4 DEF UserUnmasks, Ioctl, UnmaskHandler, HwFollow, Shared, hw, HwUnmask,
      Stages, IntxInv, TypeOK, StagesOK
  <2>3. SharedAgrees'
    BY <1>0, <1>4 DEF UserUnmasks, Ioctl, UnmaskHandler, HwFollow, Shared, hw, HwUnmask,
      Stages, IntxInv, TypeOK, StagesOK, SharedAgrees
  <2>4. ExclusiveCounts'
    BY <1>0, <1>4 DEF UserUnmasks, Ioctl, UnmaskHandler, HwFollow, Shared, hw, HwUnmask,
      Stages, IntxInv, TypeOK, StagesOK, ExclusiveCounts
  <2>5. NoneForgotten'
    BY <1>0, <1>4 DEF UserUnmasks, Ioctl, UnmaskHandler, HwFollow, Shared, hw, HwUnmask,
      Stages, IntxInv, TypeOK, StagesOK, NoneForgotten
  <2> QED
    BY <2>1, <2>2, <2>3, <2>4, <2>5 DEF IntxInv
<1>5. ASSUME NEW on \in BOOLEAN, UnmaskFd(on) PROVE IntxInv'
  <2>1. TypeOK'
    BY <1>0, <1>5 DEF UnmaskFd, Ioctl, hw, Stages, Senders, IntxInv, TypeOK, StagesOK
  <2>2. StagesOK'
    BY <1>0, <1>5 DEF UnmaskFd, Ioctl, hw, Stages, IntxInv, TypeOK, StagesOK
  <2>3. SharedAgrees'
    BY <1>0, <1>5 DEF UnmaskFd, Ioctl, hw, Stages, IntxInv, TypeOK, StagesOK,
      SharedAgrees
  <2>4. ExclusiveCounts'
    BY <1>0, <1>5 DEF UnmaskFd, Ioctl, hw, Stages, IntxInv, TypeOK, StagesOK,
      ExclusiveCounts
  <2>5. NoneForgotten'
    BY <1>0, <1>5 DEF UnmaskFd, Ioctl, hw, Stages, IntxInv, TypeOK, StagesOK,
      NoneForgotten
  <2> QED
    BY <2>1, <2>2, <2>3, <2>4, <2>5 DEF IntxInv
<1>6. CASE Loopback
  <2>1. TypeOK'
    BY <1>0, <1>6 DEF Loopback, Ioctl, hw, Stages, Senders, IntxInv, TypeOK, StagesOK
  <2>2. StagesOK'
    BY <1>0, <1>6 DEF Loopback, Ioctl, hw, Stages, IntxInv, TypeOK, StagesOK
  <2>3. SharedAgrees'
    BY <1>0, <1>6 DEF Loopback, Ioctl, hw, Stages, IntxInv, TypeOK, StagesOK,
      SharedAgrees
  <2>4. ExclusiveCounts'
    BY <1>0, <1>6 DEF Loopback, Ioctl, hw, Stages, IntxInv, TypeOK, StagesOK,
      ExclusiveCounts
  <2>5. NoneForgotten'
    BY <1>0, <1>6 DEF Loopback, Ioctl, hw, Stages, IntxInv, TypeOK, StagesOK,
      NoneForgotten
  <2> QED
    BY <2>1, <2>2, <2>3, <2>4, <2>5 DEF IntxInv
<1>7. CASE IntxEnable
  <2>1. TypeOK'
    BY <1>0, <1>7 DEF IntxEnable, Ioctl, Go, hw, Stages, Senders, IntxInv, TypeOK,
      StagesOK
  <2>2. StagesOK'
    BY <1>0, <1>7 DEF IntxEnable, Ioctl, Go, hw, Stages, IntxInv, TypeOK, StagesOK
  <2>3. SharedAgrees'
    BY <1>0, <1>7 DEF IntxEnable, Ioctl, Go, hw, Stages, IntxInv, TypeOK, StagesOK,
      SharedAgrees
  <2>4. ExclusiveCounts'
    BY <1>0, <1>7 DEF IntxEnable, Ioctl, Go, hw, Stages, IntxInv, TypeOK, StagesOK,
      ExclusiveCounts
  <2>5. NoneForgotten'
    BY <1>0, <1>7 DEF IntxEnable, Ioctl, Go, hw, Stages, IntxInv, TypeOK, StagesOK,
      NoneForgotten
  <2> QED
    BY <2>1, <2>2, <2>3, <2>4, <2>5 DEF IntxInv
<1>8. ASSUME NEW fd \in {"exchange", "idle"}, Exchange(fd) PROVE IntxInv'
  <2>1. TypeOK'
    BY <1>0, <1>8 DEF Exchange, Ioctl, FreeIrq, Go, hw, Stages, Senders, IntxInv,
      TypeOK, StagesOK
  <2>2. StagesOK'
    BY <1>0, <1>8 DEF Exchange, Ioctl, FreeIrq, Go, hw, Stages, IntxInv, TypeOK,
      StagesOK
  <2>3. SharedAgrees'
    BY <1>0, <1>8 DEF Exchange, Ioctl, FreeIrq, Go, hw, Stages, IntxInv, TypeOK,
      StagesOK, SharedAgrees
  <2>4. ExclusiveCounts'
    BY <1>0, <1>8 DEF Exchange, Ioctl, FreeIrq, Go, hw, Stages, IntxInv, TypeOK,
      StagesOK, ExclusiveCounts
  <2>5. NoneForgotten'
    BY <1>0, <1>8 DEF Exchange, Ioctl, FreeIrq, Go, hw, Stages, IntxInv, TypeOK,
      StagesOK, NoneForgotten
  <2> QED
    BY <2>1, <2>2, <2>3, <2>4, <2>5 DEF IntxInv
<1>9. CASE RestoreMask
  <2>1. TypeOK'
    BY <1>0, <1>9 DEF RestoreMask, HwFollow, Go, InIoctl, Shared, hw, user, Stages,
      Senders, IntxInv, TypeOK, StagesOK
  <2>2. StagesOK'
    BY <1>0, <1>9 DEF RestoreMask, HwFollow, Go, InIoctl, Shared, hw, user, Stages,
      IntxInv, TypeOK, StagesOK
  <2>3. SharedAgrees'
    BY <1>0, <1>9 DEF RestoreMask, HwFollow, Go, InIoctl, Shared, hw, user, Stages,
      IntxInv, TypeOK, StagesOK, SharedAgrees
  <2>4. ExclusiveCounts'
    BY <1>0, <1>9 DEF RestoreMask, HwFollow, Go, InIoctl, Shared, hw, user, Stages,
      IntxInv, TypeOK, StagesOK, ExclusiveCounts
  <2>5. NoneForgotten'
    BY <1>0, <1>9 DEF RestoreMask, HwFollow, Go, InIoctl, Shared, hw, user, Stages,
      IntxInv, TypeOK, StagesOK, NoneForgotten
  <2> QED
    BY <2>1, <2>2, <2>3, <2>4, <2>5 DEF IntxInv
<1>10. CASE SetType
  <2>1. TypeOK'
    BY <1>0, <1>10 DEF SetType, Go, InIoctl, hw, user, Stages, Senders, IntxInv, TypeOK,
      StagesOK
  <2>2. StagesOK'
    BY <1>0, <1>10 DEF SetType, Go, InIoctl, hw, user, Stages, IntxInv, TypeOK, StagesOK
  <2>3. SharedAgrees'
    BY <1>0, <1>10 DEF SetType, Go, InIoctl, hw, user, Stages, IntxInv, TypeOK,
      StagesOK, SharedAgrees
  <2>4. ExclusiveCounts'
    BY <1>0, <1>10 DEF SetType, Go, InIoctl, hw, user, Stages, IntxInv, TypeOK,
      StagesOK, ExclusiveCounts
  <2>5. NoneForgotten'
    BY <1>0, <1>10 DEF SetType, Go, InIoctl, hw, user, Stages, IntxInv, TypeOK,
      StagesOK, NoneForgotten
  <2> QED
    BY <2>1, <2>2, <2>3, <2>4, <2>5 DEF IntxInv
<1>11. CASE Request
  <2>1. TypeOK'
    BY <1>0, <1>11 DEF Request, Go, InIoctl, user, Stages, Senders, IntxInv, TypeOK,
      StagesOK
  <2>2. StagesOK'
    BY <1>0, <1>11 DEF Request, Go, InIoctl, user, Stages, IntxInv, TypeOK, StagesOK
  <2>3. SharedAgrees'
    BY <1>0, <1>11 DEF Request, Go, InIoctl, user, Stages, IntxInv, TypeOK, StagesOK,
      SharedAgrees
  <2>4. ExclusiveCounts'
    BY <1>0, <1>11 DEF Request, Go, InIoctl, user, Stages, IntxInv, TypeOK, StagesOK,
      ExclusiveCounts
  <2>5. NoneForgotten'
    BY <1>0, <1>11 DEF Request, Go, InIoctl, user, Stages, IntxInv, TypeOK, StagesOK,
      NoneForgotten
  <2> QED
    BY <2>1, <2>2, <2>3, <2>4, <2>5 DEF IntxInv
<1>12. CASE RequestFails
  <2>1. TypeOK'
    BY <1>0, <1>12 DEF RequestFails, Go, InIoctl, hw, user, Stages, Senders, IntxInv,
      TypeOK, StagesOK
  <2>2. StagesOK'
    BY <1>0, <1>12 DEF RequestFails, Go, InIoctl, hw, user, Stages, IntxInv, TypeOK,
      StagesOK
  <2>3. SharedAgrees'
    BY <1>0, <1>12 DEF RequestFails, Go, InIoctl, hw, user, Stages, IntxInv, TypeOK,
      StagesOK, SharedAgrees
  <2>4. ExclusiveCounts'
    BY <1>0, <1>12 DEF RequestFails, Go, InIoctl, hw, user, Stages, IntxInv, TypeOK,
      StagesOK, ExclusiveCounts
  <2>5. NoneForgotten'
    BY <1>0, <1>12 DEF RequestFails, Go, InIoctl, hw, user, Stages, IntxInv, TypeOK,
      StagesOK, NoneForgotten
  <2> QED
    BY <2>1, <2>2, <2>3, <2>4, <2>5 DEF IntxInv
<1>13. CASE Remask
  <2>1. TypeOK'
    BY <1>0, <1>13 DEF Remask, Go, Shared, InIoctl, user, Stages, Senders, IntxInv,
      TypeOK, StagesOK,
      SharedAgrees, ExclusiveCounts
  <2>2. StagesOK'
    BY <1>0, <1>13 DEF Remask, Go, Shared, InIoctl, user, Stages, IntxInv, TypeOK,
      StagesOK
  <2>3. SharedAgrees'
    BY <1>0, <1>13 DEF Remask, Go, Shared, InIoctl, user, Stages, IntxInv, TypeOK,
      StagesOK, SharedAgrees
  <2>4. ExclusiveCounts'
    BY <1>0, <1>13 DEF Remask, Go, Shared, InIoctl, user, Stages, IntxInv, TypeOK,
      StagesOK, ExclusiveCounts
  <2>5. NoneForgotten'
    BY <1>0, <1>13 DEF Remask, Go, Shared, InIoctl, user, Stages, IntxInv, TypeOK,
      StagesOK, NoneForgotten
  <2> QED
    BY <2>1, <2>2, <2>3, <2>4, <2>5 DEF IntxInv
<1>14. CASE UserDisables
  <2>1. TypeOK'
    BY <1>0, <1>14 DEF UserDisables, Ioctl, Go, hw, Stages, Senders, IntxInv, TypeOK,
      StagesOK
  <2>2. StagesOK'
    BY <1>0, <1>14 DEF UserDisables, Ioctl, Go, hw, Stages, IntxInv, TypeOK, StagesOK
  <2>3. SharedAgrees'
    BY <1>0, <1>14 DEF UserDisables, Ioctl, Go, hw, Stages, IntxInv, TypeOK, StagesOK,
      SharedAgrees
  <2>4. ExclusiveCounts'
    BY <1>0, <1>14 DEF UserDisables, Ioctl, Go, hw, Stages, IntxInv, TypeOK, StagesOK,
      ExclusiveCounts
  <2>5. NoneForgotten'
    BY <1>0, <1>14 DEF UserDisables, Ioctl, Go, hw, Stages, IntxInv, TypeOK, StagesOK,
      NoneForgotten
  <2> QED
    BY <2>1, <2>2, <2>3, <2>4, <2>5 DEF IntxInv
<1>15. CASE DisableFd
  <2>1. TypeOK'
    BY <1>0, <1>15 DEF DisableFd, Go, InIoctl, hw, user, Stages, Senders, IntxInv,
      TypeOK, StagesOK
  <2>2. StagesOK'
    BY <1>0, <1>15 DEF DisableFd, Go, InIoctl, hw, user, Stages, IntxInv, TypeOK,
      StagesOK
  <2>3. SharedAgrees'
    BY <1>0, <1>15 DEF DisableFd, Go, InIoctl, hw, user, Stages, IntxInv, TypeOK,
      StagesOK, SharedAgrees
  <2>4. ExclusiveCounts'
    BY <1>0, <1>15 DEF DisableFd, Go, InIoctl, hw, user, Stages, IntxInv, TypeOK,
      StagesOK, ExclusiveCounts
  <2>5. NoneForgotten'
    BY <1>0, <1>15 DEF DisableFd, Go, InIoctl, hw, user, Stages, IntxInv, TypeOK,
      StagesOK, NoneForgotten
  <2> QED
    BY <2>1, <2>2, <2>3, <2>4, <2>5 DEF IntxInv
<1>16. CASE DisableIrq
  <2>1. TypeOK'
    BY <1>0, <1>16 DEF DisableIrq, FreeIrq, Go, InIoctl, hw, user, Stages, Senders,
      IntxInv, TypeOK, StagesOK
  <2>2. StagesOK'
    BY <1>0, <1>16 DEF DisableIrq, FreeIrq, Go, InIoctl, hw, user, Stages, IntxInv,
      TypeOK, StagesOK
  <2>3. SharedAgrees'
    BY <1>0, <1>16 DEF DisableIrq, FreeIrq, Go, InIoctl, hw, user, Stages, IntxInv,
      TypeOK, StagesOK, SharedAgrees
  <2>4. ExclusiveCounts'
    BY <1>0, <1>16 DEF DisableIrq, FreeIrq, Go, InIoctl, hw, user, Stages, IntxInv,
      TypeOK, StagesOK, ExclusiveCounts
  <2>5. NoneForgotten'
    BY <1>0, <1>16 DEF DisableIrq, FreeIrq, Go, InIoctl, hw, user, Stages, IntxInv,
      TypeOK, StagesOK, NoneForgotten
  <2> QED
    BY <2>1, <2>2, <2>3, <2>4, <2>5 DEF IntxInv
<1>17. CASE FdUnmasks
  <2>1. TypeOK'
    <3>1. depth' \in 0..2
      BY <1>0, <1>17 DEF FdUnmasks, UnmaskHandler, HwFollow, Shared, hw, HwUnmask,
        Stages, Senders, IntxInv, TypeOK, StagesOK
    <3>2. masked' \in BOOLEAN /\ disIntx' \in BOOLEAN
      BY <1>0, <1>17 DEF FdUnmasks, UnmaskHandler, HwFollow, Shared, hw, HwUnmask,
        Stages, Senders, IntxInv, TypeOK, StagesOK
    <3>3. sending' \subseteq Senders
      BY <1>0, <1>17 DEF FdUnmasks, UnmaskHandler, HwFollow, Shared, hw, HwUnmask,
        Stages, Senders, IntxInv, TypeOK, StagesOK
    <3> QED
      BY <1>17, <3>1, <3>2, <3>3 DEF FdUnmasks, Ioctl, user, IntxInv, TypeOK
  <2>2. StagesOK'
    BY <1>0, <1>17 DEF FdUnmasks, UnmaskHandler, HwFollow, Shared, hw, HwUnmask, Stages,
      IntxInv, TypeOK, StagesOK
  <2>3. SharedAgrees'
    BY <1>0, <1>17 DEF FdUnmasks, UnmaskHandler, HwFollow, Shared, hw, HwUnmask, Stages,
      IntxInv, TypeOK, StagesOK, SharedAgrees
  <2>4. ExclusiveCounts'
    BY <1>0, <1>17 DEF FdUnmasks, UnmaskHandler, HwFollow, Shared, hw, HwUnmask, Stages,
      IntxInv, TypeOK, StagesOK, ExclusiveCounts
  <2>5. NoneForgotten'
    BY <1>0, <1>17 DEF FdUnmasks, UnmaskHandler, HwFollow, Shared, hw, HwUnmask, Stages,
      IntxInv, TypeOK, StagesOK, NoneForgotten
  <2> QED
    BY <2>1, <2>2, <2>3, <2>4, <2>5 DEF IntxInv
<1>18. ASSUME NEW v \in BOOLEAN, WriteIntxDisable(v) PROVE IntxInv'
  <2>1. TypeOK'
    BY <1>0, <1>18 DEF WriteIntxDisable, hw, user, Stages, Senders, IntxInv, TypeOK,
      StagesOK
  <2>2. StagesOK'
    BY <1>0, <1>18 DEF WriteIntxDisable, hw, user, Stages, IntxInv, TypeOK, StagesOK
  <2>3. SharedAgrees'
    BY <1>0, <1>18 DEF WriteIntxDisable, hw, user, Stages, IntxInv, TypeOK, StagesOK,
      SharedAgrees
  <2>4. ExclusiveCounts'
    BY <1>0, <1>18 DEF WriteIntxDisable, hw, user, Stages, IntxInv, TypeOK, StagesOK,
      ExclusiveCounts
  <2>5. NoneForgotten'
    BY <1>0, <1>18 DEF WriteIntxDisable, hw, user, Stages, IntxInv, TypeOK, StagesOK,
      NoneForgotten
  <2> QED
    BY <2>1, <2>2, <2>3, <2>4, <2>5 DEF IntxInv
<1>19. CASE ConfigMasks
  <2>1. TypeOK'
    <3>1. depth' \in 0..2
      BY <1>0, <1>19 DEF ConfigMasks, IntxMask, user, HwFollow, HwMask, hw, Shared,
        Stages, Senders, IntxInv, TypeOK, StagesOK,
        SharedAgrees, ExclusiveCounts
    <3>2. masked' \in BOOLEAN /\ disIntx' \in BOOLEAN
      BY <1>0, <1>19 DEF ConfigMasks, IntxMask, user, HwFollow, HwMask, hw, Shared,
        Stages, Senders, IntxInv, TypeOK, StagesOK
    <3>3. sending' \subseteq Senders
      BY <1>0, <1>19 DEF ConfigMasks, IntxMask, user, HwFollow, HwMask, hw, Shared,
        Stages, Senders, IntxInv, TypeOK, StagesOK
    <3> QED
      BY <1>19, <3>1, <3>2, <3>3 DEF ConfigMasks, Ioctl, user, IntxInv, TypeOK
  <2>2. StagesOK'
    BY <1>0, <1>19 DEF ConfigMasks, IntxMask, user, HwFollow, HwMask, hw, Shared,
      Stages, IntxInv, TypeOK, StagesOK
  <2>3. SharedAgrees'
    BY <1>0, <1>19 DEF ConfigMasks, IntxMask, user, HwFollow, HwMask, hw, Shared,
      Stages, IntxInv, TypeOK, StagesOK, SharedAgrees
  <2>4. ExclusiveCounts'
    BY <1>0, <1>19 DEF ConfigMasks, IntxMask, user, HwFollow, HwMask, hw, Shared,
      Stages, IntxInv, TypeOK, StagesOK, ExclusiveCounts
  <2>5. NoneForgotten'
    BY <1>0, <1>19 DEF ConfigMasks, IntxMask, user, HwFollow, HwMask, hw, Shared,
      Stages, IntxInv, TypeOK, StagesOK, NoneForgotten
  <2> QED
    BY <2>1, <2>2, <2>3, <2>4, <2>5 DEF IntxInv
<1>20. CASE ConfigUnmasks
  <2>1. TypeOK'
    <3>1. depth' \in 0..2
      BY <1>0, <1>20 DEF ConfigUnmasks, UnmaskHandler, HwFollow, Shared, hw, HwUnmask,
        Stages, Senders, IntxInv, TypeOK, StagesOK
    <3>2. masked' \in BOOLEAN /\ disIntx' \in BOOLEAN
      BY <1>0, <1>20 DEF ConfigUnmasks, UnmaskHandler, HwFollow, Shared, hw, HwUnmask,
        Stages, Senders, IntxInv, TypeOK, StagesOK
    <3>3. sending' \subseteq Senders
      BY <1>0, <1>20 DEF ConfigUnmasks, UnmaskHandler, HwFollow, Shared, hw, HwUnmask,
        Stages, Senders, IntxInv, TypeOK, StagesOK
    <3> QED
      BY <1>20, <3>1, <3>2, <3>3 DEF ConfigUnmasks, Ioctl, user, IntxInv, TypeOK
  <2>2. StagesOK'
    BY <1>0, <1>20 DEF ConfigUnmasks, UnmaskHandler, HwFollow, Shared, hw, HwUnmask,
      Stages, IntxInv, TypeOK, StagesOK
  <2>3. SharedAgrees'
    BY <1>0, <1>20 DEF ConfigUnmasks, UnmaskHandler, HwFollow, Shared, hw, HwUnmask,
      Stages, IntxInv, TypeOK, StagesOK, SharedAgrees
  <2>4. ExclusiveCounts'
    BY <1>0, <1>20 DEF ConfigUnmasks, UnmaskHandler, HwFollow, Shared, hw, HwUnmask,
      Stages, IntxInv, TypeOK, StagesOK, ExclusiveCounts
  <2>5. NoneForgotten'
    BY <1>0, <1>20 DEF ConfigUnmasks, UnmaskHandler, HwFollow, Shared, hw, HwUnmask,
      Stages, IntxInv, TypeOK, StagesOK, NoneForgotten
  <2> QED
    BY <2>1, <2>2, <2>3, <2>4, <2>5 DEF IntxInv
<1>21. CASE Assert
  <2>1. TypeOK'
    BY <1>0, <1>21 DEF Assert, quiet, hw, Stages, Senders, IntxInv, TypeOK, StagesOK
  <2>2. StagesOK'
    BY <1>0, <1>21 DEF Assert, quiet, hw, Stages, IntxInv, TypeOK, StagesOK
  <2>3. SharedAgrees'
    BY <1>0, <1>21 DEF Assert, quiet, hw, Stages, IntxInv, TypeOK, StagesOK,
      SharedAgrees
  <2>4. ExclusiveCounts'
    BY <1>0, <1>21 DEF Assert, quiet, hw, Stages, IntxInv, TypeOK, StagesOK,
      ExclusiveCounts
  <2>5. NoneForgotten'
    BY <1>0, <1>21 DEF Assert, quiet, hw, Stages, IntxInv, TypeOK, StagesOK,
      NoneForgotten
  <2> QED
    BY <2>1, <2>2, <2>3, <2>4, <2>5 DEF IntxInv
<1>22. CASE Deassert
  <2>1. TypeOK'
    BY <1>0, <1>22 DEF Deassert, quiet, hw, Stages, Senders, IntxInv, TypeOK, StagesOK
  <2>2. StagesOK'
    BY <1>0, <1>22 DEF Deassert, quiet, hw, Stages, IntxInv, TypeOK, StagesOK
  <2>3. SharedAgrees'
    BY <1>0, <1>22 DEF Deassert, quiet, hw, Stages, IntxInv, TypeOK, StagesOK,
      SharedAgrees
  <2>4. ExclusiveCounts'
    BY <1>0, <1>22 DEF Deassert, quiet, hw, Stages, IntxInv, TypeOK, StagesOK,
      ExclusiveCounts
  <2>5. NoneForgotten'
    BY <1>0, <1>22 DEF Deassert, quiet, hw, Stages, IntxInv, TypeOK, StagesOK,
      NoneForgotten
  <2> QED
    BY <2>1, <2>2, <2>3, <2>4, <2>5 DEF IntxInv
<1>23. CASE Read
  <2>1. TypeOK'
    BY <1>0, <1>23 DEF Read, quiet, hw, Stages, Senders, IntxInv, TypeOK, StagesOK
  <2>2. StagesOK'
    BY <1>0, <1>23 DEF Read, quiet, hw, Stages, IntxInv, TypeOK, StagesOK
  <2>3. SharedAgrees'
    BY <1>0, <1>23 DEF Read, quiet, hw, Stages, IntxInv, TypeOK, StagesOK, SharedAgrees
  <2>4. ExclusiveCounts'
    BY <1>0, <1>23 DEF Read, quiet, hw, Stages, IntxInv, TypeOK, StagesOK,
      ExclusiveCounts
  <2>5. NoneForgotten'
    BY <1>0, <1>23 DEF Read, quiet, hw, Stages, IntxInv, TypeOK, StagesOK, NoneForgotten
  <2> QED
    BY <2>1, <2>2, <2>3, <2>4, <2>5 DEF IntxInv
<1>24. CASE ReadCommand
  <2>1. TypeOK'
    BY <1>0, <1>24 DEF ReadCommand, hw, user, Stages, Senders, IntxInv, TypeOK,
      StagesOK
  <2>2. StagesOK'
    BY <1>0, <1>24 DEF ReadCommand, hw, user, Stages, IntxInv, TypeOK, StagesOK
  <2>3. SharedAgrees'
    BY <1>0, <1>24 DEF ReadCommand, hw, user, Stages, IntxInv, TypeOK, StagesOK,
      SharedAgrees
  <2>4. ExclusiveCounts'
    BY <1>0, <1>24 DEF ReadCommand, hw, user, Stages, IntxInv, TypeOK, StagesOK,
      ExclusiveCounts
  <2>5. NoneForgotten'
    BY <1>0, <1>24 DEF ReadCommand, hw, user, Stages, IntxInv, TypeOK, StagesOK,
      NoneForgotten
  <2> QED
    BY <2>1, <2>2, <2>3, <2>4, <2>5 DEF IntxInv
<1>25. CASE WriteCommand
  <2>1. TypeOK'
    BY <1>0, <1>25 DEF WriteCommand, hw, user, Stages, Senders, IntxInv, TypeOK,
      StagesOK
  <2>2. StagesOK'
    BY <1>0, <1>25 DEF WriteCommand, hw, user, Stages, IntxInv, TypeOK, StagesOK
  <2>3. SharedAgrees'
    BY <1>0, <1>25 DEF WriteCommand, hw, user, Stages, IntxInv, TypeOK, StagesOK,
      SharedAgrees
  <2>4. ExclusiveCounts'
    BY <1>0, <1>25 DEF WriteCommand, hw, user, Stages, IntxInv, TypeOK, StagesOK,
      ExclusiveCounts
  <2>5. NoneForgotten'
    BY <1>0, <1>25 DEF WriteCommand, hw, user, Stages, IntxInv, TypeOK, StagesOK,
      NoneForgotten
  <2> QED
    BY <2>1, <2>2, <2>3, <2>4, <2>5 DEF IntxInv
<1>26. CASE UNCHANGED vars
  BY <1>26 DEF vars, hw, user, IntxInv, TypeOK, StagesOK, SharedAgrees, ExclusiveCounts,
     NoneForgotten
<1> QED
  BY <1>1, <1>2, <1>3, <1>4, <1>5, <1>6, <1>7, <1>8, <1>9, <1>10, <1>11, <1>12, <1>13,
     <1>14, <1>15, <1>16, <1>17, <1>18, <1>19, <1>20, <1>21, <1>22, <1>23, <1>24, <1>25,
     <1>26 DEF Next, Driver

\* The invariant holds all along.
LEMMA IntxAlways == Spec => []IntxInv
BY InitIntx, IntxStep, PTL DEF Spec

\* The type of the state; an irq is disabled twice at the most.
THEOREM IntxTypes == Spec => []TypeOK
<1>1. IntxInv => TypeOK
  BY DEF IntxInv
<1> QED
  BY <1>1, IntxAlways, PTL

\* What vfio believes masked is masked in the hardware, whichever of the user, the
\* unmask eventfd, config space and an exchange of the trigger came last, if no
\* command register of a device that masks itself is torn.
THEOREM FlagMasks == ASSUME "shared" \notin Torn PROVE Spec => []MaskedIsMasked
<1>1. IntxInv => MaskedIsMasked
  <2> SUFFICES ASSUME IntxInv, Steady, masked PROVE HwMasked
    BY DEF MaskedIsMasked
  <2> QED
    BY Overlaps DEF IntxInv, Steady, HwMasked, Shared, SharedAgrees, ExclusiveCounts
<1> QED
  BY <1>1, IntxAlways, PTL

\* A device that masks itself can interrupt whenever the flag says so.
THEOREM FlagIsLive == ASSUME "shared" \notin Torn PROVE Spec => []SharedIsLive
<1>1. IntxInv => SharedIsLive
  BY DEF IntxInv, SharedIsLive, Steady, HwMasked, Shared, SharedAgrees
<1> QED
  BY <1>1, IntxAlways, PTL

\* The masking by the handler is answered by a notification or an unmask, although
\* the notification is sent after irqlock was dropped.
THEOREM MaskIsKnown == Spec => []NotForgotten
<1>1. IntxInv => NotForgotten
  BY DEF IntxInv, NotForgotten, Steady, NoneForgotten
<1> QED
  BY <1>1, IntxAlways, PTL

=============================================================================
