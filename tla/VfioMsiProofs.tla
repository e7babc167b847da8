---------------------------- MODULE VfioMsiProofs ----------------------------
(***************************************************************************)
(* Proofs about VfioMsi, for any eventfds and any number of vectors: the   *)
(* references of the eventfds balance on every path, a handler signals     *)
(* only what is held, and a call that fails undoes what it did.            *)
(***************************************************************************)
EXTENDS VfioMsi, FiniteSetTheorems, TLAPS

\* Where a call is: within its block, which is within the vectors; what it turns
\* off it turns off from vector 0 on.
CallOK ==
  /\ op \in {"set", "roll"} =>
       open /\ type \in Types /\ block[1] <= j /\ j <= block[2] /\ block[2] < num
  /\ op = "off" =>
       type \in Types /\ j < num /\ \A v \in Vectors : v < j => trigger[v] = None
  /\ op = "vectors" => \A v \in Vectors : trigger[v] = None
  /\ half => op \in {"set", "roll", "off"} /\ trigger[j] # None
  /\ IF type \in Types THEN num > 0 ELSE num = 0 /\ op = "idle"
  /\ ~open /\ op = "idle" => type = "none"

\* A vector has a handler for its trigger but where a call has just freed it.
HandlersOK ==
  \A v \in Vectors :
    /\ irq[v] = IF half /\ v = j THEN None ELSE trigger[v]
    /\ v \in producers => irq[v] # None
    /\ v >= num => trigger[v] = None

\* What a call has not reached is as it was; the roll-back leaves none behind it.
UndoOK ==
  /\ op = "set" =>
       ~failed /\ \A v \in Vectors : v < block[1] \/ v > j => trigger[v] = before[v]
  /\ op = "roll" => \A v \in Vectors :
       /\ v < block[1] \/ v > block[2] => trigger[v] = before[v]
       /\ v > j => trigger[v] = before[v] \/ trigger[v] = None
  /\ op \in {"off", "vectors"} /\ failed => fresh
  /\ op # "idle" /\ fresh => \A v \in Vectors : before[v] = None

\* The inductive invariant.
MsiInv == TypeOK /\ Balanced /\ CallOK /\ HandlersOK /\ UndoOK /\ FailedSetsNothing

USE DEF Vectors, Types

-----------------------------------------------------------------------------
(* Counting the places an eventfd is kept in *)

Count(D, f, y) == Cardinality({v \in D : f[v] = y})
Maps(f, D, S)  == f \in [D -> S]
With(f, d, x)  == [f EXCEPT ![d] = x]

\* One value of a function is exchanged.
LEMMA Recount ==
  ASSUME NEW D, IsFiniteSet(D), NEW S, NEW f, Maps(f, D, S), NEW d \in D, NEW x \in S,
         NEW y
  PROVE  /\ Count(D, f, y) \in Nat
         /\ f[d] = y => Count(D, f, y) > 0
         /\ Count(D, With(f, d, x), y) =
              Count(D, f, y) + (IF x = y THEN 1 ELSE 0) - (IF f[d] = y THEN 1 ELSE 0)
<1> DEFINE Of(g) == {v \in D : g[v] = y}
           rest == Of(f) \ {d}
           g == With(f, d, x)
<1>1. IsFiniteSet(rest) /\ IsFiniteSet(Of(f))
  BY FS_Subset, Of(f) \subseteq D, rest \subseteq D
<1>2. Cardinality(rest \cup {d}) = Cardinality(rest) + 1 /\ Cardinality(rest) \in Nat
  BY <1>1, FS_AddElement, FS_CardinalityType, d \notin rest
<1>3. Of(f) = IF f[d] = y THEN rest \cup {d} ELSE rest
  OBVIOUS
<1>4. Of(g) = IF x = y THEN rest \cup {d} ELSE rest
  BY DEF Maps, With
<1>5. Count(D, f, y) = Cardinality(Of(f)) /\ Count(D, g, y) = Cardinality(Of(g))
  BY DEF Count
<1> HIDE DEF rest, g, Of
<1>6. Cardinality(Of(f)) = Cardinality(rest) + (IF f[d] = y THEN 1 ELSE 0)
  BY <1>2, <1>3
<1>7. Cardinality(Of(g)) = Cardinality(rest) + (IF x = y THEN 1 ELSE 0)
  BY <1>2, <1>4
<1> QED
  BY <1>2, <1>5, <1>6, <1>7 DEF g

\* There are finitely many places to keep an eventfd in.
LEMMA FiniteVectors == IsFiniteSet(Vectors) /\ IsFiniteSet(Singles)
<1>1. IsFiniteSet(Vectors)
  BY FS_Interval, IrqsAssumption
<1>2. IsFiniteSet(Singles)
  <2>1. Singles = ({} \cup {"err"}) \cup {"req"}
    BY DEF Singles
  <2> QED
    BY <2>1, FS_EmptySet, FS_AddElement
<1> QED
  BY <1>1, <1>2

\* The balance of an eventfd that takes a place and of the one it replaces.
Exchanged(new, old) == refs' = Put(IF new = None THEN refs ELSE Take(refs, new), old)

\* Balanced, in terms of Count.
LEMMA BalanceCounts ==
  TypeOK /\ Balanced <=>
    TypeOK /\ \A y \in Fds : refs[y] = Count(Vectors, trigger, y) + Count(Singles, single, y)
BY DEF Balanced, Count

\* eventfd_ctx_fdget of one and eventfd_ctx_put of another, which may be the same.
LEMMA ExchangedRefs ==
  ASSUME refs \in [Fds -> Nat], NEW x \in Fds \cup {None}, NEW z \in Fds \cup {None},
         Exchanged(x, z)
  PROVE  /\ refs' = [y \in Fds |-> refs'[y]]
         /\ \A y \in Fds : refs'[y] = refs[y] + (IF x = y THEN 1 ELSE 0)
                                              - (IF z = y THEN 1 ELSE 0)
<1> DEFINE held == IF x = None THEN refs ELSE Take(refs, x)
<1>1. /\ held \in [Fds -> Nat]
      /\ \A y \in Fds : held[y] = refs[y] + (IF x = y THEN 1 ELSE 0)
  <2>1. CASE x = None
    BY <2>1, NoneAssumption
  <2>2. CASE x # None
    BY <2>2 DEF Take
  <2> QED
    BY <2>1, <2>2
<1>2. refs' = Put(held, z)
  BY DEF Exchanged
<1> HIDE DEF held
<1>3. CASE z = None
  BY <1>1, <1>2, <1>3, NoneAssumption DEF Put
<1>4. CASE z # None
  <2>1. refs' = [held EXCEPT ![z] = @ - 1]
    BY <1>2, <1>4 DEF Put
  <2>2. \A y \in Fds : refs'[y] = held[y] - (IF z = y THEN 1 ELSE 0)
    BY <1>1, <2>1
  <2>3. refs' = [y \in Fds |-> refs'[y]]
    BY <1>1, <2>1
  <2>4. ASSUME NEW y \in Fds
        PROVE  refs'[y] = refs[y] + (IF x = y THEN 1 ELSE 0) - (IF z = y THEN 1 ELSE 0)
    BY <1>1, <2>2
  <2> QED
    BY <2>3, <2>4
<1> QED
  BY <1>3, <1>4

\* A vector takes another trigger, or none.
LEMMA VectorExchange ==
  ASSUME TypeOK, Balanced, NEW v \in Vectors, NEW x \in Fds \cup {None},
         trigger' = [trigger EXCEPT ![v] = x], single' = single, Exchanged(x, trigger[v])
  PROVE  Balanced' /\ refs' \in [Fds -> Nat]
<1>1. /\ trigger \in [Vectors -> Fds \cup {None}] /\ refs \in [Fds -> Nat]
      /\ single \in [Singles -> Fds \cup {None}]
  BY DEF TypeOK
<1>2. /\ refs' = [y \in Fds |-> refs'[y]]
      /\ \A y \in Fds : refs'[y] = refs[y] + (IF x = y THEN 1 ELSE 0)
                                           - (IF trigger[v] = y THEN 1 ELSE 0)
  BY <1>1, ExchangedRefs
<1> HIDE DEF Vectors
<1>3. ASSUME NEW y \in Fds
      PROVE  refs'[y] = Count(Vectors, trigger', y) + Count(Singles, single', y)
             /\ refs'[y] \in Nat
  <2>1. /\ Count(Vectors, trigger, y) \in Nat
        /\ trigger[v] = y => Count(Vectors, trigger, y) > 0
        /\ Count(Vectors, trigger', y) =
             Count(Vectors, trigger, y) + (IF x = y THEN 1 ELSE 0)
                                        - (IF trigger[v] = y THEN 1 ELSE 0)
    <3> DEFINE S == Fds \cup {None}
    <3>1. IsFiniteSet(Vectors) /\ Maps(trigger, Vectors, S) /\ v \in Vectors /\ x \in S
      BY <1>1, FiniteVectors DEF Maps
    <3> HIDE DEF S
    <3>2. /\ Count(Vectors, trigger, y) \in Nat
          /\ trigger[v] = y => Count(Vectors, trigger, y) > 0
          /\ Count(Vectors, With(trigger, v, x), y) =
               Count(Vectors, trigger, y) + (IF x = y THEN 1 ELSE 0)
                 - (IF trigger[v] = y THEN 1 ELSE 0)
      BY <3>1, Recount
    <3> QED
      BY <3>2 DEF With
  <2>2. Count(Singles, single, y) \in Nat
    BY FiniteVectors, FS_Subset, FS_CardinalityType DEF Count
  <2>3. refs[y] = Count(Vectors, trigger, y) + Count(Singles, single, y)
    BY BalanceCounts
  <2> QED
    BY <1>2, <2>1, <2>2, <2>3
<1> QED
  BY <1>2, <1>3 DEF Balanced, Count

\* The same of err_trigger and req_trigger.
LEMMA SingleExchange ==
  ASSUME TypeOK, Balanced, NEW which \in Singles, NEW x \in Fds \cup {None},
         single' = [single EXCEPT ![which] = x], trigger' = trigger,
         Exchanged(x, single[which])
  PROVE  Balanced' /\ refs' \in [Fds -> Nat]
<1>1. /\ trigger \in [Vectors -> Fds \cup {None}] /\ refs \in [Fds -> Nat]
      /\ single \in [Singles -> Fds \cup {None}]
  BY DEF TypeOK
<1>2. /\ refs' = [y \in Fds |-> refs'[y]]
      /\ \A y \in Fds : refs'[y] = refs[y] + (IF x = y THEN 1 ELSE 0)
                                           - (IF single[which] = y THEN 1 ELSE 0)
  BY <1>1, ExchangedRefs
<1> HIDE DEF Vectors
<1>3. ASSUME NEW y \in Fds
      PROVE  refs'[y] = Count(Vectors, trigger', y) + Count(Singles, single', y)
             /\ refs'[y] \in Nat
  <2>1. /\ Count(Singles, single, y) \in Nat
        /\ single[which] = y => Count(Singles, single, y) > 0
        /\ Count(Singles, single', y) =
             Count(Singles, single, y) + (IF x = y THEN 1 ELSE 0)
                                       - (IF single[which] = y THEN 1 ELSE 0)
    <3> DEFINE S == Fds \cup {None}
    <3>1. IsFiniteSet(Singles) /\ Maps(single, Singles, S) /\ which \in Singles /\ x \in S
      BY <1>1, FiniteVectors DEF Maps
    <3> HIDE DEF S
    <3>2. /\ Count(Singles, single, y) \in Nat
          /\ single[which] = y => Count(Singles, single, y) > 0
          /\ Count(Singles, With(single, which, x), y) =
               Count(Singles, single, y) + (IF x = y THEN 1 ELSE 0)
                 - (IF single[which] = y THEN 1 ELSE 0)
      BY <3>1, Recount
    <3> QED
      BY <3>2 DEF With
  <2>2. Count(Vectors, trigger, y) \in Nat
    BY FiniteVectors, FS_Subset, FS_CardinalityType DEF Count
  <2>3. refs[y] = Count(Vectors, trigger, y) + Count(Singles, single, y)
    BY BalanceCounts
  <2> QED
    BY <1>2, <2>1, <2>2, <2>3
<1> QED
  BY <1>2, <1>3 DEF Balanced, Count

-----------------------------------------------------------------------------
(* The steps *)

\* Before the first open nothing is held.
LEMMA InitMsi == Init => MsiInv
<1> SUFFICES ASSUME Init PROVE MsiInv
  OBVIOUS
<1>1. TypeOK
  <2>1. trigger \in [Vectors -> Fds \cup {None}] /\ irq = trigger /\ before = trigger
    BY DEF Init, Off
  <2>2. 0 \in Vectors /\ num \in 0..Irqs
    BY IrqsAssumption DEF Init
  <2>3. single \in [Singles -> Fds \cup {None}] /\ refs \in [Fds -> Nat]
    BY DEF Init
  <2> HIDE DEF Vectors
  <2> QED
    BY <2>1, <2>2, <2>3 DEF Init, TypeOK
<1>2. Balanced
  <2>1. \A fd \in Fds : {v \in Vectors : trigger[v] = fd} = {}
    BY NoneAssumption DEF Init, Off
  <2>2. \A fd \in Fds : {which \in Singles : single[which] = fd} = {}
    BY NoneAssumption DEF Init
  <2>3. \A fd \in Fds : Count(Vectors, trigger, fd) = 0 /\ Count(Singles, single, fd) = 0
    BY <2>1, <2>2, FS_EmptySet DEF Count
  <2>4. \A fd \in Fds : refs[fd] = 0
    BY DEF Init
  <2> QED
    BY <1>1, <2>3, <2>4, BalanceCounts
<1>3. CallOK /\ HandlersOK /\ UndoOK /\ FailedSetsNothing
  BY DEF Init, CallOK, HandlersOK, UndoOK, FailedSetsNothing, Off
<1> QED
  BY <1>1, <1>2, <1>3 DEF MsiInv

\* set_ctx_trigger_single keeps the balance.
LEMMA SingleKept ==
  ASSUME MsiInv, NEW which \in Singles, NEW fd \in Fds \cup {None}, SetSingle(which, fd)
  PROVE  Balanced' /\ refs' \in [Fds -> Nat]
<1>1. /\ single' = [single EXCEPT ![which] = fd]
      /\ refs' = Put(IF fd = None THEN refs ELSE Take(refs, fd), single[which])
      /\ trigger' = trigger
  BY DEF SetSingle, vectors
<1> QED
  BY <1>1, SingleExchange DEF Exchanged, MsiInv

\* The types of what a call begins with.
LEMMA StartsTypes ==
  ASSUME TypeOK, NEW k \in {"set", "off"}, NEW first \in Vectors, NEW last \in Vectors,
         Starts(k, first, last)
  PROVE  /\ op' \in {"idle", "set", "roll", "off", "vectors"}
         /\ block' \in Vectors \X Vectors /\ j' \in Vectors
         /\ half' \in BOOLEAN /\ failed' \in BOOLEAN
         /\ before' \in [Vectors -> Fds \cup {None}]
<1> HIDE DEF Vectors
<1> QED
  BY DEF TypeOK, Starts

\* vfio_msi_disable goes through the vectors there are.
LEMMA OffTypes ==
  ASSUME TypeOK, CallOK, DisablesVectors, open' \in BOOLEAN
  PROVE  TypeOK'
<1>1. num - 1 \in Vectors /\ 0 \in Vectors
  BY IrqsAssumption DEF TypeOK, CallOK, DisablesVectors
<1>2. Starts("off", 0, num - 1)
  BY DEF DisablesVectors
<1> HIDE DEF Vectors
<1>3. /\ op' \in {"idle", "set", "roll", "off", "vectors"}
      /\ block' \in Vectors \X Vectors /\ j' \in Vectors
      /\ half' \in BOOLEAN /\ failed' \in BOOLEAN
      /\ before' \in [Vectors -> Fds \cup {None}]
  BY <1>1, <1>2, StartsTypes
<1> QED
  BY <1>3 DEF DisablesVectors, vectors, TypeOK

\* Every step of the calls keeps the invariant.
LEMMA MsiStep == MsiInv /\ [Next]_vars => MsiInv'
<1> SUFFICES ASSUME MsiInv, [Next]_vars PROVE MsiInv'
  OBVIOUS
<1>1. ASSUME NEW t \in Types, NEW first \in Vectors, NEW last \in Vectors, first <= last,
             MsiEnable(t, first, last)
      PROVE  MsiInv'
  <2>1. TypeOK'
    <3>1. /\ op' \in {"idle", "set", "roll", "off", "vectors"}
          /\ block' \in Vectors \X Vectors /\ j' \in Vectors
          /\ half' \in BOOLEAN /\ failed' \in BOOLEAN
          /\ before' \in [Vectors -> Fds \cup {None}]
      BY <1>1, StartsTypes DEF MsiEnable, MsiInv
    <3>2. num' \in 0..Irqs
      BY <1>1, IrqsAssumption DEF MsiEnable
    <3> HIDE DEF Vectors
    <3> QED
      BY <1>1, <3>1, <3>2 DEF MsiEnable, vectors, MsiInv, TypeOK
  <2>2. Balanced'
    BY <1>1 DEF MsiEnable, Ioctl, Starts, vectors, MsiInv, Balanced
  <2>3. CallOK'
    BY <1>1, IrqsAssumption DEF MsiEnable, Ioctl, Starts, vectors, MsiInv, TypeOK,
      CallOK, HandlersOK
  <2>4. HandlersOK'
    BY <1>1, IrqsAssumption DEF MsiEnable, Ioctl, Starts, vectors, MsiInv, TypeOK,
      CallOK, HandlersOK
  <2>5. UndoOK'
    BY <1>1, IrqsAssumption DEF MsiEnable, Ioctl, Starts, vectors, MsiInv, TypeOK,
      CallOK, UndoOK, HandlersOK
  <2>6. FailedSetsNothing'
    BY <1>1, IrqsAssumption DEF MsiEnable, Ioctl, Starts, vectors, MsiInv, TypeOK,
      CallOK, FailedSetsNothing, UndoOK
  <2> QED
    BY <2>1, <2>2, <2>3, <2>4, <2>5, <2>6 DEF MsiInv
<1>2. ASSUME NEW first \in Vectors, NEW last \in Vectors, first <= last,
             SetBlock(first, last)
      PROVE  MsiInv'
  <2>1. TypeOK'
    BY <1>2, IrqsAssumption DEF SetBlock, Ioctl, Starts, vectors, MsiInv, TypeOK, CallOK
  <2>2. Balanced'
    BY <1>2 DEF SetBlock, Ioctl, Starts, vectors, MsiInv, Balanced
  <2>3. CallOK'
    BY <1>2, IrqsAssumption DEF SetBlock, Ioctl, Starts, vectors, MsiInv, TypeOK,
      CallOK, HandlersOK
  <2>4. HandlersOK'
    BY <1>2, IrqsAssumption DEF SetBlock, Ioctl, Starts, vectors, MsiInv, TypeOK,
      CallOK, HandlersOK
  <2>5. UndoOK'
    BY <1>2, IrqsAssumption DEF SetBlock, Ioctl, Starts, vectors, MsiInv, TypeOK,
      CallOK, UndoOK, HandlersOK
  <2>6. FailedSetsNothing'
    BY <1>2, IrqsAssumption DEF SetBlock, Ioctl, Starts, vectors, MsiInv, TypeOK,
      CallOK, FailedSetsNothing, UndoOK
  <2> QED
    BY <2>1, <2>2, <2>3, <2>4, <2>5, <2>6 DEF MsiInv
<1>3. CASE MsiDisable
  <2>1. TypeOK'
    BY <1>3, OffTypes DEF MsiDisable, MsiInv, TypeOK
  <2>2. Balanced'
    BY <1>3 DEF MsiDisable, Ioctl, DisablesVectors, Starts, vectors, MsiInv, Balanced
  <2>3. CallOK'
    BY <1>3, IrqsAssumption DEF MsiDisable, Ioctl, DisablesVectors, Starts, vectors,
      MsiInv, TypeOK, CallOK, HandlersOK
  <2>4. HandlersOK'
    BY <1>3, IrqsAssumption DEF MsiDisable, Ioctl, DisablesVectors, Starts, vectors,
      MsiInv, TypeOK, CallOK, HandlersOK
  <2>5. UndoOK'
    BY <1>3, IrqsAssumption DEF MsiDisable, Ioctl, DisablesVectors, Starts, vectors,
      MsiInv, TypeOK, CallOK, UndoOK, HandlersOK
  <2>6. FailedSetsNothing'
    BY <1>3, IrqsAssumption DEF MsiDisable, Ioctl, DisablesVectors, Starts, vectors,
      MsiInv, TypeOK, CallOK, FailedSetsNothing, UndoOK
  <2> QED
    BY <2>1, <2>2, <2>3, <2>4, <2>5, <2>6 DEF MsiInv
<1>4. CASE Intx
  <2>1. TypeOK'
    BY <1>4, IrqsAssumption DEF Intx, Ioctl, vectors, call, MsiInv, TypeOK, CallOK
  <2>2. Balanced'
    BY <1>4 DEF Intx, Ioctl, vectors, call, MsiInv, Balanced
  <2>3. CallOK'
    BY <1>4, IrqsAssumption DEF Intx, Ioctl, vectors, call, MsiInv, TypeOK, CallOK,
      HandlersOK
  <2>4. HandlersOK'
    BY <1>4, IrqsAssumption DEF Intx, Ioctl, vectors, call, MsiInv, TypeOK, CallOK,
      HandlersOK
  <2>5. UndoOK'
    BY <1>4, IrqsAssumption DEF Intx, Ioctl, vectors, call, MsiInv, TypeOK, CallOK,
      UndoOK, HandlersOK
  <2>6. FailedSetsNothing'
    BY <1>4, IrqsAssumption DEF Intx, Ioctl, vectors, call, MsiInv, TypeOK, CallOK,
      FailedSetsNothing, UndoOK
  <2> QED
    BY <2>1, <2>2, <2>3, <2>4, <2>5, <2>6 DEF MsiInv
<1>5. ASSUME NEW which \in Singles, NEW fd \in Fds \cup {None}, SetSingle(which, fd)
      PROVE  MsiInv'
  <2>1. TypeOK'
    <3>1. refs' \in [Fds -> Nat]
      BY <1>5, SingleKept
    <3> QED
      BY <1>5, <3>1, IrqsAssumption DEF SetSingle, Ioctl, vectors, call, MsiInv, TypeOK,
        CallOK
  <2>2. Balanced'
    BY <1>5, SingleKept
  <2>3. CallOK'
    BY <1>5, IrqsAssumption DEF SetSingle, Ioctl, vectors, call, MsiInv, TypeOK, CallOK,
      HandlersOK
  <2>4. HandlersOK'
    BY <1>5, IrqsAssumption DEF SetSingle, Ioctl, vectors, call, MsiInv, TypeOK, CallOK,
      HandlersOK
  <2>5. UndoOK'
    BY <1>5, IrqsAssumption DEF SetSingle, Ioctl, vectors, call, MsiInv, TypeOK, CallOK,
      UndoOK, HandlersOK
  <2>6. FailedSetsNothing'
    BY <1>5, IrqsAssumption DEF SetSingle, Ioctl, vectors, call, MsiInv, TypeOK, CallOK,
      FailedSetsNothing, UndoOK
  <2> QED
    BY <2>1, <2>2, <2>3, <2>4, <2>5, <2>6 DEF MsiInv
<1>6. CASE FreeHandler
  <2>1. TypeOK'
    BY <1>6, IrqsAssumption DEF FreeHandler, Within, MsiInv, TypeOK, CallOK
  <2>2. Balanced'
    BY <1>6 DEF FreeHandler, Within, MsiInv, Balanced
  <2>3. CallOK'
    BY <1>6, IrqsAssumption DEF FreeHandler, Within, MsiInv, TypeOK, CallOK, HandlersOK
  <2>4. HandlersOK'
    BY <1>6, IrqsAssumption DEF FreeHandler, Within, MsiInv, TypeOK, CallOK, HandlersOK
  <2>5. UndoOK'
    BY <1>6, IrqsAssumption DEF FreeHandler, Within, MsiInv, TypeOK, CallOK, UndoOK,
      HandlersOK
  <2>6. FailedSetsNothing'
    BY <1>6, IrqsAssumption DEF FreeHandler, Within, MsiInv, TypeOK, CallOK,
      FailedSetsNothing, UndoOK
  <2> QED
    BY <2>1, <2>2, <2>3, <2>4, <2>5, <2>6 DEF MsiInv
<1>7. CASE PutTrigger
  <2>1. TypeOK'
    <3>1. refs' \in [Fds -> Nat]
      BY <1>7, VectorExchange DEF PutTrigger, Within, Exchanged, MsiInv, TypeOK
    <3> QED
      BY <1>7, <3>1, IrqsAssumption DEF PutTrigger, Within, MsiInv, TypeOK, CallOK
  <2>2. Balanced'
    BY <1>7, VectorExchange DEF PutTrigger, Within, Exchanged, MsiInv, TypeOK
  <2>3. CallOK'
    BY <1>7, IrqsAssumption DEF PutTrigger, Within, MsiInv, TypeOK, CallOK, HandlersOK
  <2>4. HandlersOK'
    BY <1>7, IrqsAssumption DEF PutTrigger, Within, MsiInv, TypeOK, CallOK, HandlersOK
  <2>5. UndoOK'
    BY <1>7, IrqsAssumption DEF PutTrigger, Within, MsiInv, TypeOK, CallOK, UndoOK,
      HandlersOK
  <2>6. FailedSetsNothing'
    BY <1>7, IrqsAssumption DEF PutTrigger, Within, MsiInv, TypeOK, CallOK,
      FailedSetsNothing, UndoOK
  <2> QED
    BY <2>1, <2>2, <2>3, <2>4, <2>5, <2>6 DEF MsiInv
<1>8. CASE LeaveOff
  <2>1. TypeOK'
    BY <1>8, IrqsAssumption DEF LeaveOff, Cleared, NextVector, vectors, Within, MsiInv,
      TypeOK, CallOK
  <2>2. Balanced'
    BY <1>8 DEF LeaveOff, Cleared, NextVector, vectors, Within, MsiInv, Balanced
  <2>3. CallOK'
    BY <1>8, IrqsAssumption DEF LeaveOff, Cleared, NextVector, vectors, Within, MsiInv,
      TypeOK, CallOK, HandlersOK
  <2>4. HandlersOK'
    BY <1>8, IrqsAssumption DEF LeaveOff, Cleared, NextVector, vectors, Within, MsiInv,
      TypeOK, CallOK, HandlersOK
  <2>5. UndoOK'
    BY <1>8, IrqsAssumption DEF LeaveOff, Cleared, NextVector, vectors, Within, MsiInv,
      TypeOK, CallOK, UndoOK, HandlersOK
  <2>6. FailedSetsNothing'
    BY <1>8, IrqsAssumption DEF LeaveOff, Cleared, NextVector, vectors, Within, MsiInv,
      TypeOK, CallOK, FailedSetsNothing, UndoOK
  <2> QED
    BY <2>1, <2>2, <2>3, <2>4, <2>5, <2>6 DEF MsiInv
<1>9. ASSUME NEW fd \in Fds, NEW bypass \in BOOLEAN, Install(fd, bypass)
      PROVE  MsiInv'
  <2>1. TypeOK'
    <3>1. refs' \in [Fds -> Nat]
      BY <1>9, VectorExchange, NoneAssumption DEF Install, Cleared, Exchanged, Put,
        MsiInv, TypeOK
    <3> QED
      BY <1>9, <3>1, IrqsAssumption DEF Install, Cleared, MsiInv, TypeOK, CallOK
  <2>2. Balanced'
    BY <1>9, VectorExchange, NoneAssumption DEF Install, Cleared, Exchanged, Put,
      MsiInv, TypeOK
  <2>3. CallOK'
    BY <1>9, IrqsAssumption DEF Install, Cleared, MsiInv, TypeOK, CallOK, HandlersOK
  <2>4. HandlersOK'
    <3>1. /\ ~half /\ half' = half /\ num' = num /\ trigger[j] = None
          /\ op = "set" /\ j < num
          /\ j \in Vectors /\ fd # None
      BY <1>9, NoneAssumption DEF Install, Cleared, MsiInv, TypeOK, CallOK
    <3>2. /\ irq' = [irq EXCEPT ![j] = fd] /\ trigger' = [trigger EXCEPT ![j] = fd]
          /\ producers' \subseteq producers \cup {j}
          /\ \A u \in {irq, trigger} : u \in [Vectors -> Fds \cup {None}]
      BY <1>9 DEF Install, MsiInv, TypeOK
    <3>3. num \in Nat
      BY IrqsAssumption DEF MsiInv, TypeOK
    <3> QED
      BY <3>1, <3>2, <3>3 DEF MsiInv, HandlersOK
  <2>5. UndoOK'
    BY <1>9, IrqsAssumption DEF Install, Cleared, MsiInv, TypeOK, CallOK, UndoOK,
      HandlersOK
  <2>6. FailedSetsNothing'
    BY <1>9, IrqsAssumption DEF Install, Cleared, MsiInv, TypeOK, CallOK,
      FailedSetsNothing, UndoOK
  <2> QED
    BY <2>1, <2>2, <2>3, <2>4, <2>5, <2>6 DEF MsiInv
<1>10. CASE InstallFails
  <2>1. TypeOK'
    BY <1>10, IrqsAssumption DEF InstallFails, Cleared, Within, vectors, MsiInv, TypeOK,
      CallOK
  <2>2. Balanced'
    BY <1>10 DEF InstallFails, Cleared, Within, vectors, MsiInv, Balanced
  <2>3. CallOK'
    BY <1>10, IrqsAssumption DEF InstallFails, Cleared, Within, vectors, MsiInv, TypeOK,
      CallOK, HandlersOK
  <2>4. HandlersOK'
    BY <1>10, IrqsAssumption DEF InstallFails, Cleared, Within, vectors, MsiInv, TypeOK,
      CallOK, HandlersOK
  <2>5. UndoOK'
    BY <1>10, IrqsAssumption DEF InstallFails, Cleared, Within, vectors, MsiInv, TypeOK,
      CallOK, UndoOK, HandlersOK
  <2>6. FailedSetsNothing'
    BY <1>10, IrqsAssumption DEF InstallFails, Cleared, Within, vectors, MsiInv, TypeOK,
      CallOK, FailedSetsNothing, UndoOK
  <2> QED
    BY <2>1, <2>2, <2>3, <2>4, <2>5, <2>6 DEF MsiInv
<1>11. CASE RollBack
  <2>1. TypeOK'
    BY <1>11, IrqsAssumption DEF RollBack, Cleared, Within, RolledBack, vectors, MsiInv,
      TypeOK, CallOK
  <2>2. Balanced'
    BY <1>11 DEF RollBack, Cleared, Within, RolledBack, vectors, MsiInv, Balanced
  <2>3. CallOK'
    BY <1>11, IrqsAssumption DEF RollBack, Cleared, Within, RolledBack, vectors, MsiInv,
      TypeOK, CallOK, HandlersOK
  <2>4. HandlersOK'
    BY <1>11, IrqsAssumption DEF RollBack, Cleared, Within, RolledBack, vectors, MsiInv,
      TypeOK, CallOK, HandlersOK
  <2>5. UndoOK'
    BY <1>11, IrqsAssumption DEF RollBack, Cleared, Within, RolledBack, vectors, MsiInv,
      TypeOK, CallOK, UndoOK, HandlersOK
  <2>6. FailedSetsNothing'
    BY <1>11, IrqsAssumption DEF RollBack, Cleared, Within, RolledBack, vectors, MsiInv,
      TypeOK, CallOK, FailedSetsNothing, UndoOK
  <2> QED
    BY <2>1, <2>2, <2>3, <2>4, <2>5, <2>6 DEF MsiInv
<1>12. CASE TurnOff
  <2>1. TypeOK'
    BY <1>12, IrqsAssumption DEF TurnOff, Cleared, vectors, Within, MsiInv, TypeOK,
      CallOK
  <2>2. Balanced'
    BY <1>12 DEF TurnOff, Cleared, vectors, Within, MsiInv, Balanced
  <2>3. CallOK'
    BY <1>12, IrqsAssumption DEF TurnOff, Cleared, vectors, Within, MsiInv, TypeOK,
      CallOK, HandlersOK
  <2>4. HandlersOK'
    BY <1>12, IrqsAssumption DEF TurnOff, Cleared, vectors, Within, MsiInv, TypeOK,
      CallOK, HandlersOK
  <2>5. UndoOK'
    BY <1>12, IrqsAssumption DEF TurnOff, Cleared, vectors, Within, MsiInv, TypeOK,
      CallOK, UndoOK, HandlersOK
  <2>6. FailedSetsNothing'
    BY <1>12, IrqsAssumption DEF TurnOff, Cleared, vectors, Within, MsiInv, TypeOK,
      CallOK, FailedSetsNothing, UndoOK
  <2> QED
    BY <2>1, <2>2, <2>3, <2>4, <2>5, <2>6 DEF MsiInv
<1>13. CASE FreeVectors
  <2>1. TypeOK'
    BY <1>13, IrqsAssumption DEF FreeVectors, vectors, Within, MsiInv, TypeOK, CallOK
  <2>2. Balanced'
    BY <1>13 DEF FreeVectors, vectors, Within, MsiInv, Balanced
  <2>3. CallOK'
    BY <1>13, IrqsAssumption DEF FreeVectors, vectors, Within, MsiInv, TypeOK, CallOK,
      HandlersOK
  <2>4. HandlersOK'
    BY <1>13, IrqsAssumption DEF FreeVectors, vectors, Within, MsiInv, TypeOK, CallOK,
      HandlersOK
  <2>5. UndoOK'
    BY <1>13, IrqsAssumption DEF FreeVectors, vectors, Within, MsiInv, TypeOK, CallOK,
      UndoOK, HandlersOK
  <2>6. FailedSetsNothing'
    BY <1>13, IrqsAssumption DEF FreeVectors, vectors, Within, MsiInv, TypeOK, CallOK,
      FailedSetsNothing, UndoOK
  <2> QED
    BY <2>1, <2>2, <2>3, <2>4, <2>5, <2>6 DEF MsiInv
<1>14. CASE Open
  <2>1. TypeOK'
    BY <1>14, IrqsAssumption DEF Open, vectors, call, MsiInv, TypeOK, CallOK
  <2>2. Balanced'
    BY <1>14 DEF Open, vectors, call, MsiInv, Balanced
  <2>3. CallOK'
    BY <1>14, IrqsAssumption DEF Open, vectors, call, MsiInv, TypeOK, CallOK, HandlersOK
  <2>4. HandlersOK'
    BY <1>14, IrqsAssumption DEF Open, vectors, call, MsiInv, TypeOK, CallOK, HandlersOK
  <2>5. UndoOK'
    BY <1>14, IrqsAssumption DEF Open, vectors, call, MsiInv, TypeOK, CallOK, UndoOK,
      HandlersOK
  <2>6. FailedSetsNothing'
    BY <1>14, IrqsAssumption DEF Open, vectors, call, MsiInv, TypeOK, CallOK,
      FailedSetsNothing, UndoOK
  <2> QED
    BY <2>1, <2>2, <2>3, <2>4, <2>5, <2>6 DEF MsiInv
<1>15. CASE Release
  <2>1. TypeOK'
    <3>1. CASE type \in Types
      BY <1>15, <3>1, OffTypes DEF Release, MsiInv
    <3>2. CASE type \notin Types
      BY <1>15, <3>2 DEF Release, vectors, call, MsiInv, TypeOK
    <3> QED
      BY <3>1, <3>2
  <2>2. Balanced'
    BY <1>15 DEF Release, Ioctl, DisablesVectors, vectors, call, Starts, MsiInv,
      Balanced
  <2>3. CallOK'
    BY <1>15, IrqsAssumption DEF Release, Ioctl, DisablesVectors, vectors, call, Starts,
      MsiInv, TypeOK, CallOK, HandlersOK
  <2>4. HandlersOK'
    BY <1>15, IrqsAssumption DEF Release, Ioctl, DisablesVectors, vectors, call, Starts,
      MsiInv, TypeOK, CallOK, HandlersOK
  <2>5. UndoOK'
    BY <1>15, IrqsAssumption DEF Release, Ioctl, DisablesVectors, vectors, call, Starts,
      MsiInv, TypeOK, CallOK, UndoOK, HandlersOK
  <2>6. FailedSetsNothing'
    BY <1>15, IrqsAssumption DEF Release, Ioctl, DisablesVectors, vectors, call, Starts,
      MsiInv, TypeOK, CallOK, FailedSetsNothing, UndoOK
  <2> QED
    BY <2>1, <2>2, <2>3, <2>4, <2>5, <2>6 DEF MsiInv
<1>16. CASE UNCHANGED vars
  BY <1>16 DEF vars, call, vectors, MsiInv, TypeOK, Balanced, CallOK, HandlersOK, UndoOK,
     FailedSetsNothing
<1> QED
  BY <1>1, <1>2, <1>3, <1>4, <1>5, <1>6, <1>7, <1>8, <1>9, <1>10, <1>11, <1>12, <1>13,
    <1>14, <1>15, <1>16 DEF Next, Steps

\* The invariant holds all along.
LEMMA MsiAlways == Spec => []MsiInv
BY InitMsi, MsiStep, PTL DEF Spec

-----------------------------------------------------------------------------
(* The theorems *)

\* The type of the state: no reference count falls below zero, no call leaves the
\* vectors.
THEOREM MsiTypes == Spec => []TypeOK
<1>1. MsiInv => TypeOK
  BY DEF MsiInv
<1> QED
  BY <1>1, MsiAlways, PTL

\* eventfd_ctx_fdget and eventfd_ctx_put match on every path through the ioctls,
\* with any eventfd in any number of vectors.
THEOREM ReferencesBalance == Spec => []Balanced
<1>1. MsiInv => Balanced
  BY DEF MsiInv
<1> QED
  BY <1>1, MsiAlways, PTL

\* An interrupt that comes at any step finds its eventfd held.
THEOREM HandlersSignalHeld == Spec => []HandlersHeld
<1>1. MsiInv => HandlersHeld
  <2> SUFFICES ASSUME MsiInv, NEW v \in Vectors, irq[v] # None PROVE refs[irq[v]] > 0
    BY DEF HandlersHeld
  <2> DEFINE fd == irq[v]
             S == Fds \cup {None}
  <2>1. fd \in Fds /\ trigger[v] = fd
    BY DEF MsiInv, HandlersOK, TypeOK
  <2>2. IsFiniteSet(Vectors) /\ Maps(trigger, Vectors, S) /\ fd \in S
    BY <2>1, FiniteVectors DEF Maps, MsiInv, TypeOK
  <2>3. Count(Singles, single, fd) \in Nat
    BY FiniteVectors, FS_Subset, FS_CardinalityType DEF Count
  <2>4. refs[fd] = Count(Vectors, trigger, fd) + Count(Singles, single, fd)
    BY <2>1, BalanceCounts DEF MsiInv
  <2> HIDE DEF S, fd, Vectors
  <2>5. Count(Vectors, trigger, fd) \in Nat /\ Count(Vectors, trigger, fd) > 0
    BY <2>1, <2>2, Recount
  <2> QED
    BY <2>3, <2>4, <2>5 DEF fd
<1> QED
  BY <1>1, MsiAlways, PTL

\* Between calls each handler is the one of its trigger.
THEOREM HandlersAreTriggers == Spec => []HandlersMatch
<1>1. MsiInv => HandlersMatch
  <2> SUFFICES ASSUME MsiInv, op = "idle"
               PROVE  irq = trigger /\ \A v \in producers : trigger[v] # None
    BY DEF HandlersMatch
  <2>1. ~half /\ producers \subseteq Vectors
    BY DEF MsiInv, CallOK, TypeOK
  <2>2. \A v \in Vectors : irq[v] = trigger[v] /\ (v \in producers => trigger[v] # None)
    BY <2>1 DEF MsiInv, HandlersOK
  <2>3. irq \in [Vectors -> Fds \cup {None}] /\ trigger \in [Vectors -> Fds \cup {None}]
    BY DEF MsiInv, TypeOK
  <2> HIDE DEF Vectors
  <2> QED
    BY <2>1, <2>2, <2>3
<1> QED
  BY <1>1, MsiAlways, PTL

\* No handler is left on a vector that is freed, nor any after the last release.
THEOREM HandlersGoFirst == Spec => []FreedLast
<1>1. MsiInv => FreedLast
  <2> SUFFICES ASSUME MsiInv PROVE FreedLast
    OBVIOUS
  <2>1. \A v \in Vectors : v >= num => irq[v] = None
    BY DEF MsiInv, HandlersOK
  <2>2. ASSUME ~open, op = "idle" PROVE irq = Off /\ type = "none"
    <3>1. type = "none" /\ num = 0
      BY <2>2 DEF MsiInv, CallOK
    <3>2. \A v \in Vectors : irq[v] = None
      BY <2>1, <3>1
    <3>3. irq \in [Vectors -> Fds \cup {None}]
      BY DEF MsiInv, TypeOK
    <3> QED
      BY <3>1, <3>2, <3>3 DEF Off
  <2> QED
    BY <2>1, <2>2 DEF FreedLast
<1> QED
  BY <1>1, MsiAlways, PTL

\* The roll-back of vfio_msi_set_block undoes what the call did, however far it
\* came.
THEOREM FailureUndone == Spec => []FailedSetsNothing
<1>1. MsiInv => FailedSetsNothing
  BY DEF MsiInv
<1> QED
  BY <1>1, MsiAlways, PTL

=============================================================================
