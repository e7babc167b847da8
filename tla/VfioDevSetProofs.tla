-------------------------- MODULE VfioDevSetProofs --------------------------
(***************************************************************************)
(* Proofs about VfioDevSet, for any set of functions and any number of     *)
(* locks and users: the devices of the set share one lock, so at most one  *)
(* open or release runs, and the bus reset touches only unused devices.    *)
(***************************************************************************)
EXTENDS VfioDevSet, TLAPS

\* A device has no lock before vfio_pci_reflck_attach.
Unattached == \A d \in Device : stage[d] \in {"free", "added"} => reflck[d] = NoLock

\* vfio-core keeps a device bound for those who hold it.
HeldIsBound == \A d \in Device : Referenced(d) => stage[d] # "free"

\* What runs under a lock runs for one device, which is attached to it.
RunsForOne ==
  \A l \in Lock : op[l] # NoOp => \E d \in Device : op[l].dev = {d} /\ reflck[d] = l

\* The walk starts with no device and takes unused ones only, all for a reset.
TakenUnused ==
  \A l \in Lock :
    /\ op[l].at \in {"enable", "disable"} => op[l].taken = {}
    /\ op[l].at \in {"walk", "reset", "put"} => \A d \in op[l].taken : refcnt[d] = 0
    /\ op[l].at = "reset" => op[l].taken = Device
    /\ \A d \in op[l].dev : refcnt[d] = 0

\* The records of the operations, and the type of the rest of the state.
OpType == [at : Steps, dev : SUBSET Device, taken : SUBSET Device, ok : BOOLEAN]

RestTypeOK ==
  /\ stage \in [Device -> {"free", "added", "attached", "ready", "leaving"}]
  /\ reflck \in [Device -> Lock \cup {NoLock}]
  /\ refcnt \in [Device -> 0..MaxUsers]
  /\ needsReset \in [Device -> BOOLEAN]
  /\ resetWorks \in [Device -> BOOLEAN]
  /\ pstate \in [Device -> {Awake, Asleep}]
  /\ woken \subseteq Device

\* The inductive invariant.
SetInv ==
  TypeOK /\ Unattached /\ HeldIsBound /\ RunsForOne /\ TakenUnused /\ OneLock

USE DEF NoOp, Awake, Asleep, Steps

\* The type invariant, taken apart.
LEMMA TypeParts == TypeOK <=> RestTypeOK /\ op \in [Lock -> OpType]
BY DEF TypeOK, RestTypeOK, OpType

\* At most one operation runs in the whole set.
LEMMA OneRuns ==
  ASSUME SetInv, NEW l \in Lock, NEW m \in Lock, op[l] # NoOp, op[m] # NoOp
  PROVE  l = m
<1>1. PICK d \in Device : op[l].dev = {d} /\ reflck[d] = l
  BY DEF SetInv, RunsForOne
<1>2. PICK e \in Device : op[m].dev = {e} /\ reflck[e] = m
  BY DEF SetInv, RunsForOne
<1>3. Referenced(d) /\ Referenced(e)
  BY <1>1, <1>2 DEF Referenced
<1>4. Found(d) /\ Found(e)
  BY <1>3 DEF SetInv, HeldIsBound, Found, TypeOK
<1> QED
  BY <1>1, <1>2, <1>4, NoLockAssumption DEF SetInv, OneLock

\* No device is bound when vfio-pci is loaded.
LEMMA InitSet == Init => SetInv
<1> SUFFICES ASSUME Init PROVE SetInv
  OBVIOUS
<1>1. TypeOK
  BY MaxUsersAssumption DEF Init, TypeOK
<1>2. \A d \in Device : ~Referenced(d)
  BY DEF Init, Referenced
<1> QED
  BY <1>1, <1>2 DEF Init, SetInv, Unattached, HeldIsBound, RunsForOne, TakenUnused,
     OneLock, Found

\* Probing and unbinding leave the users and the operations alone.
LEMMA ProbeStep ==
  ASSUME SetInv, NEW d \in Device,
         ProbeAdd(d) \/ ProbeAttach(d) \/ ProbeFails(d) \/ ProbePark(d) \/ RemoveBegin(d)
           \/ RemoveEnd(d)
  PROVE  SetInv'
<1>1. TypeOK'
  <2>1. CASE ProbeAdd(d)
    BY <2>1 DEF SetInv, TypeOK, ProbeAdd
  <2>2. CASE ProbeAttach(d)
    <3> DEFINE shared == {reflck[e] : e \in {e \in Device : Found(e)}} \ {NoLock}
    <3>1. PICK l \in IF shared # {} THEN shared ELSE Lock \ {reflck[e] : e \in Device} :
             reflck' = [reflck EXCEPT ![d] = l]
      BY <2>2 DEF ProbeAttach
    <3>2. l \in Lock
      BY <3>1 DEF SetInv, TypeOK
    <3> QED
      BY <2>2, <3>1, <3>2 DEF SetInv, TypeOK, ProbeAttach
  <2>3. CASE ProbeFails(d) \/ RemoveBegin(d)
    BY <2>3 DEF SetInv, TypeOK, ProbeFails, RemoveBegin
  <2>4. CASE ProbePark(d) \/ RemoveEnd(d)
    BY <2>4 DEF SetInv, TypeOK, ProbePark, RemoveEnd
  <2> QED
    BY <2>1, <2>2, <2>3, <2>4
<1>2. refcnt' = refcnt /\ op' = op /\ \A e \in Device : Referenced(e)' = Referenced(e)
  BY DEF ProbeAdd, ProbeAttach, ProbeFails, ProbePark, RemoveBegin, RemoveEnd, Referenced
<1>3. Unattached'
  BY DEF SetInv, TypeOK, Unattached, ProbeAdd, ProbeAttach, ProbeFails, ProbePark,
     RemoveBegin, RemoveEnd
<1>4. HeldIsBound'
  BY <1>2 DEF SetInv, TypeOK, HeldIsBound, ProbeAdd, ProbeAttach, ProbeFails, ProbePark,
     RemoveBegin, RemoveEnd
<1>5. TakenUnused'
  BY <1>2 DEF SetInv, TakenUnused
<1>6. RunsForOne'
  <2> SUFFICES ASSUME NEW l \in Lock, op[l] # NoOp
               PROVE  \E e \in Device : op[l].dev = {e} /\ reflck'[e] = l
    BY <1>2 DEF RunsForOne
  <2>1. PICK e \in Device : op[l].dev = {e} /\ reflck[e] = l
    BY DEF SetInv, RunsForOne
  <2>2. Referenced(e) /\ stage[e] \notin {"free", "added"}
    BY <2>1, NoLockAssumption DEF Referenced, SetInv, Unattached
  <2>3. reflck'[e] = reflck[e]
    BY <2>2 DEF SetInv, TypeOK, ProbeAdd, ProbeAttach, ProbeFails, ProbePark, RemoveBegin,
       RemoveEnd
  <2> QED
    BY <2>1, <2>3
<1>7. OneLock'
  <2>1. CASE ProbeAttach(d)
    <3>1. \A e \in Device : Found(e)' <=> Found(e)
      BY <1>2, <2>1 DEF ProbeAttach, Found, SetInv, TypeOK
    <3> DEFINE shared == {reflck[e] : e \in {e \in Device : Found(e)}} \ {NoLock}
    <3>2. PICK l : /\ IF shared # {} THEN l \in shared
                      ELSE l \in Lock \ {reflck[e] : e \in Device}
                   /\ reflck' = [reflck EXCEPT ![d] = l]
      BY <2>1 DEF ProbeAttach
    <3>3. \A e \in Device : Found(e) /\ reflck[e] # NoLock => reflck[e] = l
      BY <3>2 DEF SetInv, OneLock
    <3> QED
      BY <3>1, <3>2, <3>3 DEF OneLock, SetInv, TypeOK
  <2>2. CASE ~ProbeAttach(d)
    <3>1. \A e \in Device : Found(e)' /\ reflck'[e] # NoLock =>
                              Found(e) /\ reflck'[e] = reflck[e]
      BY <1>2, <2>2 DEF ProbeAdd, ProbeFails, ProbePark, RemoveBegin, RemoveEnd, Found,
         SetInv, TypeOK, Unattached
    <3> QED
      BY <3>1 DEF SetInv, OneLock
  <2> QED
    BY <2>1, <2>2
<1> QED
  BY <1>1, <1>3, <1>4, <1>5, <1>6, <1>7 DEF SetInv

\* The steps of opens and releases leave stage and reflck alone, and take hold of
\* devices that are found only.
LEMMA HoldKeeps ==
  ASSUME SetInv, stage' = stage, reflck' = reflck,
         \A d \in Device : Referenced(d)' => Found(d)
  PROVE  Unattached' /\ HeldIsBound' /\ OneLock'
<1>1. \A d \in Device : Found(d)' => Found(d)
  BY DEF Found
<1>2. \A d \in Device : Found(d) => stage[d] # "free"
  BY DEF Found, SetInv, TypeOK
<1> QED
  BY <1>1, <1>2 DEF SetInv, Unattached, HeldIsBound, OneLock

\* Whoever is held is found.
LEMMA HeldIsFound ==
  ASSUME SetInv, NEW d \in Device, Referenced(d)
  PROVE  Found(d)
BY DEF SetInv, HeldIsBound, Found, TypeOK

\* The first open and the last release start an operation under a free lock.
LEMMA BeginStep ==
  ASSUME SetInv, NEW d \in Device, OpenFirst(d) \/ ReleaseLast(d)
  PROVE  SetInv'
<1>1. CanLock(d) /\ reflck[d] \in Lock
  BY DEF OpenFirst, ReleaseLast, CanLock, SetInv, TypeOK
<1>2. TypeOK'
  <2>a. RestTypeOK /\ op \in [Lock -> OpType]
    BY TypeParts DEF SetInv
  <2>b. \A at \in Steps : Op(at, d) \in OpType
    BY DEF Op, OpType
  <2>c. op' \in [Lock -> OpType]
    BY <1>1, <2>a, <2>b DEF OpenFirst, ReleaseLast
  <2>d. RestTypeOK'
    BY <2>a, MaxUsersAssumption DEF OpenFirst, ReleaseLast, RestTypeOK
  <2> QED
    BY <2>c, <2>d DEF TypeOK, RestTypeOK, OpType
<1>3. \A e \in Device : Referenced(e)' => Found(e)
  <2> SUFFICES ASSUME NEW e \in Device, Referenced(e)' PROVE Referenced(e) \/ e = d
    BY <1>1, HeldIsFound DEF CanLock
  <2> QED
    BY <1>1 DEF OpenFirst, ReleaseLast, SetInv, TypeOK, Op, Referenced
<1>4. Unattached' /\ HeldIsBound' /\ OneLock'
  BY <1>3, HoldKeeps DEF OpenFirst, ReleaseLast
<1>5. RunsForOne'
  <2>1. /\ \E at \in Steps : op' = [op EXCEPT ![reflck[d]] = Op(at, d)]
        /\ reflck' = reflck
    BY DEF OpenFirst, ReleaseLast
  <2>2. op'[reflck[d]].dev = {d} /\ \A l \in Lock \ {reflck[d]} : op'[l] = op[l]
    BY <1>1, <2>1 DEF Op, SetInv, TypeOK
  <2> QED
    BY <2>1, <2>2 DEF SetInv, RunsForOne
<1>6. \A l \in Lock : l # reflck[d] => op[l] = NoOp
  <2> SUFFICES ASSUME NEW l \in Lock, op[l] # NoOp PROVE l = reflck[d]
    OBVIOUS
  <2>1. PICK e \in Device : op[l].dev = {e} /\ reflck[e] = l
    BY DEF SetInv, RunsForOne
  <2> QED
    BY <1>1, <2>1, HeldIsFound, NoLockAssumption DEF Referenced, SetInv, OneLock, CanLock
<1>7. TakenUnused'
  BY <1>1, <1>6 DEF OpenFirst, ReleaseLast, SetInv, TypeOK, Op, TakenUnused
<1> QED
  BY <1>2, <1>4, <1>5, <1>7 DEF SetInv

\* Further opens and releases, and the resets a user asks for.
LEMMA UserStep ==
  ASSUME SetInv, NEW d \in Device,
         OpenMore(d) \/ ReleaseMore(d) \/ FunctionReset(d) \/ HotReset(d)
  PROVE  SetInv'
<1>1. TypeOK'
  <2>1. CASE OpenMore(d) \/ ReleaseMore(d)
    BY <2>1, MaxUsersAssumption DEF OpenMore, ReleaseMore, SetInv, TypeOK
  <2>2. CASE FunctionReset(d) \/ HotReset(d)
    BY <2>2 DEF FunctionReset, HotReset, SetInv, TypeOK
  <2> QED
    BY <2>1, <2>2
<1>2. /\ op' = op /\ stage' = stage /\ reflck' = reflck
      /\ \A e \in Device : refcnt[e] = 0 <=> refcnt'[e] = 0
  <2>1. CASE OpenMore(d) \/ ReleaseMore(d)
    BY <2>1, MaxUsersAssumption DEF OpenMore, ReleaseMore, SetInv, TypeOK
  <2>2. CASE FunctionReset(d) \/ HotReset(d)
    BY <2>2 DEF FunctionReset, HotReset
  <2> QED
    BY <2>1, <2>2
<1>3. \A e \in Device : Referenced(e)' <=> Referenced(e)
  BY <1>1, <1>2 DEF Referenced, TypeOK, SetInv
<1>4. Unattached' /\ HeldIsBound' /\ OneLock'
  BY <1>2, <1>3, HoldKeeps, HeldIsFound
<1>5. RunsForOne' /\ TakenUnused'
  BY <1>1, <1>2 DEF SetInv, RunsForOne, TakenUnused, TypeOK
<1> QED
  BY <1>1, <1>4, <1>5 DEF SetInv

\* The steps of the operation that runs under a lock.
LEMMA RunStep ==
  ASSUME SetInv, NEW l \in Lock,
         \/ Enabled(l) \/ EnableFails(l) \/ EnableUndone(l) \/ Disable(l)
         \/ Take(l) \/ Decide(l) \/ BusReset(l) \/ Put(l) \/ PutDone(l) \/ Park(l)
  PROVE  SetInv'
<1>1. RestTypeOK /\ op \in [Lock -> OpType]
  BY TypeParts DEF SetInv
<1>2. op[l] # NoOp
  <2>1. CASE Enabled(l)
    BY <2>1 DEF Enabled
  <2>2. CASE EnableFails(l)
    BY <2>2 DEF EnableFails
  <2>3. CASE EnableUndone(l)
    BY <2>3 DEF EnableUndone
  <2>4. CASE Disable(l)
    BY <2>4 DEF Disable
  <2>5. CASE Take(l)
    BY <2>5 DEF Take
  <2>6. CASE Decide(l)
    BY <2>6 DEF Decide
  <2>7. CASE BusReset(l)
    BY <2>7 DEF BusReset
  <2>8. CASE Put(l)
    BY <2>8 DEF Put
  <2>9. CASE PutDone(l)
    BY <2>9 DEF PutDone
  <2>10. CASE Park(l)
    BY <2>10 DEF Park
  <2> QED
    BY <2>1, <2>2, <2>3, <2>4, <2>5, <2>6, <2>7, <2>8, <2>9, <2>10
<1>3. PICK d \in Device : op[l].dev = {d} /\ reflck[d] = l
  BY <1>2 DEF SetInv, RunsForOne
<1>4. Found(d)
  BY <1>3, HeldIsFound DEF Referenced
<1>5. \A m \in Lock \ {l} : op[m] = NoOp
  BY <1>2, OneRuns
<1>6. op' \in [Lock -> OpType]
  <2>1. CASE Enabled(l)
    BY <2>1, <1>1 DEF Enabled, Unlock, OpType
  <2>2. CASE EnableFails(l)
    BY <2>2, <1>1 DEF EnableFails, Unlock, OpType
  <2>3. CASE EnableUndone(l)
    BY <2>3, <1>1 DEF EnableUndone, Step, OpType
  <2>4. CASE Disable(l)
    BY <2>4, <1>1 DEF Disable, Step, OpType
  <2>5. CASE Take(l)
    BY <2>5, <1>1 DEF Take, Step, OpType
  <2>6. CASE Decide(l)
    BY <2>6, <1>1 DEF Decide, Step, OpType
  <2>7. CASE BusReset(l)
    BY <2>7, <1>1 DEF BusReset, OpType
  <2>8. CASE Put(l)
    BY <2>8, <1>1 DEF Put, OpType
  <2>9. CASE PutDone(l)
    BY <2>9, <1>1 DEF PutDone, Step, OpType
  <2>10. CASE Park(l)
    BY <2>10, <1>1 DEF Park, Unlock, OpType
  <2> QED
    BY <2>1, <2>2, <2>3, <2>4, <2>5, <2>6, <2>7, <2>8, <2>9, <2>10
<1>7. RestTypeOK'
  <2>1. CASE Enabled(l)
    BY <2>1, <1>1, <1>3, MaxUsersAssumption DEF Enabled, RestTypeOK
  <2>2. CASE EnableFails(l)
    BY <2>2, <1>1, <1>3, MaxUsersAssumption DEF EnableFails, RestTypeOK
  <2>3. CASE EnableUndone(l)
    BY <2>3, <1>1, <1>3, MaxUsersAssumption DEF EnableUndone, RestTypeOK
  <2>4. CASE Disable(l)
    BY <2>4, <1>1, <1>3, MaxUsersAssumption DEF Disable, RestTypeOK
  <2>5. CASE Take(l)
    BY <2>5, <1>1, <1>3, MaxUsersAssumption DEF Take, device, RestTypeOK
  <2>6. CASE Decide(l)
    BY <2>6, <1>1, <1>3, MaxUsersAssumption DEF Decide, device, RestTypeOK
  <2>7. CASE BusReset(l)
    BY <2>7, <1>1, <1>3, MaxUsersAssumption DEF BusReset, RestTypeOK
  <2>8. CASE Put(l)
    BY <2>8, <1>1, <1>3, MaxUsersAssumption DEF Put, RestTypeOK
  <2>9. CASE PutDone(l)
    BY <2>9, <1>1, <1>3, MaxUsersAssumption DEF PutDone, device, RestTypeOK
  <2>10. CASE Park(l)
    BY <2>10, <1>1, <1>3, MaxUsersAssumption DEF Park, RestTypeOK
  <2> QED
    BY <2>1, <2>2, <2>3, <2>4, <2>5, <2>6, <2>7, <2>8, <2>9, <2>10
<1>8. TypeOK'
  BY <1>6, <1>7 DEF TypeOK, RestTypeOK, OpType
<1>9. stage' = stage /\ reflck' = reflck
  BY DEF Enabled, EnableFails, EnableUndone, Disable, Take, Decide, BusReset, Put, PutDone,
     Park, device
<1>10. \A m \in Lock \ {l} : op'[m] = op[m]
  <2>1. CASE Enabled(l)
    BY <2>1, <1>1 DEF Enabled, Unlock
  <2>2. CASE EnableFails(l)
    BY <2>2, <1>1 DEF EnableFails, Unlock
  <2>3. CASE EnableUndone(l)
    BY <2>3, <1>1 DEF EnableUndone, Step
  <2>4. CASE Disable(l)
    BY <2>4, <1>1 DEF Disable, Step
  <2>5. CASE Take(l)
    BY <2>5, <1>1 DEF Take, Step
  <2>6. CASE Decide(l)
    BY <2>6, <1>1 DEF Decide, Step
  <2>7. CASE BusReset(l)
    BY <2>7, <1>1 DEF BusReset
  <2>8. CASE Put(l)
    BY <2>8, <1>1 DEF Put
  <2>9. CASE PutDone(l)
    BY <2>9, <1>1 DEF PutDone, Step
  <2>10. CASE Park(l)
    BY <2>10, <1>1 DEF Park, Unlock
  <2> QED
    BY <2>1, <2>2, <2>3, <2>4, <2>5, <2>6, <2>7, <2>8, <2>9, <2>10
<1>11. op'[l] = NoOp \/ op'[l].dev = op[l].dev
  <2>1. CASE Enabled(l)
    BY <2>1, <1>1 DEF Enabled, Unlock, OpType
  <2>2. CASE EnableFails(l)
    BY <2>2, <1>1 DEF EnableFails, Unlock, OpType
  <2>3. CASE EnableUndone(l)
    BY <2>3, <1>1 DEF EnableUndone, Step, OpType
  <2>4. CASE Disable(l)
    BY <2>4, <1>1 DEF Disable, Step, OpType
  <2>5. CASE Take(l)
    BY <2>5, <1>1 DEF Take, Step, OpType
  <2>6. CASE Decide(l)
    BY <2>6, <1>1 DEF Decide, Step, OpType
  <2>7. CASE BusReset(l)
    BY <2>7, <1>1 DEF BusReset, OpType
  <2>8. CASE Put(l)
    BY <2>8, <1>1 DEF Put, OpType
  <2>9. CASE PutDone(l)
    BY <2>9, <1>1 DEF PutDone, Step, OpType
  <2>10. CASE Park(l)
    BY <2>10, <1>1 DEF Park, Unlock, OpType
  <2> QED
    BY <2>1, <2>2, <2>3, <2>4, <2>5, <2>6, <2>7, <2>8, <2>9, <2>10
<1>12. /\ \A m \in Lock \ {l} : op'[m] = NoOp
       /\ op'[l] = NoOp \/ op'[l].dev = {d}
  BY <1>3, <1>5, <1>10, <1>11
<1>13. RunsForOne'
  BY <1>3, <1>9, <1>12 DEF RunsForOne
<1>14. TakenUnused'
  <2> DEFINE Fine(o) ==
        /\ o.at \in {"enable", "disable"} => o.taken = {}
        /\ o.at \in {"walk", "reset", "put"} => \A e \in o.taken : refcnt'[e] = 0
        /\ o.at = "reset" => o.taken = Device
        /\ \A e \in o.dev : refcnt'[e] = 0
  <2>a. Fine(op'[l])
    <3>1. CASE Enabled(l)
      BY <3>1, <1>1 DEF Enabled, Unlock, OpType, RestTypeOK, SetInv, TakenUnused
    <3>2. CASE EnableFails(l)
      BY <3>2, <1>1 DEF EnableFails, Unlock, OpType, RestTypeOK, SetInv, TakenUnused
    <3>3. CASE EnableUndone(l)
      BY <3>3, <1>1 DEF EnableUndone, Step, OpType, RestTypeOK, SetInv, TakenUnused
    <3>4. CASE Disable(l)
      BY <3>4, <1>1 DEF Disable, Step, OpType, RestTypeOK, SetInv, TakenUnused
    <3>5. CASE Take(l)
      BY <3>5, <1>1 DEF Take, Step, device, OpType, RestTypeOK, SetInv, TakenUnused
    <3>6. CASE Decide(l)
      BY <3>6, <1>1 DEF Decide, Step, device, OpType, RestTypeOK, SetInv, TakenUnused
    <3>7. CASE BusReset(l)
      <4>1. /\ op'[l].at = "put" /\ op'[l].dev = op[l].dev
            /\ op'[l].taken = op[l].taken
        BY <3>7, <1>1 DEF BusReset, OpType
      <4>2. refcnt' = refcnt /\ op[l].at = "reset"
        BY <3>7 DEF BusReset
      <4> QED
        BY <4>1, <4>2 DEF SetInv, TakenUnused
    <3>8. CASE Put(l)
      BY <3>8, <1>1 DEF Put, OpType, RestTypeOK, SetInv, TakenUnused
    <3>9. CASE PutDone(l)
      BY <3>9, <1>1 DEF PutDone, Step, device, OpType, RestTypeOK, SetInv, TakenUnused
    <3>10. CASE Park(l)
      BY <3>10, <1>1 DEF Park, Unlock, OpType, RestTypeOK, SetInv, TakenUnused
    <3> QED
      BY <3>1, <3>2, <3>3, <3>4, <3>5, <3>6, <3>7, <3>8, <3>9, <3>10
  <2> QED
    BY <2>a, <1>12 DEF TakenUnused
<1>15. \A e \in Device : Referenced(e)' => Found(e)
  <2> SUFFICES ASSUME NEW e \in Device, Referenced(e)' PROVE Found(e)
    OBVIOUS
  <2>1. CASE e = d
    BY <2>1, <1>4
  <2>2. CASE e # d /\ refcnt'[e] > 0
    <3>1. refcnt[e] > 0
      BY <2>2, <1>3 DEF Enabled, EnableFails, EnableUndone, Disable, Take, Decide, BusReset,
         Put, PutDone, Park, device, SetInv, TypeOK
    <3> QED
      BY <3>1, HeldIsFound DEF Referenced
  <2>3. CASE e # d /\ e \in op'[l].taken
    <3>1. e \in op[l].taken \/ Found(e)
      <4>1. CASE Enabled(l)
        BY <4>1, <2>3, <1>1 DEF Enabled, Unlock, OpType
      <4>2. CASE EnableFails(l)
        BY <4>2, <2>3, <1>1 DEF EnableFails, Unlock, OpType
      <4>3. CASE EnableUndone(l)
        BY <4>3, <2>3, <1>1 DEF EnableUndone, Step, OpType
      <4>4. CASE Disable(l)
        BY <4>4, <2>3, <1>1 DEF Disable, Step, OpType
      <4>5. CASE Take(l)
        BY <4>5, <2>3, <1>1 DEF Take, Step, OpType
      <4>6. CASE Decide(l)
        BY <4>6, <2>3, <1>1 DEF Decide, Step, OpType
      <4>7. CASE BusReset(l)
        BY <4>7, <2>3, <1>1 DEF BusReset, OpType
      <4>8. CASE Put(l)
        BY <4>8, <2>3, <1>1 DEF Put, OpType
      <4>9. CASE PutDone(l)
        BY <4>9, <2>3, <1>1 DEF PutDone, Step, OpType
      <4>10. CASE Park(l)
        BY <4>10, <2>3, <1>1 DEF Park, Unlock, OpType
      <4> QED
        BY <4>1, <4>2, <4>3, <4>4, <4>5, <4>6, <4>7, <4>8, <4>9, <4>10
    <3> QED
      BY <3>1, HeldIsFound DEF Referenced
  <2> QED
    BY <2>1, <2>2, <2>3, <1>12 DEF Referenced
<1>16. Unattached' /\ HeldIsBound' /\ OneLock'
  BY <1>9, <1>15, HoldKeeps
<1> QED
  BY <1>8, <1>13, <1>14, <1>16 DEF SetInv

\* Every step of the callbacks and ioctls keeps the invariant.
LEMMA SetStep == SetInv /\ [Next]_vars => SetInv'
<1> SUFFICES ASSUME SetInv, [Next]_vars PROVE SetInv'
  OBVIOUS
<1>1. ASSUME NEW d \in Device, OpenFirst(d) \/ ReleaseLast(d) PROVE SetInv'
  BY <1>1, BeginStep
<1>2. ASSUME NEW d \in Device, OpenMore(d) \/ ReleaseMore(d) \/ FunctionReset(d)
               \/ HotReset(d) PROVE SetInv'
  BY <1>2, UserStep
<1>3. ASSUME NEW d \in Device, ProbeAdd(d) \/ ProbeAttach(d) \/ ProbeFails(d)
               \/ ProbePark(d) \/ RemoveBegin(d) \/ RemoveEnd(d) PROVE SetInv'
  BY <1>3, ProbeStep
<1>4. ASSUME NEW l \in Lock,
             \/ Enabled(l) \/ EnableFails(l) \/ EnableUndone(l) \/ Disable(l)
             \/ Take(l) \/ Decide(l) \/ BusReset(l) \/ Put(l) \/ PutDone(l) \/ Park(l)
      PROVE  SetInv'
  BY <1>4, RunStep
<1>5. CASE UNCHANGED vars
  BY <1>5 DEF vars, SetInv, TypeOK, Unattached, HeldIsBound, RunsForOne, TakenUnused,
     OneLock,
     Found, Referenced
<1> QED
  BY <1>1, <1>2, <1>3, <1>4, <1>5 DEF Next

\* The invariant holds all along.
LEMMA SetAlways == Spec => []SetInv
BY InitSet, SetStep, PTL DEF Spec

\* The types of the structures: no reference count passes its bound or falls
\* below zero.
THEOREM SetTypes == Spec => []TypeOK
<1>1. SetInv => TypeOK
  BY DEF SetInv
<1> QED
  BY <1>1, SetAlways, PTL

\* vfio_pci_reflck_attach gives all devices of the set one lock, in whatever order
\* they come and go while others are in use.
THEOREM LockIsShared == Spec => []OneLock
<1>1. SetInv => OneLock
  BY DEF SetInv
<1> QED
  BY <1>1, SetAlways, PTL

\* The bus reset of vfio_pci_try_bus_reset meets no user and no other operation.
THEOREM BusResetAlone == Spec => []ResetIsExclusive
<1>1. SetInv => ResetIsExclusive
  <2> SUFFICES ASSUME SetInv, NEW l \in Lock, op[l].at = "reset"
               PROVE  /\ \A d \in Device : Found(d) /\ refcnt[d] = 0
                      /\ \A m \in Lock \ {l} : op[m] = NoOp
    BY DEF ResetIsExclusive
  <2>1. \A d \in Device : d \in op[l].taken /\ refcnt[d] = 0
    BY DEF SetInv, TakenUnused
  <2>2. \A d \in Device : Found(d)
    BY <2>1, HeldIsFound DEF Referenced
  <2>3. op[l] # NoOp
    OBVIOUS
  <2> QED
    BY <2>1, <2>2, <2>3, OneRuns
<1> QED
  BY <1>1, SetAlways, PTL

-----------------------------------------------------------------------------
(* What a bus reset leaves, and who sleeps *)

\* Only a bus reset that worked is noted as such; what it has put back is clean.
PutBackClean ==
  \A l \in Lock : op[l].ok =>
    /\ op[l].at \in {"put", "park"}
    /\ \A d \in Device : d \in op[l].taken \/ ~needsReset[d]
    /\ op[l].at = "park" => op[l].taken = {}

\* A device that no operation is going to put to sleep sleeps.
RestAsleep ==
  \A d \in Device :
    /\ stage[d] = "ready" /\ refcnt[d] = 0 /\ d \notin woken
    /\ \A l \in Lock : d \notin op[l].dev /\ ~(op[l].ok /\ d \in op[l].taken)
    => pstate[d] = Asleep

\* Both hold at first.
LEMMA InitRest == Init => PutBackClean /\ RestAsleep
BY DEF Init, PutBackClean, RestAsleep

\* Steps outside the operations: probing and unbinding, opens and closes.
LEMMA RestOutside ==
  ASSUME SetInv, PutBackClean, RestAsleep, NEW d \in Device,
         \/ ProbeAdd(d) \/ ProbeAttach(d) \/ ProbeFails(d) \/ ProbePark(d)
         \/ RemoveBegin(d) \/ RemoveEnd(d)
         \/ OpenFirst(d) \/ OpenMore(d) \/ ReleaseMore(d) \/ ReleaseLast(d)
         \/ FunctionReset(d) \/ HotReset(d)
  PROVE  PutBackClean' /\ RestAsleep'
<1>1. RestTypeOK /\ op \in [Lock -> OpType]
  BY TypeParts DEF SetInv
<1>2. CASE ProbeAdd(d) \/ ProbeAttach(d) \/ ProbeFails(d) \/ ProbePark(d)
           \/ RemoveBegin(d) \/ RemoveEnd(d)
  <2>1. /\ op' = op /\ refcnt' = refcnt
        /\ \A e \in Device : needsReset'[e] => needsReset[e]
    BY <1>1, <1>2 DEF RestTypeOK, ProbeAdd, ProbeAttach, ProbeFails, ProbePark,
       RemoveBegin, RemoveEnd
  <2>2. \A e \in Device : stage'[e] = "ready" /\ e \notin woken' =>
          \/ pstate'[e] = Asleep
          \/ stage[e] = "ready" /\ e \notin woken /\ pstate'[e] = pstate[e]
    <3>1. CASE ProbeAdd(d) \/ ProbeAttach(d) \/ ProbeFails(d) \/ RemoveBegin(d)
      BY <1>1, <3>1 DEF RestTypeOK, ProbeAdd, ProbeAttach, ProbeFails, RemoveBegin
    <3>2. CASE ProbePark(d)
      <4>1. /\ stage' = [stage EXCEPT ![d] = "ready"] /\ woken' = woken \ {d}
            /\ pstate' = [pstate EXCEPT ![d] = Asleep]
        BY <3>2 DEF ProbePark
      <4>2. pstate'[d] = Asleep
        BY <4>1, <1>1 DEF RestTypeOK
      <4>3. \A e \in Device \ {d} :
              /\ stage'[e] = stage[e] /\ pstate'[e] = pstate[e]
              /\ e \in woken' <=> e \in woken
        BY <4>1, <1>1 DEF RestTypeOK
      <4> QED
        BY <4>2, <4>3
    <3>3. CASE RemoveEnd(d)
      BY <1>1, <3>3 DEF RestTypeOK, RemoveEnd
    <3> QED
      BY <1>2, <3>1, <3>2, <3>3
  <2> QED
    BY <2>1, <2>2 DEF PutBackClean, RestAsleep
<1>3. CASE OpenMore(d) \/ ReleaseMore(d) \/ FunctionReset(d) \/ HotReset(d)
  <2>1. op' = op /\ stage' = stage /\ needsReset' = needsReset
    BY <1>3 DEF OpenMore, ReleaseMore, FunctionReset, HotReset
  <2>2. \A e \in Device : refcnt'[e] = 0 /\ e \notin woken' =>
          refcnt[e] = 0 /\ e \notin woken /\ pstate'[e] = pstate[e]
    BY <1>1, <1>3, MaxUsersAssumption
    DEF RestTypeOK, OpenMore, ReleaseMore, FunctionReset, HotReset
  <2> QED
    BY <2>1, <2>2 DEF PutBackClean, RestAsleep
<1>4. CASE OpenFirst(d) \/ ReleaseLast(d)
  <2>1. reflck[d] \in Lock /\ op[reflck[d]] = NoOp
    BY <1>1, <1>4 DEF OpenFirst, ReleaseLast, CanLock, RestTypeOK
  <2>2. PICK at \in Steps : op' = [op EXCEPT ![reflck[d]] = Op(at, d)]
    BY <1>4 DEF OpenFirst, ReleaseLast
  <2>3. /\ op'[reflck[d]].dev = {d} /\ ~op'[reflck[d]].ok
        /\ \A l \in Lock \ {reflck[d]} : op'[l] = op[l]
    BY <1>1, <2>1, <2>2 DEF Op
  <2>4. /\ stage' = stage /\ needsReset' = needsReset /\ woken' = woken
        /\ \A e \in Device \ {d} : refcnt'[e] = refcnt[e] /\ pstate'[e] = pstate[e]
    BY <1>1, <1>4 DEF RestTypeOK, OpenFirst, ReleaseLast
  <2>5. PutBackClean'
    BY <2>3, <2>4 DEF PutBackClean
  <2>6. RestAsleep'
    BY <2>1, <2>3, <2>4 DEF RestAsleep
  <2> QED
    BY <2>5, <2>6
<1> QED
  BY <1>2, <1>3, <1>4

\* Steps of the operation that runs.
LEMMA RestInside ==
  ASSUME SetInv, PutBackClean, RestAsleep, NEW l \in Lock,
         \/ Enabled(l) \/ EnableFails(l) \/ EnableUndone(l) \/ Disable(l)
         \/ Take(l) \/ Decide(l) \/ BusReset(l) \/ Put(l) \/ PutDone(l) \/ Park(l)
  PROVE  PutBackClean' /\ RestAsleep'
<1>1. RestTypeOK /\ op \in [Lock -> OpType]
  BY TypeParts DEF SetInv
<1>2. op[l] # NoOp
  <2>1. CASE Enabled(l)
    BY <2>1 DEF Enabled
  <2>2. CASE EnableFails(l)
    BY <2>2 DEF EnableFails
  <2>3. CASE EnableUndone(l)
    BY <2>3 DEF EnableUndone
  <2>4. CASE Disable(l)
    BY <2>4 DEF Disable
  <2>5. CASE Take(l)
    BY <2>5 DEF Take
  <2>6. CASE Decide(l)
    BY <2>6 DEF Decide
  <2>7. CASE BusReset(l)
    BY <2>7 DEF BusReset
  <2>8. CASE Put(l)
    BY <2>8 DEF Put
  <2>9. CASE PutDone(l)
    BY <2>9 DEF PutDone
  <2>10. CASE Park(l)
    BY <2>10 DEF Park
  <2> QED
    BY <2>1, <2>2, <2>3, <2>4, <2>5, <2>6, <2>7, <2>8, <2>9, <2>10
<1>3. PICK d \in Device : op[l].dev = {d}
  BY <1>2 DEF SetInv, RunsForOne
<1>4. \A m \in Lock \ {l} : op[m] = NoOp
  BY <1>2, OneRuns
<1>5. \A m \in Lock \ {l} : op'[m] = op[m]
  <2>1. CASE Enabled(l)
    BY <2>1, <1>1 DEF Enabled, Unlock
  <2>2. CASE EnableFails(l)
    BY <2>2, <1>1 DEF EnableFails, Unlock
  <2>3. CASE EnableUndone(l)
    BY <2>3, <1>1 DEF EnableUndone, Step
  <2>4. CASE Disable(l)
    BY <2>4, <1>1 DEF Disable, Step
  <2>5. CASE Take(l)
    BY <2>5, <1>1 DEF Take, Step
  <2>6. CASE Decide(l)
    BY <2>6, <1>1 DEF Decide, Step
  <2>7. CASE BusReset(l)
    BY <2>7, <1>1 DEF BusReset
  <2>8. CASE Put(l)
    BY <2>8, <1>1 DEF Put
  <2>9. CASE PutDone(l)
    BY <2>9, <1>1 DEF PutDone, Step
  <2>10. CASE Park(l)
    BY <2>10, <1>1 DEF Park, Unlock
  <2> QED
    BY <2>1, <2>2, <2>3, <2>4, <2>5, <2>6, <2>7, <2>8, <2>9, <2>10
<1>6. stage' = stage
  BY DEF Enabled, EnableFails, EnableUndone, Disable, Take, Decide, BusReset, Put, PutDone,
     Park, device
<1>7. PutBackClean'
  <2> SUFFICES op'[l].ok =>
                 /\ op'[l].at \in {"put", "park"}
                 /\ \A e \in Device : e \in op'[l].taken \/ ~needsReset'[e]
                 /\ op'[l].at = "park" => op'[l].taken = {}
    BY <1>4, <1>5 DEF PutBackClean
  <2>1. CASE Enabled(l)
    BY <2>1, <1>1, <1>3 DEF Enabled, Unlock, OpType, RestTypeOK, PutBackClean, SetInv,
       TakenUnused
  <2>2. CASE EnableFails(l)
    BY <2>2, <1>1, <1>3 DEF EnableFails, Unlock, OpType, RestTypeOK, PutBackClean, SetInv,
       TakenUnused
  <2>3. CASE EnableUndone(l)
    BY <2>3, <1>1, <1>3 DEF EnableUndone, Step, OpType, RestTypeOK, PutBackClean, SetInv,
       TakenUnused
  <2>4. CASE Disable(l)
    BY <2>4, <1>1, <1>3 DEF Disable, Step, OpType, RestTypeOK, PutBackClean, SetInv,
       TakenUnused
  <2>5. CASE Take(l)
    BY <2>5, <1>1, <1>3 DEF Take, Step, device, OpType, RestTypeOK, PutBackClean, SetInv,
       TakenUnused
  <2>6. CASE Decide(l)
    BY <2>6, <1>1, <1>3 DEF Decide, Step, device, OpType, RestTypeOK, PutBackClean,
       SetInv, TakenUnused
  <2>7. CASE BusReset(l)
    <3>1. PICK ok \in BOOLEAN, awake \in SUBSET Device :
             /\ ok => awake = Device
             /\ op' = [op EXCEPT ![l].at = "put", ![l].ok = ok]
             /\ pstate' = [e \in Device |-> IF e \in awake THEN Awake ELSE pstate[e]]
             /\ woken' = IF ok THEN woken ELSE woken \cup awake
      BY <2>7 DEF BusReset
    <3>2. /\ op'[l].at = "put" /\ op'[l].ok = ok
          /\ op'[l].taken = op[l].taken /\ op'[l].dev = op[l].dev
      BY <3>1, <1>1 DEF OpType
    <3>3. op[l].at = "reset" /\ op[l].taken = Device /\ ~op[l].ok
      BY <2>7 DEF BusReset, SetInv, TakenUnused, PutBackClean
    <3> QED
      BY <3>2, <3>3
  <2>8. CASE Put(l)
    BY <2>8, <1>1, <1>3 DEF Put, OpType, RestTypeOK, PutBackClean, SetInv, TakenUnused
  <2>9. CASE PutDone(l)
    BY <2>9, <1>1, <1>3 DEF PutDone, Step, device, OpType, RestTypeOK, PutBackClean,
       SetInv, TakenUnused
  <2>10. CASE Park(l)
    BY <2>10, <1>1, <1>3 DEF Park, Unlock, OpType, RestTypeOK, PutBackClean, SetInv,
       TakenUnused
  <2> QED
    BY <2>1, <2>2, <2>3, <2>4, <2>5, <2>6, <2>7, <2>8, <2>9, <2>10
<1>8. RestAsleep'
  <2> SUFFICES ASSUME NEW e \in Device, stage[e] = "ready", refcnt'[e] = 0,
                      e \notin woken', e \notin op'[l].dev,
                      ~(op'[l].ok /\ e \in op'[l].taken)
               PROVE  pstate'[e] = Asleep
    BY <1>4, <1>5, <1>6 DEF RestAsleep
  <2> DEFINE Rests == /\ refcnt[e] = 0 /\ e \notin woken /\ e \notin op[l].dev
                      /\ ~(op[l].ok /\ e \in op[l].taken)
  <2>a. Rests => pstate[e] = Asleep
    BY <1>4 DEF RestAsleep
  <2>1. CASE Enabled(l)
    BY <2>1, <2>a, <1>1, <1>3 DEF Enabled, Unlock, OpType, RestTypeOK, PutBackClean,
       SetInv, TakenUnused
  <2>2. CASE EnableFails(l)
    BY <2>2, <2>a, <1>1, <1>3 DEF EnableFails, Unlock, OpType, RestTypeOK, PutBackClean,
       SetInv, TakenUnused
  <2>3. CASE EnableUndone(l)
    BY <2>3, <2>a, <1>1, <1>3 DEF EnableUndone, Step, OpType, RestTypeOK, PutBackClean,
       SetInv, TakenUnused
  <2>4. CASE Disable(l)
    BY <2>4, <2>a, <1>1, <1>3 DEF Disable, Step, OpType, RestTypeOK, PutBackClean, SetInv,
       TakenUnused
  <2>5. CASE Take(l)
    BY <2>5, <2>a, <1>1, <1>3 DEF Take, Step, device, OpType, RestTypeOK, PutBackClean,
       SetInv, TakenUnused
  <2>6. CASE Decide(l)
    BY <2>6, <2>a, <1>1, <1>3 DEF Decide, Step, device, OpType, RestTypeOK, PutBackClean,
       SetInv, TakenUnused
  <2>7. CASE BusReset(l)
    <3>1. PICK ok \in BOOLEAN, awake \in SUBSET Device :
             /\ ok => awake = Device
             /\ op' = [op EXCEPT ![l].at = "put", ![l].ok = ok]
             /\ pstate' = [u \in Device |-> IF u \in awake THEN Awake ELSE pstate[u]]
             /\ woken' = IF ok THEN woken ELSE woken \cup awake
      BY <2>7 DEF BusReset
    <3>2. /\ op'[l].at = "put" /\ op'[l].ok = ok
          /\ op'[l].taken = op[l].taken /\ op'[l].dev = op[l].dev
      BY <3>1, <1>1 DEF OpType
    <3>3. op[l].at = "reset" /\ op[l].taken = Device /\ ~op[l].ok
      BY <2>7 DEF BusReset, SetInv, TakenUnused, PutBackClean
    <3>4. refcnt' = refcnt
      BY <2>7 DEF BusReset
    <3> QED
      BY <3>1, <3>2, <3>3, <3>4, <2>a
  <2>8. CASE Put(l)
    BY <2>8, <2>a, <1>1, <1>3 DEF Put, OpType, RestTypeOK, PutBackClean, SetInv, TakenUnused
  <2>9. CASE PutDone(l)
    BY <2>9, <2>a, <1>1, <1>3 DEF PutDone, Step, device, OpType, RestTypeOK, PutBackClean,
       SetInv, TakenUnused
  <2>10. CASE Park(l)
    BY <2>10, <2>a, <1>1, <1>3 DEF Park, Unlock, OpType, RestTypeOK, PutBackClean, SetInv,
       TakenUnused
  <2> QED
    BY <2>1, <2>2, <2>3, <2>4, <2>5, <2>6, <2>7, <2>8, <2>9, <2>10
<1> QED
  BY <1>7, <1>8

\* All three hold all along.
LEMMA RestAlways == Spec => [](SetInv /\ PutBackClean /\ RestAsleep)
<1>1. SetInv /\ PutBackClean /\ RestAsleep /\ [Next]_vars => PutBackClean' /\ RestAsleep'
  <2> SUFFICES ASSUME SetInv, PutBackClean, RestAsleep, [Next]_vars
               PROVE  PutBackClean' /\ RestAsleep'
    OBVIOUS
  <2>1. CASE UNCHANGED vars
    BY <2>1 DEF vars, PutBackClean, RestAsleep
  <2>2. CASE Next
    BY <2>2, RestOutside, RestInside DEF Next
  <2> QED
    BY <2>1, <2>2
<1> QED
  BY <1>1, InitRest, SetAlways, PTL DEF Spec

\* vfio_pci_try_bus_reset clears needs_reset of every device of the set, not only
\* of the one that was closed.
THEOREM BusResetCleans == Spec => []ResetCleans
<1>1. SetInv /\ PutBackClean => ResetCleans
  BY DEF SetInv, PutBackClean, ResetCleans
<1> QED
  BY <1>1, RestAlways, PTL

\* Whatever opens, releases and resets meet, a device at rest is in D3hot, but for
\* the calls that are known to leave it awake.
THEOREM UnusedAsleep == Spec => []UnusedSleeps
<1>1. SetInv /\ RestAsleep => UnusedSleeps
  BY DEF SetInv, RestAsleep, UnusedSleeps, Referenced, TypeOK
<1> QED
  BY <1>1, RestAlways, PTL

\* put_devs and the end of a release put no device to sleep that is in use.
THEOREM UsersStayAwake == Spec => NoSleepUnderUser
<1> DEFINE Stays == \A d \in Device :
      refcnt[d] > 0 /\ pstate[d] = Awake /\ pstate'[d] = Asleep => stage[d] = "attached"
<1>1. SetInv /\ [Next]_vars => [Stays]_vars
  <2> SUFFICES ASSUME SetInv, Next, NEW d \in Device, refcnt[d] > 0,
                      pstate[d] = Awake, pstate'[d] = Asleep
               PROVE  stage[d] = "attached"
    OBVIOUS
  <2>1. RestTypeOK /\ op \in [Lock -> OpType]
    BY TypeParts DEF SetInv
  <2>2. ASSUME NEW e \in Device,
               \/ ProbeAdd(e) \/ ProbeAttach(e) \/ ProbeFails(e) \/ ProbePark(e)
               \/ RemoveBegin(e) \/ RemoveEnd(e)
        PROVE  stage[d] = "attached"
    BY <2>1, <2>2 DEF RestTypeOK, ProbeAdd, ProbeAttach, ProbeFails, ProbePark,
       RemoveBegin, RemoveEnd
  <2>3. ASSUME NEW e \in Device,
               \/ OpenFirst(e) \/ OpenMore(e) \/ ReleaseMore(e) \/ ReleaseLast(e)
               \/ FunctionReset(e) \/ HotReset(e)
        PROVE  FALSE
    BY <2>1, <2>3 DEF RestTypeOK, OpenFirst, OpenMore, ReleaseMore, ReleaseLast,
       FunctionReset, HotReset
  <2>4. ASSUME NEW l \in Lock,
               \/ Enabled(l) \/ EnableFails(l) \/ EnableUndone(l) \/ Disable(l)
               \/ Take(l) \/ Decide(l) \/ BusReset(l) \/ PutDone(l)
        PROVE  FALSE
    BY <2>1, <2>4 DEF RestTypeOK, Enabled, EnableFails, EnableUndone, Disable, Take,
       Decide, BusReset, PutDone, device
  <2>5. ASSUME NEW l \in Lock, Put(l) PROVE FALSE
    BY <2>1, <2>5 DEF RestTypeOK, Put, SetInv, TakenUnused
  <2>6. ASSUME NEW l \in Lock, Park(l) PROVE FALSE
    BY <2>1, <2>6 DEF RestTypeOK, Park, SetInv, TakenUnused
  <2> QED
    BY <2>2, <2>3, <2>4, <2>5, <2>6 DEF Next
<1> QED
  BY <1>1, SetAlways, PTL DEF Spec, NoSleepUnderUser

=============================================================================
