------------------------- MODULE VfioFunctionProofs -------------------------
(***************************************************************************)
(* One function and its drivers, for any device.                           *)
(*                                                                         *)
(* VfioLayout: the walk never leaves the places there are; what is kept of *)
(* a chain always leads, hidden capabilities passed over, to the place at  *)
(* hand, and a mark is always of the capability that covers it, so the     *)
(* user meets each capability that is shown and every chunk of an access   *)
(* is within one. VfioHeader: a reset wipes all BARs, so, once a restore   *)
(* that it may have overtaken is over, vfio_need_bar_restore sees it in    *)
(* one that it looks at, and the ROM and the INTx disable are restored     *)
(* with them; the virtual BARs keep the bits                               *)
(* of the last write that a real BAR would, because the BARs that          *)
(* vfio_bar_fixup skips are exactly the upper halves. VfioCaps: the fixups *)
(* of the capabilities' writes keep what the user reads true of the        *)
(* hardware. VfioBars: one transfer moves each byte once, to where it      *)
(* belongs; that a call past vfio_pci_setup_barmap finds its BAR mapped,   *)
(* and that a device that is being closed has no call running, keep the    *)
(* eventfds inside mapped BARs; that whoever edits the list holds the lock *)
(* keeps its count. DriverHandover: the balance of the enables gives the   *)
(* bound on their count that the type asks for; that only a function of    *)
(* vfio-pci is in use is what keeps a release from happening under pwplug. *)
(***************************************************************************)
EXTENDS VfioLayout, VfioHeader, VfioCaps, VfioBars, DriverHandover, Induction,
        FiniteSetTheorems, SequenceTheorems

-----------------------------------------------------------------------------
(* VfioLayout: the walk over the capabilities.                              *)

\* Type correctness of the walk over the capabilities.
THEOREM LayoutTypes == LayoutSpec => []LayoutTypeOK
<1>1. LayoutInit => LayoutTypeOK
  <2> SUFFICES ASSUME LayoutInit PROVE LayoutTypeOK
    OBVIOUS
  <2>1. /\ hw \in [listed : BOOLEAN, head : Pointers, cap : [Places -> Headers]]
        /\ pos \in Pointers /\ prev \in Pointers /\ vlisted \in BOOLEAN
    BY DeviceAssumption DEF LayoutInit, Pointers
  <2>2. vheader \in [Pointers -> Headers]
    BY <2>1, IdAssumption DEF LayoutInit, Headers, Null, Pointers
  <2>3. loops \in Nat /\ count \in Nat
    BY SizeAssumption DEF LayoutInit, StdLoops
  <2> QED
    BY <2>1, <2>2, <2>3 DEF LayoutInit, LayoutTypeOK, Mapped
<1>2. LayoutTypeOK /\ [Walk]_layoutVars => LayoutTypeOK'
  <2> SUFFICES ASSUME LayoutTypeOK, [Walk]_layoutVars PROVE LayoutTypeOK'
    OBVIOUS
  <2> USE DEF LayoutTypeOK
  <2>1. pos # 0 => Cap \in Headers /\ Cap.id \in Ids /\ Cap.next \in Pointers
    BY DEF Cap, Headers, Pointers
  <2>2. StdSize # 0 /\ StdSize \in Pointers /\ 0 \in Pointers /\ ~(0 >= StdSize)
    BY SizeAssumption, PlaceAssumption DEF Pointers
  <2>3. \A len, id : id \in Ids /\ Mark(len, id) => map' \in [0..CfgSize - 1 -> Mapped]
    BY DEF Mark, Mapped
  <2>4. CASE CapHidden \/ CapTaken \/ CapUnreadable
    <3>1. /\ pos # 0 /\ loops' \in Nat /\ pos' \in Pointers /\ hw' = hw /\ vlisted' = vlisted
          /\ phase' \in {"cap", "failed"} /\ prev' \in Pointers /\ count' \in Nat
      BY <2>1, <2>4 DEF CapHidden, CapTaken, CapUnreadable, CapTurn, Visit
    <3>2. map' \in [0..CfgSize - 1 -> Mapped] /\ extended' \in BOOLEAN
      BY <2>1, <2>3, <2>4, <3>1 DEF CapHidden, CapTaken, CapUnreadable
    <3>3. vheader' \in [Pointers -> Headers]
      BY <2>1, <2>4, <3>1 DEF CapHidden, CapTaken, CapUnreadable, Headers
    <3> QED
      BY <3>1, <3>2, <3>3
  <2>5. CASE EcapHidden \/ EcapAnchor \/ EcapTaken \/ EcapUnreadable
    <3>1. pos # 0
      BY <2>2, <2>5 DEF EcapHidden, EcapAnchor, EcapTaken, EcapUnreadable, EcapTurn
    <3>2. /\ loops' \in Nat /\ pos' \in Pointers /\ hw' = hw /\ UNCHANGED <<vlisted, extended>>
          /\ phase' \in {"ecap", "ready"} /\ prev' \in Pointers /\ count' \in Nat
      BY <2>1, <2>5, <3>1
      DEF EcapHidden, EcapAnchor, EcapTaken, EcapUnreadable, EcapTurn, Visit
    <3>3. map' \in [0..CfgSize - 1 -> Mapped]
      BY <2>1, <2>3, <2>5, <3>1 DEF EcapHidden, EcapAnchor, EcapTaken, EcapUnreadable
    <3>4. vheader' \in [Pointers -> Headers]
      BY <2>1, <2>5, <3>1, IdAssumption
      DEF EcapHidden, EcapAnchor, EcapTaken, EcapUnreadable, Headers
    <3> QED
      BY <3>2, <3>3, <3>4
  <2>6. CASE CapEnd
    <3>1. ExtLoops \in Nat
      BY SizeAssumption DEF ExtLoops
    <3> QED
      BY <2>2, <2>6, <3>1 DEF CapEnd
  <2>7. CASE EcapEnd
    <3>1. Null \in Headers
      BY <2>2, IdAssumption DEF Null, Headers
    <3> QED
      BY <2>7, <3>1 DEF EcapEnd
  <2>8. CASE UNCHANGED layoutVars
    BY <2>8 DEF layoutVars
  <2> QED
    BY <2>4, <2>5, <2>6, <2>7, <2>8 DEF Walk
<1> QED
  BY <1>1, <1>2, PTL DEF LayoutSpec

\* What Path(p) is, as a property of a function.
IsPath(f, p) ==
  f = [i \in 0..Bound |->
         IF i = 0 THEN p ELSE LET q == f[i - 1] IN IF q = 0 THEN 0 ELSE hw.cap[q].next]
Hardware == hw \in [listed : BOOLEAN, head : Pointers, cap : [Places -> Headers]]

\* The bounds of the walks are naturals.
LEMMA BoundType == StdLoops \in Nat /\ ExtLoops \in Nat /\ Bound \in Nat
BY SizeAssumption DEF StdLoops, ExtLoops, Bound

\* What a header of the hardware holds.
LEMMA NextType ==
  ASSUME Hardware, NEW p \in Places
  PROVE  hw.cap[p].next \in Pointers /\ hw.cap[p].id \in Ids
BY DEF Hardware, Headers

\* Path(p) exists: it follows the next pointers from p on.
LEMMA PathWorks ==
  ASSUME Hardware, NEW p \in Pointers
  PROVE  /\ Path(p) \in [0..Bound -> Pointers]
         /\ Path(p)[0] = p
         /\ \A i \in 1..Bound :
              Path(p)[i] = IF Path(p)[i - 1] = 0 THEN 0 ELSE hw.cap[Path(p)[i - 1]].next
<1> DEFINE next(q) == IF q = 0 THEN 0 ELSE hw.cap[q].next
           F == [q \in Pointers |-> next(q)]
<1>0. Bound \in Nat
  BY BoundType
<1>1. F \in [Pointers -> Pointers] /\ \A q \in Pointers : F[q] = next(q)
  BY NextType DEF Pointers
<1> HIDE DEF F
<1>2. PICK f : IsOrbit(f, Pointers, p, Bound, F)
  BY <1>0, <1>1, OrbitExists
<1>3. \A k \in 1..Bound : k - 1 \in 0..Bound /\ f[k] = next(f[k - 1])
  BY <1>0, <1>1, <1>2 DEF IsOrbit
<1>4. IsPath(f, p)
  <2>1. f = [i \in 0..Bound |-> f[i]] /\ f[0] = p
    BY <1>2 DEF IsOrbit
  <2>2. \A i \in 0..Bound : f[i] = IF i = 0 THEN p ELSE next(f[i - 1])
    <3>1. \A i \in 0..Bound : i = 0 \/ i \in 1..Bound
      BY <1>0
    <3>2. \A i \in 1..Bound : i # 0
      BY <1>0
    <3> QED
      BY <1>3, <2>1, <3>1, <3>2, Zenon
  <2> QED
    BY <2>1, <2>2 DEF IsPath
<1>5. IsPath(Path(p), p)
  BY <1>4, Zenon DEF Path, IsPath
<1> DEFINE g == Path(p)
<1>6. /\ DOMAIN g = 0..Bound /\ g = [i \in 0..Bound |-> g[i]]
      /\ g[0] = p /\ \A i \in 1..Bound : g[i] = next(g[i - 1])
  <2>1. 0 \in 0..Bound /\ \A i \in 1..Bound : i \in 0..Bound /\ i # 0
    BY <1>0
  <2> QED
    BY <1>5, <2>1 DEF IsPath
<1> HIDE DEF g
<1>7. \A i \in 0..Bound : g[i] \in Pointers
  <2> DEFINE T == {i \in Nat : i <= Bound => g[i] \in Pointers}
  <2>1. 0 \in T
    BY <1>6
  <2>2. ASSUME NEW i \in T PROVE i + 1 \in T
    <3> SUFFICES ASSUME i + 1 <= Bound PROVE g[i + 1] \in Pointers
      OBVIOUS
    <3> DEFINE j == i + 1
    <3>1. j \in 1..Bound /\ i = j - 1 /\ g[i] \in Pointers
      BY <1>0
    <3> HIDE DEF j
    <3>2. g[j] = next(g[i])
      BY <1>6, <3>1
    <3>3. g[j] \in Pointers
      BY <3>1, <3>2, NextType DEF Pointers
    <3> QED
      BY <3>3 DEF j
  <2>3. T \subseteq Nat
    OBVIOUS
  <2> HIDE DEF T
  <2>4. T = Nat
    BY <2>1, <2>2, <2>3, NatSetInduction
  <2> QED
    BY <1>0, <2>4 DEF T
<1> QED
  BY <1>6, <1>7 DEF g

\* A chain that has ended stays so.
LEMMA PathStays ==
  ASSUME Hardware, NEW p \in Pointers, NEW a \in 0..Bound, NEW b \in a..Bound,
         Path(p)[a] = 0
  PROVE  Path(p)[b] = 0
<1> DEFINE g == Path(p)
           T == {m \in Nat : a + m <= Bound => g[a + m] = 0}
<1>0. Bound \in Nat /\ a \in Nat /\ b \in Nat
  BY BoundType
<1>1. \A i \in 1..Bound : g[i - 1] = 0 => g[i] = 0
  BY PathWorks
<1> HIDE DEF g
<1>2. 0 \in T
  BY <1>0 DEF g
<1>3. ASSUME NEW m \in T PROVE m + 1 \in T
  <2> SUFFICES ASSUME a + (m + 1) <= Bound PROVE g[a + (m + 1)] = 0
    OBVIOUS
  <2> DEFINE i == a + (m + 1)
  <2>1. i \in 1..Bound /\ i - 1 = a + m /\ g[a + m] = 0
    BY <1>0
  <2> HIDE DEF i
  <2>2. g[i] = 0
    BY <1>1, <2>1
  <2> QED
    BY <2>2 DEF i
<1>4. T = Nat
  <2>1. T \subseteq Nat
    OBVIOUS
  <2> HIDE DEF T
  <2> QED
    BY <1>2, <1>3, <2>1, NatSetInduction
<1>5. b - a \in Nat /\ a + (b - a) = b
  BY <1>0
<1>6. a + (b - a) <= Bound => g[a + (b - a)] = 0
  BY <1>4, <1>5
<1> QED
  BY <1>0, <1>5, <1>6 DEF g

\* A sound chain meets no place twice: it would never end.
LEMMA PathDistinct ==
  ASSUME Hardware, NEW p \in Pointers, Sound(p),
         NEW i \in 0..Bound, NEW j \in 0..Bound, i < j, Path(p)[i] = Path(p)[j]
  PROVE  Path(p)[i] = 0
<1> DEFINE g == Path(p)
           U == {m \in 0..Bound : g[m] = 0}
           T == {m \in Nat : j + m <= Bound => g[i + m] = g[j + m]}
           next(q) == IF q = 0 THEN 0 ELSE hw.cap[q].next
<1>0. Bound \in Nat /\ i \in Nat /\ j \in Nat
  BY BoundType
<1>1. \A m \in 1..Bound : g[m] = next(g[m - 1])
  BY PathWorks
<1> HIDE DEF g, next
<1>2. PICK z \in U : \A m \in U : z <= m
  <2>1. U # {} /\ U \subseteq Nat
    BY <1>0 DEF g, Sound
  <2> HIDE DEF U
  <2> QED
    BY <2>1, LeastExists
<1>3. 0 \in T
  BY <1>0 DEF g
<1>4. ASSUME NEW m \in T PROVE m + 1 \in T
  <2> SUFFICES ASSUME j + (m + 1) <= Bound PROVE g[i + (m + 1)] = g[j + (m + 1)]
    OBVIOUS
  <2> DEFINE a == i + (m + 1)
             b == j + (m + 1)
  <2>1. /\ a \in 1..Bound /\ a - 1 = i + m
        /\ b \in 1..Bound /\ b - 1 = j + m
        /\ g[i + m] = g[j + m]
    BY <1>0
  <2> HIDE DEF a, b
  <2>2. g[a] = next(g[i + m]) /\ g[b] = next(g[j + m])
    BY <1>1, <2>1
  <2> QED
    BY <2>1, <2>2 DEF a, b
<1>5. T = Nat
  <2>1. T \subseteq Nat
    OBVIOUS
  <2> HIDE DEF T
  <2> QED
    BY <1>3, <1>4, <2>1, NatSetInduction
<1>6. z \in 0..Bound /\ g[z] = 0 /\ z \in Nat
  BY <1>0
<1>7. CASE z <= j
  <2>1. j \in z..Bound
    BY <1>0, <1>6, <1>7
  <2>2. g[j] = 0
    BY <1>6, <2>1, PathStays DEF g
  <2> QED
    BY <2>2 DEF g
<1>8. CASE z > j
  <2> DEFINE m == z - j
             a == i + m
  <2>1. m \in Nat /\ j + m = z /\ a \in 0..Bound /\ a < z /\ z <= Bound
    BY <1>0, <1>6, <1>8
  <2>2. g[a] = g[j + m]
    BY <1>5, <2>1
  <2> HIDE DEF a, m
  <2>3. a \in U
    BY <1>6, <2>1, <2>2
  <2>4. z <= a
    BY <1>2, <2>3
  <2> QED
    BY <1>6, <2>1, <2>4
<1> QED
  BY <1>6, <1>0, <1>7, <1>8

\* A sound chain over k dwords from base on has ended after k places.
LEMMA PathFits ==
  ASSUME Hardware, NEW p \in Pointers, Sound(p),
         NEW k \in 0..Bound, NEW base \in Nat,
         \A i \in 0..Bound : Path(p)[i] # 0 =>
           \E s \in 0..k - 1 : Path(p)[i] = base + 4 * s
  PROVE  Path(p)[k] = 0
<1> DEFINE g == Path(p)
<1> SUFFICES ASSUME g[k] # 0 PROVE FALSE
  OBVIOUS
<1>0. Bound \in Nat /\ k \in Nat
  BY BoundType
<1>1. \A i \in 0..k : i \in 0..Bound /\ g[i] # 0
  <2> SUFFICES ASSUME NEW i \in 0..k, g[i] = 0 PROVE FALSE
    BY <1>0
  <2>1. i \in 0..Bound /\ k \in i..Bound
    BY <1>0
  <2> QED
    BY <2>1, PathStays
<1> DEFINE slot == [i \in 0..k |-> CHOOSE s \in 0..k - 1 : g[i] = base + 4 * s]
<1>2. \A i \in 0..k : slot[i] \in 0..k - 1 /\ g[i] = base + 4 * slot[i]
  BY <1>1
<1>3. slot \in [0..k -> 0..k - 1]
  BY <1>2
<1> HIDE DEF slot, g
<1>4. /\ IsFiniteSet(0..k) /\ Cardinality(0..k) = k + 1
      /\ IsFiniteSet(0..k - 1) /\ Cardinality(0..k - 1) = k
  <2>1. k - 1 \in Int /\ 0 \in Int /\ k \in Int
    BY <1>0
  <2>2. IsFiniteSet(0..k) /\ Cardinality(0..k) = IF 0 > k THEN 0 ELSE k - 0 + 1
    BY <2>1, FS_Interval
  <2>3. IsFiniteSet(0..k - 1) /\ Cardinality(0..k - 1) = IF 0 > k - 1 THEN 0 ELSE k - 1 - 0 + 1
    BY <2>1, FS_Interval
  <2> QED
    BY <1>0, <2>2, <2>3
<1>5. \E x, y \in 0..k : x # y /\ slot[x] = slot[y]
  <2> DEFINE S == 0..k
             R == 0..k - 1
  <2>1. /\ IsFiniteSet(S) /\ IsFiniteSet(R) /\ Cardinality(R) < Cardinality(S)
        /\ slot \in [S -> R]
    BY <1>0, <1>3, <1>4
  <2> HIDE DEF S, R
  <2>2. \E x, y \in S : x # y /\ slot[x] = slot[y]
    BY <2>1, FS_PigeonHole
  <2> QED
    BY <2>2 DEF S
<1>6. PICK x \in 0..k, y \in 0..k : x # y /\ slot[x] = slot[y]
  BY <1>5
<1>7. g[x] = g[y] /\ x \in 0..Bound /\ y \in 0..Bound /\ (x < y \/ y < x)
  BY <1>0, <1>1, <1>2, <1>6
<1>8. g[x] = 0 \/ g[y] = 0
  BY <1>7, PathDistinct DEF g
<1> QED
  BY <1>1, <1>6, <1>8

\* A sound chain has ended at the bound.
LEMMA PathEnds ==
  ASSUME Hardware, NEW p \in Pointers, Sound(p)
  PROVE  Path(p)[Bound] = 0
<1>1. PICK i \in 0..Bound : Path(p)[i] = 0
  BY DEF Sound
<1>2. Bound \in i..Bound
  BY BoundType
<1> QED
  BY <1>1, <1>2, PathStays

\* The search for the first capability that is shown, turn by turn.
Settled(q) == q = 0 \/ Shown(q)
Turn(q)    == IF Settled(q) THEN q ELSE hw.cap[q].next
IsSearch(f, p) ==
  f = [n \in 0..Bound |-> LET here == IF n = 0 THEN p ELSE f[n - 1]
                          IN  IF here = 0 \/ Shown(here) THEN here ELSE hw.cap[here].next]
Search(p) == CHOOSE f : IsSearch(f, p)

\* FirstShown(p) is where that search is after Bound turns.
LEMMA SearchWorks ==
  ASSUME Hardware, NEW p \in Pointers
  PROVE  /\ Search(p)[0] = Turn(p)
         /\ \A n \in 1..Bound : Search(p)[n] = Turn(Search(p)[n - 1])
         /\ FirstShown(p) = Search(p)[Bound]
<1> DEFINE F == [q \in Pointers |-> Turn(q)]
<1>0. Bound \in Nat
  BY BoundType
<1>1. F \in [Pointers -> Pointers] /\ \A q \in Pointers : F[q] = Turn(q)
  BY NextType DEF Pointers, Turn, Settled
<1>2. Turn(p) \in Pointers
  BY <1>1
<1> HIDE DEF F
<1>3. PICK f : IsOrbit(f, Pointers, Turn(p), Bound, F)
  BY <1>0, <1>1, <1>2, OrbitExists
<1>4. /\ f = [n \in 0..Bound |-> f[n]] /\ f[0] = Turn(p)
      /\ \A n \in 1..Bound : f[n] = Turn(f[n - 1])
  <2>1. \A n \in 1..Bound : n - 1 \in 0..Bound
    BY <1>0
  <2> QED
    BY <1>1, <1>3, <2>1 DEF IsOrbit
<1>5. (\A n \in 0..Bound : n = 0 \/ n \in 1..Bound) /\ \A n \in 1..Bound : n # 0
  BY <1>0
<1>6. IsSearch(f, p)
  <2>1. \A n \in 0..Bound : f[n] = Turn(IF n = 0 THEN p ELSE f[n - 1])
    BY <1>4, <1>5, Zenon
  <2> QED
    BY <1>4, <2>1, Zenon DEF IsSearch, Turn, Settled
<1>7. IsSearch(Search(p), p)
  BY <1>6, Zenon DEF Search
<1>8. \A n \in 0..Bound :
        Search(p)[n] = Turn(IF n = 0 THEN p ELSE Search(p)[n - 1])
  BY <1>7 DEF IsSearch, Turn, Settled
<1>9. 0 \in 0..Bound /\ \A n \in 1..Bound : n \in 0..Bound /\ n # 0
  BY <1>0
<1>10. Search(p)[0] = Turn(p) /\ \A n \in 1..Bound : Search(p)[n] = Turn(Search(p)[n - 1])
  BY <1>8, <1>9, Zenon
<1>11. FirstShown(p) = Search(p)[Bound]
  BY DEF FirstShown, Search, IsSearch
<1> QED
  BY <1>10, <1>11

\* The search goes along the chain until it settles.
LEMMA SearchAlong ==
  ASSUME Hardware, NEW p \in Pointers, Sound(p),
         NEW j \in 0..Bound, NEW n \in 0..Bound
  PROVE  LET found == Search(Path(p)[j])[n]
         IN  Settled(found) \/ (j + n + 1 <= Bound /\ found = Path(p)[j + n + 1])
<1> DEFINE g == Path(p)
           f == Search(g[j])
           Fine(m) == Settled(f[m]) \/ (j + m + 1 <= Bound /\ f[m] = g[j + m + 1])
           T == {m \in Nat : m <= Bound => Fine(m)}
<1>0. Bound \in Nat /\ j \in Nat /\ n \in Nat
  BY BoundType
<1>1. g[Bound] = 0 /\ g[j] \in Pointers
  BY PathEnds, PathWorks
<1>2. \A i \in 1..Bound : ~Settled(g[i - 1]) => g[i] = hw.cap[g[i - 1]].next
  BY PathWorks DEF Settled
<1>3. f[0] = Turn(g[j]) /\ \A m \in 1..Bound : f[m] = Turn(f[m - 1])
  BY <1>1, SearchWorks
<1> HIDE DEF g, f
<1>4. \A i \in 0..Bound : ~Settled(g[i]) => i + 1 <= Bound /\ g[i + 1] = hw.cap[g[i]].next
  <2> SUFFICES ASSUME NEW i \in 0..Bound, ~Settled(g[i])
               PROVE  i + 1 <= Bound /\ g[i + 1] = hw.cap[g[i]].next
    OBVIOUS
  <2>1. i # Bound
    BY <1>1 DEF Settled
  <2> DEFINE k == i + 1
  <2>2. k \in 1..Bound /\ k - 1 = i
    BY <1>0, <2>1
  <2> HIDE DEF k
  <2>3. g[k] = hw.cap[g[i]].next
    BY <1>2, <2>2
  <2> QED
    BY <2>2, <2>3 DEF k
<1>5. 0 \in T
  <2>1. CASE Settled(g[j])
    BY <1>3, <2>1 DEF Turn
  <2>2. CASE ~Settled(g[j])
    <3>1. f[0] = hw.cap[g[j]].next
      BY <1>3, <2>2 DEF Turn
    <3>2. j + 0 + 1 = j + 1
      BY <1>0
    <3> QED
      BY <1>4, <2>2, <3>1, <3>2
  <2> QED
    BY <2>1, <2>2
<1>6. ASSUME NEW m \in T PROVE m + 1 \in T
  <2> SUFFICES ASSUME m + 1 <= Bound PROVE Fine(m + 1)
    OBVIOUS
  <2> DEFINE k == m + 1
             i == j + m + 1
  <2>1. k \in 1..Bound /\ k - 1 = m /\ m \in Nat /\ Fine(m) /\ i + 1 = j + k + 1
    BY <1>0
  <2>2. f[k] = Turn(f[m])
    <3> HIDE DEF k
    <3> QED
      BY <1>3, <2>1
  <2>3. CASE Settled(f[m])
    BY <2>2, <2>3 DEF Turn
  <2>4. CASE ~Settled(f[m])
    <3>1. i \in 0..Bound /\ f[m] = g[i]
      BY <1>0, <2>1, <2>4
    <3>2. i + 1 <= Bound /\ g[i + 1] = hw.cap[g[i]].next
      BY <1>4, <2>4, <3>1
    <3>3. f[k] = g[i + 1]
      BY <2>2, <2>4, <3>1, <3>2 DEF Turn
    <3> HIDE DEF i, k
    <3>4. Fine(k)
      BY <2>1, <3>2, <3>3
    <3> QED
      BY <3>4 DEF k
  <2> QED
    BY <2>3, <2>4
<1>7. T = Nat
  <2>1. T \subseteq Nat
    OBVIOUS
  <2> HIDE DEF T
  <2> QED
    BY <1>5, <1>6, <2>1, NatSetInduction
<1>8. Fine(n)
  BY <1>0, <1>7
<1> QED
  BY <1>8 DEF f, g

\* What is shown, or the end, is found at once.
LEMMA SettledFound ==
  ASSUME Hardware, NEW q \in Pointers, Settled(q)
  PROVE  FirstShown(q) = q
<1> DEFINE f == Search(q)
           T == {m \in Nat : m <= Bound => f[m] = q}
<1>0. Bound \in Nat
  BY BoundType
<1>1. f[0] = q /\ \A m \in 1..Bound : f[m] = Turn(f[m - 1])
  BY SearchWorks DEF Turn
<1> HIDE DEF f
<1>2. 0 \in T
  BY <1>1
<1>3. ASSUME NEW m \in T PROVE m + 1 \in T
  <2> SUFFICES ASSUME m + 1 <= Bound PROVE f[m + 1] = q
    OBVIOUS
  <2> DEFINE k == m + 1
  <2>1. k \in 1..Bound /\ k - 1 = m /\ f[m] = q
    BY <1>0
  <2> HIDE DEF k
  <2>2. f[k] = q
    BY <1>1, <2>1 DEF Turn
  <2> QED
    BY <2>2 DEF k
<1>4. T = Nat
  <2>1. T \subseteq Nat
    OBVIOUS
  <2> HIDE DEF T
  <2> QED
    BY <1>2, <1>3, <2>1, NatSetInduction
<1>5. f[Bound] = q
  BY <1>0, <1>4
<1> QED
  BY <1>5, SearchWorks DEF f

\* From a capability that is hidden, the search finds what it finds from the next.
LEMMA HiddenSkipped ==
  ASSUME Hardware, NEW p \in Pointers, Sound(p),
         NEW j \in 0..Bound, ~Settled(Path(p)[j])
  PROVE  FirstShown(Path(p)[j]) = FirstShown(hw.cap[Path(p)[j]].next)
<1> DEFINE g == Path(p)
           k == j + 1
<1>0. Bound \in Nat /\ j \in Nat
  BY BoundType
<1>1. j # Bound
  BY PathEnds DEF Settled
<1>2. k \in 1..Bound /\ k \in 0..Bound /\ k - 1 = j /\ k \in Nat
  BY <1>0, <1>1
<1> HIDE DEF k
<1>3. g[k] = hw.cap[g[j]].next /\ g[j] \in Pointers /\ g[k] \in Pointers
  <2>1. g[k] = IF g[j] = 0 THEN 0 ELSE hw.cap[g[j]].next
    BY <1>2, PathWorks
  <2> QED
    BY <1>2, <2>1, PathWorks DEF Settled
<1> DEFINE f == Search(g[j])
           h == Search(g[k])
           T == {m \in Nat : m + 1 <= Bound => f[m + 1] = h[m]}
<1>4. f[0] = g[k] /\ \A m \in 1..Bound : f[m] = Turn(f[m - 1])
  BY <1>3, SearchWorks DEF Turn
<1>5. h[0] = Turn(g[k]) /\ \A m \in 1..Bound : h[m] = Turn(h[m - 1])
  BY <1>3, SearchWorks
<1>6. /\ FirstShown(g[j]) = f[Bound] /\ FirstShown(g[k]) = h[Bound]
      /\ Settled(h[Bound - 1])
  <2>1. Bound - 1 \in 0..Bound /\ ~(k + (Bound - 1) + 1 <= Bound)
    BY <1>2, <1>0
  <2>2. Settled(h[Bound - 1])
    BY <1>2, <2>1, SearchAlong
  <2> QED
    BY <1>3, <2>2, SearchWorks
<1> HIDE DEF f, h, g
<1>7. 0 \in T
  <2>1. 1 \in 1..Bound /\ 1 - 1 = 0 /\ 0 + 1 = 1
    BY <1>2, <1>0
  <2>2. f[1] = h[0]
    BY <1>4, <1>5, <2>1
  <2> QED
    BY <2>1, <2>2
<1>8. ASSUME NEW m \in T PROVE m + 1 \in T
  <2> DEFINE a == m + 1
             b == a + 1
  <2> SUFFICES ASSUME b <= Bound PROVE f[b] = h[a]
    OBVIOUS
  <2>1. a \in 1..Bound /\ a - 1 = m /\ b \in 1..Bound /\ b - 1 = a /\ f[a] = h[m]
    BY <1>0
  <2> HIDE DEF a, b
  <2> QED
    BY <1>4, <1>5, <2>1
<1>9. T = Nat
  <2>1. T \subseteq Nat
    OBVIOUS
  <2> HIDE DEF T
  <2> QED
    BY <1>7, <1>8, <2>1, NatSetInduction
<1>10. f[Bound] = h[Bound - 1]
  <2> DEFINE m == Bound - 1
  <2>1. m \in Nat /\ m + 1 = Bound
    BY <1>0, <1>2
  <2> HIDE DEF m
  <2>2. f[m + 1] = h[m]
    BY <1>9, <2>1
  <2> QED
    BY <2>1, <2>2 DEF m
<1>11. h[Bound] = h[Bound - 1]
  <2>1. Bound \in 1..Bound
    BY <1>0, <1>2
  <2>2. h[Bound] = Turn(h[Bound - 1])
    BY <1>5, <2>1
  <2> QED
    BY <1>6, <2>2 DEF Turn
<1>12. FirstShown(g[j]) = FirstShown(g[k])
  BY <1>6, <1>10, <1>11
<1> QED
  BY <1>3, <1>12 DEF g

\* The length of the capability at p.
Span(p) == Length[hw.cap[p].id]

\* What Regular says of the device at hand.
LEMMA Laid ==
  ASSUME Regular, hw \in Devices
  PROVE  /\ Hardware /\ hw.head < StdSize
         /\ \A p \in Places : /\ p \in Nat /\ p % 4 = 0 /\ HeaderSize <= p /\ p < CfgSize
                              /\ hw.cap[p].next \in Pointers /\ hw.cap[p].id \in Ids
                              /\ hw.cap[p].next = 0 \/ (hw.cap[p].next < StdSize <=> p < StdSize)
         /\ \A p \in Places : Shown(p) =>
              /\ Span(p) \in Nat /\ Span(p) >= 4 /\ p + Span(p) <= CfgSize
              /\ p < StdSize => p + Span(p) <= StdSize
         /\ \A p, q \in Places : Shown(p) /\ Shown(q) /\ p < q => p + Span(p) <= q
<1>1. Hardware
  BY DeviceAssumption DEF Hardware
<1>2. \A p \in Places : /\ p \in Nat /\ HeaderSize <= p /\ p < CfgSize
                        /\ hw.cap[p].next \in Pointers /\ hw.cap[p].id \in Ids
                        /\ Span(p) \in Nat \cup {-1}
  BY <1>1, NextType, PlaceAssumption, SizeAssumption, IdAssumption DEF Span
<1>3. /\ hw.head < StdSize
      /\ \A p \in Places : p % 4 = 0
      /\ \A p \in Places :
           hw.cap[p].next = 0 \/ (hw.cap[p].next < StdSize <=> p < StdSize)
  BY DEF Regular
<1>4. \A p \in Places : Shown(p) =>
        /\ Span(p) >= 4
        /\ p + Span(p) <= IF p < StdSize THEN StdSize ELSE CfgSize
        /\ \A q \in Places : Shown(q) /\ p < q => p + Span(p) <= q
  BY DEF Regular, Shown, Span
<1>5. \A p \in Places : Shown(p) =>
        /\ Span(p) \in Nat /\ Span(p) >= 4 /\ p + Span(p) <= CfgSize
        /\ p < StdSize => p + Span(p) <= StdSize
  <2> SUFFICES ASSUME NEW p \in Places, Shown(p)
               PROVE  /\ Span(p) \in Nat /\ Span(p) >= 4 /\ p + Span(p) <= CfgSize
                      /\ p < StdSize => p + Span(p) <= StdSize
    OBVIOUS
  <2>1. Span(p) \in Nat /\ p \in Nat
    BY <1>2, <1>4
  <2>2. /\ Span(p) >= 4
        /\ p + Span(p) <= IF p < StdSize THEN StdSize ELSE CfgSize
    BY <1>4
  <2> QED
    BY <2>1, <2>2, SizeAssumption
<1> QED
  BY <1>1, <1>2, <1>3, <1>4, <1>5

\* A chain stays in any set that its pointers do not leave.
LEMMA PathWithin ==
  ASSUME Hardware, NEW p \in Pointers, NEW S, p \in S, 0 \in S,
         \A q \in S \cap Places : hw.cap[q].next \in S
  PROVE  \A i \in 0..Bound : Path(p)[i] \in S
<1> DEFINE g == Path(p)
           T == {i \in Nat : i <= Bound => g[i] \in S}
<1>0. Bound \in Nat
  BY BoundType
<1>1. /\ g \in [0..Bound -> Pointers] /\ g[0] = p
      /\ \A i \in 1..Bound : g[i] = IF g[i - 1] = 0 THEN 0 ELSE hw.cap[g[i - 1]].next
  BY PathWorks
<1> HIDE DEF g
<1>2. 0 \in T
  BY <1>1
<1>3. ASSUME NEW i \in T PROVE i + 1 \in T
  <2> SUFFICES ASSUME i + 1 <= Bound PROVE g[i + 1] \in S
    OBVIOUS
  <2> DEFINE j == i + 1
  <2>1. j \in 1..Bound /\ j - 1 = i /\ i \in 0..Bound /\ g[i] \in S
    BY <1>0
  <2> HIDE DEF j
  <2>2. g[j] = IF g[i] = 0 THEN 0 ELSE hw.cap[g[i]].next
    BY <1>1, <2>1
  <2>3. g[i] = 0 \/ g[i] \in Places
    BY <1>1, <2>1 DEF Pointers
  <2>4. g[j] \in S
    BY <2>1, <2>2, <2>3
  <2> QED
    BY <2>4 DEF j
<1>4. T = Nat
  <2>1. T \subseteq Nat
    OBVIOUS
  <2> HIDE DEF T
  <2> QED
    BY <1>2, <1>3, <2>1, NatSetInduction
<1> QED
  BY <1>0, <1>4 DEF g

\* The chains stay in their parts of the config space.
LEMMA PathsApart ==
  ASSUME Regular, hw \in Devices
  PROVE  /\ \A i \in 0..Bound : /\ Path(hw.head)[i] \in Pointers
                                /\ Path(hw.head)[i] < StdSize
         /\ \A i \in 0..Bound : /\ Path(StdSize)[i] \in Pointers
                                /\ Path(StdSize)[i] = 0 \/ Path(StdSize)[i] >= StdSize
<1>1. Hardware /\ hw.head \in Pointers /\ hw.head < StdSize /\ StdSize \in Pointers
  BY Laid, PlaceAssumption DEF Hardware, Pointers
<1>2. StdSize \in Nat /\ StdSize > 0
  BY SizeAssumption
<1>3. \A p \in Pointers : p \in Nat
  BY <1>2, PlaceAssumption, SizeAssumption DEF Pointers
<1>4. \A i \in 0..Bound : Path(hw.head)[i] \in {p \in Pointers : p < StdSize}
  <2> DEFINE S == {p \in Pointers : p < StdSize}
  <2>1. hw.head \in S /\ 0 \in S
    BY <1>1, <1>2 DEF Pointers
  <2>2. \A q \in S \cap Places : hw.cap[q].next \in S
    BY <1>2, Laid DEF Pointers
  <2> HIDE DEF S
  <2>3. \A i \in 0..Bound : Path(hw.head)[i] \in S
    BY <1>1, <2>1, <2>2, PathWithin
  <2> QED
    BY <2>3 DEF S
<1>5. \A i \in 0..Bound : Path(StdSize)[i] \in {p \in Pointers : p = 0 \/ p >= StdSize}
  <2> DEFINE S == {p \in Pointers : p = 0 \/ p >= StdSize}
  <2>1. StdSize \in S /\ 0 \in S
    BY <1>1, <1>2 DEF Pointers
  <2>2. \A q \in S \cap Places : hw.cap[q].next \in S
    <3> SUFFICES ASSUME NEW q \in S \cap Places PROVE hw.cap[q].next \in S
      OBVIOUS
    <3>1. q # 0 /\ q \in Nat
      BY <1>3, PlaceAssumption, SizeAssumption DEF Pointers
    <3>2. ~(q < StdSize)
      BY <1>2, <3>1
    <3>3. /\ hw.cap[q].next \in Pointers
          /\ hw.cap[q].next = 0 \/ (hw.cap[q].next < StdSize <=> q < StdSize)
      BY Laid
    <3>4. hw.cap[q].next \in Nat
      BY <1>3, <3>3
    <3> QED
      BY <1>2, <3>2, <3>3, <3>4
  <2> HIDE DEF S
  <2>3. \A i \in 0..Bound : Path(StdSize)[i] \in S
    BY <1>1, <2>1, <2>2, PathWithin
  <2> QED
    BY <2>3 DEF S
<1> QED
  BY <1>4, <1>5

\* So they end within the loops of their walks.
LEMMA PathsEnd ==
  ASSUME Regular, hw \in Devices
  PROVE  /\ Sound(hw.head) => Path(hw.head)[StdLoops] = 0
         /\ Sound(StdSize) => Path(StdSize)[ExtLoops] = 0
<1>1. Hardware /\ hw.head \in Pointers /\ StdSize \in Pointers
  BY Laid, PlaceAssumption DEF Hardware, Pointers
<1>2. /\ StdLoops \in 0..Bound /\ ExtLoops \in 0..Bound
      /\ HeaderSize \in Nat /\ StdSize \in Nat /\ CfgSize \in Nat
      /\ HeaderSize % 4 = 0 /\ StdSize % 4 = 0 /\ CfgSize % 4 = 0
      /\ HeaderSize < StdSize /\ StdSize <= CfgSize
  BY BoundType, SizeAssumption DEF Bound, Regular
<1>3. \A p \in Places : p \in Nat /\ p % 4 = 0 /\ HeaderSize <= p /\ p < CfgSize
  BY Laid
<1>4. ASSUME Sound(hw.head) PROVE Path(hw.head)[StdLoops] = 0
  <2>1. ASSUME NEW i \in 0..Bound, Path(hw.head)[i] # 0
        PROVE  \E s \in 0..StdLoops - 1 : Path(hw.head)[i] = HeaderSize + 4 * s
    <3> DEFINE q == Path(hw.head)[i]
               s == (q - HeaderSize) \div 4
    <3>1. q \in Places /\ q < StdSize
      BY <2>1, PathsApart DEF Pointers
    <3> HIDE DEF q
    <3>2. s \in 0..StdLoops - 1 /\ q = HeaderSize + 4 * s
      BY <1>2, <1>3, <3>1 DEF StdLoops
    <3> QED
      BY <3>2 DEF q
  <2> QED
    BY <1>1, <1>2, <1>4, <2>1, PathFits
<1>5. ASSUME Sound(StdSize) PROVE Path(StdSize)[ExtLoops] = 0
  <2>1. ASSUME NEW i \in 0..Bound, Path(StdSize)[i] # 0
        PROVE  \E s \in 0..ExtLoops - 1 : Path(StdSize)[i] = StdSize + 4 * s
    <3> DEFINE q == Path(StdSize)[i]
               s == (q - StdSize) \div 4
    <3>1. q \in Places /\ q >= StdSize
      BY <2>1, PathsApart DEF Pointers
    <3> HIDE DEF q
    <3>2. s \in 0..ExtLoops - 1 /\ q = StdSize + 4 * s
      BY <1>2, <1>3, <3>1 DEF ExtLoops
    <3> QED
      BY <3>2 DEF q
  <2> QED
    BY <1>1, <1>2, <1>5, <2>1, PathFits
<1> QED
  BY <1>4, <1>5

\* What a turn adds to the places that were visited.
LEMMA VisitedGrows ==
  ASSUME Hardware, NEW p \in Pointers, NEW n \in 0..Bound
  PROVE  /\ Visited(p, n + 1) = Visited(p, n) \cup ({Path(p)[n]} \ {0})
         /\ Visited(p, 0) = {}
         /\ Path(p)[n] = 0 => Visited(p, n) = OnChain(p)
         /\ Sound(p) /\ Path(p)[n] # 0 => Path(p)[n] \notin Visited(p, n)
         /\ Visited(p, n) \subseteq OnChain(p)
         /\ Path(p)[n] # 0 => Path(p)[n] \in OnChain(p)
         /\ OnChain(p) \subseteq Places
<1>0. Bound \in Nat /\ n \in Nat /\ n <= Bound
  BY BoundType
<1>1. 0..(n + 1) - 1 = 0..n - 1 \cup {n} /\ 0..0 - 1 = {} /\ 0..(Bound + 1) - 1 = 0..Bound
  BY <1>0
<1>2. Visited(p, n + 1) = Visited(p, n) \cup ({Path(p)[n]} \ {0})
  BY <1>1 DEF Visited
<1>3. OnChain(p) = {Path(p)[i] : i \in 0..Bound} \ {0}
  BY <1>1 DEF OnChain, Visited
<1>4. ASSUME Path(p)[n] = 0 PROVE Visited(p, n) = OnChain(p)
  <2>1. ASSUME NEW i \in 0..Bound, Path(p)[i] # 0 PROVE i \in 0..n - 1
    <3>1. ~(i \in n..Bound)
      BY <1>4, <2>1, PathStays
    <3> QED
      BY <1>0, <3>1
  <2>2. 0..n - 1 \subseteq 0..Bound
    BY <1>0
  <2> QED
    BY <1>3, <2>1, <2>2 DEF Visited
<1>5. ASSUME Sound(p), Path(p)[n] # 0 PROVE Path(p)[n] \notin Visited(p, n)
  <2>1. ASSUME NEW i \in 0..n - 1, Path(p)[i] = Path(p)[n] PROVE FALSE
    <3>1. i \in 0..Bound /\ i < n
      BY <1>0
    <3> QED
      BY <1>5, <2>1, <3>1, PathDistinct
  <2> QED
    BY <2>1 DEF Visited
<1>6. Visited(p, n) \subseteq OnChain(p) /\ (Path(p)[n] # 0 => Path(p)[n] \in OnChain(p))
  <2>1. 0..n - 1 \subseteq 0..Bound
    BY <1>0
  <2> QED
    BY <1>3, <2>1 DEF Visited
<1>7. OnChain(p) \subseteq Places
  <2>1. \A i \in 0..Bound : Path(p)[i] \in Pointers
    BY PathWorks
  <2> QED
    BY <1>3, <2>1 DEF Pointers
<1>8. Visited(p, 0) = {}
  BY <1>1 DEF Visited
<1> QED
  BY <1>2, <1>4, <1>5, <1>6, <1>7, <1>8

\* What is said of the hardware does not change with the walk.
LEMMA SameHardware ==
  ASSUME hw' = hw
  PROVE  /\ \A p : Path(p)' = Path(p)
         /\ \A p : FirstShown(p)' = FirstShown(p)
         /\ \A p : Led(p)' = Led(p)
         /\ \A p : Shown(p)' <=> Shown(p)
         /\ \A p : Sound(p)' <=> Sound(p)
         /\ \A p, n : Visited(p, n)' = Visited(p, n)
         /\ Std' = Std /\ Ext' = Ext
         /\ ExtReadable' <=> ExtReadable
         /\ StdKept' = {p \in IF phase' = "cap"
                              THEN IF hw.listed THEN Visited(hw.head, StdLoops - loops') ELSE {}
                              ELSE Std : Shown(p)}
         /\ ExtKept' = {p \in IF phase' = "ecap" THEN Visited(StdSize, ExtLoops - loops')
                              ELSE IF phase' = "ready" /\ extended' THEN Ext ELSE {} :
                          Shown(p) \/ p = StdSize}
<1>1. \A p : Path(p)' = Path(p)
  BY DEF Path
<1>2. \A p : FirstShown(p)' = FirstShown(p)
  BY DEF FirstShown, Shown
<1>3. \A p : Led(p)' = Led(p)
  BY DEF Led
<1>4. \A p : Shown(p)' <=> Shown(p)
  BY DEF Shown
<1>5. \A p : Sound(p)' <=> Sound(p)
  BY DEF Sound, Path
<1>6. \A p, n : Visited(p, n)' = Visited(p, n)
  BY DEF Visited, Path
<1>7. Std' = Std /\ Ext' = Ext
  BY DEF Std, Ext, OnChain, Visited, Path
<1>8. ExtReadable' <=> ExtReadable
  BY <1>7 DEF ExtReadable
<1>9. StdKept' = {p \in IF phase' = "cap"
                              THEN IF hw.listed THEN Visited(hw.head, StdLoops - loops') ELSE {}
                              ELSE Std : Shown(p)}
  BY <1>7 DEF StdKept, Visited, Path, Shown
<1>10. ExtKept' = {p \in IF phase' = "ecap" THEN Visited(StdSize, ExtLoops - loops')
                              ELSE IF phase' = "ready" /\ extended' THEN Ext ELSE {} :
                          Shown(p) \/ p = StdSize}
  BY <1>7 DEF ExtKept, Visited, Path, Shown
<1> QED
  BY <1>1, <1>2, <1>3, <1>4, <1>5, <1>6, <1>7, <1>8, <1>9, <1>10

\* A pointer that is not 0 is a place, and no place is 0.
LEMMA PlacePointers ==
  /\ StdSize \in Pointers /\ StdSize > 0
  /\ \A p \in Pointers : p \in Nat /\ (p # 0 => p \in Places /\ p > 0)
BY PlaceAssumption, SizeAssumption DEF Pointers

\* The walk begins at the head of the standard chain.
LEMMA WalkInitial == LayoutInit => WalkInv
<1> SUFFICES ASSUME LayoutInit PROVE WalkInv
  OBVIOUS
<1>1. hw \in Devices /\ phase = "cap" /\ loops = StdLoops
      /\ pos = IF hw.listed THEN hw.head ELSE 0
  BY DEF LayoutInit
<1>2. Hardware /\ hw.head \in Pointers
  BY <1>1, DeviceAssumption DEF Hardware
<1>3. Path(hw.head)[0] = hw.head /\ StdLoops - loops = 0 /\ loops <= StdLoops
  BY <1>1, <1>2, PathWorks, BoundType
<1> QED
  BY <1>1, <1>3 DEF WalkInv

\* Each turn of vfio_cap_init and vfio_ecap_init follows one pointer of the hardware.
LEMMA WalkStep == LayoutTypeOK /\ WalkInv /\ [Walk]_layoutVars => WalkInv'
<1> SUFFICES ASSUME LayoutTypeOK, WalkInv, [Walk]_layoutVars PROVE WalkInv'
  BY Zenon
<1>1. hw' = hw
  BY DEF Walk, layoutVars, CapHidden, CapTaken, CapUnreadable, CapEnd,
         EcapHidden, EcapAnchor, EcapTaken, EcapUnreadable, EcapEnd
<1>2. Hardware /\ hw.head \in Pointers /\ StdSize \in Pointers /\ StdSize # 0
  BY PlacePointers DEF LayoutTypeOK, Hardware
<1>3. /\ StdLoops \in Nat /\ ExtLoops \in Nat /\ Bound = StdLoops + ExtLoops
      /\ loops \in Nat /\ pos \in Pointers
  BY BoundType DEF Bound, LayoutTypeOK
<1>4. WalkInv' <=>
        /\ hw \in Devices
        /\ phase' = "cap" =>
             /\ loops' <= StdLoops
             /\ pos' = IF hw.listed THEN Path(hw.head)[StdLoops - loops'] ELSE 0
        /\ phase' = "ecap" =>
             /\ loops' <= ExtLoops
             /\ pos' = Path(StdSize)[ExtLoops - loops']
             /\ prev' = 0 <=> loops' = ExtLoops
             /\ prev' = 0 \/ prev' >= StdSize
             /\ extended'
  BY <1>1 DEF WalkInv, Path
<1>5. ASSUME CapTurn, phase' = "cap" PROVE WalkInv'
  <2> DEFINE n == StdLoops - loops
             k == n + 1
  <2>1. /\ loops > 0 /\ loops' = loops - 1 /\ pos' = hw.cap[pos].next /\ pos # 0
        /\ hw.listed /\ loops <= StdLoops /\ pos = Path(hw.head)[n]
    BY <1>5 DEF CapTurn, Visit, Cap, WalkInv
  <2>2. k \in 1..Bound /\ k - 1 = n /\ StdLoops - loops' = k /\ loops' <= StdLoops
    BY <1>3, <2>1
  <2> HIDE DEF n, k
  <2>3. Path(hw.head)[k] = pos'
    BY <1>2, <2>1, <2>2, PathWorks
  <2> QED
    BY <1>4, <1>5, <2>1, <2>2, <2>3 DEF WalkInv
<1>6. ASSUME EcapTurn, phase' = "ecap", prev' # 0, prev' >= StdSize, extended'
      PROVE WalkInv'
  <2> DEFINE n == ExtLoops - loops
             k == n + 1
  <2>1. /\ loops > 0 /\ loops' = loops - 1 /\ pos' = hw.cap[pos].next /\ pos # 0
        /\ loops <= ExtLoops /\ pos = Path(StdSize)[n]
    BY <1>3, <1>6, PlacePointers DEF EcapTurn, Visit, Cap, WalkInv
  <2>2. /\ k \in 1..Bound /\ k - 1 = n /\ ExtLoops - loops' = k /\ loops' <= ExtLoops
        /\ loops' # ExtLoops
    BY <1>3, <2>1
  <2> HIDE DEF n, k
  <2>3. Path(StdSize)[k] = pos'
    BY <1>2, <2>1, <2>2, PathWorks
  <2> QED
    BY <1>4, <1>6, <2>1, <2>2, <2>3 DEF WalkInv
<1>7. CASE CapHidden \/ CapTaken
  BY <1>5, <1>7 DEF CapHidden, CapTaken, CapTurn
<1>8. CASE CapUnreadable \/ EcapUnreadable \/ EcapEnd
  BY <1>4, <1>8 DEF CapUnreadable, EcapUnreadable, EcapEnd, WalkInv
<1>9. CASE CapEnd
  <2>1. /\ phase' # "cap" /\ pos' = StdSize /\ prev' = 0 /\ loops' = ExtLoops
        /\ phase' = "ecap" => extended'
    BY <1>9 DEF CapEnd
  <2>2. Path(StdSize)[0] = StdSize /\ ExtLoops - loops' = 0 /\ loops' <= ExtLoops
    BY <1>2, <1>3, <2>1, PathWorks
  <2> QED
    BY <1>4, <2>1, <2>2 DEF WalkInv
<1>10. CASE EcapHidden \/ EcapAnchor \/ EcapTaken
  <2>1. EcapTurn /\ phase' = "ecap" /\ prev' # 0 /\ prev' >= StdSize /\ extended'
    BY <1>3, <1>10, PlacePointers DEF EcapHidden, EcapAnchor, EcapTaken, EcapTurn, WalkInv
  <2> QED
    BY <1>6, <2>1
<1>11. CASE UNCHANGED layoutVars
  BY <1>4, <1>11 DEF WalkInv, layoutVars
<1> QED
  BY <1>7, <1>8, <1>9, <1>10, <1>11 DEF Walk

\* Where the walk is, is on one of the chains.
LEMMA AtPlace ==
  ASSUME LayoutTypeOK, WalkInv
  PROVE  /\ CapTurn => pos \in Std
         /\ EcapTurn => pos \in Ext /\ (prev = 0 <=> pos = StdSize /\ loops = ExtLoops)
         /\ Std \subseteq Places /\ Ext \subseteq Places
<1>1. Hardware /\ hw.head \in Pointers /\ StdSize \in Pointers /\ StdSize # 0
  BY PlacePointers DEF LayoutTypeOK, Hardware
<1>2. /\ StdLoops \in Nat /\ ExtLoops \in Nat /\ Bound = StdLoops + ExtLoops
      /\ loops \in Nat /\ pos \in Pointers
  BY BoundType DEF Bound, LayoutTypeOK
<1>3. ASSUME CapTurn PROVE pos \in Std
  <2>1. hw.listed /\ pos = Path(hw.head)[StdLoops - loops] /\ StdLoops - loops \in 0..Bound /\ pos # 0
    BY <1>2, <1>3 DEF CapTurn, WalkInv
  <2> QED
    BY <1>1, <2>1, VisitedGrows DEF Std
<1>4. ASSUME EcapTurn PROVE pos \in Ext /\ (prev = 0 <=> pos = StdSize /\ loops = ExtLoops)
  <2>1. /\ pos = Path(StdSize)[ExtLoops - loops] /\ ExtLoops - loops \in 0..Bound /\ pos # 0
        /\ prev = 0 <=> loops = ExtLoops
    BY <1>2, <1>4, PlacePointers DEF EcapTurn, WalkInv
  <2>2. Path(StdSize)[0] = StdSize /\ (loops = ExtLoops => ExtLoops - loops = 0)
    BY <1>1, <1>2, PathWorks
  <2> QED
    BY <1>1, <2>1, <2>2, VisitedGrows DEF Ext
<1>5. 0 \in 0..Bound
  BY <1>2
<1>6. Std \subseteq Places /\ Ext \subseteq Places
  BY <1>1, <1>5, VisitedGrows DEF Std, Ext
<1> QED
  BY <1>3, <1>4, <1>6

\* Nothing is marked before the walk.
LEMMA MapInitial == LayoutInit => MapInv
BY SizeAssumption, IdAssumption DEF LayoutInit, MapInv

\* A mark of the capability at hand, or of the anchor, is a mark MapInv allows.
LEMMA MarkStep ==
  ASSUME LayoutTypeOK, WalkInv, MapInv, hw' = hw, Std' = Std, Ext' = Ext, NEW len, Mark(len, Cap.id),
         \/ pos \in Std \cup Ext /\ len = Size /\ Size > 0
         \/ pos = StdSize /\ len = 4 /\ Size = 0
  PROVE  MapInv'
<1>1. /\ map \in [0..CfgSize - 1 -> Mapped] /\ pos \in Pointers
      /\ CfgSize \in Nat /\ HeaderSize \in Nat /\ StdSize \in Nat /\ HeaderSize < StdSize
  BY SizeAssumption DEF LayoutTypeOK
<1>2. pos \in Places /\ pos \in Nat /\ HeaderSize <= pos
  <2>1. Std \subseteq Places /\ Ext \subseteq Places
    BY AtPlace
  <2>2. pos \in Places
    BY <2>1, PlaceAssumption
  <2> QED
    BY <1>1, <2>2, PlaceAssumption
<1>3. Cap.id \in Ids /\ Cap = hw.cap[pos] /\ Size = Length[Cap.id] /\ Cap.id # "basic"
  BY <1>2, NextType, IdAssumption DEF Cap, Size, LayoutTypeOK, Hardware
<1>4. \A b \in 0..CfgSize - 1 :
        map'[b] = IF pos <= b /\ b < pos + len THEN Cap.id ELSE map[b]
  BY <1>1 DEF Mark
<1>5. ASSUME NEW b \in 0..CfgSize - 1
      PROVE  /\ map'[b] = "basic" <=> b < HeaderSize
             /\ map'[b] \in Ids =>
                  \/ \E p \in Std \cup Ext :
                       Shown(p) /\ hw.cap[p].id = map'[b] /\ p <= b /\ b < p + Length[map'[b]]
                  \/ /\ b \in StdSize..StdSize + 3
                     /\ map'[b] = hw.cap[StdSize].id /\ Length[map'[b]] = 0
  <2>1. CASE ~(pos <= b /\ b < pos + len)
    BY <1>4, <2>1 DEF MapInv
  <2>2. CASE pos <= b /\ b < pos + len
    <3>1. map'[b] = Cap.id /\ ~(b < HeaderSize)
      BY <1>1, <1>2, <1>4, <2>2
    <3>2. CASE pos \in Std \cup Ext /\ len = Size /\ Size > 0
      BY <1>3, <2>2, <3>1, <3>2 DEF Shown
    <3>3. CASE pos = StdSize /\ len = 4 /\ Size = 0
      BY <1>1, <1>3, <2>2, <3>1, <3>3
    <3> QED
      BY <3>2, <3>3
  <2> QED
    BY <2>1, <2>2
<1> QED
  BY <1>5 DEF MapInv, Shown

\* vfio_config_init only marks what belongs to a capability it is at.
LEMMA MapStep == LayoutTypeOK /\ WalkInv /\ MapInv /\ [Walk]_layoutVars => MapInv'
<1> SUFFICES ASSUME LayoutTypeOK, WalkInv, MapInv, [Walk]_layoutVars PROVE MapInv'
  BY Zenon
<1>1. hw' = hw
  BY DEF Walk, layoutVars, CapHidden, CapTaken, CapUnreadable, CapEnd,
         EcapHidden, EcapAnchor, EcapTaken, EcapUnreadable, EcapEnd
<1>2. Std' = Std /\ Ext' = Ext
  BY <1>1, SameHardware
<1>3. CASE CapTaken
  <2>1. CapTurn /\ Mark(Size, Cap.id) /\ Size > 0
    BY <1>3 DEF CapTaken
  <2> QED
    BY <1>1, <1>2, <2>1, MarkStep, AtPlace
<1>4. CASE EcapTaken
  <2>1. EcapTurn /\ Mark(Size, Cap.id) /\ Size > 0
    BY <1>4 DEF EcapTaken
  <2> QED
    BY <1>1, <1>2, <2>1, MarkStep, AtPlace
<1>5. CASE EcapAnchor
  <2>1. EcapTurn /\ Mark(4, Cap.id) /\ Size = 0 /\ prev = 0
    BY <1>5 DEF EcapAnchor
  <2> QED
    BY <1>1, <1>2, <2>1, MarkStep, AtPlace
<1>6. ASSUME map' = map PROVE MapInv'
  BY <1>1, <1>2, <1>6 DEF MapInv, Shown
<1> QED
  BY <1>3, <1>4, <1>5, <1>6
  DEF Walk, layoutVars, CapHidden, CapUnreadable, CapEnd, EcapHidden, EcapUnreadable, EcapEnd

\* vfio_pci_cap_remaining_dword stops within the dword, and before another mark.
LEMMA RemainingWorks ==
  ASSUME NEW p \in Nat
  PROVE  /\ Remaining(p) \in 1..4
         /\ \A j \in 1..Remaining(p) - 1 : (p + j) % 4 # 0 /\ map[p + j] = map[p]
         /\ (p + Remaining(p)) % 4 = 0 \/ map[p + Remaining(p)] # map[p]
<1> DEFINE Stop(i) == (p + i) % 4 = 0 \/ map[p + i] # map[p]
           U == {i \in 1..4 : Stop(i)}
           Good(i) == /\ \A j \in 1..i - 1 : (p + j) % 4 # 0 /\ map[p + j] = map[p]
                      /\ Stop(i)
<1>1. (p + 1) % 4 = 0 \/ (p + 2) % 4 = 0 \/ (p + 3) % 4 = 0 \/ (p + 4) % 4 = 0
  OBVIOUS
<1>2. U # {} /\ U \subseteq Nat
  <2>1. \E i \in 1..4 : Stop(i)
    BY <1>1
  <2> HIDE DEF Stop
  <2> QED
    BY <2>1
<1>3. PICK i \in U : \A k \in U : i <= k
  <2> HIDE DEF U
  <2> QED
    BY <1>2, LeastExists
<1>4. \A j \in 1..i - 1 : j \in 1..4 /\ ~(i <= j)
  OBVIOUS
<1>5. \A j \in 1..i - 1 : ~Stop(j)
  BY <1>3, <1>4
<1>6. i \in 1..4 /\ Good(i)
  BY <1>5
<1>7. Remaining(p) = CHOOSE k \in 1..4 : Good(k)
  BY DEF Remaining
<1> HIDE DEF Good
<1>8. Remaining(p) \in 1..4 /\ Good(Remaining(p))
  BY <1>6, <1>7
<1> QED
  BY <1>8 DEF Good

\* A chunk is no longer than what is left, aligned, and of one mark.
LEMMA ChunkWorks ==
  ASSUME NEW p \in Nat, NEW n \in 1..4
  PROVE  /\ Chunk(p, n) \in {1, 2, 4} /\ Chunk(p, n) <= n /\ p % Chunk(p, n) = 0
         /\ \A q \in p..p + Chunk(p, n) - 1 : map[q] = map[p]
<1> DEFINE room == Remaining(p)
           fits == IF n < room THEN n ELSE room
           size == Chunk(p, n)
<1>1. room \in 1..4 /\ \A j \in 1..room - 1 : map[p + j] = map[p]
  BY RemainingWorks
<1>2. /\ size = CASE fits >= 4 /\ p % 4 = 0 -> 4
                  [] fits >= 2 /\ p % 2 = 0 /\ ~(fits >= 4 /\ p % 4 = 0) -> 2
                  [] OTHER -> 1
  BY DEF Chunk
<1> HIDE DEF room, size
<1>3. fits \in 1..4 /\ fits <= n /\ fits <= room
  BY <1>1
<1>4. /\ size \in {1, 2, 4} /\ size <= fits
      /\ size = 4 => p % 4 = 0
      /\ size = 2 => p % 2 = 0
  BY <1>2, <1>3
<1>5. p % size = 0
  BY <1>4
<1>6. ASSUME NEW q \in p..p + size - 1 PROVE map[q] = map[p]
  <2>1. CASE q = p
    BY <2>1
  <2>2. CASE q # p
    <3>1. q - p \in 1..room - 1 /\ q = p + (q - p)
      BY <1>1, <1>3, <1>4, <2>2
    <3> QED
      BY <1>1, <3>1
  <2> QED
    BY <2>1, <2>2
<1> QED
  BY <1>3, <1>4, <1>5, <1>6 DEF size

\* vfio_find_cap_start finds the first byte of the marks that p is among.
LEMMA CapStartWorks ==
  ASSUME LayoutTypeOK, MapInv, NEW p \in 0..CfgSize - 1, map[p] # "basic"
  PROVE  LET s == CapStart(p)
             base == IF p >= StdSize THEN StdSize ELSE HeaderSize
         IN  /\ s \in base..p
             /\ \A q \in s..p : map[q] = map[p]
             /\ s = base \/ map[s - 1] # map[p]
<1> DEFINE base == IF p >= StdSize THEN StdSize ELSE HeaderSize
           Good(s) == /\ \A q \in s..p : map[q] = map[p]
                      /\ s = base \/ map[s - 1] # map[p]
           U == {s \in base..p : \A q \in s..p : map[q] = map[p]}
<1>1. p \in Nat /\ base \in Nat /\ base <= p
  BY SizeAssumption DEF MapInv
<1> HIDE DEF base
<1>2. p \in U /\ U \subseteq Nat
  BY <1>1
<1>3. PICK s \in U : \A k \in U : s <= k
  <2> HIDE DEF U
  <2>1. U # {}
    BY <1>2
  <2> QED
    BY <1>2, <2>1, LeastExists
<1>4. s \in base..p /\ s \in Nat /\ \A q \in s..p : map[q] = map[p]
  BY <1>1, <1>3
<1>5. ASSUME s # base, map[s - 1] = map[p] PROVE FALSE
  <2>1. s - 1 \in base..p /\ ~(s <= s - 1)
    BY <1>1, <1>4, <1>5
  <2>2. \A q \in s - 1..p : q = s - 1 \/ q \in s..p
    BY <1>1, <1>4
  <2>3. s - 1 \in U
    BY <1>4, <1>5, <2>1, <2>2
  <2> QED
    BY <1>3, <2>1, <2>3
<1>6. s \in base..p /\ Good(s)
  BY <1>4, <1>5
<1>7. CapStart(p) = CHOOSE t \in base..p : Good(t)
  BY DEF CapStart, base
<1> HIDE DEF Good
<1>8. CapStart(p) \in base..p /\ Good(CapStart(p))
  BY <1>6, <1>7
<1> QED
  BY <1>8 DEF Good, base

\* A run of one mark is of one capability, if none abut.
LEMMA OneRun ==
  ASSUME Regular, LayoutTypeOK, WalkInv, MapInv, ~Abut(Std \cup Ext),
         NEW a \in 0..CfgSize - 1, NEW b \in a..CfgSize - 1, NEW id \in Ids, Length[id] > 0,
         \A q \in a..b : map[q] = id
  PROVE  \E p \in Std \cup Ext : Shown(p) /\ hw.cap[p].id = id /\ p <= a /\ b < p + Length[id]
<1>1. a \in Nat /\ b \in Nat /\ CfgSize \in Nat /\ a <= b /\ Length[id] \in Nat
      /\ StdSize \in Nat
  BY SizeAssumption, IdAssumption
<1>2. \A q \in a..b : q \in 0..CfgSize - 1
  BY <1>1
<1>3. \A q \in a..b : \E p \in Std \cup Ext :
        Shown(p) /\ hw.cap[p].id = id /\ p <= q /\ q < p + Length[id]
  BY <1>1, <1>2 DEF MapInv
<1>4. PICK p \in Std \cup Ext :
        Shown(p) /\ hw.cap[p].id = id /\ p <= b /\ b < p + Length[id]
  BY <1>1, <1>3
<1>5. Std \cup Ext \subseteq Places
  BY AtPlace
<1>6. \A q \in Places : q \in Nat
  BY PlacePointers DEF Pointers
<1>7. \A q, r \in Places : Shown(q) /\ Shown(r) /\ q < r => q + Span(q) <= r
  BY Laid DEF WalkInv
<1>8. ASSUME ~(p <= a) PROVE FALSE
  <2>1. p \in Nat /\ p - 1 \in a..b
    BY <1>1, <1>4, <1>5, <1>6, <1>8
  <2>2. PICK r \in Std \cup Ext :
          Shown(r) /\ hw.cap[r].id = id /\ r <= p - 1 /\ p - 1 < r + Length[id]
    BY <1>3, <2>1
  <2>3. r \in Nat /\ r < p /\ Span(r) = Length[id]
    BY <1>5, <1>6, <2>1, <2>2 DEF Span
  <2>4. p = r + Length[id]
    BY <1>1, <1>4, <1>5, <1>7, <2>1, <2>2, <2>3
  <2> QED
    BY <1>4, <2>2, <2>4 DEF Abut
<1> QED
  BY <1>4, <1>8

\* Fewer places abut less.
LEMMA AbutGrows ==
  ASSUME NEW P, NEW Q, P \subseteq Q, Abut(P)
  PROVE  Abut(Q)
BY DEF Abut

\* The argument for ChunksFit.
LEMMA FitsOf ==
  ASSUME Regular, LayoutTypeOK, WalkInv, MapInv
  PROVE  ChunksFit
<1> SUFFICES ASSUME ~Abut(OnChain(hw.head) \cup OnChain(StdSize)),
                    NEW p \in 0..CfgSize - 1, NEW n \in 1..4, p + n <= CfgSize
             PROVE  LET size == Chunk(p, n)
                    IN  /\ size <= n /\ p % size = 0
                        /\ \A q \in p..p + size - 1 : map[q] = map[p]
                        /\ map[p] \in Tabled =>
                             p - CapStart(p) + size <= 4 * ((Length[map[p]] + 3) \div 4)
  BY DEF ChunksFit
<1> DEFINE size == Chunk(p, n)
           s == CapStart(p)
<1>1. /\ size \in {1, 2, 4} /\ size <= n /\ p % size = 0
      /\ \A q \in p..p + size - 1 : map[q] = map[p]
  <2>1. p \in Nat
    OBVIOUS
  <2> QED
    BY <2>1, ChunkWorks
<1>2. CfgSize \in Nat /\ HeaderSize \in Nat /\ StdSize \in Nat
  BY SizeAssumption
<1>3. ASSUME map[p] \in Tabled
      PROVE  p - CapStart(p) + size <= 4 * ((Length[map[p]] + 3) \div 4)
  <2>1. /\ map[p] \in Ids /\ map[p] # "basic" /\ Length[map[p]] \in Nat \cup {-1}
        /\ Length[map[p]] # 0
    BY <1>3, TabledAssumption, IdAssumption
  <2>2. /\ s \in 0..p /\ \A q \in s..p : map[q] = map[p]
    <3>1. s \in (IF p >= StdSize THEN StdSize ELSE HeaderSize)..p
          /\ \A q \in s..p : map[q] = map[p]
      BY <2>1, CapStartWorks
    <3> QED
      BY <1>2, <3>1
  <2> DEFINE b == p + size - 1
  <2>3. b \in s..CfgSize - 1 /\ s \in 0..CfgSize - 1
    BY <1>1, <1>2, <2>2
  <2>4. \A q \in s..b : map[q] = map[p]
    <3>1. \A q \in s..b : q \in s..p \/ q \in p..p + size - 1
      BY <1>1, <2>2
    <3> QED
      BY <1>1, <2>2, <3>1
  <2>5. ~Abut(Std \cup Ext)
    <3>1. Std \cup Ext \subseteq OnChain(hw.head) \cup OnChain(StdSize)
      BY DEF Std, Ext
    <3> QED
      BY <3>1, AbutGrows
  <2>6. Length[map[p]] > 0
    BY <2>1 DEF MapInv, Shown
  <2> HIDE DEF s, b
  <2>7. PICK c \in Std \cup Ext :
          Shown(c) /\ hw.cap[c].id = map[p] /\ c <= s /\ b < c + Length[map[p]]
    BY <2>1, <2>3, <2>4, <2>5, <2>6, OneRun
  <2>8. c \in Nat /\ s \in Nat /\ Length[map[p]] \in Nat
    <3>1. c \in Places
      BY <2>7, AtPlace
    <3> QED
      BY <2>1, <2>2, <2>6, <3>1, PlacePointers DEF Pointers
  <2>9. p + size - s <= Length[map[p]]
    BY <1>1, <2>7, <2>8 DEF b
  <2> HIDE DEF size
  <2>10. p - s + size <= 4 * ((Length[map[p]] + 3) \div 4)
    BY <1>1, <2>8, <2>9
  <2> QED
    BY <2>10 DEF s
<1> QED
  BY <1>1, <1>3

\* Whatever their sizes and starts, the reads of a next pointer get the virtual one.
LEMMA SeenIs ==
  ASSUME Regular, LayoutTypeOK, WalkInv, MapInv, ~Abut(Std \cup Ext),
         NEW p \in Std \cup Ext, Shown(p) \/ p = StdSize,
         \A b \in p..p + 3 : map[b] = hw.cap[p].id
  PROVE  SeenNext(p) = {vheader[p].next}
<1> DEFINE id == hw.cap[p].id
<1>1. /\ CfgSize \in Nat /\ HeaderSize \in Nat /\ StdSize \in Nat
      /\ StdSize % 4 = 0 /\ CfgSize % 4 = 0 /\ HeaderSize < StdSize
  BY SizeAssumption DEF Regular
<1>2. p \in Places
  BY AtPlace
<1>3. /\ p \in Nat /\ p % 4 = 0 /\ HeaderSize <= p /\ p < CfgSize /\ id \in Ids
      /\ Shown(p) => Length[id] > 0
  BY <1>2, Laid DEF WalkInv, Shown
<1>4. /\ p + 4 <= CfgSize /\ (p < StdSize => p + 4 <= StdSize)
      /\ \A s \in p..p + 3 : s \in 0..CfgSize - 1 /\ (s >= StdSize <=> p >= StdSize)
  <2>1. p + 4 <= CfgSize /\ (p < StdSize => p + 4 <= StdSize)
    BY <1>1, <1>3
  <2> QED
    BY <1>1, <1>3, <2>1
<1>5. id # "basic" /\ id # "invalid"
  BY <1>3, IdAssumption
<1> HIDE DEF id
<1>6. \A s \in p..p + 3 : map[s] = id
  BY DEF id
<1>7. ASSUME NEW s \in p..p + 3 PROVE CapStart(s) = p
  <2> DEFINE base == IF p >= StdSize THEN StdSize ELSE HeaderSize
             c == CapStart(s)
  <2>1. /\ c \in base..s /\ c \in Nat /\ base <= p
        /\ \A q \in c..s : map[q] = id
        /\ c = base \/ map[c - 1] # id
    <3>1. s \in 0..CfgSize - 1 /\ map[s] # "basic" /\ map[s] = id
      BY <1>4, <1>5, <1>6
    <3>2. /\ c \in (IF s >= StdSize THEN StdSize ELSE HeaderSize)..s
          /\ \A q \in c..s : map[q] = map[s]
          /\ c = (IF s >= StdSize THEN StdSize ELSE HeaderSize) \/ map[c - 1] # map[s]
      BY <3>1, CapStartWorks
    <3>3. (IF s >= StdSize THEN StdSize ELSE HeaderSize) = base /\ base \in Nat /\ base <= p
      BY <1>1, <1>3, <1>4
    <3> HIDE DEF c, base
    <3> QED
      BY <3>1, <3>2, <3>3
  <2> HIDE DEF c
  <2>2. ASSUME c > p PROVE FALSE
    <3>1. c - 1 \in p..p + 3 /\ c # base
      BY <1>3, <2>1, <2>2
    <3> QED
      BY <1>6, <2>1, <3>1
  <2>3. ASSUME c < p PROVE FALSE
    <3> DEFINE a == p - 1
    <3>1. a \in c..s /\ a \in 0..CfgSize - 1 /\ a \in a..CfgSize - 1 /\ p # StdSize
      BY <1>1, <1>3, <1>4, <2>1, <2>3
    <3>2. Shown(p) /\ Length[id] > 0 /\ id \in Ids
      BY <1>3, <3>1
    <3>3. \A q \in a..a : map[q] = id
      BY <2>1, <3>1
    <3> HIDE DEF a
    <3>4. PICK q \in Std \cup Ext :
            Shown(q) /\ hw.cap[q].id = id /\ q <= a /\ a < q + Length[id]
      BY <3>1, <3>2, <3>3, OneRun
    <3>5. q \in Places
      BY AtPlace
    <3>6. q \in Nat /\ Length[id] \in Nat /\ q < p
      BY <1>3, <3>2, <3>4, <3>5, PlacePointers, IdAssumption DEF Pointers, a
    <3>7. q + Length[id] <= p
      BY <1>2, <3>2, <3>4, <3>5, <3>6, Laid DEF WalkInv, Span
    <3>8. p = q + Length[id]
      BY <1>3, <3>4, <3>6, <3>7 DEF a
    <3> QED
      BY <3>2, <3>4, <3>8 DEF Abut, id
  <2>4. c = p
    BY <1>3, <2>1, <2>2, <2>3
  <2> QED
    BY <2>4 DEF c
<1>8. \A b \in NextBytes(p) : b \in p..p + 3 /\ b \in Nat /\ (p < StdSize => b = p + 1)
  BY <1>1, <1>3 DEF NextBytes
<1>9. ASSUME NEW b \in NextBytes(p), NEW s \in p..p + 3, NEW n \in {1, 2, 4}, s <= b, b < s + n
      PROVE  FromVconfig(b, s, n)
  <2>1. CapStart(s) = p /\ map[s] = id /\ s \in Nat
    BY <1>3, <1>6, <1>7
  <2>2. CASE p >= StdSize
    <3>1. s >= StdSize /\ s - p < 4
      BY <1>1, <1>3, <1>4, <2>2
    <3> QED
      BY <1>1, <1>5, <2>1, <3>1 DEF FromVconfig
  <2>3. CASE ~(p >= StdSize)
    <3>1. ~(s >= StdSize) /\ s < StdSize /\ b = p + 1 /\ b - p = 1
      BY <1>1, <1>3, <1>4, <1>8, <2>1, <2>3
    <3>2. \/ s - p = 0 /\ n > 1 /\ b < s + 2
          \/ s - p = 1 /\ b = s
      BY <1>3, <1>9, <2>1, <3>1
    <3> QED
      BY <1>5, <2>1, <3>1, <3>2 DEF FromVconfig
  <2> QED
    BY <2>2, <2>3
<1> DEFINE All == [byte : NextBytes(p), start : p..p + 3, size : 1..4]
           Read(r) == r.start <= r.byte /\ r.byte < r.start + Chunk(r.start, r.size)
           virtual(r) == FromVconfig(r.byte, r.start, Chunk(r.start, r.size))
           Got(r) == IF virtual(r) THEN vheader[p].next ELSE hw.cap[p].next
           reads == {r \in All : Read(r)}
<1>10. \A r \in reads : Got(r) = vheader[p].next
  <2> SUFFICES ASSUME NEW r \in All, Read(r) PROVE virtual(r)
    OBVIOUS
  <2>1. r.byte \in NextBytes(p) /\ r.start \in p..p + 3 /\ r.size \in 1..4 /\ r.start \in Nat
    BY <1>3
  <2>2. Chunk(r.start, r.size) \in {1, 2, 4}
    BY <2>1, ChunkWorks
  <2> QED
    BY <1>9, <2>1, <2>2
<1>11. \E r \in reads : TRUE
  <2> DEFINE b == IF p < StdSize THEN p + 1 ELSE p + 2
             r == [byte |-> b, start |-> b, size |-> 1]
  <2>1. b \in NextBytes(p) /\ b \in p..p + 3 /\ b \in Nat
    BY <1>3 DEF NextBytes
  <2>2. Chunk(b, 1) = 1
    <3>1. Chunk(b, 1) \in {1, 2, 4} /\ Chunk(b, 1) <= 1
      BY <2>1, ChunkWorks
    <3> QED
      BY <3>1
  <2> HIDE DEF b
  <2>3. r \in All /\ Read(r)
    BY <2>1, <2>2
  <2> QED
    BY <2>3
<1>12. SeenNext(p) = {Got(r) : r \in reads}
  BY DEF SeenNext
<1> HIDE DEF reads, Got
<1> QED
  BY <1>10, <1>11, <1>12

\* The invariants, with the headers and marks of a step as parameters.
LinkedIn(v, Q) == \A q \in Q : v[q].next = FirstShown(Led(q))
Thread(v, f, t, Q) ==
  /\ f \in Q /\ v[f].next = t /\ FirstShown(Led(f)) = FirstShown(t)
  /\ LinkedIn(v, Q \ {f})
MarksIn(m, Q) == \A q \in Q : \A b \in q..q + 3 : m[b] = hw.cap[q].id

\* ... as the module states them.
LEMMA Parameters ==
  /\ \A Q : Linked(Q) <=> LinkedIn(vheader, Q)
  /\ \A Q : Threaded(Q) <=> Thread(vheader, prev, pos, Q)
  /\ \A Q : Marks(Q) <=> MarksIn(map, Q)
BY DEF Linked, LinkedIn, Threaded, Thread, Marks, MarksIn

\* StdInv after a step over the same hardware.
LEMMA StdNext ==
  ASSUME hw' = hw
  PROVE  StdInv' <=>
    (phase' # "failed" /\ Sound(hw.head) =>
      /\ MarksIn(map', StdKept')
      /\ hw.listed =>
           IF phase' = "cap" THEN Thread(vheader', prev', pos', StdKept' \cup {0})
           ELSE LinkedIn(vheader', StdKept' \cup {0})
      /\ IF phase' = "cap" THEN vlisted' = hw.listed /\ (count' > 0 <=> StdKept' # {})
         ELSE vlisted' <=> StdKept' # {})
<1> DEFINE K == StdKept
<1>1. Sound(hw.head)' <=> Sound(hw.head)
  BY DEF Sound, Path
<1>2. Marks(StdKept)' <=> MarksIn(map', StdKept')
  BY DEF Marks, MarksIn
<1>3. Linked(StdKept \cup {0})' <=> LinkedIn(vheader', StdKept' \cup {0})
  BY SameHardware DEF Linked, LinkedIn
<1>4. Threaded(StdKept \cup {0})' <=> Thread(vheader', prev', pos', StdKept' \cup {0})
  BY SameHardware DEF Threaded, Thread, Linked, LinkedIn
<1> QED
  BY <1>1, <1>2, <1>3, <1>4 DEF StdInv

\* ExtInv after a step over the same hardware.
LEMMA ExtNext ==
  ASSUME hw' = hw
  PROVE  ExtInv' <=>
    (Sound(StdSize) /\ ExtReadable =>
      /\ MarksIn(map', ExtKept')
      /\ phase' = "ecap" => /\ ExtKept' = {} \/ Thread(vheader', prev', pos', ExtKept')
                            /\ count' > 0 <=> \E p \in ExtKept' : Shown(p)
      /\ phase' = "ready" => LinkedIn(vheader', ExtKept')
      /\ \A p \in ExtKept' : vheader'[p].id = IF Shown(p) THEN hw.cap[p].id ELSE "null")
<1>1. (Sound(StdSize)' <=> Sound(StdSize)) /\ (ExtReadable' <=> ExtReadable)
  BY SameHardware
<1>2. Marks(ExtKept)' <=> MarksIn(map', ExtKept')
  BY DEF Marks, MarksIn
<1>3. Linked(ExtKept)' <=> LinkedIn(vheader', ExtKept')
  BY SameHardware DEF Linked, LinkedIn
<1>4. Threaded(ExtKept)' <=> Thread(vheader', prev', pos', ExtKept')
  BY SameHardware DEF Threaded, Thread, Linked, LinkedIn
<1>5. (\E p \in ExtKept : Shown(p))' <=> \E p \in ExtKept' : Shown(p)
  BY DEF Shown
<1>6. (\A p \in ExtKept : vheader[p].id = IF Shown(p) THEN hw.cap[p].id ELSE "null")'
      <=> \A p \in ExtKept' : vheader'[p].id = IF Shown(p) THEN hw.cap[p].id ELSE "null"
  BY DEF Shown
<1> QED
  BY <1>1, <1>2, <1>3, <1>4, <1>5, <1>6 DEF ExtInv

\* A hidden capability is passed over by the header that led to it.
LEMMA ThreadHidden ==
  ASSUME Hardware, NEW p \in Pointers, Sound(p), NEW n \in 0..Bound, NEW t, t = Path(p)[n],
         ~Settled(t), NEW v \in [Pointers -> Headers], NEW f, NEW Q \in SUBSET Pointers,
         Thread(v, f, t, Q)
  PROVE  Thread([v EXCEPT ![f].next = hw.cap[t].next], f, hw.cap[t].next, Q)
<1>1. FirstShown(t) = FirstShown(hw.cap[t].next)
  BY HiddenSkipped
<1>2. f \in Pointers /\ v[f] \in Headers /\ DOMAIN v = Pointers
  BY DEF Thread
<1> DEFINE w == [v EXCEPT ![f].next = hw.cap[t].next]
<1>3. w[f].next = hw.cap[t].next /\ \A q \in Q \ {f} : w[q] = v[q]
  BY <1>2 DEF Headers
<1> HIDE DEF w
<1>4. Thread(w, f, hw.cap[t].next, Q)
  BY <1>1, <1>3 DEF Thread, LinkedIn
<1> QED
  BY <1>4 DEF w

\* One that is shown is what the header before it leads to.
LEMMA ThreadTaken ==
  ASSUME Hardware, NEW t \in Places, t # 0, Shown(t), NEW v \in [Pointers -> Headers], NEW f,
         NEW Q \in SUBSET Pointers, Thread(v, f, t, Q), t \notin Q
  PROVE  Thread([v EXCEPT ![t] = hw.cap[t]], t, hw.cap[t].next, Q \cup {t})
<1>1. FirstShown(t) = t /\ t \in Pointers
  BY SettledFound DEF Settled, Pointers
<1> DEFINE w == [v EXCEPT ![t] = hw.cap[t]]
<1>2. w[t] = hw.cap[t] /\ \A q \in Q : w[q] = v[q]
  BY <1>1
<1> HIDE DEF w
<1>3. Led(t) = hw.cap[t].next
  BY DEF Led
<1>4. \A q \in Q : w[q].next = FirstShown(Led(q))
  BY <1>1, <1>2 DEF Thread, LinkedIn
<1>5. Thread(w, t, hw.cap[t].next, Q \cup {t})
  BY <1>2, <1>3, <1>4 DEF Thread, LinkedIn
<1> QED
  BY <1>5 DEF w

\* The first header kept leads to what follows it.
LEMMA ThreadBegins ==
  ASSUME NEW t \in Places, t # 0, NEW v \in [Pointers -> Headers],
         NEW h \in Headers, h.next = hw.cap[t].next
  PROVE  Thread([v EXCEPT ![t] = h], t, hw.cap[t].next, {t})
<1>1. [v EXCEPT ![t] = h][t] = h /\ Led(t) = hw.cap[t].next
  BY DEF Pointers, Led
<1> QED
  BY <1>1 DEF Thread, LinkedIn

\* At the end of the chain all headers lead to what they should.
LEMMA ThreadEnds ==
  ASSUME Hardware, NEW v, NEW f, NEW Q, Thread(v, f, 0, Q)
  PROVE  LinkedIn(v, Q) /\ FirstShown(Led(f)) = 0
<1>1. FirstShown(0) = 0
  BY SettledFound DEF Settled, Pointers
<1> QED
  BY <1>1 DEF Thread, LinkedIn

\* A mark adds the dword of its capability and takes none from another.
LEMMA MarksTaken ==
  ASSUME Regular, LayoutTypeOK, hw \in Devices, NEW Q \in SUBSET Places,
         \A q \in Q : Shown(q) \/ q = StdSize, MarksIn(map, Q),
         pos \in Places, NEW len, Mark(len, Cap.id),
         \/ Shown(pos) /\ len = Size
         \/ pos = StdSize /\ len = 4
  PROVE  MarksIn(map', Q \cup {pos})
<1>1. /\ CfgSize \in Nat /\ StdSize \in Nat /\ StdSize % 4 = 0 /\ CfgSize % 4 = 0
      /\ map \in [0..CfgSize - 1 -> Mapped]
  BY SizeAssumption DEF Regular, LayoutTypeOK
<1>2. \A q \in Places :
        /\ q \in Nat /\ q % 4 = 0 /\ q < CfgSize
        /\ Shown(q) => Span(q) \in Nat /\ Span(q) >= 4
        /\ \A r \in Places : Shown(q) /\ Shown(r) /\ q < r => q + Span(q) <= r
        /\ Shown(q) /\ q < StdSize => q + Span(q) <= StdSize
  BY Laid
<1>3. \A q \in Places : q + 4 <= CfgSize
  BY <1>1, <1>2
<1>4. \A b \in 0..CfgSize - 1 :
        map'[b] = IF pos <= b /\ b < pos + len THEN Cap.id ELSE map[b]
  BY <1>1 DEF Mark
<1>5. Cap.id = hw.cap[pos].id /\ Size = Span(pos)
  BY DEF Cap, Size, Span
<1>6. len \in Nat /\ len >= 4
  BY <1>2, <1>5
<1>7. ASSUME NEW b \in pos..pos + 3 PROVE map'[b] = hw.cap[pos].id
  <2>1. b \in 0..CfgSize - 1 /\ pos <= b /\ b < pos + len
    BY <1>1, <1>2, <1>3, <1>6
  <2> QED
    BY <1>4, <1>5, <2>1
<1>8. ASSUME NEW q \in Q, q # pos, NEW b \in q..q + 3 PROVE map'[b] = hw.cap[q].id
  <2>1. q \in Nat /\ pos \in Nat /\ q % 4 = 0 /\ pos % 4 = 0
    BY <1>2
  <2>2. b \in 0..CfgSize - 1 /\ b \in Nat /\ q <= b /\ b < q + 4
    BY <1>1, <1>3, <2>1
  <2>3. q < pos => q + 4 <= pos
    BY <2>1
  <2>4. pos < q => pos + len <= q
    <3>1. CASE Shown(pos) /\ len = Size /\ Shown(q)
      BY <1>2, <1>5, <3>1
    <3>2. CASE Shown(pos) /\ len = Size /\ q = StdSize
      BY <1>2, <1>5, <3>2
    <3>3. CASE pos = StdSize /\ len = 4
      BY <2>1, <3>3
    <3> QED
      BY <3>1, <3>2, <3>3
  <2>5. ~(pos <= b /\ b < pos + len)
    BY <1>6, <1>8, <2>1, <2>2, <2>3, <2>4
  <2> QED
    BY <1>4, <2>2, <2>5 DEF MarksIn
<1> QED
  BY <1>7, <1>8 DEF MarksIn

\* How far the walk can be.
LEMMA LoopBounds ==
  ASSUME LayoutTypeOK, WalkInv
  PROVE  /\ Hardware /\ hw.head \in Pointers /\ StdSize \in Pointers /\ StdSize # 0
         /\ StdLoops \in Nat /\ ExtLoops \in Nat /\ Bound = StdLoops + ExtLoops
         /\ loops \in Nat /\ pos \in Pointers /\ prev \in Pointers
         /\ phase = "cap" => StdLoops - loops \in 0..Bound
         /\ phase = "ecap" => ExtLoops - loops \in 0..Bound
<1>1. /\ StdLoops \in Nat /\ ExtLoops \in Nat /\ Bound = StdLoops + ExtLoops
      /\ loops \in Nat
  BY BoundType DEF Bound, LayoutTypeOK
<1>2. /\ phase = "cap" => StdLoops - loops \in 0..Bound
      /\ phase = "ecap" => ExtLoops - loops \in 0..Bound
  BY <1>1 DEF WalkInv
<1> QED
  BY <1>1, <1>2, PlacePointers DEF LayoutTypeOK, Hardware

\* The places of the two chains do not mix.
LEMMA ChainsApart ==
  ASSUME Regular, LayoutTypeOK, WalkInv
  PROVE  /\ Std \subseteq Places /\ Ext \subseteq Places
         /\ \A p \in Std : p < StdSize
         /\ \A p \in Ext : p >= StdSize
<1>1. Std \subseteq Places /\ Ext \subseteq Places
  BY AtPlace
<1>2. \A p : OnChain(p) = {Path(p)[i] : i \in 0..Bound} \ {0}
  <2>1. 0..(Bound + 1) - 1 = 0..Bound
    BY BoundType
  <2> QED
    BY <2>1 DEF OnChain, Visited
<1>3. /\ \A i \in 0..Bound : Path(hw.head)[i] < StdSize
      /\ \A i \in 0..Bound : Path(StdSize)[i] = 0 \/ Path(StdSize)[i] >= StdSize
  BY PathsApart DEF WalkInv
<1>4. \A p \in Std : p < StdSize
  BY <1>2, <1>3 DEF Std
<1>5. \A p \in Ext : p >= StdSize
  BY <1>2, <1>3 DEF Ext
<1> QED
  BY <1>1, <1>4, <1>5

\* Before the first turn only the pointer of the basic header is kept.
LEMMA StdInitial == LayoutInit => StdInv
<1> SUFFICES ASSUME LayoutInit PROVE StdInv
  OBVIOUS
<1>1. /\ phase = "cap" /\ loops = StdLoops /\ prev = 0 /\ count = 0
      /\ vlisted = hw.listed /\ (hw.listed => pos = hw.head)
  BY DEF LayoutInit
<1>2. vheader[0].next = hw.head
  <2>1. 0 \in Pointers
    BY DEF Pointers
  <2>2. vheader[0] = [id |-> "null", next |-> hw.head]
    BY <2>1 DEF LayoutInit
  <2> QED
    BY <2>2
<1>3. StdLoops - loops = 0 /\ 0..0 - 1 = {}
  <2>1. loops = StdLoops /\ StdLoops \in Nat
    BY BoundType DEF LayoutInit
  <2> QED
    BY <2>1
<1>4. StdKept = {}
  BY <1>1, <1>3 DEF StdKept, Visited
<1>5. Threaded({0}) \/ ~hw.listed
  BY <1>1, <1>2 DEF Threaded, Linked, Led
<1>6. ~(count > 0) /\ StdKept \cup {0} = {0}
  BY <1>1, <1>4
<1> QED
  BY <1>1, <1>4, <1>5, <1>6 DEF StdInv, Marks

\* The extended chain is not walked yet.
LEMMA ExtInitial == LayoutInit => ExtInv
<1> SUFFICES ASSUME LayoutInit PROVE ExtInv
  OBVIOUS
<1>1. phase = "cap" /\ ExtKept = {}
  BY DEF LayoutInit, ExtKept
<1> QED
  BY <1>1 DEF ExtInv, Marks

\* What is kept of the standard chain after a turn of its walk.
LEMMA StdGrows ==
  ASSUME LayoutTypeOK, WalkInv, CapTurn, hw' = hw, phase' = "cap"
  PROVE  /\ hw.listed
         /\ StdKept' = StdKept \cup {p \in {pos} : Shown(p)}
         /\ StdKept \subseteq Pointers
         /\ pos = Path(hw.head)[StdLoops - loops]
         /\ Sound(hw.head) => pos \notin StdKept
<1> DEFINE n == StdLoops - loops
<1>0. LayoutTypeOK /\ WalkInv
  OBVIOUS
<1>1. Hardware /\ hw.head \in Pointers /\ n \in 0..Bound /\ StdLoops \in Nat /\ loops \in Nat
  BY LoopBounds DEF CapTurn
<1>2. /\ hw.listed /\ pos = Path(hw.head)[n] /\ pos # 0 /\ phase = "cap" /\ loops' = loops - 1
  BY DEF CapTurn, Visit, WalkInv
<1>3. StdLoops - loops' = n + 1
  BY <1>1, <1>2
<1>4. StdKept' = {p \in Visited(hw.head, n + 1) : Shown(p)}
  BY <1>2, <1>3, SameHardware
<1>5. StdKept = {p \in Visited(hw.head, n) : Shown(p)}
  BY <1>2 DEF StdKept
<1> HIDE DEF n
<1>6. /\ Visited(hw.head, n + 1) = Visited(hw.head, n) \cup {pos}
      /\ Visited(hw.head, n) \subseteq OnChain(hw.head)
      /\ OnChain(hw.head) \subseteq Places
      /\ Sound(hw.head) => pos \notin Visited(hw.head, n)
  BY <1>1, <1>2, VisitedGrows
<1>7. StdKept' = StdKept \cup {p \in {pos} : Shown(p)}
  BY <1>4, <1>5, <1>6
<1>8. StdKept \subseteq Pointers /\ (Sound(hw.head) => pos \notin StdKept)
  BY <1>5, <1>6 DEF Pointers
<1> QED
  BY <1>2, <1>7, <1>8 DEF n

\* Every turn of vfio_cap_init leaves a true chain behind, and vfio_ecap_init leaves it alone.
LEMMA StdStep ==
  Regular /\ LayoutTypeOK /\ WalkInv /\ StdInv /\ [Walk]_layoutVars => StdInv'
<1> SUFFICES ASSUME Regular, LayoutTypeOK, WalkInv, StdInv, [Walk]_layoutVars PROVE StdInv'
  BY Zenon
<1>1. hw' = hw
  BY DEF Walk, layoutVars, CapHidden, CapTaken, CapUnreadable, CapEnd,
         EcapHidden, EcapAnchor, EcapTaken, EcapUnreadable, EcapEnd
<1>2. StdInv' <=>
    (phase' # "failed" /\ Sound(hw.head) =>
      /\ MarksIn(map', StdKept')
      /\ hw.listed =>
           IF phase' = "cap" THEN Thread(vheader', prev', pos', StdKept' \cup {0})
           ELSE LinkedIn(vheader', StdKept' \cup {0})
      /\ IF phase' = "cap" THEN vlisted' = hw.listed /\ (count' > 0 <=> StdKept' # {})
         ELSE vlisted' <=> StdKept' # {})
  BY <1>1, StdNext
<1> SUFFICES ASSUME phase' # "failed", Sound(hw.head)
    PROVE  /\ MarksIn(map', StdKept')
           /\ hw.listed =>
                IF phase' = "cap" THEN Thread(vheader', prev', pos', StdKept' \cup {0})
                ELSE LinkedIn(vheader', StdKept' \cup {0})
           /\ IF phase' = "cap" THEN vlisted' = hw.listed /\ (count' > 0 <=> StdKept' # {})
              ELSE vlisted' <=> StdKept' # {}
  BY <1>2
<1>3. /\ Hardware /\ hw.head \in Pointers /\ hw \in Devices
      /\ vheader \in [Pointers -> Headers] /\ prev \in Pointers /\ pos \in Pointers
      /\ count \in Nat /\ 0 \in Pointers
  BY LoopBounds DEF LayoutTypeOK, WalkInv, Pointers
<1>4. phase # "failed" =>
      /\ MarksIn(map, StdKept)
      /\ hw.listed =>
           IF phase = "cap" THEN Thread(vheader, prev, pos, StdKept \cup {0})
           ELSE LinkedIn(vheader, StdKept \cup {0})
      /\ IF phase = "cap" THEN vlisted = hw.listed /\ (count > 0 <=> StdKept # {})
         ELSE vlisted <=> StdKept # {}
  BY Parameters DEF StdInv
<1>5. StdKept \subseteq Places /\ \A p \in StdKept : Shown(p)
  BY LoopBounds, VisitedGrows, ChainsApart DEF StdKept
<1>6. CASE CapHidden
  <2>1. /\ CapTurn /\ phase = "cap" /\ phase' = "cap" /\ ~Shown(pos) /\ pos # 0
        /\ pos' = hw.cap[pos].next /\ map' = map /\ count' = count /\ vlisted' = vlisted
        /\ prev' = prev /\ vheader' = [vheader EXCEPT ![prev].next = hw.cap[pos].next]
    BY <1>6 DEF CapHidden, CapTurn, Visit, Cap, Size, Shown
  <2>2. /\ hw.listed /\ StdKept' = StdKept /\ pos = Path(hw.head)[StdLoops - loops]
        /\ StdLoops - loops \in 0..Bound
    BY <1>1, <2>1, StdGrows, LoopBounds
  <2>3. StdKept \cup {0} \in SUBSET Pointers
    BY <1>5 DEF Pointers
  <2>4. Thread(vheader, prev, pos, StdKept \cup {0}) /\ ~Settled(pos)
    BY <1>4, <2>1, <2>2 DEF Settled
  <2>5. Thread([vheader EXCEPT ![prev].next = hw.cap[pos].next], prev, hw.cap[pos].next,
               StdKept \cup {0})
    BY <1>3, <2>2, <2>3, <2>4, ThreadHidden
  <2> QED
    BY <1>4, <2>1, <2>2, <2>5
<1>7. CASE CapTaken
  <2>1. /\ CapTurn /\ phase = "cap" /\ phase' = "cap" /\ Shown(pos) /\ pos # 0
        /\ pos' = hw.cap[pos].next /\ Mark(Size, Cap.id) /\ count' = count + 1
        /\ vlisted' = vlisted /\ prev' = pos /\ vheader' = [vheader EXCEPT ![pos] = hw.cap[pos]]
    BY <1>7 DEF CapTaken, CapTurn, Visit, Cap, Size, Shown
  <2>2. /\ hw.listed /\ StdKept' = StdKept \cup {pos} /\ pos \notin StdKept \cup {0}
    BY <1>1, <2>1, StdGrows
  <2>3. StdKept \cup {0} \in SUBSET Pointers /\ pos \in Places
    BY <1>3, <1>5, <2>1 DEF Pointers
  <2>4. Thread(vheader, prev, pos, StdKept \cup {0})
    BY <1>4, <2>1, <2>2
  <2>5. Thread([vheader EXCEPT ![pos] = hw.cap[pos]], pos, hw.cap[pos].next,
               (StdKept \cup {0}) \cup {pos})
    BY <1>3, <2>1, <2>2, <2>3, <2>4, ThreadTaken
  <2>6. (StdKept \cup {0}) \cup {pos} = StdKept' \cup {0}
    BY <2>2
  <2>7. MarksIn(map', StdKept \cup {pos})
    BY <1>3, <1>4, <1>5, <2>1, <2>3, MarksTaken
  <2>8. count' > 0
    BY <1>3, <2>1
  <2> QED
    BY <1>4, <2>1, <2>2, <2>5, <2>6, <2>7, <2>8
<1>8. CASE CapEnd
  <2>1. /\ phase = "cap" /\ phase' # "cap" /\ map' = map /\ vheader' = vheader
        /\ vlisted' = (vlisted /\ count > 0) /\ (pos = 0 \/ loops = 0)
    BY <1>8 DEF CapEnd
  <2>2. StdKept' = {p \in Std : Shown(p)}
    BY <1>1, <2>1, SameHardware
  <2>3. hw.listed => pos = 0 /\ StdKept' = StdKept
    <3> SUFFICES ASSUME hw.listed PROVE pos = 0 /\ StdKept' = StdKept
      OBVIOUS
    <3> DEFINE n == StdLoops - loops
    <3>1. n \in 0..Bound /\ pos = Path(hw.head)[n] /\ (loops = 0 => n = StdLoops)
      BY <2>1, LoopBounds DEF WalkInv
    <3>2. StdKept = {p \in Visited(hw.head, n) : Shown(p)}
      BY <2>1 DEF StdKept
    <3> HIDE DEF n
    <3>3. pos = 0
      BY <1>3, <2>1, <3>1, PathsEnd
    <3>4. Visited(hw.head, n) = OnChain(hw.head)
      BY <1>3, <3>1, <3>3, VisitedGrows
    <3> QED
      BY <2>2, <3>2, <3>3, <3>4 DEF Std
  <2>4. ~hw.listed => StdKept' = {} /\ StdKept = {}
    BY <2>1, <2>2 DEF Std, StdKept
  <2>5. hw.listed => LinkedIn(vheader, StdKept \cup {0})
    BY <1>3, <1>4, <2>1, <2>3, ThreadEnds
  <2> QED
    BY <1>4, <2>1, <2>3, <2>4, <2>5
<1>9. ASSUME phase \in {"ecap", "ready"}, phase' # "cap" PROVE StdKept' = StdKept
  BY <1>1, <1>9, SameHardware DEF StdKept
<1>10. ASSUME StdKept' = StdKept, phase \in {"ecap", "ready"}, phase' # "cap",
              vlisted' = vlisted, MarksIn(map', StdKept),
              \A p \in Pointers : p < StdSize => vheader'[p] = vheader[p]
       PROVE  /\ MarksIn(map', StdKept') /\ (hw.listed => LinkedIn(vheader', StdKept' \cup {0}))
              /\ vlisted' <=> StdKept' # {}
  <2>1. /\ MarksIn(map, StdKept) /\ (hw.listed => LinkedIn(vheader, StdKept \cup {0}))
        /\ vlisted <=> StdKept # {}
    BY <1>4, <1>10
  <2>2. \A p \in StdKept \cup {0} : p \in Pointers /\ p < StdSize
    BY <1>5, <1>10, ChainsApart, SizeAssumption DEF StdKept, Pointers
  <2> QED
    BY <1>10, <2>1, <2>2 DEF LinkedIn
<1>11. CASE EcapHidden
  <2>1. /\ phase = "ecap" /\ phase' = "ecap" /\ vlisted' = vlisted /\ map' = map /\ prev # 0
        /\ vheader' = [vheader EXCEPT ![prev].next = Cap.next]
    BY <1>11 DEF EcapHidden, EcapTurn
  <2>2. \A p \in Pointers : p < StdSize => vheader'[p] = vheader[p]
    BY <1>3, <2>1, PlacePointers DEF WalkInv
  <2> QED
    BY <1>4, <1>9, <1>10, <2>1, <2>2
<1>12. CASE EcapAnchor \/ EcapTaken
  <2>1. /\ EcapTurn /\ phase = "ecap" /\ phase' = "ecap" /\ vlisted' = vlisted /\ pos >= StdSize
        /\ \E h : vheader' = [vheader EXCEPT ![pos] = h]
        /\ \/ Shown(pos) /\ Mark(Size, Cap.id)
           \/ pos = StdSize /\ Mark(4, Cap.id)
    BY <1>12, AtPlace DEF EcapAnchor, EcapTaken, EcapTurn, Shown, Size, Cap
  <2>2. \A p \in Pointers : p < StdSize => vheader'[p] = vheader[p]
    BY <1>3, <2>1, PlacePointers
  <2>3. pos \in Places
    BY <2>1, AtPlace
  <2>4. MarksIn(map', StdKept \cup {pos})
    BY <1>3, <1>4, <1>5, <2>1, <2>3, MarksTaken
  <2>5. MarksIn(map', StdKept)
    BY <2>4 DEF MarksIn
  <2> QED
    BY <1>9, <1>10, <2>1, <2>2, <2>5
<1>13. CASE EcapUnreadable
  <2>1. /\ phase = "ecap" /\ phase' = "ready" /\ vlisted' = vlisted /\ map' = map
        /\ vheader' = vheader
    BY <1>13 DEF EcapUnreadable, EcapTurn
  <2> QED
    BY <1>4, <1>9, <1>10, <2>1
<1>14. CASE EcapEnd
  <2>1. /\ phase = "ecap" /\ phase' = "ready" /\ vlisted' = vlisted /\ map' = map
        /\ vheader' = vheader \/ vheader' = [vheader EXCEPT ![StdSize] = Null]
    BY <1>14 DEF EcapEnd
  <2>2. \A p \in Pointers : p < StdSize => vheader'[p] = vheader[p]
    BY <1>3, <2>1, PlacePointers
  <2> QED
    BY <1>4, <1>9, <1>10, <2>1, <2>2
<1>15. CASE UNCHANGED layoutVars
  <2>1. /\ phase' = phase /\ vlisted' = vlisted /\ map' = map /\ vheader' = vheader
        /\ prev' = prev /\ pos' = pos /\ count' = count /\ loops' = loops
    BY <1>15 DEF layoutVars
  <2>2. StdKept' = StdKept
    BY <1>1, <2>1, SameHardware DEF StdKept
  <2> QED
    BY <1>4, <2>1, <2>2
<1>16. ~CapUnreadable
  BY DEF CapUnreadable
<1> QED
  BY <1>6, <1>7, <1>8, <1>11, <1>12, <1>13, <1>14, <1>15, <1>16 DEF Walk

\* What is kept of the extended chain after a turn of its walk.
LEMMA ExtGrows ==
  ASSUME Regular, LayoutTypeOK, WalkInv, EcapTurn, hw' = hw, phase' = "ecap", Sound(StdSize)
  PROVE  /\ ExtKept' = ExtKept \cup {p \in {pos} : Shown(p) \/ p = StdSize}
         /\ ExtKept \subseteq Pointers
         /\ pos = Path(StdSize)[ExtLoops - loops]
         /\ pos \notin ExtKept /\ pos \in Ext
         /\ IF prev = 0 THEN ExtKept = {} /\ pos = StdSize
            ELSE StdSize \in ExtKept /\ pos # StdSize
<1> DEFINE n == ExtLoops - loops
<1>0. LayoutTypeOK /\ WalkInv /\ phase = "ecap" /\ pos >= StdSize
  BY DEF EcapTurn
<1>1. Hardware /\ StdSize \in Pointers /\ n \in 0..Bound /\ ExtLoops \in Nat /\ loops \in Nat
      /\ Path(StdSize)[0] = StdSize
  BY <1>0, LoopBounds, PathWorks
<1>2. /\ pos = Path(StdSize)[n] /\ pos # 0 /\ loops' = loops - 1
      /\ prev = 0 <=> n = 0
  BY <1>0, <1>1, PlacePointers DEF EcapTurn, Visit, WalkInv
<1>3. ExtLoops - loops' = n + 1
  BY <1>1, <1>2
<1>4. ExtKept' = {p \in Visited(StdSize, n + 1) : Shown(p) \/ p = StdSize}
  BY <1>3, SameHardware
<1>5. ExtKept = {p \in Visited(StdSize, n) : Shown(p) \/ p = StdSize}
  BY <1>0 DEF ExtKept
<1> HIDE DEF n
<1>6. /\ Visited(StdSize, n + 1) = Visited(StdSize, n) \cup {pos}
      /\ Visited(StdSize, n) \subseteq OnChain(StdSize)
      /\ OnChain(StdSize) \subseteq Places
      /\ pos \notin Visited(StdSize, n)
      /\ Visited(StdSize, 0) = {}
      /\ pos \in OnChain(StdSize)
  BY <1>1, <1>2, VisitedGrows
<1>7. n # 0 => StdSize \in Visited(StdSize, n)
  <2>1. n # 0 => 0 \in 0..n - 1
    BY <1>1
  <2> QED
    BY <1>1, <2>1, PlacePointers DEF Visited
<1>8. ExtKept' = ExtKept \cup {p \in {pos} : Shown(p) \/ p = StdSize}
  BY <1>4, <1>5, <1>6
<1>9. ExtKept \subseteq Pointers /\ pos \notin ExtKept /\ pos \in Ext
  BY <1>5, <1>6 DEF Pointers, Ext
<1>10. IF prev = 0 THEN ExtKept = {} /\ pos = StdSize
       ELSE StdSize \in ExtKept /\ pos # StdSize
  BY <1>1, <1>2, <1>5, <1>6, <1>7
<1> QED
  BY <1>2, <1>8, <1>9, <1>10 DEF n

\* Every turn of vfio_ecap_init leaves a true chain behind, its anchor included.
LEMMA ExtStep ==
  Regular /\ LayoutTypeOK /\ WalkInv /\ ExtInv /\ [Walk]_layoutVars => ExtInv'
<1> SUFFICES ASSUME Regular, LayoutTypeOK, WalkInv, ExtInv, [Walk]_layoutVars PROVE ExtInv'
  BY Zenon
<1> DEFINE NamedRight(v, Q) ==
             \A p \in Q : v[p].id = IF Shown(p) THEN hw.cap[p].id ELSE "null"
           After ==
             /\ MarksIn(map', ExtKept')
             /\ phase' = "ecap" => /\ ExtKept' = {} \/ Thread(vheader', prev', pos', ExtKept')
                                   /\ count' > 0 <=> \E p \in ExtKept' : Shown(p)
             /\ phase' = "ready" => LinkedIn(vheader', ExtKept')
             /\ NamedRight(vheader', ExtKept')
<1>1. hw' = hw
  BY DEF Walk, layoutVars, CapHidden, CapTaken, CapUnreadable, CapEnd,
         EcapHidden, EcapAnchor, EcapTaken, EcapUnreadable, EcapEnd
<1>2. ExtInv' <=> (Sound(StdSize) /\ ExtReadable => After)
  BY <1>1, ExtNext
<1> SUFFICES ASSUME Sound(StdSize), ExtReadable PROVE After
  BY <1>2
<1>3. /\ Hardware /\ StdSize \in Pointers /\ StdSize # 0 /\ StdSize \in Places /\ hw \in Devices
      /\ vheader \in [Pointers -> Headers] /\ prev \in Pointers /\ pos \in Pointers
      /\ count \in Nat
  BY LoopBounds, PlaceAssumption DEF LayoutTypeOK, WalkInv
<1>4. /\ MarksIn(map, ExtKept)
      /\ phase = "ecap" => /\ ExtKept = {} \/ Thread(vheader, prev, pos, ExtKept)
                           /\ count > 0 <=> \E p \in ExtKept : Shown(p)
      /\ phase = "ready" => LinkedIn(vheader, ExtKept)
      /\ NamedRight(vheader, ExtKept)
  BY Parameters DEF ExtInv
<1>5. /\ ExtKept \subseteq Places /\ ExtKept \in SUBSET Pointers
      /\ \A p \in ExtKept : Shown(p) \/ p = StdSize
  BY LoopBounds, VisitedGrows, ChainsApart DEF ExtKept, Pointers
<1>6. ASSUME ExtKept' = {} , ~(count' > 0) PROVE After
  BY <1>6 DEF MarksIn, LinkedIn
<1>7. CASE CapHidden \/ CapTaken \/ CapUnreadable
  <2>1. phase' \notin {"ecap", "ready"}
    BY <1>7 DEF CapHidden, CapTaken, CapUnreadable, CapTurn
  <2>2. ExtKept' = {}
    BY <1>1, <2>1, SameHardware
  <2> QED
    BY <2>1, <2>2 DEF MarksIn
<1>8. CASE CapEnd
  <2>1. /\ phase' = (IF extended THEN "ecap" ELSE "ready") /\ loops' = ExtLoops
        /\ count' = 0 /\ extended' = extended
    BY <1>8 DEF CapEnd
  <2>2. ExtLoops - loops' = 0
    BY <2>1, LoopBounds
  <2>3. Visited(StdSize, 0) = {}
    <3>1. 0..0 - 1 = {}
      OBVIOUS
    <3> QED
      BY <3>1 DEF Visited
  <2>4. ExtKept' = {}
    BY <1>1, <2>1, <2>2, <2>3, SameHardware
  <2>5. ~(count' > 0)
    BY <2>1
  <2> QED
    BY <1>6, <2>4, <2>5
<1>9. CASE EcapHidden
  <2>1. /\ EcapTurn /\ phase = "ecap" /\ phase' = "ecap" /\ ~Shown(pos)
        /\ pos' = hw.cap[pos].next /\ map' = map /\ count' = count /\ prev' = prev /\ prev # 0
        /\ vheader' = [vheader EXCEPT ![prev].next = hw.cap[pos].next]
    BY <1>9 DEF EcapHidden, EcapTurn, Visit, Cap, Size, Shown
  <2>2. /\ pos = Path(StdSize)[ExtLoops - loops] /\ ExtLoops - loops \in 0..Bound
        /\ StdSize \in ExtKept /\ pos # StdSize /\ pos # 0
        /\ ExtKept' = ExtKept
    <3>1. /\ pos = Path(StdSize)[ExtLoops - loops]
          /\ StdSize \in ExtKept /\ pos # StdSize
          /\ ExtKept' = ExtKept \cup {p \in {pos} : Shown(p) \/ p = StdSize}
      BY <1>1, <2>1, ExtGrows
    <3>2. ExtLoops - loops \in 0..Bound
      BY <2>1, LoopBounds
    <3>3. pos # 0
      BY <2>1, PlacePointers DEF EcapTurn
    <3>4. {p \in {pos} : Shown(p) \/ p = StdSize} = {}
      BY <2>1, <3>1
    <3> QED
      BY <3>1, <3>2, <3>3, <3>4
  <2>3. Thread(vheader, prev, pos, ExtKept) /\ ~Settled(pos)
    BY <1>4, <2>1, <2>2 DEF Settled
  <2>4. Thread([vheader EXCEPT ![prev].next = hw.cap[pos].next], prev, hw.cap[pos].next, ExtKept)
    BY <1>3, <1>5, <2>2, <2>3, ThreadHidden
  <2>5. \A p \in Pointers : vheader'[p].id = vheader[p].id
    <3> DEFINE v == vheader
    <3>1. v[prev] \in Headers
      BY <1>3
    <3>2. \A p \in Pointers : p # prev => vheader'[p] = v[p]
      BY <1>3, <2>1
    <3>3. vheader'[prev].id = v[prev].id
      BY <1>3, <2>1, <3>1 DEF Headers
    <3> QED
      BY <3>2, <3>3
  <2> QED
    BY <1>4, <1>5, <2>1, <2>2, <2>4, <2>5
<1>10. ASSUME NEW h \in Headers, EcapTurn, phase' = "ecap", prev' = pos,
              pos' = hw.cap[pos].next, vheader' = [vheader EXCEPT ![pos] = h],
              ExtKept' = ExtKept \cup {pos}, h.next = hw.cap[pos].next,
              h.id = (IF Shown(pos) THEN hw.cap[pos].id ELSE "null"),
              ExtKept = {} \/ (Shown(pos) /\ h = hw.cap[pos]),
              count' = IF Shown(pos) THEN count + 1 ELSE count,
              (Mark(Size, Cap.id) /\ Shown(pos)) \/ (Mark(4, Cap.id) /\ pos = StdSize)
       PROVE  After
  <2>1. phase = "ecap" /\ pos \notin ExtKept /\ pos \in Places /\ pos # 0 /\ pos \in Pointers
    BY <1>1, <1>3, <1>10, ExtGrows, ChainsApart, PlacePointers DEF EcapTurn
  <2>2. Thread(vheader', prev', pos', ExtKept')
    <3>1. CASE ExtKept = {}
      <4>1. Thread([vheader EXCEPT ![pos] = h], pos, hw.cap[pos].next, {pos})
        BY <1>3, <1>10, <2>1, ThreadBegins
      <4> QED
        BY <1>10, <3>1, <4>1
    <3>2. CASE ExtKept # {}
      <4>1. Thread(vheader, prev, pos, ExtKept) /\ Shown(pos) /\ h = hw.cap[pos]
        BY <1>4, <1>10, <2>1, <3>2
      <4>2. Thread([vheader EXCEPT ![pos] = hw.cap[pos]], pos, hw.cap[pos].next, ExtKept \cup {pos})
        BY <1>3, <1>5, <2>1, <4>1, ThreadTaken
      <4> QED
        BY <1>10, <4>1, <4>2
    <3> QED
      BY <3>1, <3>2
  <2>3. MarksIn(map', ExtKept \cup {pos})
    BY <1>3, <1>4, <1>5, <1>10, <2>1, MarksTaken
  <2>4. NamedRight(vheader', ExtKept')
    <3>1. vheader'[pos] = h /\ \A p \in ExtKept : vheader'[p] = vheader[p]
      BY <1>3, <1>5, <1>10, <2>1
    <3> QED
      BY <1>4, <1>10, <3>1
  <2>5. count' > 0 <=> \E p \in ExtKept' : Shown(p)
    <3>1. CASE Shown(pos)
      <4>1. count' > 0
        BY <1>3, <1>10, <3>1
      <4> QED
        BY <1>10, <3>1, <4>1
    <3>2. CASE ~Shown(pos)
      BY <1>4, <1>10, <2>1, <3>2
    <3> QED
      BY <3>1, <3>2
  <2> QED
    BY <1>10, <2>2, <2>3, <2>4, <2>5
<1>11. CASE EcapAnchor
  <2> DEFINE h == [id |-> "null", next |-> Cap.next]
  <2>1. /\ EcapTurn /\ phase' = "ecap" /\ ~Shown(pos) /\ prev = 0 /\ prev' = pos
        /\ pos' = hw.cap[pos].next /\ Mark(4, Cap.id) /\ count' = count
        /\ vheader' = [vheader EXCEPT ![pos] = h] /\ Cap = hw.cap[pos]
    BY <1>11 DEF EcapAnchor, EcapTurn, Visit, Cap, Size, Shown
  <2>2. ExtKept = {} /\ pos = StdSize /\ ExtKept' = ExtKept \cup {pos}
    BY <1>1, <2>1, ExtGrows
  <2>3. h \in Headers /\ h.next = hw.cap[pos].next /\ h.id = "null"
    BY <1>3, <2>1, <2>2, NextType, IdAssumption DEF Headers
  <2> HIDE DEF h
  <2> QED
    BY <1>10, <2>1, <2>2, <2>3
<1>12. CASE EcapTaken
  <2> DEFINE h == hw.cap[pos]
  <2>1. /\ EcapTurn /\ phase' = "ecap" /\ Shown(pos) /\ prev' = pos
        /\ pos' = h.next /\ Mark(Size, Cap.id) /\ count' = count + 1
        /\ vheader' = [vheader EXCEPT ![pos] = h]
    BY <1>12 DEF EcapTaken, EcapTurn, Visit, Cap, Size, Shown
  <2>2. ExtKept' = ExtKept \cup {pos} /\ pos \in Places
    <3>1. /\ ExtKept' = ExtKept \cup {p \in {pos} : Shown(p) \/ p = StdSize}
          /\ pos \in Ext
      BY <1>1, <2>1, ExtGrows
    <3>2. {p \in {pos} : Shown(p) \/ p = StdSize} = {pos}
      BY <2>1
    <3>3. pos \in Places
      BY <3>1, ChainsApart
    <3> QED
      BY <3>1, <3>2, <3>3
  <2>3. h \in Headers
    BY <1>3, <2>2 DEF Hardware
  <2>4. /\ h.next = hw.cap[pos].next /\ h = hw.cap[pos]
        /\ h.id = (IF Shown(pos) THEN hw.cap[pos].id ELSE "null")
        /\ pos' = hw.cap[pos].next
        /\ count' = IF Shown(pos) THEN count + 1 ELSE count
        /\ ExtKept = {} \/ (Shown(pos) /\ h = hw.cap[pos])
        /\ (Mark(Size, Cap.id) /\ Shown(pos)) \/ (Mark(4, Cap.id) /\ pos = StdSize)
    BY <2>1
  <2> HIDE DEF h
  <2> QED
    BY <1>10, <2>1, <2>2, <2>3, <2>4
<1>13. CASE EcapUnreadable
  <2>1. pos \in Ext /\ Length[hw.cap[pos].id] < 0
    BY <1>13, AtPlace DEF EcapUnreadable, Size, Cap
  <2>2. Length[hw.cap[pos].id] \in Nat
    <3>1. hw.cap[pos].id \in Ids
      BY <1>3, <2>1, ChainsApart, NextType
    <3> QED
      BY <2>1, <3>1, IdAssumption DEF ExtReadable
  <2> QED
    BY <2>1, <2>2
<1>14. CASE EcapEnd
  <2> DEFINE n == ExtLoops - loops
  <2>1. /\ phase = "ecap" /\ phase' = "ready" /\ map' = map /\ extended' = extended /\ extended
        /\ vheader' = IF count = 0 THEN [vheader EXCEPT ![StdSize] = Null] ELSE vheader
        /\ pos < StdSize \/ loops = 0
        /\ pos = Path(StdSize)[n] /\ n \in 0..Bound
    BY <1>14, LoopBounds DEF EcapEnd, WalkInv
  <2>2. pos = 0
    <3>1. CASE loops = 0
      <4>1. n = ExtLoops
        BY <3>1, LoopBounds
      <4> QED
        BY <1>3, <2>1, <4>1, PathsEnd
    <3>2. CASE pos < StdSize
      <4>1. pos = 0 \/ pos >= StdSize
        BY <1>3, <2>1, PathsApart
      <4> QED
        BY <1>3, <3>2, <4>1, PlacePointers
    <3> QED
      BY <2>1, <3>1, <3>2
  <2> HIDE DEF n
  <2>3. Visited(StdSize, n) = Ext
    BY <1>3, <2>1, <2>2, VisitedGrows DEF Ext
  <2>4. ExtKept = {p \in Ext : Shown(p) \/ p = StdSize}
    BY <2>1, <2>3 DEF ExtKept, n
  <2>5. ExtKept' = ExtKept
    BY <1>1, <2>1, <2>4, SameHardware
  <2>6. StdSize \in ExtKept
    <3>1. 0 \in 0..Bound /\ Path(StdSize)[0] = StdSize
      BY <1>3, LoopBounds, PathWorks
    <3>2. StdSize \in Ext
      BY <1>3, <3>1, VisitedGrows DEF Ext
    <3> QED
      BY <2>4, <3>2
  <2>7. LinkedIn(vheader, ExtKept) /\ prev \in ExtKept /\ FirstShown(Led(prev)) = 0
    <3>1. Thread(vheader, prev, 0, ExtKept)
      BY <1>4, <2>1, <2>2, <2>6
    <3> QED
      BY <1>3, <3>1, ThreadEnds DEF Thread
  <2>8. LinkedIn(vheader', ExtKept') /\ NamedRight(vheader', ExtKept')
    <3>1. CASE count = 0
      <4>1. ~Shown(StdSize) /\ ExtKept = {StdSize} /\ prev = StdSize
        BY <1>4, <1>5, <2>1, <2>6, <2>7, <3>1
      <4>2. vheader'[StdSize] = Null
        BY <1>3, <2>1, <3>1
      <4> QED
        BY <2>5, <2>7, <4>1, <4>2 DEF LinkedIn, Null
    <3>2. CASE count # 0
      BY <1>4, <2>1, <2>5, <2>7, <3>2
    <3> QED
      BY <3>1, <3>2
  <2> QED
    BY <1>4, <2>1, <2>5, <2>8
<1>15. CASE UNCHANGED layoutVars
  <2>1. /\ phase' = phase /\ map' = map /\ vheader' = vheader /\ extended' = extended
        /\ prev' = prev /\ pos' = pos /\ count' = count /\ loops' = loops
    BY <1>15 DEF layoutVars
  <2>2. ExtKept' = ExtKept
    BY <1>1, <2>1, SameHardware DEF ExtKept
  <2> QED
    BY <1>4, <2>1, <2>2
<1> QED
  BY <1>7, <1>8, <1>9, <1>11, <1>12, <1>13, <1>14, <1>15 DEF Walk

\* The argument for ChainExact.
LEMMA ExactOf ==
  ASSUME Regular, LayoutTypeOK, WalkInv, MapInv, StdInv, ExtInv
  PROVE  ChainExact
<1> SUFFICES ASSUME phase = "ready", Sound(hw.head), Sound(StdSize), ~Abut(Std \cup Ext)
             PROVE  /\ hw.listed => vheader[0].next = FirstShown(hw.head)
                    /\ vlisted = \E p \in Std : Shown(p)
                    /\ \A p \in Std : Shown(p) => SeenNext(p) = {FirstShown(hw.cap[p].next)}
                    /\ extended /\ ExtReadable =>
                         \A p \in Ext : Shown(p) \/ p = StdSize =>
                           /\ SeenNext(p) = {FirstShown(hw.cap[p].next)}
                           /\ vheader[p].id = IF Shown(p) THEN hw.cap[p].id ELSE "null"
  BY DEF ChainExact
<1>1. \A p \in Std \cup Ext : p # 0 /\ Led(p) = hw.cap[p].next
  <2>1. Std \subseteq Places /\ Ext \subseteq Places /\ 0 \notin Places
    BY ChainsApart, PlaceAssumption, SizeAssumption
  <2> QED
    BY <2>1 DEF Led
<1>2. StdKept = {p \in Std : Shown(p)}
  BY DEF StdKept
<1>3. /\ Marks(StdKept) /\ (hw.listed => Linked(StdKept \cup {0}))
      /\ vlisted <=> StdKept # {}
  BY DEF StdInv
<1>4. hw.listed => vheader[0].next = FirstShown(hw.head)
  BY <1>3 DEF Linked, Led
<1>5. vlisted = \E p \in Std : Shown(p)
  BY <1>2, <1>3 DEF LayoutTypeOK
<1>6. ASSUME NEW p \in Std, Shown(p) PROVE SeenNext(p) = {FirstShown(hw.cap[p].next)}
  <2>1. p \in StdKept /\ hw.listed
    BY <1>2, <1>6 DEF Std
  <2>2. \A b \in p..p + 3 : map[b] = hw.cap[p].id
    BY <1>3, <2>1 DEF Marks
  <2>3. SeenNext(p) = {vheader[p].next}
    BY <1>6, <2>2, SeenIs
  <2> QED
    BY <1>1, <1>3, <2>1, <2>3 DEF Linked
<1>7. ASSUME extended, ExtReadable, NEW p \in Ext, Shown(p) \/ p = StdSize
      PROVE  /\ SeenNext(p) = {FirstShown(hw.cap[p].next)}
             /\ vheader[p].id = IF Shown(p) THEN hw.cap[p].id ELSE "null"
  <2>1. p \in ExtKept
    BY <1>7 DEF ExtKept
  <2>2. /\ Marks(ExtKept) /\ Linked(ExtKept)
        /\ vheader[p].id = IF Shown(p) THEN hw.cap[p].id ELSE "null"
    BY <1>7, <2>1 DEF ExtInv
  <2>3. \A b \in p..p + 3 : map[b] = hw.cap[p].id
    BY <2>1, <2>2 DEF Marks
  <2>4. SeenNext(p) = {vheader[p].next}
    BY <1>7, <2>3, SeenIs
  <2> QED
    BY <1>1, <2>1, <2>2, <2>4 DEF Linked
<1> QED
  BY <1>4, <1>5, <1>6, <1>7

\* The inductive invariant, for every behaviour of the walk.
LEMMA LayoutHolds == ASSUME Regular PROVE LayoutSpec => [](LayoutTypeOK /\ LayoutInv)
<1> DEFINE I == LayoutTypeOK /\ LayoutInv
<1>1. LayoutSpec => []LayoutTypeOK
  BY LayoutTypes
<1>2. LayoutInit => LayoutInv
  BY WalkInitial, MapInitial, StdInitial, ExtInitial DEF LayoutInv
<1>3. LayoutTypeOK /\ LayoutInv /\ [Walk]_layoutVars => LayoutInv'
  BY WalkStep, MapStep, StdStep, ExtStep DEF LayoutInv
<1> QED
  BY <1>1, <1>2, <1>3, PTL DEF LayoutSpec

\* Whatever the device's capabilities, if it is laid out as the PCI specification asks,
\* its standard chain ends and no two of one id abut, every chunk vfio_config_do_rw cuts
\* is aligned, within one capability and within its permission table.
THEOREM ChunksAlwaysFit == ASSUME Regular PROVE LayoutSpec => []ChunksFit
<1>1. LayoutTypeOK /\ LayoutInv => ChunksFit
  BY FitsOf DEF LayoutInv
<1> QED
  BY <1>1, LayoutHolds, PTL

\* ... and if both chains end, the user who follows the pointers meets exactly the
\* capabilities that are not hidden, in the hardware's order: the pointers that
\* vfio_cap_init and vfio_ecap_init rewrite are the ones that every read returns.
THEOREM ChainsAreExact == ASSUME Regular PROVE LayoutSpec => []ChainExact
<1>1. LayoutTypeOK /\ LayoutInv => ChainExact
  BY ExactOf DEF LayoutInv
<1> QED
  BY <1>1, LayoutHolds, PTL

\* The marks are right for hardware of any layout.
LEMMA MarksHold == LayoutSpec => [](LayoutTypeOK /\ WalkInv /\ MapInv)
<1>1. LayoutSpec => []LayoutTypeOK
  BY LayoutTypes
<1>2. LayoutInit => WalkInv /\ MapInv
  BY WalkInitial, MapInitial
<1>3. LayoutTypeOK /\ WalkInv /\ MapInv /\ [Walk]_layoutVars => WalkInv' /\ MapInv'
  BY WalkStep, MapStep
<1> QED
  BY <1>1, <1>2, <1>3, PTL DEF LayoutSpec

\* The WARN_ON of vfio_config_do_rw can only be met over the anchor: on devices whose
\* first extended capability has an id of the tables, every position has.
THEOREM OnlyTheAnchorIsUnknown ==
  ASSUME \A d \in Devices : d.cap[StdSize].id \in Known
  PROVE  LayoutSpec => []MarksKnownIds
<1>1. LayoutTypeOK /\ WalkInv /\ MapInv => MarksKnownIds
  <2> SUFFICES ASSUME LayoutTypeOK, WalkInv, MapInv, NEW b \in StdSize..CfgSize - 1
               PROVE  map[b] \in Known \cup {"invalid"}
    BY DEF MarksKnownIds
  <2>1. b \in 0..CfgSize - 1 /\ ~(b < HeaderSize)
    BY SizeAssumption
  <2>2. map[b] \in Ids \cup {"invalid"}
    BY <2>1 DEF LayoutTypeOK, Mapped, MapInv
  <2>3. ASSUME map[b] \in Ids, Length[map[b]] > 0 PROVE map[b] \in Known
    BY <2>3, IdAssumption
  <2>4. ASSUME map[b] \in Ids PROVE map[b] \in Known
    <3>1. \/ \E p \in Std \cup Ext : Shown(p) /\ hw.cap[p].id = map[b]
          \/ map[b] = hw.cap[StdSize].id
      BY <2>1, <2>4 DEF MapInv
    <3>2. hw.cap[StdSize].id \in Known
      BY DEF WalkInv
    <3> QED
      BY <2>3, <2>4, <3>1, <3>2 DEF Shown
  <2> QED
    BY <2>2, <2>4
<1> QED
  BY <1>1, MarksHold, PTL

-----------------------------------------------------------------------------
(* VfioHeader: what a reset wipes.                                          *)

\* The types at the start.
LEMMA HeaderInitTyped == HeaderInit => HeaderTypeOK
<1> SUFFICES ASSUME HeaderInit PROVE HeaderTypeOK
  OBVIOUS
<1>1. last \in [Bars \cup {Rom} -> SUBSET Bits]
  BY DEF HeaderInit, Flags, Bits
<1>2. intxOff \in BOOLEAN /\ phys \in Commands
  BY FunctionAssumption DEF HeaderInit
<1>3. 0 \in Bars /\ Disabled \in Commands /\ Unread \in [mem : BOOLEAN, io : BOOLEAN, off : BOOLEAN]
  BY BarAssumption DEF Bars, Disabled, Unread, Commands
<1> QED
  BY <1>1, <1>2, <1>3 DEF HeaderInit, HeaderTypeOK

\* ... and after each operation.
LEMMA HeaderTypeStep == HeaderTypeOK /\ [HeaderNext]_headerVars => HeaderTypeOK'
<1> SUFFICES ASSUME HeaderTypeOK, [HeaderNext]_headerVars PROVE HeaderTypeOK'
  OBVIOUS
<1> USE DEF HeaderTypeOK
<1>1. CASE CommandNext /\ UNCHANGED <<pdev, barVars>>
  <2>1. /\ Disabled \in Commands /\ Unread \in [mem : BOOLEAN, io : BOOLEAN, off : BOOLEAN]
        /\ phys.mem \in BOOLEAN /\ phys.io \in BOOLEAN
        /\ cmd.mem \in BOOLEAN /\ cmd.io \in BOOLEAN /\ cmd.off \in BOOLEAN
        /\ 0 \in Bars /\ Rom \notin Bars /\ Assigned \subseteq Bars
        /\ \A b \in Bars \cup {Rom} : b < Rom => b + 1 \in Bars \cup {Rom}
    BY BarAssumption DEF Disabled, Unread, Commands, Bars, Rom, Assigned
  <2>2. UNCHANGED <<pdev, vbar, last>>
    BY <1>1 DEF barVars
  <2>3. CASE CheckCommand
    BY <2>1, <2>2, <2>3 DEF CheckCommand
  <2>4. CASE RestoreBar
    BY <2>1, <2>2, <2>4 DEF RestoreBar
  <2>5. CASE ReadHardware("hide", "hidden") \/ ReadHardware("read", "write")
    BY <2>1, <2>2, <2>5 DEF ReadHardware
  <2>6. CASE HideIntx
    BY <2>1, <2>2, <2>6 DEF HideIntx, Commands
  <2>7. CASE WriteBack
    BY <2>1, <2>2, <2>7 DEF WriteBack
  <2>8. CASE BackdoorReset
    BY <2>1, <2>2, <2>8 DEF BackdoorReset
  <2> QED
    BY <1>1, <2>3, <2>4, <2>5, <2>6, <2>7, <2>8 DEF CommandNext
<1>2. CASE WriteBar /\ UNCHANGED <<pdev, commandVars>>
  BY <1>2, WrittenAssumption DEF WriteBar, commandVars
<1>3. CASE ReadBar /\ UNCHANGED <<pdev, commandVars>>
  <2>1. \A b \in Bars : Value(vbar, b) \subseteq Bits
    BY DEF Value, Mask, Flags, Bits
  <2>2. Rom \notin Bars
    BY BarAssumption DEF Bars, Rom
  <2>3. \A b \in Bars \cup {Rom} : Fixup(vbar)[b] \subseteq Bits
    BY <2>1, <2>2 DEF Fixup
  <2>4. Fixup(vbar) \in [Bars \cup {Rom} -> SUBSET Bits]
    BY <2>3 DEF Fixup
  <2> QED
    BY <1>3, <2>4 DEF ReadBar, commandVars
<1>4. CASE UNCHANGED headerVars
  BY <1>4 DEF headerVars, commandVars, barVars
<1> QED
  BY <1>1, <1>2, <1>3, <1>4 DEF HeaderNext, BarNext

\* What the next test of a command write would see of a reset: outside a restore the
\* ROM is lost only together with a BAR that is looked at, and so is the INTx disable,
\* in the hardware and in what was read of it.
Noticed ==
  /\ lost \subseteq Assigned \cup {Rom}
  /\ stage # "restore" => nextBar = 0 /\ (Rom \in lost => NeedBarRestore)
  /\ stage \in {"idle", "read", "write"} /\ pdev.nointx /\ ~intxOff => NeedBarRestore
  /\ stage = "write" /\ pdev.nointx /\ ~cmd.off => NeedBarRestore

\* How far a write that no reset has overtaken has come in putting things right.
Restored ==
  ~raced =>
    /\ stage = "restore" => \A b \in lost : b >= nextBar
    /\ stage \in {"hide", "hidden", "read", "write"} => lost = {}
    /\ stage \in {"read", "write"} /\ pdev.nointx => intxOff
    /\ stage = "write" /\ pdev.nointx => cmd.off

RestoreInv ==
  /\ HeaderTypeOK
  /\ ~pdev.virtfn /\ Assigned # {} => Noticed /\ Restored /\ MemoryNeedsBars

\* The steps of a command write and a reset, on a function with BARs that is not
\* virtual.
LEMMA CommandStep ==
  ASSUME HeaderTypeOK, ~pdev.virtfn, Assigned # {}, Noticed, Restored, MemoryNeedsBars,
         CommandNext, pdev' = pdev
  PROVE  Noticed' /\ Restored' /\ MemoryNeedsBars'
<1>1. /\ Assigned' = Assigned /\ Assigned \subseteq Bars
      /\ Rom \in Int /\ Rom \notin Bars /\ \A b \in Bars : b \in Int /\ 0 <= b /\ b < Rom
      /\ nextBar \in Int /\ 0 <= nextBar /\ nextBar <= Rom
      /\ lost \subseteq Bars \cup {Rom}
      /\ pdev.nointx \in BOOLEAN /\ raced \in BOOLEAN /\ intxOff \in BOOLEAN
  BY BarAssumption, FunctionAssumption DEF Assigned, Bars, Rom, HeaderTypeOK
<1>2. CASE CheckCommand
  <2>1. /\ UNCHANGED <<phys, intxOff, lost, cmd, nextBar>> /\ raced' = FALSE
        /\ stage = "idle"
        /\ \/ stage' = "restore"
           \/ stage' = "read" /\ ~NeedBarRestore
    BY <1>2 DEF CheckCommand
  <2>2. NeedBarRestore' = NeedBarRestore
    BY <1>1, <2>1 DEF NeedBarRestore
  <2>3. ~NeedBarRestore => lost = {} /\ (pdev.nointx => intxOff)
    BY <2>1 DEF NeedBarRestore, Noticed
  <2> QED
    BY <1>1, <2>1, <2>2, <2>3 DEF Noticed, Restored, MemoryNeedsBars
<1>3. CASE RestoreBar
  <2>1. /\ UNCHANGED <<phys, intxOff, cmd, raced>> /\ lost' = lost \ {nextBar}
        /\ stage = "restore"
        /\ \/ nextBar < Rom /\ nextBar' = nextBar + 1 /\ stage' = "restore"
           \/ /\ nextBar = Rom /\ nextBar' = 0
              /\ stage' = IF pdev.nointx THEN "hide" ELSE "read"
    BY <1>1, <1>3 DEF RestoreBar
  <2>2. Noticed'
    BY <1>1, <2>1 DEF Noticed
  <2>3. Restored'
    BY <1>1, <2>1 DEF Restored
  <2> QED
    BY <2>1, <2>2, <2>3 DEF MemoryNeedsBars
<1>4. CASE ReadHardware("hide", "hidden")
  <2>1. /\ UNCHANGED <<phys, intxOff, lost, nextBar, raced>>
        /\ stage = "hide" /\ stage' = "hidden"
    BY <1>4 DEF ReadHardware
  <2>2. NeedBarRestore' = NeedBarRestore
    BY <1>1, <2>1 DEF NeedBarRestore
  <2> QED
    BY <1>1, <2>1, <2>2 DEF Noticed, Restored, MemoryNeedsBars
<1>5. CASE HideIntx
  <2>1. /\ UNCHANGED <<lost, nextBar, raced>> /\ intxOff' = TRUE
        /\ stage = "hidden" /\ stage' = "read"
    BY <1>5 DEF HideIntx
  <2>2. NeedBarRestore' = NeedBarRestore
    BY <1>1, <2>1 DEF NeedBarRestore
  <2> QED
    BY <1>1, <2>1, <2>2 DEF Noticed, Restored, MemoryNeedsBars
<1>6. CASE ReadHardware("read", "write")
  <2>1. /\ UNCHANGED <<phys, intxOff, lost, nextBar, raced>> /\ cmd'.off = intxOff
        /\ stage = "read" /\ stage' = "write"
    BY <1>6 DEF ReadHardware
  <2>2. NeedBarRestore' = NeedBarRestore
    BY <1>1, <2>1 DEF NeedBarRestore
  <2> QED
    BY <1>1, <2>1, <2>2 DEF Noticed, Restored, MemoryNeedsBars
<1>7. CASE WriteBack
  <2>1. /\ UNCHANGED <<lost, nextBar, raced>> /\ intxOff' = cmd.off
        /\ stage = "write" /\ stage' = "idle"
    BY <1>7 DEF WriteBack
  <2>2. NeedBarRestore' = NeedBarRestore
    BY <1>1, <2>1 DEF NeedBarRestore
  <2> QED
    BY <1>1, <2>1, <2>2 DEF Noticed, Restored, MemoryNeedsBars
<1>8. CASE BackdoorReset
  <2>1. /\ UNCHANGED <<stage, cmd, nextBar>>
        /\ lost' = Assigned \cup {Rom} /\ phys' = Disabled
        /\ raced' = (stage # "idle")
    BY <1>8 DEF BackdoorReset
  <2>2. NeedBarRestore' /\ ~Disabled.mem /\ ~Disabled.io
    BY <1>1, <2>1 DEF NeedBarRestore, Disabled
  <2> QED
    BY <1>1, <2>1, <2>2 DEF Noticed, Restored, MemoryNeedsBars
<1> QED
  BY <1>2, <1>3, <1>4, <1>5, <1>6, <1>7, <1>8 DEF CommandNext

\* After a write of the command register that no reset overtook, a function decodes
\* only BARs that are in place, and uses no broken INTx, whatever resets came before
\* and in the middle of earlier writes: for every function and any number of BARs.
THEOREM MemoryAlwaysNeedsBars == HeaderSpec => []MemoryNeedsBars
<1>1. HeaderInit => RestoreInv
  <2> SUFFICES ASSUME HeaderInit PROVE RestoreInv
    OBVIOUS
  <2>1. HeaderTypeOK
    BY HeaderInitTyped
  <2>2. lost = {} /\ intxOff = pdev.nointx /\ stage = "idle" /\ nextBar = 0
    BY DEF HeaderInit
  <2> QED
    BY <2>1, <2>2 DEF RestoreInv, Noticed, Restored, MemoryNeedsBars
<1>2. RestoreInv /\ [HeaderNext]_headerVars => RestoreInv'
  <2> SUFFICES ASSUME RestoreInv, [HeaderNext]_headerVars PROVE RestoreInv'
    OBVIOUS
  <2>1. HeaderTypeOK'
    BY HeaderTypeStep DEF RestoreInv
  <2>2. pdev' = pdev /\ Assigned' = Assigned
    BY DEF HeaderNext, headerVars, Assigned
  <2>3. CASE CommandNext
    BY <2>1, <2>2, <2>3, CommandStep DEF RestoreInv
  <2>4. CASE UNCHANGED commandVars
    <3>1. NeedBarRestore' = NeedBarRestore
      BY <2>2, <2>4 DEF NeedBarRestore, commandVars
    <3> QED
      BY <2>1, <2>2, <2>4, <3>1
      DEF RestoreInv, Noticed, Restored, MemoryNeedsBars, commandVars
  <2> QED
    BY <2>3, <2>4 DEF HeaderNext, headerVars
<1>3. RestoreInv => MemoryNeedsBars
  BY DEF RestoreInv, MemoryNeedsBars
<1> QED
  BY <1>1, <1>2, <1>3, PTL DEF HeaderSpec

-----------------------------------------------------------------------------
(* VfioHeader: sizing.                                                      *)

\* A function's BARs: an upper half comes after the lower one, and has no turn of its
\* own unless the turn before it was a skipped one.
LEMMA Kinded ==
  ASSUME pdev \in Functions
  PROVE  /\ pdev.kind \in [Bars -> Kinds]
         /\ \A b \in Bars : pdev.kind[b] = "high" <=> b > 0 /\ pdev.kind[b - 1] = "mem64"
BY FunctionAssumption

\* A 4-byte I/O BAR below b with bit 2 in its address: the exception of BarsSized.
Misled(v, b) == \E c \in Bars : c < b /\ pdev.kind[c] = "io4" /\ 2 \in v[c]

\* Without it the turns that skip are those of the lower halves ...
LEMMA WideIsLower ==
  ASSUME pdev \in Functions, NEW v, NEW b \in Bars, NEW c \in Bars, c < b, ~Misled(v, b)
  PROVE  Wide(v, c) <=> pdev.kind[c] = "mem64"
<1>1. pdev.kind[c] \in Kinds
  BY Kinded
<1>2. pdev.kind[c] = "io4" => 2 \notin v[c]
  BY DEF Misled
<1> QED
  BY <1>1, <1>2 DEF Wide, Value, Mask, Flags, Kinds, Assigned

\* ... and what they skip is the upper halves.
LEMMA SkippedIsUpper ==
  ASSUME pdev \in Functions, NEW v, NEW b \in Bars, ~Misled(v, b)
  PROVE  Skipped(v, b) <=> pdev.kind[b] = "high"
<1>1. Bars \subseteq Nat /\ \A k \in 1..b : b - k \in Bars /\ b - k < b
  BY BarAssumption DEF Bars
<1>2. ASSUME Skipped(v, b) PROVE pdev.kind[b] = "high"
  <2>1. PICK k \in 1..b : \A i \in 1..k : Wide(v, b - i)
    BY <1>2 DEF Skipped
  <2>2. 1 \in 1..k /\ 1 \in 1..b /\ b > 0
    BY <1>1
  <2>3. pdev.kind[b - 1] = "mem64"
    BY <1>1, <2>1, <2>2, WideIsLower
  <2> QED
    BY <2>2, <2>3, Kinded
<1>3. ASSUME pdev.kind[b] = "high" PROVE Skipped(v, b)
  <2>1. b > 0 /\ pdev.kind[b - 1] = "mem64"
    BY <1>3, Kinded
  <2>2. 1 \in 1..b /\ 1 % 2 = 1
    BY <1>1, <2>1
  <2>3. \A i \in 1..1 : Wide(v, b - i)
    BY <1>1, <2>1, <2>2, WideIsLower
  <2>4. ASSUME 1 < b PROVE ~Wide(v, b - 1 - 1)
    <3>1. b - 1 \in Bars /\ b - 1 > 0 /\ b - 2 \in Bars /\ b - 2 < b
      BY <1>1, <2>4 DEF Bars
    <3>2. pdev.kind[b - 1] # "high" /\ (b - 1) - 1 = b - 2
      BY <1>1, <2>1
    <3>3. pdev.kind[b - 2] # "mem64"
      BY <3>1, <3>2, Kinded
    <3> QED
      BY <3>1, <3>2, <3>3, WideIsLower
  <2> QED
    BY <2>2, <2>3, <2>4 DEF Skipped
<1> QED
  BY <1>2, <1>3

\* So a read makes of each BAR what hardware would, upper halves behind a 4-byte I/O
\* BAR and what is Misled apart.
LEMMA FixupIsRegister ==
  ASSUME pdev \in Functions, NEW v, NEW b \in Bars \cup {Rom}, v[b] \subseteq Bits,
         b \in Bars => ~Misled(v, b)
  PROVE  Fixup(v)[b] = Register(b, v[b])
<1>1. Rom \notin Bars
  BY BarAssumption DEF Bars, Rom
<1>2. CASE b = Rom
  BY <1>2 DEF Fixup, Register
<1>3. CASE b \in Bars
  <2>1. pdev.kind[b] \in Kinds
    BY <1>3, Kinded
  <2>2. Skipped(v, b) <=> pdev.kind[b] = "high"
    BY <1>3, SkippedIsUpper
  <2> QED
    BY <1>1, <1>3, <2>1, <2>2 DEF Fixup, Register, Value, Assigned, Kinds, Mask, Flags
<1> QED
  BY <1>2, <1>3

\* The one BAR that a read can spoil for good: see BarsSized.
Spoilt(b) ==
  b \in Bars /\ pdev.kind[b] = "high" /\ \E c \in Bars : c < b /\ pdev.kind[c] = "io4"

\* What vconfig holds and what the user wrote look the same through the register.
Kept(b) == Register(b, vbar[b]) = Register(b, last[b])

SizedInv == HeaderTypeOK /\ \A b \in Bars \cup {Rom} : Kept(b) \/ Spoilt(b)

\* A read keeps what the registers show.
LEMMA ReadKeeps ==
  ASSUME HeaderTypeOK, NEW b \in Bars \cup {Rom}, ~Spoilt(b)
  PROVE  Register(b, Fixup(vbar)[b]) = Register(b, vbar[b])
<1>1. Rom \notin Bars
  BY BarAssumption DEF Bars, Rom
<1>2. CASE b = Rom
  BY <1>2 DEF Fixup, Register
<1>3. CASE b \in Bars /\ Skipped(vbar, b)
  BY <1>1, <1>3 DEF Fixup
<1>4. CASE b \in Bars /\ ~Skipped(vbar, b)
  <2>1. pdev.kind[b] # "high"
    <3> SUFFICES ASSUME pdev.kind[b] = "high" PROVE FALSE
      OBVIOUS
    <3>1. ~Misled(vbar, b)
      BY <1>4 DEF Spoilt, Misled
    <3> QED
      BY <1>4, <3>1, SkippedIsUpper DEF HeaderTypeOK
  <2>2. pdev.kind[b] \in Kinds
    BY <1>4, Kinded DEF HeaderTypeOK
  <2>3. Fixup(vbar)[b] = Value(vbar, b)
    BY <1>1, <1>4 DEF Fixup
  <2> QED
    BY <1>1, <1>4, <2>1, <2>2, <2>3 DEF Register, Value, Assigned, Kinds, Mask, Flags
<1> QED
  BY <1>2, <1>3, <1>4

\* The user finds the sizes and types of the BARs, whatever it reads and writes, for
\* every layout of the BARs; the exceptions are those that BarsSized names.
THEOREM BarsAlwaysSized == HeaderSpec => [](HeaderTypeOK /\ BarsSized)
<1>1. HeaderInit => SizedInv
  <2> SUFFICES ASSUME HeaderInit PROVE SizedInv
    OBVIOUS
  <2>1. vbar = last
    BY DEF HeaderInit
  <2> QED
    BY <2>1, HeaderInitTyped DEF SizedInv, Kept
<1>2. SizedInv /\ [HeaderNext]_headerVars => SizedInv'
  <2> SUFFICES ASSUME SizedInv, [HeaderNext]_headerVars PROVE SizedInv'
    OBVIOUS
  <2>1. HeaderTypeOK'
    BY HeaderTypeStep DEF SizedInv
  <2> SUFFICES ASSUME NEW b \in Bars \cup {Rom} PROVE Kept(b)' \/ Spoilt(b)'
    BY <2>1 DEF SizedInv
  <2>0. pdev' = pdev
    BY DEF HeaderNext, headerVars
  <2>2. CASE UNCHANGED barVars
    BY <2>0, <2>2 DEF SizedInv, Kept, Spoilt, Register, barVars
  <2>3. CASE WriteBar
    <3>1. /\ pdev' = pdev
          /\ \/ vbar'[b] = last'[b]
             \/ vbar'[b] = vbar[b] /\ last'[b] = last[b]
      BY <2>0, <2>3 DEF WriteBar, SizedInv, HeaderTypeOK
    <3> QED
      BY <3>1 DEF SizedInv, Kept, Spoilt, Register
  <2>4. CASE ReadBar
    <3>1. pdev' = pdev /\ last' = last /\ vbar' = Fixup(vbar)
      BY <2>0, <2>4 DEF ReadBar
    <3>2. CASE Spoilt(b)
      BY <3>1, <3>2 DEF Spoilt
    <3>3. CASE ~Spoilt(b)
      <4>1. Register(b, Fixup(vbar)[b]) = Register(b, vbar[b])
        BY <3>3, ReadKeeps DEF SizedInv
      <4>2. Kept(b)
        BY <3>3 DEF SizedInv
      <4> QED
        BY <3>1, <4>1, <4>2 DEF Kept, Register
    <3> QED
      BY <3>2, <3>3
  <2> QED
    BY <2>2, <2>3, <2>4 DEF HeaderNext, BarNext, headerVars
<1>3. SizedInv => HeaderTypeOK /\ BarsSized
  <2> SUFFICES ASSUME SizedInv, NEW b \in Bars \cup {Rom}
               PROVE  \/ Fixup(vbar)[b] = Register(b, last[b])
                      \/ \E c \in Bars :
                           /\ c < b /\ b # Rom
                           /\ pdev.kind[c] = "io4"
                           /\ 2 \in vbar[c] \/ pdev.kind[b] = "high"
    BY DEF SizedInv, BarsSized
  <2>1. Rom \notin Bars /\ pdev \in Functions /\ vbar[b] \subseteq Bits
    BY BarAssumption DEF Bars, Rom, SizedInv, HeaderTypeOK
  <2>2. CASE b \in Bars /\ Misled(vbar, b)
    BY <2>1, <2>2 DEF Misled
  <2>3. CASE Spoilt(b)
    BY <2>1, <2>3 DEF Spoilt
  <2>4. CASE ~Spoilt(b) /\ (b \in Bars => ~Misled(vbar, b))
    BY <2>1, <2>4, FixupIsRegister DEF SizedInv, Kept
  <2> QED
    BY <2>2, <2>3, <2>4
<1> QED
  BY <1>1, <1>2, <1>3, PTL DEF HeaderSpec

-----------------------------------------------------------------------------
(* VfioCaps: what a write to a capability does.                              *)

\* The powers of two that MSI's queue sizes stand for.
LEMMA Powers ==
  ASSUME NEW a
  PROVE  /\ a = 0 => 2 ^ a = 1
         /\ a = 1 => 2 ^ a = 2
         /\ a = 2 => 2 ^ a = 4
         /\ a = 3 => 2 ^ a = 8
         /\ a = 4 => 2 ^ a = 16
         /\ a = 5 => 2 ^ a = 32
         /\ a = 6 => 2 ^ a = 64
<1>1. a = 0 => 2 ^ a = 2 ^ 0
  BY Zenon
<1>2. a = 1 => 2 ^ a = 2 ^ 1
  BY Zenon
<1>3. a = 2 => 2 ^ a = 2 ^ 2
  BY Zenon
<1>4. a = 3 => 2 ^ a = 2 ^ 3
  BY Zenon
<1>5. a = 4 => 2 ^ a = 2 ^ 4
  BY Zenon
<1>6. a = 5 => 2 ^ a = 2 ^ 5
  BY Zenon
<1>7. a = 6 => 2 ^ a = 2 ^ 6
  BY Zenon
<1> QED
  BY <1>1, <1>2, <1>3, <1>4, <1>5, <1>6, <1>7

\* They grow with the size.
LEMMA PowersGrow ==
  ASSUME NEW a \in 0..5, NEW b \in 0..5, a <= b
  PROVE  2 ^ a \in Nat /\ 2 ^ b \in Nat /\ 2 ^ a <= 2 ^ b
<1>1. a \in {0, 1, 2, 3, 4, 5} /\ b \in {0, 1, 2, 3, 4, 5}
  OBVIOUS
<1> QED
  BY <1>1, Powers

\* fls(n * 2 - 1) - 1 is a queue size that holds fewer than twice the vectors.
LEMMA QmaxFits ==
  ASSUME NEW n \in 1..32
  PROVE  Qmax(n) \in 0..5 /\ 2 ^ Qmax(n) < 2 * n
<1> DEFINE P(k) == k \in 0..5 /\ 2 ^ k <= n * 2 - 1 /\ n * 2 - 1 < 2 ^ (k + 1)
<1>1. \E k : P(k)
  <2>0. /\ 2 ^ 0 = 1 /\ 2 ^ 1 = 2 /\ 2 ^ 2 = 4 /\ 2 ^ 3 = 8 /\ 2 ^ 4 = 16 /\ 2 ^ 5 = 32
        /\ 2 ^ 6 = 64
        /\ 0 + 1 = 1 /\ 1 + 1 = 2 /\ 2 + 1 = 3 /\ 3 + 1 = 4 /\ 4 + 1 = 5 /\ 5 + 1 = 6
    OBVIOUS
  <2>1. CASE n = 1
    <3>1. P(0)
      BY <2>0, <2>1
    <3> QED
      BY <3>1
  <2>2. CASE n = 2
    <3>1. P(1)
      BY <2>0, <2>2
    <3> QED
      BY <3>1
  <2>3. CASE n \in 3..4
    <3>1. P(2)
      BY <2>0, <2>3
    <3> QED
      BY <3>1
  <2>4. CASE n \in 5..8
    <3>1. P(3)
      BY <2>0, <2>4
    <3> QED
      BY <3>1
  <2>5. CASE n \in 9..16
    <3>1. P(4)
      BY <2>0, <2>5
    <3> QED
      BY <3>1
  <2>6. CASE n \in 17..32
    <3>1. P(5)
      BY <2>0, <2>6
    <3> QED
      BY <3>1
  <2> QED
    BY <2>1, <2>2, <2>3, <2>4, <2>5, <2>6
<1>2. Qmax(n) = CHOOSE k : P(k)
  BY DEF Qmax
<1>3. P(Qmax(n))
  <2> HIDE DEF P
  <2> QED
    BY <1>1, <1>2
<1>4. 2 ^ Qmax(n) \in Nat
  <2> DEFINE q == Qmax(n)
  <2>1. q \in 0..5
    BY <1>3
  <2> HIDE DEF q, P
  <2>2. 2 ^ q \in Nat
    BY <2>1, Powers
  <2> QED
    BY <2>2 DEF q
<1> QED
  BY <1>3, <1>4

\* A write changes only fields of the capability.
LEMMA WritesFields ==
  ASSUME hard \subseteq Fields, soft \subseteq Fields, NEW bytes, NEW val
  PROVE  NewHard(bytes, val) \subseteq Fields /\ NewSoft(bytes, val) \subseteq Fields
BY DEF NewHard, NewSoft

\* The capabilities without an FLR bit.
LEMMA NoFlr ==
  capability \in {"basic", "pm", "err"} => Named("flr") = {}
BY DEF Named, Fields, Basic, Pm, Exp, Af, Err, Field

\* At the start the registers hold the same, and nothing was asked for.
LEMMA CapsInitial == CapsInit => CapsInv /\ QueueBounded
<1> SUFFICES ASSUME CapsInit PROVE CapsInv /\ QueueBounded
  OBVIOUS
<1>1. capability \in Plain \cup {"vpd", "msi"} /\ hard \subseteq Fields /\ soft \subseteq Fields
      /\ Named("flr") \cap soft = {}
  <2>1. /\ capability \in Plain \cup {"vpd", "msi"}
        /\ hard \subseteq {f \in Fields : f.kind = "rw"}
        /\ soft = {f \in Fields : f.kind = "ro" /\ f.name # "flr"} \cup hard
    BY DEF CapsInit
  <2>2. \A f \in Named("flr") : f.kind = "ro" /\ f.name = "flr"
    BY DEF Named, Fields, Basic, Pm, Exp, Af, Err, Field
  <2> QED
    BY <2>1, <2>2
<1>2. rq \in [host : 0..7, hw : 0..7, virt : 0..7, mps : 0..7] /\ ReadrqFloor
  BY ReadrqAssumption DEF CapsInit, ReadrqFloor
<1>3. /\ VpdAnswers
      /\ vpd \in [rom : [VpdAddrs -> VpdData], addr : VpdAddrs, data : VpdData,
                  flag : BOOLEAN,
                  asked : [addr : VpdAddrs, flag : BOOLEAN, data : VpdData]]
  <2> DEFINE a == CHOOSE a \in VpdAddrs : TRUE
             d == CHOOSE d \in VpdData : TRUE
  <2>1. a \in VpdAddrs /\ d \in VpdData
    BY VpdAssumption
  <2>2. vpd = [rom |-> [x \in VpdAddrs |-> d], addr |-> a, data |-> d, flag |-> FALSE,
               asked |-> [addr |-> a, flag |-> FALSE, data |-> d]]
    BY DEF CapsInit
  <2> HIDE DEF a, d
  <2> QED
    BY <2>1, <2>2 DEF VpdAnswers
<1>4. /\ irqs \in [on : BOOLEAN, vectors : Nat, qmax : 0..5]
      /\ msi \in [hw : MsiFlags, virt : MsiFlags, pending : MsiFlags \cup {Idle}]
      /\ QueueBounded
  BY DEF CapsInit, QueueBounded, MsiFlags
<1> QED
  BY <1>1, <1>2, <1>3, <1>4 DEF CapsInv, CapsTypeOK

\* A VPD access answers the request it completes, and one that does not complete
\* leaves the product data alone.
LEMMA VpdStep ==
  ASSUME CapsInv, WriteVpdAddr \/ WriteVpdData
  PROVE  /\ vpd' \in [rom : [VpdAddrs -> VpdData], addr : VpdAddrs, data : VpdData,
                      flag : BOOLEAN,
                      asked : [addr : VpdAddrs, flag : BOOLEAN, data : VpdData]]
         /\ VpdAnswers'
<1>0. /\ vpd \in [rom : [VpdAddrs -> VpdData], addr : VpdAddrs, data : VpdData,
                  flag : BOOLEAN,
                  asked : [addr : VpdAddrs, flag : BOOLEAN, data : VpdData]]
      /\ VpdAnswers
  BY DEF CapsInv, CapsTypeOK
<1>1. CASE WriteVpdData
  BY <1>0, <1>1 DEF WriteVpdData, VpdAnswers
<1>2. CASE WriteVpdAddr
  <2>1. PICK bytes \in Accesses, a \in VpdAddrs, f \in BOOLEAN, works \in BOOLEAN :
          /\ bytes \cap {2, 3} # {}
          /\ LET addr == IF 2 \in bytes THEN a ELSE vpd.addr
                 flag == IF 3 \in bytes THEN f ELSE vpd.flag
                 now  == [vpd EXCEPT !.addr = addr, !.flag = flag,
                            !.asked =
                              IF 3 \in bytes
                                THEN [addr |-> addr, flag |-> flag, data |-> vpd.data]
                                ELSE vpd.asked]
             IN  vpd' = IF ~Due(bytes) \/ ~works THEN now
                        ELSE IF flag
                          THEN [now EXCEPT !.rom[addr] = vpd.data, !.flag = FALSE]
                          ELSE [now EXCEPT !.data = vpd.rom[addr], !.flag = TRUE]
    BY <1>2 DEF WriteVpdAddr
  <2> DEFINE addr == IF 2 \in bytes THEN a ELSE vpd.addr
             asked == [addr |-> addr, flag |-> f, data |-> vpd.data]
  <2>2. addr \in VpdAddrs /\ vpd.data \in VpdData /\ f \in BOOLEAN
    BY <1>0
  <2>3. CASE ~Due(bytes)
    <3>1. vpd' = [vpd EXCEPT !.addr = addr]
      BY <1>0, <2>1, <2>3 DEF Due
    <3> HIDE DEF addr
    <3> QED
      BY <1>0, <2>2, <3>1 DEF VpdAnswers
  <2>4. CASE Due(bytes) /\ ~works
    <3>1. vpd' = [vpd EXCEPT !.addr = addr, !.flag = f, !.asked = asked]
      BY <1>0, <2>1, <2>4 DEF Due
    <3> HIDE DEF addr
    <3> QED
      BY <1>0, <2>2, <3>1 DEF VpdAnswers
  <2>5. CASE Due(bytes) /\ works /\ f
    <3>1. vpd' = [vpd EXCEPT !.rom = [vpd.rom EXCEPT ![addr] = vpd.data], !.addr = addr,
                             !.flag = FALSE, !.asked = asked]
      BY <1>0, <2>1, <2>5 DEF Due
    <3> HIDE DEF addr
    <3> QED
      BY <1>0, <2>2, <3>1 DEF VpdAnswers
  <2>6. CASE Due(bytes) /\ works /\ ~f
    <3>1. vpd' = [vpd EXCEPT !.addr = addr, !.data = vpd.rom[addr], !.flag = TRUE,
                             !.asked = asked]
      BY <1>0, <2>1, <2>6 DEF Due
    <3> HIDE DEF addr
    <3> QED
      BY <1>0, <2>2, <2>6, <3>1 DEF VpdAnswers
  <2> QED
    BY <2>3, <2>4, <2>5, <2>6
<1> QED
  BY <1>1, <1>2

\* The read request keeps its floor.
LEMMA ReadrqStep ==
  ASSUME CapsInv, WriteExp
  PROVE  rq' \in [host : 0..7, hw : 0..7, virt : 0..7, mps : 0..7] /\ ReadrqFloor'
<1>0. rq \in [host : 0..7, hw : 0..7, virt : 0..7, mps : 0..7] /\ ReadrqFloor
  BY DEF CapsInv, CapsTypeOK
<1>1. PICK n \in 0..7 :
        rq' = [rq EXCEPT !.virt = n,
                         !.hw = IF n # rq.virt /\ Larger(n, rq.mps) <= MaxReadrq
                                  THEN Larger(n, rq.mps) ELSE rq.hw]
  <2>1. PICK bytes \in Accesses : \E n \in IF 1 \in bytes THEN Readrqs ELSE {rq.virt} :
          rq' = [rq EXCEPT !.virt = n,
                           !.hw = IF n # rq.virt /\ Larger(n, rq.mps) <= MaxReadrq
                                    THEN Larger(n, rq.mps) ELSE rq.hw]
    BY DEF WriteExp
  <2> QED
    BY <1>0, <2>1, ReadrqAssumption
<1>2. Larger(n, rq.mps) \in 0..7 /\ Larger(n, rq.mps) >= rq.mps
  BY <1>0 DEF Larger
<1> QED
  BY <1>0, <1>1, <1>2 DEF ReadrqFloor

\* The fields, by operation: the FLR bit is gone again in any case.
LEMMA FieldsStep ==
  ASSUME CapsInv, Raise \/ WriteDefault \/ WritePm \/ WriteExp \/ WriteAf
  PROVE  /\ capability' = capability /\ hard' \subseteq Fields /\ soft' \subseteq Fields
         /\ Named("flr") \cap soft' = {}
<1>0. hard \subseteq Fields /\ soft \subseteq Fields /\ Named("flr") \cap soft = {}
  BY DEF CapsInv, CapsTypeOK
<1>1. \A h, s : Flr(h, s) => /\ hard' \subseteq h /\ soft' \subseteq s
                             /\ Named("flr") \cap soft' = {}
  BY DEF Flr
<1>2. CASE Raise
  BY <1>0, <1>2 DEF Raise
<1>3. CASE WriteDefault
  BY <1>0, <1>3, WritesFields, NoFlr DEF WriteDefault
<1>4. CASE WritePm
  <2> DEFINE Writes(bytes, works, val) ==
               /\ hard' = IF 0 \in bytes /\ works
                            THEN (NewHard(bytes, val) \ Named("state"))
                                   \cup (val \cap Named("state"))
                            ELSE NewHard(bytes, val)
               /\ soft' = NewSoft(bytes, val)
  <2>0. PICK bytes \in Accesses, works \in BOOLEAN :
          \E val \in Values(bytes) : Writes(bytes, works, val)
    BY <1>4 DEF WritePm
  <2>1. PICK val \in Values(bytes) : Writes(bytes, works, val)
    BY <2>0
  <2>2. val \subseteq Fields
    BY DEF Values
  <2>3. capability = "pm" /\ capability' = capability
    BY <1>4 DEF WritePm
  <2> QED
    BY <1>0, <2>1, <2>2, <2>3, WritesFields, NoFlr
<1>5. CASE WriteExp \/ WriteAf
  <2>1. PICK bytes, val : Flr(NewHard(bytes, val), NewSoft(bytes, val))
    BY <1>5 DEF WriteExp, WriteAf
  <2>2. capability' = capability
    BY <1>5 DEF WriteExp, WriteAf
  <2> QED
    BY <1>0, <1>1, <2>1, <2>2, WritesFields
<1> QED
  BY <1>2, <1>3, <1>4, <1>5

\* A write to the MSI flags leaves in vconfig, and for the hardware, what the fixup
\* makes of some flags.
WritesFlags(flags) ==
  irqs' = irqs /\ msi' = [msi EXCEPT !.virt = flags, !.pending = flags]

\* Whatever bytes of the flags are written, the fixup sees flags.
LEMMA FlagsWritten ==
  ASSUME CapsInv, WriteMsi
  PROVE  \E given \in MsiFlags : WritesFlags(MsiFixup(given))
<1>1. PICK bytes \in Accesses, enable \in BOOLEAN, size \in 0..5 :
        LET flags == MsiFixup(IF 2 \in bytes THEN [enable |-> enable, size |-> size]
                              ELSE msi.virt)
        IN  msi' = [msi EXCEPT !.virt = flags, !.pending = flags]
  BY DEF WriteMsi
<1>2. (IF 2 \in bytes THEN [enable |-> enable, size |-> size] ELSE msi.virt) \in MsiFlags
  BY DEF CapsInv, CapsTypeOK, MsiFlags
<1>3. irqs' = irqs
  BY DEF WriteMsi
<1> QED
  BY <1>1, <1>2, <1>3 DEF WritesFlags

\* The MSI flags and vectors, by operation.
LEMMA MsiTypeStep ==
  ASSUME CapsInv, MsiOn \/ MsiOff \/ WriteMsi \/ MsiToHardware
  PROVE  /\ irqs' \in [on : BOOLEAN, vectors : Nat, qmax : 0..5]
         /\ msi' \in [hw : MsiFlags, virt : MsiFlags, pending : MsiFlags \cup {Idle}]
<1>0. /\ irqs \in [on : BOOLEAN, vectors : Nat, qmax : 0..5]
      /\ msi \in [hw : MsiFlags, virt : MsiFlags, pending : MsiFlags \cup {Idle}]
  BY DEF CapsInv, CapsTypeOK
<1>1. CASE MsiOn
  <2>1. PICK n \in Vectors :
          /\ irqs' = [on |-> TRUE, vectors |-> n, qmax |-> Qmax(n)]
          /\ msi' = [msi EXCEPT !.hw = [enable |-> TRUE, size |-> Qmax(n)]]
    BY <1>1 DEF MsiOn
  <2>2. n \in 1..32 /\ Qmax(n) \in 0..5
    BY VectorAssumption, QmaxFits
  <2> QED
    <3>1. irqs' \in [on : BOOLEAN, vectors : Nat, qmax : 0..5]
      BY <2>1, <2>2
    <3>2. [enable |-> TRUE, size |-> Qmax(n)] \in MsiFlags
      BY <2>2 DEF MsiFlags
    <3> QED
      BY <1>0, <2>1, <3>1, <3>2
<1>2. CASE MsiOff
  BY <1>0, <1>2 DEF MsiOff, MsiFlags
<1>3. CASE WriteMsi
  <2>1. PICK given \in MsiFlags : WritesFlags(MsiFixup(given))
    BY <1>3, FlagsWritten
  <2>2. MsiFixup(given) \in MsiFlags
    BY <1>0 DEF MsiFixup, MsiFlags
  <2> QED
    BY <1>0, <2>1, <2>2 DEF WritesFlags
<1>4. CASE MsiToHardware
  BY <1>0, <1>4 DEF MsiToHardware
<1> QED
  BY <1>1, <1>2, <1>3, <1>4

\* Every operation keeps what does not depend on SET_IRQS.
LEMMA CapsStep == CapsInv /\ [CapsNext]_capsVars => CapsInv'
<1> SUFFICES ASSUME CapsInv, [CapsNext]_capsVars PROVE CapsInv'
  OBVIOUS
<1>1. CASE Raise \/ WriteDefault \/ WritePm \/ WriteAf
  <2>1. UNCHANGED <<rq, vpd, irqs, msi>>
    BY <1>1 DEF Raise, WriteDefault, WritePm, WriteAf
  <2>2. Fields' = Fields /\ Named("flr")' = Named("flr")
    BY <1>1, FieldsStep DEF Fields, Named
  <2> QED
    BY <1>1, <2>1, <2>2, FieldsStep DEF CapsInv, CapsTypeOK, VpdAnswers, ReadrqFloor
<1>2. CASE WriteExp
  <2>1. UNCHANGED <<vpd, irqs, msi>>
    BY <1>2 DEF WriteExp
  <2>2. Fields' = Fields /\ Named("flr")' = Named("flr")
    BY <1>2, FieldsStep DEF Fields, Named
  <2> QED
    BY <1>2, <2>1, <2>2, FieldsStep, ReadrqStep DEF CapsInv, CapsTypeOK, VpdAnswers
<1>3. CASE WriteVpdAddr \/ WriteVpdData
  <2>1. UNCHANGED <<capability, hard, soft, rq, irqs, msi>>
    BY <1>3 DEF WriteVpdAddr, WriteVpdData
  <2> QED
    BY <1>3, <2>1, VpdStep DEF CapsInv, CapsTypeOK, ReadrqFloor, Fields, Named
<1>4. CASE MsiOn \/ MsiOff \/ WriteMsi \/ MsiToHardware
  <2>1. UNCHANGED <<capability, hard, soft, rq, vpd>>
    BY <1>4 DEF MsiOn, MsiOff, WriteMsi, MsiToHardware
  <2> QED
    BY <1>4, <2>1, MsiTypeStep
       DEF CapsInv, CapsTypeOK, VpdAnswers, ReadrqFloor, Fields, Named
<1>5. CASE UNCHANGED capsVars
  BY <1>5 DEF capsVars, CapsInv, CapsTypeOK, VpdAnswers, ReadrqFloor, Fields, Named
<1> QED
  BY <1>1, <1>2, <1>3, <1>4, <1>5 DEF CapsNext

\* The queue sizes stay within the vectors, if no write to the flags overlaps
\* SET_IRQS.
LEMMA QueueStep ==
  ASSUME ~Overlap
  PROVE  CapsInv /\ QueueBounded /\ [CapsNext]_capsVars => QueueBounded'
<1> SUFFICES ASSUME CapsInv, QueueBounded, [CapsNext]_capsVars PROVE QueueBounded'
  OBVIOUS
<1>0. /\ irqs \in [on : BOOLEAN, vectors : Nat, qmax : 0..5]
      /\ msi \in [hw : MsiFlags, virt : MsiFlags, pending : MsiFlags \cup {Idle}]
  BY DEF CapsInv, CapsTypeOK
<1>1. CASE MsiOn
  <2>1. PICK n \in Vectors :
          /\ irqs' = [on |-> TRUE, vectors |-> n, qmax |-> Qmax(n)]
          /\ msi' = [msi EXCEPT !.hw = [enable |-> TRUE, size |-> Qmax(n)]]
    BY <1>1 DEF MsiOn
  <2>2. msi.pending = Idle /\ Qmax(n) \in 0..5
    BY <1>1, VectorAssumption, QmaxFits DEF MsiOn
  <2> QED
    BY <1>0, <2>1, <2>2 DEF QueueBounded
<1>2. CASE MsiOff
  BY <1>0, <1>2 DEF MsiOff, QueueBounded, MsiFlags
<1>3. CASE WriteMsi
  <2>1. PICK given \in MsiFlags : WritesFlags(MsiFixup(given))
    BY <1>3, FlagsWritten
  <2>2. MsiFixup(given).size <= irqs.qmax /\ (MsiFixup(given).enable => irqs.on)
    BY <1>0 DEF MsiFixup, MsiFlags
  <2> QED
    BY <1>0, <2>1, <2>2 DEF QueueBounded, WritesFlags
<1>4. CASE MsiToHardware
  BY <1>0, <1>4 DEF MsiToHardware, QueueBounded
<1>5. CASE UNCHANGED <<irqs, msi>>
  BY <1>5 DEF QueueBounded
<1> QED
  BY <1>1, <1>2, <1>3, <1>4, <1>5
  DEF CapsNext, capsVars, Raise, WriteDefault, WritePm, WriteExp, WriteAf, WriteVpdAddr,
      WriteVpdData

\* CapsInv holds whether or not a write to the flags overlaps SET_IRQS.
LEMMA CapsAlways == CapsSpec => []CapsInv
<1>1. CapsInit => CapsInv
  BY CapsInitial
<1>2. CapsInv /\ [CapsNext]_capsVars => CapsInv'
  BY CapsStep
<1> QED
  BY <1>1, <1>2, PTL DEF CapsSpec

\* The type of VfioCaps' state: the registers are of the capability's fields, the
\* queue sizes of six, the read requests of eight.
THEOREM CapsTypes == CapsSpec => []CapsTypeOK
<1>1. CapsInv => CapsTypeOK
  BY DEF CapsInv
<1> QED
  BY <1>1, CapsAlways, PTL

\* If no write to the MSI flags overlaps SET_IRQS, MSI is on only with vectors for
\* it and never sends more than those; VPD answers the request that set F, and the
\* read request is the host's or at least the MPS, whatever the accesses.
THEOREM CapsAreTrue ==
  ASSUME ~Overlap
  PROVE  CapsSpec => []CapsTrue
<1>1. CapsInit => QueueBounded
  BY CapsInitial
<1>2. CapsInv /\ QueueBounded /\ [CapsNext]_capsVars => QueueBounded'
  BY QueueStep
<1>3. CapsInv /\ QueueBounded => CapsTrue
  <2> SUFFICES ASSUME CapsInv, QueueBounded PROVE MsiBounded
    BY DEF CapsInv, CapsTrue
  <2> SUFFICES ASSUME msi.hw.enable PROVE irqs.on /\ 2 ^ msi.hw.size < 2 * irqs.vectors
    BY DEF MsiBounded
  <2> DEFINE s == msi.hw.size
             q == Qmax(irqs.vectors)
  <2>1. irqs.on /\ irqs.vectors \in 1..32 /\ s <= q /\ s \in 0..5
    BY VectorAssumption DEF QueueBounded, CapsInv, CapsTypeOK, MsiFlags
  <2>2. q \in 0..5 /\ 2 ^ q < 2 * irqs.vectors
    BY <2>1, QmaxFits
  <2> HIDE DEF s, q
  <2>3. 2 ^ s \in Nat /\ 2 ^ q \in Nat /\ 2 ^ s <= 2 ^ q
    BY <2>1, <2>2, PowersGrow
  <2>4. 2 ^ s < 2 * irqs.vectors
    BY <2>1, <2>2, <2>3
  <2> QED
    BY <2>1, <2>4 DEF s
<1> QED
  BY <1>1, <1>2, <1>3, CapsAlways, PTL DEF CapsSpec

\* Of the tables: a status is not virtual, a bit the hardware holds fixed can be
\* written only if it is virtual.
LEMMA FieldKinds ==
  ASSUME NEW f \in Fields
  PROVE  /\ f.kind \in {"rw", "ro", "w1c"}
         /\ f.kind = "w1c" => ~f.virt
         /\ f.kind = "ro" /\ f.write => f.virt
BY DEF Fields, Basic, Pm, Exp, Af, Err, Field

\* Whatever bytes are written with whatever value, each bit in vconfig and in the
\* hardware becomes what the tables say of it, and the FLR bit reads as zero.
THEOREM BitsAreExact == CapsSpec => []BitsExact
<1>1. CapsInv => BitsExact
  <2> SUFFICES ASSUME CapsInv, NEW bytes \in Accesses, NEW val \in Values(bytes),
                      NEW f \in Fields
               PROVE
        LET control == \E g \in Fields : g.byte \in bytes /\ g.write /\ ~g.virt
        IN  /\ f \in NewSoft(bytes, val) <=>
                 IF f.byte \in bytes /\ f.virt /\ f.write THEN f \in val ELSE f \in soft
            /\ f \in NewHard(bytes, val) <=>
                 IF f.byte \notin bytes \/ f.virt THEN f \in hard
                 ELSE IF f.kind = "w1c" THEN
                   f \in hard /\ ~(IF f.write THEN f \in val ELSE control)
                 ELSE IF f.write THEN f \in val ELSE f \in hard
    BY DEF BitsExact, CapsInv
  <2> DEFINE word == {g \in Fields : g.byte \in bytes}
             mine == {g \in word : g.write /\ ~g.virt}
             new  == ((hard \cap word) \ mine) \cup (val \cap mine)
  <2>1. f \in NewSoft(bytes, val) <=>
          IF f.byte \in bytes /\ f.virt /\ f.write THEN f \in val ELSE f \in soft
    BY DEF NewSoft
  <2>2. (\E g \in Fields : g.byte \in bytes /\ g.write /\ ~g.virt) <=> mine # {}
    OBVIOUS
  <2>3. f \in NewHard(bytes, val) <=>
          IF f.kind = "ro" \/ f \notin word \/ mine = {} THEN f \in hard
          ELSE IF f.kind = "rw" THEN f \in new
          ELSE f \in hard /\ f \notin new
    BY DEF NewHard
  <2>4. f \in word <=> f.byte \in bytes
    OBVIOUS
  <2>5. f \in mine <=> f.byte \in bytes /\ f.write /\ ~f.virt
    OBVIOUS
  <2>6. f \in word => (f \in new <=> IF f \in mine THEN f \in val ELSE f \in hard)
    OBVIOUS
  <2>7. /\ f.kind \in {"rw", "ro", "w1c"}
        /\ f.kind = "w1c" => ~f.virt
        /\ f.kind = "ro" /\ f.write => f.virt
    BY FieldKinds
  <2> HIDE DEF word, mine, new
  <2>8. f \in NewHard(bytes, val) <=>
          IF f.byte \notin bytes \/ f.virt THEN f \in hard
          ELSE IF f.kind = "w1c" THEN
            f \in hard /\ ~(IF f.write THEN f \in val ELSE mine # {})
          ELSE IF f.write THEN f \in val ELSE f \in hard
    BY <2>3, <2>4, <2>5, <2>6, <2>7
  <2> QED
    BY <2>1, <2>2, <2>8
<1> QED
  BY <1>1, CapsAlways, PTL

-----------------------------------------------------------------------------
(* VfioBars: one transfer.                                                 *)

\* A turn with n bytes to go at off: it does at least one and at most those, aligned
\* if it reaches the device, and all of them on one side of the excluded range.
Turns == [off : Nat, real : BOOLEAN, size : Nat]
Aside(t, xStart, xEnd) ==
  /\ t.real => t.off % t.size = 0
  /\ \A q \in t.off..t.off + t.size - 1 : t.real <=> q < xStart \/ q >= xEnd
TurnFits(t, off, n, xStart, xEnd) ==
  t \in Turns /\ t.off = off /\ t.size \in 1..n /\ Aside(t, xStart, xEnd)

\* Every turn of do_io_rw is like that.
LEMMA TurnFacts ==
  ASSUME NEW off \in Nat, NEW n \in Nat \ {0}, NEW xStart \in Nat, NEW xEnd \in Nat
  PROVE  TurnFits(IoTurn(off, n, xStart, xEnd), off, n, xStart, xEnd)
<1> DEFINE t == IoTurn(off, n, xStart, xEnd)
<1> DEFINE fillable == IF off < xStart THEN Least(n, xStart - off)
                       ELSE IF off >= xEnd THEN n ELSE 0
           size == CASE fillable >= 4 /\ off % 4 = 0 -> 4
                     [] fillable >= 2 /\ off % 2 = 0 /\ ~(fillable >= 4 /\ off % 4 = 0) -> 2
                     [] fillable >= 1 /\ ~(fillable >= 2 /\ off % 2 = 0) -> 1
                     [] fillable = 0 -> Least(n, xEnd - off)
<1>1. t = [off |-> off, real |-> fillable > 0, size |-> size]
  BY DEF IoTurn
<1>2. fillable \in 0..n /\ (fillable = 0 => xStart <= off /\ off < xEnd)
  BY DEF Least
<1>3. fillable > 0 => off + fillable <= xStart \/ off >= xEnd
  BY DEF Least
<1>4. off % 4 = 0 => off % 2 = 0
  OBVIOUS
<1>5. off % 1 = 0
  OBVIOUS
<1> HIDE DEF fillable, size, t
<1>8. /\ t.off = off /\ t.size = size /\ (t.real <=> fillable > 0)
      /\ size \in Nat => t \in [off : Nat, real : BOOLEAN, size : Nat]
  <2> DEFINE real == fillable > 0
  <2>1. real \in BOOLEAN
    OBVIOUS
  <2>2. t = [off |-> off, real |-> real, size |-> size]
    BY <1>1
  <2>3. t.real = real
    BY <2>2
  <2> HIDE DEF real
  <2>4. /\ t.off = off /\ t.size = size
        /\ size \in Nat => t \in [off : Nat, real : BOOLEAN, size : Nat]
    BY <2>1, <2>2
  <2> QED
    BY <2>3, <2>4 DEF real
<1> DEFINE Fits == /\ t.off = off /\ t.size \in 1..n
                   /\ t.real => off % t.size = 0
                   /\ \A q \in off..off + t.size - 1 : t.real <=> q < xStart \/ q >= xEnd
<1>6. ASSUME fillable = 0 PROVE Fits
  <2>1. Least(n, xEnd - off) \in 1..n /\ off + Least(n, xEnd - off) <= xEnd
    BY <1>2, <1>6 DEF Least
  <2>2. size = Least(n, xEnd - off)
    BY <1>6 DEF size
  <2> QED
    BY <1>8, <1>2, <1>6, <2>1, <2>2
<1>7. ASSUME fillable > 0 PROVE Fits
  <2>1. CASE fillable >= 4 /\ off % 4 = 0
    <3>1. size = 4
      BY <1>2, <1>4, <2>1 DEF size
    <3> QED
      BY <1>8, <1>2, <1>3, <1>7, <2>1, <3>1
  <2>2. CASE fillable >= 2 /\ off % 2 = 0 /\ ~(fillable >= 4 /\ off % 4 = 0)
    <3>1. size = 2
      BY <1>2, <1>4, <2>2 DEF size
    <3> QED
      BY <1>8, <1>2, <1>3, <1>7, <2>2, <3>1
  <2>3. CASE fillable >= 1 /\ ~(fillable >= 2 /\ off % 2 = 0)
    <3>1. size = 1
      BY <1>2, <1>4, <2>3 DEF size
    <3> QED
      BY <1>8, <1>2, <1>3, <1>5, <1>7, <3>1
  <2> QED
    BY <1>2, <1>7, <2>1, <2>2, <2>3
<1>9. Fits
  BY <1>2, <1>6, <1>7
<1>10. t \in [off : Nat, real : BOOLEAN, size : Nat]
  BY <1>8, <1>9
<1> HIDE DEF t
<1>11. TurnFits(t, off, n, xStart, xEnd)
  BY <1>9, <1>10 DEF TurnFits, Aside, Turns
<1> QED
  BY <1>11 DEF t

\* What the loop of do_io_rw does with its last c bytes, for each c.
IsDone(f, off, n, xStart, xEnd) ==
  f = [c \in 0..n |->
         IF c = 0 THEN <<>>
         ELSE LET turn == IoTurn(off + n - c, c, xStart, xEnd)
              IN  <<turn>> \o f[c - turn.size]]
Done(off, n, xStart, xEnd) == CHOOSE f : IsDone(f, off, n, xStart, xEnd)

\* The function do_io_rw is written with exists.
LEMMA DoIoWorks ==
  ASSUME NEW off \in Nat, NEW n \in Nat, NEW xStart \in Nat, NEW xEnd \in Nat
  PROVE  /\ IsDone(Done(off, n, xStart, xEnd), off, n, xStart, xEnd)
         /\ DoIo(off, n, xStart, xEnd) = Done(off, n, xStart, xEnd)[n]
<1> DEFINE turn(c) == IoTurn(off + n - c, c, xStart, xEnd)
           Body(f, c) == IF c = 0 THEN <<>> ELSE <<turn(c)>> \o f[c - turn(c).size]
           Good(f, m) == f = [c \in 0..m |-> Body(f, c)]
           T == {m \in Nat : m <= n => \E f : Good(f, m)}
<1>1. \A c \in 1..n : turn(c).size \in 1..c
  <2> SUFFICES ASSUME NEW c \in 1..n PROVE turn(c).size \in 1..c
    OBVIOUS
  <2>1. c \in Nat \ {0} /\ off + n - c \in Nat
    OBVIOUS
  <2> QED
    BY <2>1, TurnFacts DEF TurnFits
<1> HIDE DEF turn
<1>2. 0 \in T
  <2>1. Good([c \in 0..0 |-> <<>>], 0)
    OBVIOUS
  <2> QED
    BY <2>1
<1>3. ASSUME NEW m \in T PROVE m + 1 \in T
  <2> SUFFICES ASSUME m + 1 <= n PROVE \E f : Good(f, m + 1)
    OBVIOUS
  <2>1. m \in Nat /\ m <= n /\ m + 1 \in 1..n
    OBVIOUS
  <2>2. PICK f : Good(f, m)
    BY <2>1
  <2> DEFINE g == [c \in 0..(m + 1) |-> Body(f, c)]
  <2>3. ASSUME NEW c \in 0..(m + 1) PROVE g[c] = Body(g, c)
    <3>1. CASE c = 0
      BY <3>1
    <3>2. CASE c # 0
      <4> DEFINE d == c - turn(c).size
      <4>1. d \in 0..m /\ d \in 0..(m + 1)
        <5>1. c \in 1..n /\ c <= m + 1
          BY <2>1, <3>2
        <5>2. turn(c).size \in 1..c
          BY <1>1, <5>1
        <5> QED
          BY <2>1, <5>1, <5>2
      <4> HIDE DEF d
      <4>2. g[d] = Body(f, d) /\ f[d] = Body(f, d)
        BY <2>2, <4>1
      <4> QED
        BY <3>2, <4>2 DEF d
    <3> QED
      BY <3>1, <3>2
  <2>4. Good(g, m + 1)
    <3>1. g = [c \in 0..(m + 1) |-> g[c]]
      OBVIOUS
    <3> QED
      BY <2>3, <3>1
  <2> QED
    BY <2>4
<1>4. T = Nat
  <2>1. T \subseteq Nat
    OBVIOUS
  <2> HIDE DEF T
  <2> QED
    BY <1>2, <1>3, <2>1, NatSetInduction
<1>5. \E f : Good(f, n)
  <2> HIDE DEF T
  <2>1. n \in T
    BY <1>4
  <2> QED
    BY <2>1 DEF T
<1>6. DoIo(off, n, xStart, xEnd) = (CHOOSE f : Good(f, n))[n]
  BY DEF DoIo, turn
<1>7. Done(off, n, xStart, xEnd) = CHOOSE f : Good(f, n)
  BY DEF Done, IsDone, turn
<1>8. \A f : Good(f, n) <=> IsDone(f, off, n, xStart, xEnd)
  BY DEF IsDone, turn
<1> HIDE DEF Good
<1> QED
  BY <1>5, <1>6, <1>7, <1>8

\* The turns io move the bytes from a up to b, each once and in order.
Covers(io, a, b, xStart, xEnd) ==
  /\ io \in Seq(Turns)
  /\ IF Len(io) = 0 THEN b = a ELSE b = io[Len(io)].off + io[Len(io)].size
  /\ \A i \in 1..Len(io) :
       /\ io[i].off = IF i = 1 THEN a ELSE io[i - 1].off + io[i - 1].size
       /\ Aside(io[i], xStart, xEnd)

\* A turn before them moves its own besides.
LEMMA CoversMore ==
  ASSUME NEW a \in Nat, NEW b \in Nat, NEW xStart \in Nat, NEW xEnd \in Nat,
         NEW t \in Turns, NEW io, Covers(io, t.off + t.size, b, xStart, xEnd),
         t.off = a, Aside(t, xStart, xEnd)
  PROVE  Covers(<<t>> \o io, a, b, xStart, xEnd)
<1> DEFINE s == <<t>> \o io
           m == Len(io)
<1>1. io \in Seq(Turns) /\ m \in Nat
  BY DEF Covers
<1>2. s \in Seq(Turns) /\ Len(s) = m + 1
  BY <1>1
<1>3. s[1] = t /\ \A i \in 2..m + 1 : s[i] = io[i - 1]
  BY <1>1
<1> HIDE DEF s
<1>4. IF Len(s) = 0 THEN b = a ELSE b = s[Len(s)].off + s[Len(s)].size
  <2>1. CASE m = 0
    BY <1>1, <1>2, <1>3, <2>1 DEF Covers
  <2>2. CASE m # 0
    <3>1. s[m + 1] = io[m]
      BY <1>1, <1>3, <2>2
    <3> QED
      BY <1>1, <1>2, <2>2, <3>1 DEF Covers
  <2> QED
    BY <2>1, <2>2
<1>5. ASSUME NEW i \in 1..Len(s)
      PROVE  /\ s[i].off = IF i = 1 THEN a ELSE s[i - 1].off + s[i - 1].size
             /\ Aside(s[i], xStart, xEnd)
  <2>1. CASE i = 1
    BY <1>3, <2>1
  <2>2. CASE i # 1
    <3> DEFINE j == i - 1
    <3>1. j \in 1..m /\ i \in 2..m + 1 /\ i = j + 1
      BY <1>1, <1>2, <2>2
    <3>2. s[i] = io[j]
      BY <1>3, <3>1
    <3>3. s[j] = IF j = 1 THEN t ELSE io[j - 1]
      <4>1. j # 1 => j \in 2..m + 1
        BY <1>1, <3>1
      <4> HIDE DEF j
      <4> QED
        BY <1>3, <4>1
    <3>4. s[i].off = s[i - 1].off + s[i - 1].size
      <4>1. io[j].off = IF j = 1 THEN t.off + t.size ELSE io[j - 1].off + io[j - 1].size
        BY <3>1 DEF Covers
      <4> QED
        BY <3>2, <3>3, <4>1
    <3> HIDE DEF j
    <3> QED
      BY <2>2, <3>1, <3>2, <3>4 DEF Covers
  <2> QED
    BY <2>1, <2>2
<1> QED
  BY <1>2, <1>4, <1>5 DEF Covers, s

\* do_io_rw moves every byte it is asked for.
LEMMA DoIoCovers ==
  ASSUME NEW off \in Nat, NEW n \in Nat, NEW xStart \in Nat, NEW xEnd \in Nat
  PROVE  Covers(DoIo(off, n, xStart, xEnd), off, off + n, xStart, xEnd)
<1> DEFINE f == Done(off, n, xStart, xEnd)
<1>1. IsDone(f, off, n, xStart, xEnd) /\ DoIo(off, n, xStart, xEnd) = f[n]
  BY DoIoWorks
<1> HIDE DEF f
<1> DEFINE turn(c) == IoTurn(off + n - c, c, xStart, xEnd)
           T == {c \in Nat : \A d \in 0..c :
                   d <= n => Covers(f[d], off + n - d, off + n, xStart, xEnd)}
<1>2. f[0] = <<>> /\ \A c \in 1..n : f[c] = <<turn(c)>> \o f[c - turn(c).size]
  <2>1. 0 \in 0..n /\ \A c \in 1..n : c \in 0..n /\ c # 0
    OBVIOUS
  <2> QED
    BY <1>1, <2>1 DEF IsDone
<1>3. ASSUME NEW c \in 1..n PROVE TurnFits(turn(c), off + n - c, c, xStart, xEnd)
  <2>1. c \in Nat \ {0} /\ off + n - c \in Nat
    OBVIOUS
  <2> QED
    BY <2>1, TurnFacts
<1> HIDE DEF turn
<1>4. 0 \in T
  <2>1. f[0] = <<>>
    BY <1>2
  <2>2. Covers(<<>>, off + n - 0, off + n, xStart, xEnd)
    BY DEF Covers
  <2>3. \A d \in 0..0 : d = 0
    OBVIOUS
  <2> QED
    BY <2>1, <2>2, <2>3
<1>5. ASSUME NEW c \in T PROVE c + 1 \in T
  <2> DEFINE e == c + 1
             t == turn(e)
             d == e - t.size
  <2>1. c \in Nat /\ (e <= n => e \in 1..n)
    OBVIOUS
  <2> SUFFICES ASSUME e <= n PROVE Covers(f[e], off + n - e, off + n, xStart, xEnd)
    <3>1. \A k \in 0..e : k \in 0..c \/ k = e
      BY <2>1
    <3> QED
      BY <3>1
  <2> HIDE DEF e
  <2>2. TurnFits(t, off + n - e, e, xStart, xEnd)
    BY <1>3, <2>1
  <2>3. f[e] = <<t>> \o f[d]
    BY <1>2, <2>1
  <2> HIDE DEF t
  <2>4. d \in 0..c /\ d <= n /\ off + n - d = t.off + t.size
    BY <2>1, <2>2 DEF e, TurnFits, Turns
  <2> HIDE DEF d
  <2>5. Covers(f[d], t.off + t.size, off + n, xStart, xEnd)
    BY <2>4
  <2>6. off + n - e \in Nat /\ off + n \in Nat
    BY <2>1
  <2> QED
    BY <2>2, <2>3, <2>5, <2>6, CoversMore DEF TurnFits
<1>6. T = Nat
  <2>1. T \subseteq Nat
    OBVIOUS
  <2> HIDE DEF T
  <2> QED
    BY <1>4, <1>5, <2>1, NatSetInduction
<1>7. n \in 0..n /\ n <= n /\ off + n - n = off
  OBVIOUS
<1>8. Covers(f[n], off + n - n, off + n, xStart, xEnd)
  <2>1. n \in T
    BY <1>6
  <2> QED
    BY <1>7, <2>1
<1> QED
  BY <1>1, <1>7, <1>8

\* Turns that cover the bytes between two positions are what TransfersExact asks of
\* a transfer.
LEMMA CoversMoves ==
  ASSUME NEW io, NEW start \in Nat, NEW n \in Nat, NEW end \in Nat, NEW x,
         Covers(io, start, IF start < end THEN Least(start + n, end) ELSE start, x[1], x[2])
  PROVE  Moves(io, start, n, end, x)
<1> DEFINE b == IF start < end THEN Least(start + n, end) ELSE start
           after(i) == IF i = 0 THEN start ELSE io[i].off + io[i].size
<1>1. Len(io) \in Nat
  BY DEF Covers
<1>2. after(Len(io)) = b
  BY DEF Covers
<1>3. ASSUME NEW i \in 1..Len(io)
      PROVE  /\ io[i].off = after(i - 1)
             /\ Aside(io[i], x[1], x[2])
             /\ after(i) = io[i].off + io[i].size
  <2>1. i # 0 /\ (i - 1 = 0 <=> i = 1)
    BY <1>1
  <2> QED
    BY <2>1 DEF Covers
<1>4. ASSUME NEW i \in 1..Len(io)
      PROVE  /\ io[i].real => io[i].off % io[i].size = 0
             /\ \A q \in io[i].off..after(i) - 1 : io[i].real <=> q < x[1] \/ q >= x[2]
  <2>1. i # 0 /\ io[i].off \in Nat /\ io[i].size \in Nat
    <3>1. io \in Seq(Turns)
      BY DEF Covers
    <3>2. i # 0 /\ io[i] \in Turns
      BY <1>1, <3>1
    <3> HIDE DEF after
    <3> QED
      BY <3>2 DEF Turns
  <2>2. /\ io[i].real => io[i].off % io[i].size = 0
        /\ \A q \in io[i].off..io[i].off + io[i].size - 1 :
             io[i].real <=> q < x[1] \/ q >= x[2]
    BY <1>3, Zenon DEF Aside
  <2>3. after(i) - 1 = io[i].off + (io[i].size - 1)
    BY <2>1
  <2> QED
    BY <2>2, <2>3, Zenon
<1> HIDE DEF after, b
<1> QED
  BY <1>2, <1>3, <1>4 DEF Moves, after, b

\* vfio_pci_bar_rw, for any BAR and any range it is asked for.
LEMMA BarRwMoves ==
  ASSUME NEW bar \in BarIds \cup {"rom"}, NEW start \in Nat, NEW n \in Nat
  PROVE  Moves(BarRw(bar, start, n), start, n, End(bar), Excluded(bar))
<1> DEFINE end == End(bar)
           x == Excluded(bar)
           m == Least(n, end - start)
<1>1. end \in Nat /\ x[1] \in Nat /\ x[2] \in Nat
  BY LengthAssumption, TableAssumption DEF End, Excluded
<1>2. BarRw(bar, start, n) = IF start >= end THEN <<>> ELSE DoIo(start, m, x[1], x[2])
  BY DEF BarRw
<1> HIDE DEF end, x
<1>3. CASE start >= end
  <2>1. Covers(<<>>, start, start, x[1], x[2])
    BY DEF Covers
  <2>2. ~(start < end)
    BY <1>1, <1>3
  <2>3. Moves(<<>>, start, n, end, x)
    BY <1>1, <2>1, <2>2, CoversMoves
  <2> QED
    BY <1>2, <1>3, <2>3 DEF end, x
<1>4. CASE ~(start >= end)
  <2>1. start < end /\ m \in Nat /\ start + m = Least(start + n, end)
    BY <1>1, <1>4 DEF Least
  <2> DEFINE io == DoIo(start, m, x[1], x[2])
  <2>2. Covers(io, start, start + m, x[1], x[2])
    BY <1>1, <2>1, DoIoCovers
  <2> HIDE DEF io, m
  <2>3. Moves(io, start, n, end, x)
    BY <1>1, <2>1, <2>2, CoversMoves
  <2> QED
    BY <1>2, <1>4, <2>3 DEF end, x, io
<1> QED
  BY <1>3, <1>4

\* vfio_pci_vga_rw, for any window and any range that begins in it.
LEMMA VgaRwMoves ==
  ASSUME NEW w \in VgaWindows, NEW start \in w[1]..w[2] - 1, NEW n \in Nat
  PROVE  Moves(VgaRw(start, n), start - w[1], n, w[2] - w[1], <<0, 0>>)
<1>1. /\ w[1] \in Nat /\ w[2] \in Nat /\ start \in Nat
      /\ w[1] <= start /\ start < w[2]
  BY DEF VgaWindows
<1>2. \A v \in VgaWindows : v[1] <= start /\ start < v[2] => v = w
  BY <1>1 DEF VgaWindows
<1>3. (CHOOSE v \in VgaWindows : v[1] <= start /\ start < v[2]) = w
  BY <1>1, <1>2
<1> DEFINE off == start - w[1]
           end == w[2] - w[1]
           m == Least(n, w[2] - start)
           io == DoIo(off, m, 0, 0)
           x == <<0, 0>>
<1>4. VgaRw(start, n) = io
  BY <1>3 DEF VgaRw
<1>5. /\ off \in Nat /\ end \in Nat /\ m \in Nat /\ off < end
      /\ off + m = Least(off + n, end)
  BY <1>1 DEF Least
<1>6. x[1] = 0 /\ x[2] = 0
  OBVIOUS
<1> HIDE DEF off, end, m, x
<1>7. Covers(io, off, off + m, 0, 0)
  BY <1>5, DoIoCovers
<1> HIDE DEF io
<1>8. Moves(io, off, n, end, x)
  BY <1>5, <1>6, <1>7, CoversMoves
<1> QED
  BY <1>4, <1>8 DEF off, end, x

-----------------------------------------------------------------------------
(* VfioBars: calls, regions and eventfds.                                  *)

\* A call is for a BAR there is, an ioeventfd's for the one of its key.
CallsMakeSense ==
  \A t \in Threads :
    /\ at[t] # "idle" => job[t].bar \in BarIds
    /\ at[t] \in {"lock", "find", "add"} => job[t].kind = "ioeventfd"
    /\ job[t].kind = "ioeventfd" => job[t].key \in Keys /\ job[t].bar = job[t].key.bar

\* vfio_pci_disable runs alone.
ClosesAlone == opened # "open" => \A t \in Threads : at[t] = "idle"

\* Behind vfio_pci_setup_barmap the BAR is mapped, and stays so for the entries.
MappedBehind ==
  /\ \A t \in Threads : at[t] \in {"lock", "find", "add"} => job[t].bar \in barmap
  /\ \A k \in list : k.bar \in barmap
  /\ wired \subseteq list

\* The regions, per thread.
Requested ==
  /\ barmap \subseteq regions
  /\ \A b \in regions \ barmap : \E t \in Threads : at[t] = "iomap" /\ job[t].bar = b
  /\ \A t \in Threads : at[t] = "iomap" => job[t].bar \in regions \ barmap
  /\ \A t, u \in Threads :
       at[t] = "iomap" /\ at[u] = "iomap" /\ job[t].bar = job[u].bar => t = u
  /\ opened = "closed" => barmap = {}

\* The lock, the count and the room.
Counted ==
  /\ \A t \in Threads : at[t] \in {"find", "add"} => lock = t
  /\ opened # "closing" \/ list = {} => nr = Cardinality(list)
  /\ opened = "closed" => list = {}
  /\ Cardinality(list) <= MaxEventfds
  /\ \A t \in Threads : at[t] = "add" => job[t].key \notin list /\ nr < MaxEventfds

BarsInv ==
  BarsTypeOK /\ CallsMakeSense /\ ClosesAlone /\ MappedBehind /\ Requested /\ Counted

\* A list of ioeventfds is finite, and adding or removing one counts.
LEMMA ListSize ==
  ASSUME NEW L, L \subseteq Keys
  PROVE  /\ IsFiniteSet(L) /\ Cardinality(L) \in Nat
         /\ \A k \in Keys \ L : Cardinality(L \cup {k}) = Cardinality(L) + 1
         /\ \A k \in L : Cardinality(L \ {k}) = Cardinality(L) - 1
         /\ Cardinality({}) = 0
<1>1. IsFiniteSet(L)
  BY FS_Subset, KeyAssumption
<1> QED
  BY <1>1, FS_CardinalityType, FS_AddElement, FS_RemoveElement, FS_EmptySet

\* A freshly opened device.
LEMMA BarsInitial == BarsInit => BarsInv
<1> SUFFICES ASSUME BarsInit PROVE BarsInv
  OBVIOUS
<1> USE DEF BarsInit
<1>1. BarsTypeOK
  BY DEF BarsTypeOK, NoJob, Labels, Jobs
<1>2. CallsMakeSense
  BY DEF CallsMakeSense, NoJob
<1>3. Counted
  BY FS_EmptySet, KeyAssumption DEF Counted
<1> QED
  BY <1>1, <1>2, <1>3 DEF BarsInv, ClosesAlone, MappedBehind, Requested

\* A call begins, goes on or returns: its thread's place and job change.
LEMMA CallStep ==
  ASSUME BarsTypeOK, CallsMakeSense, NEW t \in Threads, Call(t) \/ Step(t)
  PROVE  /\ at' \in [Threads -> Labels] /\ \A u \in Threads \ {t} : at'[u] = at[u]
         /\ job' \in [Threads -> Jobs] /\ \A u \in Threads \ {t} : job'[u] = job[u]
         /\ \/ job'[t] = NoJob /\ at'[t] = "idle"
            \/ job'[t] = job[t] /\ at'[t] # "idle" /\ at[t] # "idle"
            \/ /\ at[t] = "idle" /\ at'[t] = "check" /\ job'[t].bar \in BarIds
               /\ job'[t].kind = "ioeventfd" =>
                    /\ job'[t].key \in Keys /\ job'[t].bar = job'[t].key.bar
                    /\ Allowed(job'[t].key)
<1> USE DEF BarsTypeOK, Goto, Return
<1>1. NoJob \in Jobs
  BY DEF NoJob, Jobs
<1>2. CASE Call(t)
  <2>1. at' = [at EXCEPT ![t] = "check"] /\ at[t] = "idle"
    BY <1>2 DEF Call
  <2>2. PICK j \in Jobs :
          /\ job' = [job EXCEPT ![t] = j] /\ j.bar \in BarIds
          /\ j.kind = "ioeventfd" =>
               j.key \in Keys /\ j.bar = j.key.bar /\ Allowed(j.key)
    <3>1. CASE \E b \in BarIds, kind \in {"rw", "mmap"} :
                 job' = [job EXCEPT ![t] =
                           [kind |-> kind, bar |-> b, key |-> None, add |-> FALSE]]
      <4>1. PICK b \in BarIds, kind \in {"rw", "mmap"} :
              job' = [job EXCEPT ![t] =
                        [kind |-> kind, bar |-> b, key |-> None, add |-> FALSE]]
        BY <3>1
      <4> DEFINE j == [kind |-> kind, bar |-> b, key |-> None, add |-> FALSE]
      <4>2. j \in Jobs /\ j.bar \in BarIds /\ j.kind # "ioeventfd"
        BY DEF Jobs
      <4> QED
        BY <4>1, <4>2
    <3>2. CASE \E k \in Keys, add \in BOOLEAN :
                 /\ Allowed(k)
                 /\ job' = [job EXCEPT ![t] =
                       [kind |-> "ioeventfd", bar |-> k.bar, key |-> k, add |-> add]]
      <4>1. PICK k \in Keys, add \in BOOLEAN :
              /\ Allowed(k)
              /\ job' = [job EXCEPT ![t] =
                    [kind |-> "ioeventfd", bar |-> k.bar, key |-> k, add |-> add]]
        BY <3>2
      <4> DEFINE j == [kind |-> "ioeventfd", bar |-> k.bar, key |-> k, add |-> add]
      <4>2. /\ j \in Jobs /\ j.bar \in BarIds /\ j.key \in Keys /\ j.bar = j.key.bar
            /\ Allowed(j.key)
        BY <4>1, KeyAssumption DEF Jobs
      <4> QED
        BY <4>1, <4>2
    <3> QED
      BY <1>2, <3>1, <3>2 DEF Call
  <2> QED
    BY <2>1, <2>2 DEF Labels
<1>3. CASE Step(t)
  <2>1. \/ Return(t)
        \/ /\ job' = job /\ at[t] # "idle"
           /\ \E l \in Labels \ {"idle"} : at' = [at EXCEPT ![t] = l]
    BY <1>3
    DEF Step, CheckMapped, RequestRegions, Iomap, Proceed, Lock, Found, NotFound, Add,
        Labels
  <2> QED
    BY <1>1, <2>1 DEF Labels
<1> QED
  BY <1>2, <1>3

\* The types, by action.
LEMMA BarsTypeStep ==
  BarsTypeOK /\ CallsMakeSense /\ [BarsNext]_barsVars => BarsTypeOK'
<1> SUFFICES ASSUME BarsTypeOK, CallsMakeSense, [BarsNext]_barsVars PROVE BarsTypeOK'
  OBVIOUS
<1> USE DEF BarsTypeOK
<1>1. ASSUME NEW t \in Threads, Call(t) \/ Step(t) PROVE BarsTypeOK'
  <2>1. at' \in [Threads -> Labels] /\ job' \in [Threads -> Jobs]
    BY <1>1, CallStep
  <2>2. at[t] # "idle" => job[t].bar \in BarIds
    BY DEF CallsMakeSense
  <2>3. at[t] = "add" => job[t].key \in Keys
    BY DEF CallsMakeSense
  <2>4. CASE Call(t) \/ CheckMapped(t) \/ RequestRegions(t) \/ Iomap(t)
    BY <2>1, <2>2, <2>4 DEF Call, CheckMapped, RequestRegions, Iomap, eventfds
  <2>5. CASE Lock(t) \/ Found(t) \/ NotFound(t) \/ Add(t)
    BY <2>1, <2>3, <2>5 DEF Lock, Found, NotFound, Add
  <2> QED
    BY <1>1, <2>4, <2>5 DEF Step
<1>2. CASE EventfdGone \/ LastRelease \/ DropEventfd \/ UnmapBar \/ Closed \/ Reopen
  BY <1>2 DEF EventfdGone, LastRelease, DropEventfd, UnmapBar, Closed, Reopen, eventfds
<1>3. CASE UNCHANGED barsVars
  BY <1>3 DEF barsVars
<1> QED
  BY <1>1, <1>2, <1>3 DEF BarsNext

\* A call keeps to its BAR until it returns.
LEMMA SenseStep ==
  BarsTypeOK /\ CallsMakeSense /\ [BarsNext]_barsVars => CallsMakeSense'
<1> SUFFICES ASSUME BarsTypeOK, CallsMakeSense, [BarsNext]_barsVars PROVE CallsMakeSense'
  OBVIOUS
<1>1. ASSUME NEW t \in Threads, Call(t) \/ Step(t) PROVE CallsMakeSense'
  <2>1. at'[t] \in {"lock", "find", "add"} => job'[t].kind = "ioeventfd"
    <3>1. CASE Call(t) \/ CheckMapped(t) \/ RequestRegions(t) \/ Iomap(t)
      BY <3>1 DEF Call, CheckMapped, RequestRegions, Iomap, Proceed, Goto, Return, BarsTypeOK
    <3>2. CASE Lock(t) \/ Found(t) \/ NotFound(t) \/ Add(t)
      BY <3>2 DEF Lock, Found, NotFound, Add, Goto, Return, BarsTypeOK, CallsMakeSense
    <3> QED
      BY <1>1, <3>1, <3>2 DEF Step
  <2> QED
    BY <1>1, <2>1, CallStep DEF CallsMakeSense, NoJob
<1>2. CASE EventfdGone \/ LastRelease \/ DropEventfd \/ UnmapBar \/ Closed \/ Reopen
  BY <1>2 DEF EventfdGone, LastRelease, DropEventfd, UnmapBar, Closed, Reopen, eventfds,
     CallsMakeSense
<1>3. CASE UNCHANGED barsVars
  BY <1>3 DEF barsVars, CallsMakeSense
<1> QED
  BY <1>1, <1>2, <1>3 DEF BarsNext

\* The last release waits for the calls, and no call begins before the next open.
LEMMA ClosesStep ==
  BarsTypeOK /\ ClosesAlone /\ [BarsNext]_barsVars => ClosesAlone'
<1> SUFFICES ASSUME BarsTypeOK, ClosesAlone, [BarsNext]_barsVars PROVE ClosesAlone'
  OBVIOUS
<1>1. ASSUME NEW t \in Threads, Call(t) PROVE ClosesAlone'
  BY <1>1 DEF Call, ClosesAlone
<1>2. ASSUME NEW t \in Threads, Step(t) PROVE ClosesAlone'
  <2>1. at[t] # "idle" /\ opened' = opened
    BY <1>2 DEF Step, CheckMapped, RequestRegions, Iomap, Lock, Found, NotFound, Add
  <2> QED
    BY <2>1 DEF ClosesAlone
<1>3. CASE EventfdGone \/ LastRelease \/ DropEventfd \/ UnmapBar \/ Closed \/ Reopen
  BY <1>3 DEF EventfdGone, LastRelease, DropEventfd, UnmapBar, Closed, Reopen, ClosesAlone
<1>4. CASE UNCHANGED barsVars
  BY <1>4 DEF barsVars, ClosesAlone
<1> QED
  BY <1>1, <1>2, <1>3, <1>4 DEF BarsNext

\* Only a device without calls and without ioeventfds unmaps.
LEMMA MappedStep ==
  BarsInv /\ [BarsNext]_barsVars => MappedBehind'
<1> SUFFICES ASSUME BarsInv, [BarsNext]_barsVars PROVE MappedBehind'
  OBVIOUS
<1> USE DEF BarsInv, MappedBehind
<1>1. ASSUME NEW t \in Threads, Call(t) \/ Step(t) PROVE MappedBehind'
  <2>1. /\ at' \in [Threads -> Labels]
        /\ \A u \in Threads \ {t} : at'[u] = at[u] /\ job'[u] = job[u]
    BY <1>1, CallStep
  <2>2. CASE Call(t) \/ CheckMapped(t) \/ RequestRegions(t) \/ Iomap(t)
    <3>1. barmap \subseteq barmap' /\ list' = list /\ wired' = wired
      BY <2>2 DEF Call, CheckMapped, RequestRegions, Iomap, eventfds
    <3>2. at'[t] \in {"lock", "find", "add"} => job'[t].bar \in barmap'
      BY <2>2 DEF Call, CheckMapped, RequestRegions, Iomap, Proceed, Goto, Return, BarsTypeOK
    <3> QED
      BY <2>1, <3>1, <3>2
  <2>3. CASE Lock(t) \/ Found(t) \/ NotFound(t) \/ Add(t)
    <3>1. barmap' = barmap /\ job[t].bar \in barmap
      BY <2>3 DEF Lock, Found, NotFound, Add
    <3>2. at'[t] \in {"lock", "find", "add"} => job'[t] = job[t]
      BY <2>3 DEF Lock, Found, NotFound, Add, Goto, Return, BarsTypeOK
    <3>3. /\ list' \subseteq list \cup {job[t].key}
          /\ at[t] # "add" => list' \subseteq list
          /\ wired' \subseteq list'
      BY <2>3 DEF Lock, Found, NotFound, Add
    <3>4. at[t] = "add" => job[t].key.bar \in barmap
      BY <3>1 DEF CallsMakeSense
    <3> QED
      BY <2>1, <3>1, <3>2, <3>3, <3>4
  <2> QED
    BY <1>1, <2>2, <2>3 DEF Step
<1>2. CASE UnmapBar
  BY <1>2 DEF UnmapBar, ClosesAlone, eventfds
<1>3. CASE EventfdGone \/ LastRelease \/ DropEventfd \/ Closed \/ Reopen
  BY <1>3 DEF EventfdGone, LastRelease, DropEventfd, Closed, Reopen, eventfds
<1>4. CASE UNCHANGED barsVars
  BY <1>4 DEF barsVars
<1> QED
  BY <1>1, <1>2, <1>3, <1>4 DEF BarsNext

\* pci_request_selected_regions lets one thread through, and what it got is either
\* mapped or given back.
LEMMA RequestedStep ==
  BarsInv /\ [BarsNext]_barsVars => Requested'
<1> SUFFICES ASSUME BarsInv, [BarsNext]_barsVars PROVE Requested'
  OBVIOUS
<1> USE DEF BarsInv, Requested
<1>1. ASSUME NEW t \in Threads, Call(t) \/ Step(t) PROVE Requested'
  <2>1. /\ at' \in [Threads -> Labels]
        /\ \A u \in Threads \ {t} : at'[u] = at[u] /\ job'[u] = job[u]
    BY <1>1, CallStep
  <2>2. CASE Call(t) \/ CheckMapped(t) \/ Lock(t) \/ Found(t) \/ NotFound(t) \/ Add(t)
    <3>1. /\ at[t] # "iomap" /\ at'[t] # "iomap"
          /\ UNCHANGED <<opened, barmap, regions>>
      BY <2>2 DEF Call, CheckMapped, Lock, Found, NotFound, Add, Proceed, Goto, Return,
         BarsTypeOK
    <3> QED
      BY <2>1, <3>1
  <2>3. CASE RequestRegions(t)
    <3>1. CASE Return(t) /\ UNCHANGED regions
      <4>1. at[t] # "iomap" /\ at'[t] # "iomap" /\ UNCHANGED <<opened, barmap>>
        BY <2>3, <3>1 DEF RequestRegions, Return, Goto, BarsTypeOK
      <4> QED
        BY <2>1, <3>1, <4>1
    <3>2. CASE /\ job[t].bar \notin regions /\ regions' = regions \cup {job[t].bar}
               /\ Goto(t, "iomap") /\ UNCHANGED job
      <4>1. /\ at[t] = "request" /\ at'[t] = "iomap" /\ job'[t] = job[t]
            /\ job[t].bar \notin regions /\ regions' = regions \cup {job[t].bar}
            /\ UNCHANGED <<opened, barmap>>
        BY <2>3, <3>2 DEF RequestRegions, Goto, BarsTypeOK
      <4> QED
        BY <2>1, <4>1
    <3> QED
      BY <2>3, <3>1, <3>2 DEF RequestRegions
  <2>4. CASE Iomap(t)
    <3>1. at[t] = "iomap" /\ at'[t] # "iomap" /\ opened' = opened
      BY <2>4 DEF Iomap, Proceed, Goto, Return, BarsTypeOK
    <3>2. \/ barmap' = barmap \cup {job[t].bar} /\ regions' = regions
          \/ regions' = regions \ {job[t].bar} /\ barmap' = barmap
      BY <2>4 DEF Iomap
    <3>3. opened' # "closed"
      BY <3>1 DEF ClosesAlone
    <3> QED
      BY <2>1, <3>1, <3>2, <3>3
  <2> QED
    BY <1>1, <2>2, <2>3, <2>4 DEF Step
<1>2. CASE UnmapBar
  <2>1. \A t \in Threads : at'[t] = "idle"
    BY <1>2 DEF UnmapBar, ClosesAlone
  <2> QED
    BY <1>2, <2>1 DEF UnmapBar, ClosesAlone
<1>3. CASE EventfdGone \/ LastRelease \/ DropEventfd \/ Closed \/ Reopen
  BY <1>3 DEF EventfdGone, LastRelease, DropEventfd, Closed, Reopen
<1>4. CASE UNCHANGED barsVars
  BY <1>4 DEF barsVars
<1> QED
  BY <1>1, <1>2, <1>3, <1>4 DEF BarsNext

\* Whoever looks for an entry or adds one has the lock, so the count it read is the
\* count it changes.
LEMMA CountedStep ==
  BarsInv /\ [BarsNext]_barsVars => Counted'
<1> SUFFICES ASSUME BarsInv, [BarsNext]_barsVars PROVE Counted'
  OBVIOUS
<1> USE DEF BarsInv, Counted
<1>0. /\ IsFiniteSet(list) /\ Cardinality(list) \in Nat /\ MaxEventfds \in Nat /\ nr \in Int
      /\ \A k \in Keys \ list : Cardinality(list \cup {k}) = Cardinality(list) + 1
      /\ \A k \in list : Cardinality(list \ {k}) = Cardinality(list) - 1
      /\ Cardinality({}) = 0
  BY ListSize, KeyAssumption DEF BarsTypeOK
<1>1. ASSUME NEW t \in Threads, Call(t) \/ Step(t) PROVE Counted'
  <2>1. /\ at' \in [Threads -> Labels]
        /\ \A u \in Threads \ {t} : at'[u] = at[u] /\ job'[u] = job[u]
    BY <1>1, CallStep
  <2>2. opened = "open" /\ opened' = "open"
    BY <1>1
    DEF ClosesAlone, BarsTypeOK, Call, Step, CheckMapped, RequestRegions, Iomap, Lock,
        Found, NotFound, Add
  <2>3. CASE Call(t) \/ CheckMapped(t) \/ RequestRegions(t) \/ Iomap(t)
    <3>1. at'[t] \notin {"find", "add"} /\ UNCHANGED <<lock, list, nr>>
      BY <2>3 DEF Call, CheckMapped, RequestRegions, Iomap, Proceed, Goto, Return,
         eventfds, BarsTypeOK
    <3> QED
      BY <2>1, <2>2, <3>1
  <2>4. CASE Lock(t)
    <3>1. /\ lock = None /\ lock' = t /\ at'[t] = "find" /\ UNCHANGED <<job, list, nr>>
      BY <2>4 DEF Lock, Goto, BarsTypeOK
    <3>2. \A u \in Threads : at[u] \notin {"find", "add"}
      BY <3>1, ThreadAssumption
    <3> QED
      BY <2>1, <2>2, <3>1, <3>2
  <2>5. CASE Found(t)
    <3>1. /\ lock = t /\ at'[t] = "idle" /\ job[t].key \in list
          /\ \/ list' = list /\ nr' = nr
             \/ list' = list \ {job[t].key} /\ nr' = nr - 1
      BY <2>5 DEF Found, Return, Goto, BarsTypeOK
    <3>2. \A u \in Threads : at'[u] \notin {"find", "add"}
      BY <2>1, <3>1
    <3>3. nr' = Cardinality(list') /\ Cardinality(list') <= MaxEventfds
      BY <1>0, <2>2, <3>1
    <3> QED
      BY <2>2, <3>2, <3>3
  <2>6. CASE NotFound(t)
    <3>1. /\ lock = t /\ UNCHANGED <<list, nr>> /\ job[t].key \notin list
          /\ \/ at'[t] = "idle"
             \/ /\ at'[t] = "add" /\ lock' = lock /\ job'[t] = job[t]
                /\ ~(nr >= MaxEventfds)
      BY <2>6 DEF NotFound, Return, Goto, BarsTypeOK
    <3>2. \A u \in Threads \ {t} : at'[u] \notin {"find", "add"}
      BY <2>1, <3>1
    <3>3. at'[t] = "add" => nr' < MaxEventfds
      BY <1>0, <3>1
    <3> QED
      BY <2>2, <3>1, <3>2, <3>3
  <2>7. CASE Add(t)
    <3>1. /\ lock = t /\ at[t] = "add" /\ at'[t] = "idle"
          /\ \/ list' = list /\ nr' = nr
             \/ list' = list \cup {job[t].key} /\ nr' = nr + 1
      BY <2>7 DEF Add, Return, Goto, BarsTypeOK
    <3>2. \A u \in Threads : at'[u] \notin {"find", "add"}
      BY <2>1, <3>1
    <3>3. job[t].key \in Keys \ list
      BY <3>1 DEF CallsMakeSense
    <3>4. nr' = Cardinality(list') /\ Cardinality(list') <= MaxEventfds
      BY <1>0, <2>2, <3>1, <3>3
    <3> QED
      BY <2>2, <3>2, <3>4
  <2> QED
    BY <1>1, <2>3, <2>4, <2>5, <2>6, <2>7 DEF Step
<1>2. CASE DropEventfd
  <2>1. \A t \in Threads : at'[t] = "idle"
    BY <1>2 DEF DropEventfd, ClosesAlone
  <2>2. PICK k \in list : list' = list \ {k} /\ nr' = IF list = {k} THEN 0 ELSE nr
    BY <1>2 DEF DropEventfd
  <2>3. Cardinality(list') <= MaxEventfds
    BY <1>0, <2>2
  <2>4. opened' = "closing" /\ (list' = {} => nr' = Cardinality(list'))
    BY <1>0, <1>2, <2>2 DEF DropEventfd
  <2> QED
    BY <2>1, <2>3, <2>4
<1>3. CASE EventfdGone \/ LastRelease \/ UnmapBar \/ Closed \/ Reopen
  BY <1>3 DEF EventfdGone, LastRelease, UnmapBar, Closed, Reopen, eventfds
<1>4. CASE UNCHANGED barsVars
  BY <1>4 DEF barsVars
<1> QED
  BY <1>1, <1>2, <1>3, <1>4 DEF BarsNext

\* The inductive invariant holds whatever the threads, the BARs and the ioeventfds.
THEOREM BarsCorrect == BarsSpec => []BarsInv
<1>1. BarsInv /\ [BarsNext]_barsVars => BarsInv'
  BY BarsTypeStep, SenseStep, ClosesStep, MappedStep, RequestedStep, CountedStep DEF BarsInv
<1> QED
  BY BarsInitial, <1>1, PTL DEF BarsSpec

\* Type correctness of the BARs' state.
THEOREM BarsTypes == BarsSpec => []BarsTypeOK
<1>1. BarsInv => BarsTypeOK
  BY DEF BarsInv
<1> QED
  BY BarsCorrect, <1>1, PTL

\* No BAR is requested or mapped twice and none is left requested, however the
\* threads that use it for the first time overlap.
THEOREM RegionsAreMapped == BarsSpec => []RegionsFollow
<1>1. BarsInv => RegionsFollow
  <2> SUFFICES ASSUME BarsInv PROVE RegionsFollow
    OBVIOUS
  <2>1. opened = "closed" => regions = {}
    BY DEF BarsInv, Requested, ClosesAlone
  <2> QED
    BY <2>1 DEF BarsInv, Requested, RegionsFollow
<1> QED
  BY BarsCorrect, <1>1, PTL

\* No eventfd fires into a BAR that is not mapped, on release either.
THEOREM EventfdsFireIntoMapped == BarsSpec => []FiresIntoMapped
<1>1. BarsInv => FiresIntoMapped
  BY DEF BarsInv, MappedBehind, FiresIntoMapped
<1> QED
  BY BarsCorrect, <1>1, PTL

\* The count is the length of the list and never above the limit.
THEOREM ListIsCounted == BarsSpec => []ListCounted
<1>1. BarsInv => ListCounted
  BY DEF BarsInv, Counted, ListCounted
<1> QED
  BY BarsCorrect, <1>1, PTL

\* The ioeventfds that are asked for or in the list passed the checks of
\* vfio_pci_ioeventfd.
AllowedInv ==
  /\ \A t \in Threads : job[t].kind = "ioeventfd" => Allowed(job[t].key)
  /\ \A k \in list : Allowed(k)

\* Nothing is asked for or added that did not pass them.
LEMMA AllowedStep == BarsInv /\ AllowedInv /\ [BarsNext]_barsVars => AllowedInv'
<1> SUFFICES ASSUME BarsInv, AllowedInv, [BarsNext]_barsVars PROVE AllowedInv'
  OBVIOUS
<1>0. \A k : Allowed(k)' <=> Allowed(k)
  BY DEF Allowed
<1>1. ASSUME NEW t \in Threads, Call(t) \/ Step(t) PROVE AllowedInv'
  <2>1. \A u \in Threads : job'[u].kind = "ioeventfd" => Allowed(job'[u].key)
    <3>1. \A u \in Threads \ {t} : job'[u] = job[u]
      BY <1>1, CallStep DEF BarsInv
    <3>2. job'[t].kind = "ioeventfd" => Allowed(job'[t].key)
      BY <1>1, CallStep DEF BarsInv, AllowedInv, NoJob
    <3> QED
      BY <3>1, <3>2 DEF AllowedInv
  <2>2. \A k \in list' : Allowed(k)
    <3>1. CASE ~Add(t)
      <4>1. list' \subseteq list
        BY <1>1, <3>1
        DEF Step, Call, CheckMapped, RequestRegions, Iomap, Lock, Found, NotFound, eventfds
      <4> QED
        BY <4>1 DEF AllowedInv
    <3>2. CASE Add(t)
      <4>1. list' \subseteq list \cup {job[t].key} /\ at[t] = "add"
        BY <3>2 DEF Add
      <4>2. Allowed(job[t].key)
        BY <4>1 DEF BarsInv, CallsMakeSense, AllowedInv
      <4> QED
        BY <4>1, <4>2 DEF AllowedInv
    <3> QED
      BY <3>1, <3>2
  <2> QED
    BY <1>0, <2>1, <2>2 DEF AllowedInv
<1>2. CASE EventfdGone \/ LastRelease \/ DropEventfd \/ UnmapBar \/ Closed \/ Reopen
           \/ UNCHANGED barsVars
  <2>1. job' = job /\ list' \subseteq list
    BY <1>2
    DEF EventfdGone, LastRelease, DropEventfd, UnmapBar, Closed, Reopen, eventfds, barsVars
  <2> QED
    BY <1>0, <2>1 DEF AllowedInv
<1> QED
  BY <1>1, <1>2 DEF BarsNext

\* Every transfer of a BAR, the ROM or a VGA window moves exactly what it was asked
\* for, whatever the lengths and wherever the MSI-X table is, and no eventfd that
\* can fire writes into the table.
THEOREM TransfersAreExact == BarsSpec => []TransfersExact
<1>1. BarsInit => AllowedInv
  BY DEF BarsInit, AllowedInv, NoJob
<1>2. BarsInv /\ AllowedInv => TransfersExact
  <2> SUFFICES ASSUME BarsInv, AllowedInv PROVE TransfersExact
    OBVIOUS
  <2> DEFINE begins == {t \in Threads : job[t].kind = "rw" /\ at[t] = "check"}
             asked  == {job[t].bar : t \in begins}
  <2>1. asked \subseteq BarIds
    BY DEF BarsInv, CallsMakeSense
  <2>2. ASSUME NEW bar \in asked \cup {"rom"}, NEW start \in 0..End(bar), NEW n \in 1..9
        PROVE  Moves(BarRw(bar, start, n), start, n, End(bar), Excluded(bar))
    <3>1. bar \in BarIds \cup {"rom"} /\ start \in Nat /\ n \in Nat
      BY <2>1
    <3> QED
      BY <3>1, BarRwMoves
  <2>3. ASSUME NEW w \in VgaWindows, NEW start \in w[2] - 5..w[2] - 1, NEW n \in 1..9
        PROVE  Moves(VgaRw(start, n), start - w[1], n, w[2] - w[1], <<0, 0>>)
    <3>1. start \in w[1]..w[2] - 1 /\ n \in Nat
      BY DEF VgaWindows
    <3> QED
      BY <3>1, VgaRwMoves
  <2>4. ASSUME NEW k \in wired, NEW q \in 0..7, q < k.size, k.bar = Table.bar
        PROVE  k.pos + q < Table.offset \/ k.pos + q >= Table.offset + Table.size
    <3>1. k \in list /\ Allowed(k)
      BY DEF BarsInv, MappedBehind, AllowedInv
    <3>2. k.pos \in Nat /\ k.size \in Nat /\ Table.offset \in Nat /\ Table.size \in Nat
      BY <3>1, KeyAssumption, TableAssumption DEF BarsInv, BarsTypeOK
    <3> QED
      BY <2>4, <3>1, <3>2 DEF Allowed
  <2> QED
    BY <2>2, <2>3, <2>4 DEF TransfersExact
<1> QED
  BY <1>1, <1>2, AllowedStep, BarsCorrect, PTL DEF BarsSpec

-----------------------------------------------------------------------------
(* DriverHandover: the count of the enables.                               *)

UsedByVfio == inUse => driver = "vfio-pci"

Quiet == TypeOK /\ EnablesBalanced /\ QuietUnderPwplug /\ UsedByVfio

\* What an earlier driver left is where the balance starts.
LEMMA QuietInit == Init => Quiet
<1> SUFFICES ASSUME Init PROVE Quiet
  OBVIOUS
<1>1. enables = leaked + (IF inUse THEN 1 ELSE 0)
  <2>1. ~inUse
    BY DEF Init
  <2> QED
    BY <2>1, MaxLeakedAssumption DEF Init
<1>2. TypeOK
  <2>1. inUse \in BOOLEAN /\ master \in BOOLEAN /\ resetWorks \in BOOLEAN
    BY DEF Init
  <2>2. driver \in {"none", "pwplug", "vfio-pci"} /\ pstate \in Power
    BY DEF Init
  <2>3. leaked \in 0..MaxLeaked /\ enables \in 0..(MaxLeaked + 1)
    BY MaxLeakedAssumption DEF Init
  <2> QED
    BY <2>1, <2>2, <2>3 DEF TypeOK
<1> QED
  BY <1>1, <1>2 DEF Init, Quiet, EnablesBalanced, QuietUnderPwplug, UsedByVfio

\* Every callback, on each of its paths, keeps the types.
LEMMA BooleanStep ==
  TypeOK /\ Next => inUse' \in BOOLEAN /\ master' \in BOOLEAN /\ resetWorks' \in BOOLEAN
<1> SUFFICES ASSUME TypeOK, Next
             PROVE  inUse' \in BOOLEAN /\ master' \in BOOLEAN /\ resetWorks' \in BOOLEAN
  OBVIOUS
<1> USE DEF TypeOK
<1>1. CASE PwplugProbe \/ PwplugProbeFails \/ PwplugRemove \/ VfioProbe \/ VfioRemove
  BY <1>1 DEF PwplugProbe, PwplugProbeFails, PwplugRemove, VfioProbe, VfioRemove
<1>2. CASE OpenRefused \/ OpenBusy \/ OpenNoConfig \/ Open
  BY <1>2 DEF OpenRefused, OpenBusy, OpenNoConfig, Open, Opening
<1>3. CASE OpenUndone
  BY <1>3 DEF OpenUndone, Disable, MasterAfterDisable
<1>4. CASE Release
  BY <1>4 DEF Release, Disable, MasterAfterDisable
<1>5. CASE UserSetsMaster
  BY <1>5 DEF UserSetsMaster
<1> QED
  BY <1>1, <1>2, <1>3, <1>4, <1>5 DEF Next

\* ... and the balance.
LEMMA BalanceStep ==
  TypeOK /\ EnablesBalanced /\ Next =>
    EnablesBalanced' /\ leaked' = leaked /\ enables' \in 0..(MaxLeaked + 1)
<1> SUFFICES ASSUME TypeOK, EnablesBalanced, Next
             PROVE  EnablesBalanced' /\ leaked' = leaked
                    /\ enables' \in 0..(MaxLeaked + 1)
  OBVIOUS
<1>1. leaked \in Nat /\ leaked <= MaxLeaked /\ MaxLeaked \in Nat
  BY MaxLeakedAssumption DEF TypeOK
<1>2. leaked' = leaked
  BY DEF Next, PwplugProbe, PwplugProbeFails, PwplugRemove, VfioProbe, VfioRemove,
     OpenRefused, OpenBusy, OpenNoConfig, Open, Opening, OpenUndone, Release,
     UserSetsMaster
<1>3. CASE inUse' = inUse /\ enables' = enables
  BY <1>1, <1>2, <1>3 DEF EnablesBalanced, TypeOK
<1>4. CASE ~inUse /\ inUse' /\ enables' = enables + 1
  BY <1>1, <1>2, <1>4 DEF EnablesBalanced
<1>5. CASE inUse /\ ~inUse' /\ enables' = enables - 1
  BY <1>1, <1>2, <1>5 DEF EnablesBalanced
<1>6. CASE OpenUndone
  <2>1. inUse' = inUse
    BY <1>6 DEF OpenUndone
  <2>2. enables' = (enables + 1) - 1
    BY <1>6, Zenon DEF OpenUndone, Disable
  <2>3. enables \in Nat
    BY MaxLeakedAssumption DEF TypeOK
  <2> QED
    BY <2>1, <2>2, <2>3, <1>3
<1> QED
  BY <1>3, <1>4, <1>5, <1>6
  DEF Next, PwplugProbe, PwplugProbeFails, PwplugRemove, VfioProbe, VfioRemove,
      OpenRefused, OpenBusy, OpenNoConfig, Open, Opening, Release, Disable,
      UserSetsMaster

\* The rest of the type, and the quiet function under pwplug.
LEMMA QuietStep == Quiet /\ [Next]_vars => Quiet'
<1> SUFFICES ASSUME Quiet, Next PROVE Quiet'
  BY DEF Quiet, TypeOK, EnablesBalanced, QuietUnderPwplug, UsedByVfio, vars
<1>1. TypeOK'
  <2>1. driver' \in {"none", "pwplug", "vfio-pci"} /\ pstate' \in Power
    BY DEF Quiet, TypeOK, Power, SetPower, Next, PwplugProbe, PwplugProbeFails,
       PwplugRemove, VfioProbe, VfioRemove, OpenRefused, OpenBusy, OpenNoConfig,
       Open, Opening, OpenUndone, Release, UserSetsMaster
  <2> QED
    BY <2>1, BooleanStep, BalanceStep DEF Quiet, TypeOK
<1>2. QuietUnderPwplug'
  <2> USE DEF Quiet, QuietUnderPwplug
  <2>1. CASE PwplugProbe
    BY <2>1 DEF PwplugProbe
  <2>2. CASE PwplugProbeFails \/ PwplugRemove \/ VfioProbe \/ VfioRemove
    BY <2>2 DEF PwplugProbeFails, PwplugRemove, VfioProbe, VfioRemove
  <2>3. CASE OpenRefused \/ OpenBusy \/ OpenNoConfig \/ Open \/ OpenUndone
    BY <2>3 DEF OpenRefused, OpenBusy, OpenNoConfig, Open, OpenUndone, Opening
  <2>4. CASE Release \/ UserSetsMaster
    <3>1. driver' = driver
      BY <2>4 DEF Release, UserSetsMaster
    <3>2. driver # "pwplug"
      BY <2>4 DEF UsedByVfio, Release, UserSetsMaster
    <3> QED
      BY <3>1, <3>2
  <2> QED
    BY <2>1, <2>2, <2>3, <2>4 DEF Next
<1>3. UsedByVfio'
  BY DEF Quiet, UsedByVfio, Next, PwplugProbe, PwplugProbeFails,
     PwplugRemove, VfioProbe, VfioRemove, OpenRefused, OpenBusy, OpenNoConfig,
     Open, Opening, OpenUndone, Release, UserSetsMaster
<1> QED
  BY <1>1, <1>2, <1>3, BalanceStep DEF Quiet

\* The invariant holds all along.
LEMMA AlwaysQuiet == Spec => []Quiet
BY QuietInit, QuietStep, PTL DEF Spec

\* The types, and with them: enable_cnt never falls below zero, nor rises by more
\* than the one open.
THEOREM HandoverTypes == Spec => []TypeOK
<1>1. Quiet => TypeOK
  BY DEF Quiet
<1> QED
  BY <1>1, AlwaysQuiet, PTL

\* pci_enable_device and pci_disable_device stay paired on every path of both
\* drivers.
THEOREM HandoverBalanced == Spec => []EnablesBalanced
<1>1. Quiet => EnablesBalanced
  BY DEF Quiet
<1> QED
  BY <1>1, AlwaysQuiet, PTL

\* A function that pwplug holds never masters the bus, whoever enabled it before.
THEOREM PwplugHoldsQuiet == Spec => []QuietUnderPwplug
<1>1. Quiet => QuietUnderPwplug
  BY DEF Quiet
<1> QED
  BY <1>1, AlwaysQuiet, PTL

\* A step that ends with the function unused leaves it no bus master, unless it
\* was one before these drivers came and nobody has used it since.
LEMMA StepIsQuiet ==
  Quiet /\ [Next]_vars => [~inUse' /\ (inUse \/ ~master) => ~master']_vars
<1> SUFFICES ASSUME Quiet, Next, ~inUse', inUse \/ ~master PROVE ~master'
  BY DEF vars
<1> USE DEF Quiet, TypeOK, MasterAfterDisable
<1>1. CASE PwplugProbe \/ PwplugProbeFails \/ PwplugRemove \/ VfioProbe \/ VfioRemove
  BY <1>1 DEF PwplugProbe, PwplugProbeFails, PwplugRemove, VfioProbe, VfioRemove,
     QuietUnderPwplug
<1>2. CASE OpenRefused \/ OpenBusy \/ OpenNoConfig \/ Open
  BY <1>2 DEF OpenRefused, OpenBusy, OpenNoConfig, Open, Opening
<1>3. CASE OpenUndone \/ Release
  BY <1>3 DEF OpenUndone, Release, Disable, StopDma
<1>4. CASE UserSetsMaster
  BY <1>4 DEF UserSetsMaster
<1> QED
  BY <1>1, <1>2, <1>3, <1>4 DEF Next

\* QuietAfterUser for any number of left-over enables.
THEOREM HandoverQuiet == Spec => QuietAfterUser
<1> QED
  BY QuietInit, QuietStep, StepIsQuiet, PTL DEF Spec, QuietAfterUser

=============================================================================
