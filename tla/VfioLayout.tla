----------------------------- MODULE VfioLayout -----------------------------
(***************************************************************************)
(* The layout of a vfio-pci device's config space (device/vfio_pci_config  *)
(* .c): vfio_config_init walks the two capability chains of the hardware,  *)
(* marks in pci_config_map which capability each byte belongs to, and      *)
(* rewrites the next pointers in vconfig so that the user does not see     *)
(* hidden capabilities; vfio_config_do_rw then cuts each access into       *)
(* chunks and picks the permissions by the map.                            *)
(*                                                                         *)
(* A position is a byte, as in the code; of a capability only its header   *)
(* (id and next) has a content here.  Place 0 stands for the pointer       *)
(* PCI_CAPABILITY_LIST of the basic header, and 0 as a pointer ends a      *)
(* chain.                                                                  *)
(***************************************************************************)
EXTENDS Integers

CONSTANTS
  HeaderSize,  \* PCI_STD_HEADER_SIZEOF
  StdSize,     \* PCI_CFG_SPACE_SIZE
  CfgSize,     \* pdev->cfg_size
  Places,      \* where a capability may be
  Ids,         \* capability ids
  Length,      \* their lengths; 0: hidden, -1: it cannot be read
  Known,       \* those up to PCI_EXT_CAP_ID_MAX: there is a table for each
  Tabled,      \* ids with a permission table: default reads
  Devices      \* hardware: where its chain begins, and its headers

Pointers == Places \cup {0}
Headers  == [id : Ids, next : Pointers]
Null     == [id |-> "null", next |-> 0]   \* a header of zeros
Mapped   == Ids \cup {"basic", "invalid"}

ASSUME SizeAssumption ==
  /\ HeaderSize \in Nat \ {0} /\ StdSize \in Nat /\ CfgSize \in Nat
  /\ HeaderSize < StdSize /\ StdSize <= CfgSize
ASSUME PlaceAssumption ==
  /\ Places \subseteq HeaderSize..CfgSize - 1
  /\ StdSize \in Places
ASSUME IdAssumption ==
  /\ "null" \in Ids /\ "exp" \in Ids /\ {"basic", "invalid"} \cap Ids = {}
  /\ Length \in [Ids -> Nat \cup {-1}] /\ Length["null"] = 0
  /\ Known \subseteq Ids /\ \A i \in Ids \ Known : Length[i] = 0
ASSUME TabledAssumption == \A i \in Tabled : i \in Known /\ Length[i] # 0
ASSUME DeviceAssumption ==
  Devices \subseteq [listed : BOOLEAN, head : Pointers, cap : [Places -> Headers]]

VARIABLES
  hw,        \* the device
  map,       \* pci_config_map
  vheader,   \* vconfig, at the places of headers
  vlisted,   \* PCI_STATUS_CAP_LIST in vconfig
  extended,  \* extended_caps
  phase,     \* "cap", "ecap", "ready" or "failed"
  pos,       \* pos, epos: the capability at hand
  prev,      \* the header that points to it; in "ecap" 0 is NULL
  loops,
  count      \* caps, ecaps

layoutVars == <<hw, map, vheader, vlisted, extended, phase, pos, prev, loops, count>>

StdLoops == (StdSize - HeaderSize) \div 4
ExtLoops == (CfgSize - StdSize) \div 4

LayoutInit ==
  /\ hw \in Devices
  /\ map = [p \in 0..CfgSize - 1 |-> IF p < HeaderSize THEN "basic" ELSE "invalid"]
  /\ vheader = [p \in Pointers |->
                  IF p = 0 THEN [id |-> "null", next |-> hw.head] ELSE Null]
  /\ vlisted = hw.listed
  /\ extended = FALSE
  /\ phase = "cap"
  /\ pos = IF hw.listed THEN hw.head ELSE 0
  /\ prev = 0
  /\ loops = StdLoops
  /\ count = 0

Cap  == hw.cap[pos]
Size == Length[Cap.id]

\* memset(map + pos, id, len).
Mark(len, id) ==
  map' = [p \in DOMAIN map |-> IF pos <= p /\ p < pos + len THEN id ELSE map[p]]

\* A mutant of Visit that does not bound the walk.
VisitUnbounded ==
  /\ loops' = loops
  /\ pos' = Cap.next

Visit ==
  /\ loops > 0
  /\ loops' = loops - 1
  /\ pos' = Cap.next

\* One turn of the loop of vfio_cap_init.
CapTurn ==
  /\ phase = "cap"
  /\ pos # 0
  /\ Visit

\* The pointer that led here is led on.
CapHidden ==
  /\ CapTurn
  /\ Size = 0
  /\ vheader' = [vheader EXCEPT ![prev].next = Cap.next]
  /\ UNCHANGED <<hw, map, vlisted, extended, phase, prev, count>>

\* vfio_fill_vconfig_bytes reads the header anew, and the length of a PCI Express
\* capability is read together with extended_caps.
CapTaken ==
  /\ CapTurn
  /\ Size > 0
  /\ Mark(Size, Cap.id)
  /\ vheader' = [vheader EXCEPT ![pos] = Cap]
  /\ extended' = IF Cap.id = "exp" /\ CfgSize > StdSize
                   THEN hw.cap[StdSize] # Null ELSE extended
  /\ prev' = pos
  /\ count' = count + 1
  /\ UNCHANGED <<hw, vlisted, phase>>

CapUnreadable ==
  /\ CapTurn
  /\ Size < 0
  /\ phase' = "failed"
  /\ UNCHANGED <<hw, map, vheader, vlisted, extended, prev, count>>

\* The end of vfio_cap_init, and the beginning of vfio_ecap_init.
CapEnd ==
  /\ phase = "cap"
  /\ pos = 0 \/ loops = 0
  /\ vlisted' = (vlisted /\ count > 0)
  /\ phase' = IF extended THEN "ecap" ELSE "ready"
  /\ pos' = StdSize
  /\ prev' = 0
  /\ loops' = ExtLoops
  /\ count' = 0
  /\ UNCHANGED <<hw, map, vheader, extended>>

\* One turn of the loop of vfio_ecap_init.
EcapTurn ==
  /\ phase = "ecap"
  /\ pos >= StdSize
  /\ Visit

EcapHidden ==
  /\ EcapTurn
  /\ Size = 0
  /\ prev # 0
  /\ vheader' = [vheader EXCEPT ![prev].next = Cap.next]
  /\ UNCHANGED <<hw, map, vlisted, extended, phase, prev, count>>

\* The first of the chain is hidden: one dword of it anchors the list.
EcapAnchor ==
  /\ EcapTurn
  /\ Size = 0
  /\ prev = 0
  /\ Mark(4, Cap.id)
  /\ vheader' = [vheader EXCEPT ![pos] = [id |-> "null", next |-> Cap.next]]
  /\ prev' = pos
  /\ UNCHANGED <<hw, vlisted, extended, phase, count>>

EcapTaken ==
  /\ EcapTurn
  /\ Size > 0
  /\ Mark(Size, Cap.id)
  /\ vheader' = [vheader EXCEPT ![pos] = Cap]
  /\ prev' = pos
  /\ count' = count + 1
  /\ UNCHANGED <<hw, vlisted, extended, phase>>

\* "return ret" with ret = 0: the walk stops here, and the device opens.
EcapUnreadable ==
  /\ EcapTurn
  /\ Size < 0
  /\ phase' = "ready"
  /\ UNCHANGED <<hw, map, vheader, vlisted, extended, prev, count>>

EcapEnd ==
  /\ phase = "ecap"
  /\ pos < StdSize \/ loops = 0
  /\ vheader' = IF count = 0 THEN [vheader EXCEPT ![StdSize] = Null] ELSE vheader
  /\ phase' = "ready"
  /\ UNCHANGED <<hw, map, vlisted, extended, pos, prev, loops, count>>

Walk ==
  \/ CapHidden
  \/ CapTaken
  \/ CapUnreadable
  \/ CapEnd
  \/ EcapHidden
  \/ EcapAnchor
  \/ EcapTaken
  \/ EcapUnreadable
  \/ EcapEnd

LayoutSpec == LayoutInit /\ [][Walk]_layoutVars /\ WF_layoutVars(Walk)

-----------------------------------------------------------------------------
(* The user's accesses: no state, once the walk is done.                    *)

\* vfio_find_cap_start: back to the first byte marked like this one.
CapStart(p) ==
  IF map[p] = "basic" THEN 0
  ELSE LET base == IF p >= StdSize THEN StdSize ELSE HeaderSize
       IN  CHOOSE s \in base..p :
             /\ \A q \in s..p : map[q] = map[p]
             /\ s = base \/ map[s - 1] # map[p]

\* A mutant of Remaining that only looks at the dword.
RemainingInDword(p) == 4 - (p % 4)

\* vfio_pci_cap_remaining_dword: the bytes up to the end of the capability or the
\* dword.
Remaining(p) ==
  CHOOSE i \in 1..4 :
    /\ \A j \in 1..i - 1 : (p + j) % 4 # 0 /\ map[p + j] = map[p]
    /\ (p + i) % 4 = 0 \/ map[p + i] # map[p]

\* The size of the first chunk of an access of n bytes at p.
Chunk(p, n) ==
  LET room == Remaining(p)
      fits == IF n < room THEN n ELSE room
  IN  CASE fits >= 4 /\ p % 4 = 0 -> 4
        [] fits >= 2 /\ p % 2 = 0 /\ ~(fits >= 4 /\ p % 4 = 0) -> 2
        [] OTHER -> 1

\* A mutant of FromVconfig that forgets the two-byte read that begins at the id.
FromVconfigByteOnly(b, s, n) ==
  /\ map[s] # "invalid"
  /\ IF s >= StdSize THEN s - CapStart(s) < 4 ELSE b - CapStart(s) = 1 /\ b = s

\* Whether byte b of a header comes from vconfig in a chunk of n bytes at s: a
\* direct read has only the next pointer from there, looked for at the offset the
\* chunk starts at; a table virtualizes the byte itself.
FromVconfig(b, s, n) ==
  LET offset == s - CapStart(s)
  IN  CASE map[s] = "invalid" -> FALSE
        [] map[s] # "invalid" /\ s >= StdSize -> offset < 4
        [] map[s] \in Tabled /\ s < StdSize -> b - CapStart(s) = 1
        [] OTHER -> \/ offset = 0 /\ n > 1 /\ b < s + 2
                    \/ offset = 1 /\ b = s

-----------------------------------------------------------------------------
(* What the layout promises.                                                *)

LayoutTypeOK ==
  /\ hw \in [listed : BOOLEAN, head : Pointers, cap : [Places -> Headers]]
  /\ map \in [0..CfgSize - 1 -> Mapped]
  /\ vheader \in [Pointers -> Headers]
  /\ vlisted \in BOOLEAN
  /\ extended \in BOOLEAN
  /\ phase \in {"cap", "ecap", "ready", "failed"}
  /\ pos \in Pointers
  /\ prev \in Pointers
  /\ loops \in Nat
  /\ count \in Nat

Shown(p) == Length[hw.cap[p].id] > 0

\* The chain of the hardware from p on, as far as the two walks go together.
Bound == StdLoops + ExtLoops
Path(p) ==
  LET nth[i \in 0..Bound] ==
        IF i = 0 THEN p ELSE LET q == nth[i - 1] IN IF q = 0 THEN 0 ELSE hw.cap[q].next
  IN  nth

\* The first n places of a chain, and all of them.
Visited(p, n) == {Path(p)[i] : i \in 0..n - 1} \ {0}
OnChain(p) == Visited(p, Bound + 1)

\* A chain that ends.
Sound(p) == \E i \in 0..Bound : Path(p)[i] = 0

\* The first capability at or after p that is not hidden.
FirstShown(p) ==
  LET at[n \in 0..Bound] ==
        LET here == IF n = 0 THEN p ELSE at[n - 1]
        IN  IF here = 0 \/ Shown(here) THEN here ELSE hw.cap[here].next
  IN  at[Bound]

NextBytes(p) == IF p < StdSize THEN {p + 1} ELSE {p + 2, p + 3}

\* The next pointers the user can read at p, by accesses of any size and start.
SeenNext(p) ==
  LET reads == {r \in [byte : NextBytes(p), start : p..p + 3, size : 1..4] :
                  r.start <= r.byte /\ r.byte < r.start + Chunk(r.start, r.size)}
      virtual(r) == FromVconfig(r.byte, r.start, Chunk(r.start, r.size))
  IN  {IF virtual(r) THEN vheader[p].next ELSE hw.cap[p].next : r \in reads}

\* Two capabilities of one id that abut: the map cannot tell them apart.
Abut(P) ==
  \E p, q \in P : Shown(p) /\ q = p + Length[hw.cap[p].id] /\ hw.cap[p].id = hw.cap[q].id

\* The chains the user is to meet; the second only if its lengths are known.
Std == IF hw.listed THEN OnChain(hw.head) ELSE {}
Ext == OnChain(StdSize)
ExtReadable == \A p \in Ext : hw.cap[p].id \in Known /\ Length[hw.cap[p].id] >= 0

\* Whatever the sizes of its reads, the user of an open device who follows the
\* pointers meets the capabilities of the hardware's chain that are not hidden,
\* each of them, in the hardware's order, and no other; a chain that is all hidden
\* is announced by no flag, or by an extended header of zeros.  This is about sound
\* chains of known ids whose lengths can be read and without twins that abut.
ChainExact ==
  phase = "ready" /\ Sound(hw.head) /\ Sound(StdSize) /\ ~Abut(Std \cup Ext) =>
    /\ hw.listed => vheader[0].next = FirstShown(hw.head)
    /\ vlisted = \E p \in Std : Shown(p)
    /\ \A p \in Std : Shown(p) => SeenNext(p) = {FirstShown(hw.cap[p].next)}
    /\ extended /\ ExtReadable =>
         \A p \in Ext : Shown(p) \/ p = StdSize =>
           /\ SeenNext(p) = {FirstShown(hw.cap[p].next)}
           /\ vheader[p].id = IF Shown(p) THEN hw.cap[p].id ELSE "null"

\* Every chunk of every access is naturally aligned, within one capability, and
\* within that capability's permission table, which is a whole number of dwords.
ChunksFit ==
  phase = "ready" /\ Sound(hw.head) /\ ~Abut(OnChain(hw.head) \cup OnChain(StdSize)) =>
    \A p \in 0..CfgSize - 1, n \in 1..4 :
      p + n <= CfgSize =>
        LET size == Chunk(p, n)
        IN  /\ size <= n /\ p % size = 0
            /\ \A q \in p..p + size - 1 : map[q] = map[p]
            /\ map[p] \in Tabled =>
                 p - CapStart(p) + size <= 4 * ((Length[map[p]] + 3) \div 4)

\* Hardware as the PCI specification lays it out: capabilities begin at dwords and
\* are no shorter than a header's dword, they do not overlap, and neither they nor
\* the pointers to them leave their part of the config space.  Where there is no
\* capability, there is a header of zeros.
Regular ==
  /\ HeaderSize % 4 = 0 /\ StdSize % 4 = 0 /\ CfgSize % 4 = 0
  /\ \A p \in Places : p % 4 = 0
  /\ \A d \in Devices :
       LET size(p) == Length[d.cap[p].id]
       IN  /\ d.head < StdSize
           /\ \A p \in Places : LET q == d.cap[p].next
                               IN  q = 0 \/ (q < StdSize <=> p < StdSize)
           /\ \A p \in Places : size(p) > 0 =>
                /\ size(p) >= 4
                /\ p + size(p) <= IF p < StdSize THEN StdSize ELSE CfgSize
                /\ \A q \in Places : size(q) > 0 /\ p < q => p + size(p) <= q

\* The walk ends, even over a chain of the hardware that loops.
WalkEnds == <>(phase \in {"ready", "failed"})

\* WARN_ON(cap_id > PCI_EXT_CAP_ID_MAX): the tables have an entry for every id that
\* an extended position is marked with.
MarksKnownIds ==
  phase = "ready" => \A p \in StdSize..CfgSize - 1 : map[p] \in Known \cup {"invalid"}

-----------------------------------------------------------------------------
(* The inductive invariants behind these (see VfioFunctionProofs).          *)

\* The walk is at the place of the hardware's chain that its turns so far lead to.
WalkInv ==
  /\ hw \in Devices
  /\ phase = "cap" =>
       /\ loops <= StdLoops
       /\ pos = IF hw.listed THEN Path(hw.head)[StdLoops - loops] ELSE 0
  /\ phase = "ecap" =>
       /\ loops <= ExtLoops
       /\ pos = Path(StdSize)[ExtLoops - loops]
       /\ prev = 0 <=> loops = ExtLoops
       /\ prev = 0 \/ prev >= StdSize
       /\ extended

\* A mark is of a capability that covers it, or of the hidden one that anchors the
\* extended chain.
MapInv ==
  LET walked == Std \cup Ext IN
  \A b \in 0..CfgSize - 1 :
    /\ map[b] = "basic" <=> b < HeaderSize
    /\ map[b] \in Ids =>
         \/ \E p \in walked :
              Shown(p) /\ hw.cap[p].id = map[b] /\ p <= b /\ b < p + Length[map[b]]
         \/ b \in StdSize..StdSize + 3 /\ map[b] = hw.cap[StdSize].id /\ Length[map[b]] = 0

\* Of the places that were visited, those whose header the user sees.
StdKept ==
  {p \in IF phase = "cap" THEN IF hw.listed THEN Visited(hw.head, StdLoops - loops) ELSE {}
         ELSE Std : Shown(p)}
ExtKept ==
  {p \in IF phase = "ecap" THEN Visited(StdSize, ExtLoops - loops)
         ELSE IF phase = "ready" /\ extended THEN Ext ELSE {} : Shown(p) \/ p = StdSize}

\* Their first dwords are marked.
Marks(Q) == \A q \in Q : \A b \in q..q + 3 : map[b] = hw.cap[q].id

\* Their headers lead on to the next one that is shown; while the walk goes on, the
\* last leads to the place at hand.
Led(q)    == IF q = 0 THEN hw.head ELSE hw.cap[q].next
Linked(Q) == \A q \in Q : vheader[q].next = FirstShown(Led(q))
Threaded(Q) ==
  /\ prev \in Q
  /\ vheader[prev].next = pos
  /\ FirstShown(Led(prev)) = FirstShown(pos)
  /\ Linked(Q \ {prev})

StdInv ==
  phase # "failed" /\ Sound(hw.head) =>
    /\ Marks(StdKept)
    /\ hw.listed =>
         IF phase = "cap" THEN Threaded(StdKept \cup {0}) ELSE Linked(StdKept \cup {0})
    /\ IF phase = "cap" THEN vlisted = hw.listed /\ (count > 0 <=> StdKept # {})
       ELSE vlisted <=> StdKept # {}

ExtInv ==
  Sound(StdSize) /\ ExtReadable =>
    /\ Marks(ExtKept)
    /\ phase = "ecap" => /\ ExtKept = {} \/ Threaded(ExtKept)
                         /\ count > 0 <=> \E p \in ExtKept : Shown(p)
    /\ phase = "ready" => Linked(ExtKept)
    /\ \A p \in ExtKept : vheader[p].id = IF Shown(p) THEN hw.cap[p].id ELSE "null"

LayoutInv == WalkInv /\ MapInv /\ StdInv /\ ExtInv

=============================================================================
