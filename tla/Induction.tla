------------------------------ MODULE Induction ------------------------------
(***************************************************************************)
(* Induction over the naturals in the form the installed provers can use:  *)
(* over a set instead of a predicate.  A fact P(n) is proved for every n   *)
(* by showing that {n \in Nat : P(n)} has 0 and every successor; the proofs *)
(* about the serial parser, the capability chains and the turns of a BAR   *)
(* transfer rest on it.                                                    *)
(***************************************************************************)
EXTENDS Integers, Sequences, WellFoundedInduction, TLAPS

Below == {p \in Nat \X Nat : p[1] < p[2]}

\* The order of the naturals, as a relation, is well-founded.
LEMMA BelowWellFounded == IsWellFoundedOn(Below, Nat)
<1>1. IsWellFoundedOn(OpToRel(<, Nat), Nat)
  BY NatLessThanWellFounded
<1>2. OpToRel(<, Nat) = Below
  BY DEF OpToRel, Below
<1> QED
  BY <1>1, <1>2

\* A set of naturals that is not empty has a least element.
LEMMA LeastExists ==
  ASSUME NEW T, T \subseteq Nat, T # {}
  PROVE  \E x \in T : \A y \in T : x <= y
<1>1. PICK x \in T : \A y \in T : ~(<<y, x>> \in Below)
  BY BelowWellFounded, WFMin
<1>2. ASSUME NEW y \in T PROVE x <= y
  <2>1. x \in Nat /\ y \in Nat
    OBVIOUS
  <2>2. y < x => <<y, x>> \in Below
    BY <2>1 DEF Below
  <2>3. ~(y < x)
    BY <1>1, <2>2, Zenon
  <2> QED
    BY <2>1, <2>3
<1> QED
  BY <1>2

\* Induction: a set with 0 and every successor is all of Nat.
LEMMA NatSetInduction ==
  ASSUME NEW T, T \subseteq Nat, 0 \in T, \A n \in T : n + 1 \in T
  PROVE  T = Nat
<1> DEFINE U == Nat \ T
<1> SUFFICES ASSUME U # {} PROVE FALSE
  OBVIOUS
<1>1. PICK x \in U : \A y \in U : x <= y
  <2>1. U \subseteq Nat
    OBVIOUS
  <2> HIDE DEF U
  <2> QED
    BY <2>1, LeastExists
<1>2. x # 0 /\ x - 1 \in Nat /\ x - 1 + 1 = x /\ ~(x <= x - 1)
  OBVIOUS
<1>3. x - 1 \notin U
  BY <1>1, <1>2, Zenon
<1> QED
  BY <1>2, <1>3

\* A step G[k] applied n times from b: the sequence of its values exists.
LEMMA IterationExists ==
  ASSUME NEW S, NEW b \in S, NEW n \in Nat, NEW G \in [1..n -> [S -> S]]
  PROVE  \E f \in [0..n -> S] : f[0] = b /\ \A k \in 1..n : f[k] = G[k][f[k - 1]]
<1> DEFINE Good(f, m) == f \in [0..m -> S] /\ f[0] = b
                         /\ \A k \in 1..m : f[k] = G[k][f[k - 1]]
           T == {m \in Nat : m <= n => \E f \in [0..m -> S] : Good(f, m)}
<1>1. 0 \in T
  <2>1. Good([k \in 0..0 |-> b], 0)
    OBVIOUS
  <2> QED
    BY <2>1
<1>2. ASSUME NEW m \in T PROVE m + 1 \in T
  <2> SUFFICES ASSUME m + 1 <= n PROVE \E f \in [0..(m + 1) -> S] : Good(f, m + 1)
    OBVIOUS
  <2>1. m \in Nat /\ m <= n /\ m + 1 \in 1..n
    OBVIOUS
  <2>2. PICK f \in [0..m -> S] : Good(f, m)
    BY <2>1
  <2> DEFINE g == [k \in 0..(m + 1) |-> IF k = m + 1 THEN G[m + 1][f[m]] ELSE f[k]]
  <2>3. G[m + 1] \in [S -> S] /\ f[m] \in S
    BY <2>1
  <2>4. g \in [0..(m + 1) -> S]
    BY <2>1, <2>3
  <2>5. g[0] = b
    BY <2>1, <2>2
  <2>6. ASSUME NEW k \in 1..(m + 1) PROVE g[k] = G[k][g[k - 1]]
    <3>1. k - 1 \in 0..m /\ k \in 0..(m + 1) /\ k - 1 \in 0..(m + 1) /\ k - 1 # m + 1
      BY <2>1
    <3>2. g[k - 1] = f[k - 1]
      BY <3>1
    <3>3. CASE k = m + 1
      BY <2>1, <3>1, <3>2, <3>3
    <3>4. CASE k # m + 1
      <4>1. k \in 1..m
        BY <2>1, <3>4
      <4>2. g[k] = f[k]
        BY <3>1, <3>4
      <4> QED
        BY <2>2, <3>2, <4>1, <4>2
    <3> QED
      BY <3>3, <3>4
  <2> QED
    BY <2>4, <2>5, <2>6
<1>3. T = Nat
  <2>1. T \subseteq Nat
    OBVIOUS
  <2> HIDE DEF T
  <2> QED
    BY <1>1, <1>2, <2>1, NatSetInduction
<1>4. n \in T
  BY <1>3
<1> QED
  BY <1>4

\* A function on S applied n times from b: the sequence of its values exists.
IsOrbit(f, S, b, n, F) ==
  f \in [0..n -> S] /\ f[0] = b /\ \A k \in 1..n : f[k] = F[f[k - 1]]

LEMMA OrbitExists ==
  ASSUME NEW S, NEW b \in S, NEW n \in Nat, NEW F \in [S -> S]
  PROVE  \E f : IsOrbit(f, S, b, n, F)
<1> DEFINE G == [k \in 1..n |-> F]
<1>1. G \in [1..n -> [S -> S]] /\ \A k \in 1..n : G[k] = F
  OBVIOUS
<1> HIDE DEF G
<1>2. PICK f \in [0..n -> S] : f[0] = b /\ \A k \in 1..n : f[k] = G[k][f[k - 1]]
  BY <1>1, IterationExists
<1> QED
  BY <1>1, <1>2 DEF IsOrbit

=============================================================================
