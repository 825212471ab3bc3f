------------------------------ MODULE LeastNumbers ------------------------------
(***************************************************************************)
(* Induction over the lines of a file or the words of a command line: of   *)
(* the places where a claim fails there would be a first one.              *)
(***************************************************************************)
EXTENDS Naturals, WellFoundedInduction, TLAPS

(* Every set of numbers that has one has a least one.                      *)
LEMMA LeastElement ==
    ASSUME NEW T \in SUBSET Nat, T # {}
    PROVE  \E m \in T : \A k \in T : m <= k
  <1> DEFINE R == OpToRel(<, Nat)
  <1>1. IsWellFoundedOn(R, Nat)
    BY NatLessThanWellFounded
  <1>2. \A x, y \in Nat : x < y => <<x, y>> \in R
    BY DEF OpToRel
  <1> HIDE DEF R
  <1>3. PICK m \in T : \A y \in T : ~ (<<y, m>> \in R)
    BY <1>1, WFMin
  <1>4. \A k \in T : ~(k < m)
    BY <1>2, <1>3
  <1> QED BY <1>4

(* What holds at 0 and is handed on holds up to n.                         *)
LEMMA UpTo ==
    ASSUME NEW n \in Nat, NEW T \in SUBSET (0 .. n), 0 \in T,
           \A k \in 0 .. n - 1 : k \in T => k + 1 \in T
    PROVE  T = 0 .. n
  <1> SUFFICES ASSUME (0 .. n) \ T # {} PROVE FALSE
    OBVIOUS
  <1>1. (0 .. n) \ T \in SUBSET Nat
    OBVIOUS
  <1>2. PICK m \in (0 .. n) \ T : \A k \in (0 .. n) \ T : m <= k
    BY <1>1, LeastElement
  <1>3. m - 1 \in 0 .. n - 1
    BY <1>2
  <1>4. m - 1 \in T
    BY <1>2, <1>3
  <1>5. (m - 1) + 1 \in T
    BY <1>3, <1>4
  <1> QED BY <1>2, <1>5

LEMMA GreatestElement ==
    ASSUME NEW n \in Nat, NEW T \in SUBSET (0 .. n), T # {}
    PROVE  \E m \in T : \A k \in T : k <= m
  <1> DEFINE U == {b \in 0 .. n : \A k \in T : k <= b}
  <1>1. n \in U /\ U \in SUBSET Nat
    OBVIOUS
  <1>2. PICK m \in U : \A b \in U : m <= b
    <2> HIDE DEF U
    <2> QED BY <1>1, LeastElement
  <1>3. m \in T
    <2> SUFFICES ASSUME m \notin T PROVE FALSE
      OBVIOUS
    <2>1. m \in 0 .. n /\ \A k \in T : k \in 0 .. n /\ k <= m /\ k # m
      OBVIOUS
    <2>2. \A k \in T : k <= m - 1
      BY <2>1
    <2>3. PICK k \in T : TRUE
      OBVIOUS
    <2>4. m - 1 \in 0 .. n
      <3>1. k <= m - 1 /\ k \in 0 .. n
        BY <2>1, <2>2
      <3> QED BY <2>1, <3>1
    <2>5. m - 1 \in U
      BY <2>2, <2>4
    <2>6. ~(m <= m - 1)
      BY <2>1
    <2> QED BY <1>2, <2>5, <2>6
  <1> QED BY <1>2, <1>3

=============================================================================
