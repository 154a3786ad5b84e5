---------------------------- MODULE Least_proofs ----------------------------
(* The fact the first-fit searches of the heap and the file system rest on. *)
EXTENDS Least, WellFoundedInduction, TLAPS

(* A nonempty set of naturals has a least element: what the loops over the *)
(* tables that stop at the first hit rely on.                              *)
LEMMA LeastExists ==
    ASSUME NEW S \in SUBSET Nat, S # {}
    PROVE  \E x \in S : IsLeast(x, S)
<1>. DEFINE R == OpToRel(<, Nat)
<1>1. IsWellFoundedOn(R, Nat)
    BY NatLessThanWellFounded
<1>2. \A y, x \in Nat : y < x => <<y, x>> \in R
    BY DEF OpToRel
<1>. HIDE DEF R
<1>3. \E x \in S : \A y \in S : ~(<<y, x>> \in R)
    BY <1>1, WFMin
<1>4. PICK x \in S : \A y \in S : ~(<<y, x>> \in R)
    BY <1>3
<1>5. ASSUME NEW y \in S
      PROVE  x <= y
    <2>1. x \in Nat /\ y \in Nat /\ ~(y < x)
        BY <1>2, <1>4
    <2>. QED  BY <2>1
<1>. QED  BY <1>5 DEF IsLeast
=============================================================================
