---------------------------- MODULE SetInduction ----------------------------
(*****************************************************************************)
(* Induction for proofs, stated over sets: to show P for every number or     *)
(* every sequence, take the set of those that satisfy P.  The induction      *)
(* theorems of the library take P itself as a parameter, which the provers   *)
(* cannot instantiate; a set they can.                                       *)
(*****************************************************************************)
EXTENDS Integers, Sequences, FiniteSets, FiniteSetTheorems, SequenceTheorems,
        WellFoundedInduction, TLAPS

\* A set of numbers that has an element has a least one.
LEMMA Least ==
  ASSUME NEW T \in SUBSET Nat, T # {}
  PROVE  \E x \in T : \A y \in T : x <= y
<1> DEFINE R == OpToRel(<, Nat)
<1>1. \A x, y \in Nat : <<x, y>> \in R <=> x < y
  BY DEF OpToRel
<1>2. IsWellFoundedOn(R, Nat)
  BY NatLessThanWellFounded
<1>3. PICK x \in T : \A y \in T : ~ (<<y, x>> \in R)
  <2> HIDE DEF R
  <2>1. QED
    BY <1>2, WFMin
<1>4. \A y \in T : ~ (y < x)
  <2> HIDE DEF R
  <2>1. QED
    BY <1>1, <1>3, Zenon
<1>5. QED
  BY <1>4

\* A set of numbers that has 0 and the successor of each of its members has
\* every number.
LEMMA NumbersByInduction ==
  ASSUME NEW T \in SUBSET Nat, 0 \in T, \A n \in T : n + 1 \in T
  PROVE  T = Nat
<1> SUFFICES ASSUME Nat \ T # {} PROVE FALSE
  OBVIOUS
<1>1. PICK least \in Nat \ T : \A n \in Nat \ T : least <= n
  BY Least
<1>2. least - 1 \in Nat /\ least - 1 \in T
  BY <1>1
<1>3. QED
  BY <1>1, <1>2

\* A set of sequences over X that has the empty one and, with a sequence, every
\* sequence one longer, has every sequence.
LEMMA SequencesByInduction ==
  ASSUME NEW X, NEW T \in SUBSET Seq(X), <<>> \in T,
         \A s \in T, x \in X : Append(s, x) \in T
  PROVE  T = Seq(X)
<1> DEFINE lengths == {n \in Nat : \A s \in Seq(X) : Len(s) = n => s \in T}
<1>1. 0 \in lengths
  BY EmptySeq
<1>2. ASSUME NEW n \in lengths PROVE n + 1 \in lengths
  <2> SUFFICES ASSUME NEW s \in Seq(X), Len(s) = n + 1 PROVE s \in T
    OBVIOUS
  <2>1. s # <<>>
    BY EmptySeq
  <2>2. PICK front \in Seq(X), x \in X : s = Append(front, x)
    BY <2>1, SequenceEmptyOrAppend
  <2>3. Len(front) = n
    BY <2>2, AppendProperties, LenProperties
  <2>4. QED
    BY <2>2, <2>3
<1>3. lengths = Nat
  <2> HIDE DEF lengths
  <2>1. lengths \in SUBSET Nat
    BY DEF lengths
  <2>2. QED
    BY <1>1, <1>2, <2>1, NumbersByInduction
<1>4. \A s \in Seq(X) : s \in T
  BY <1>3, LenProperties
<1>5. QED
  BY <1>4

=============================================================================
