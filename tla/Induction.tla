------------------------------- MODULE Induction -----------------------------
(***************************************************************************)
(* Induction over an interval of the natural numbers, for a property given *)
(* as the set of the numbers that have it.  The library's theorems take    *)
(* the property as an operator, which the provers cannot instantiate; this *)
(* one rests on the well-foundedness of < alone.  The proofs about the     *)
(* functions that the model defines by recursion cite it.                  *)
(***************************************************************************)
EXTENDS Integers, WellFoundedInduction, TLAPS

\* What 0 has, and passes on from each number below n to the next, all numbers
\* up to n have.
LEMMA IntervalInduction ==
  ASSUME NEW n \in Nat, NEW S,
         0 \in S,
         \A k \in 0 .. n - 1 : k \in S => k + 1 \in S
  PROVE  \A k \in 0 .. n : k \in S
  <1> DEFINE Less == {p \in Nat \X Nat : p[1] < p[2]}
             Without == {k \in 0 .. n : k \notin S}
  <1> SUFFICES ASSUME Without # {} PROVE FALSE OBVIOUS
  <1>1. IsWellFoundedOn(Less, Nat) BY NatLessThanWellFounded DEF OpToRel
  <1>2. PICK k \in Without : \A j \in Without : <<j, k>> \notin Less
    <2>1. Without \subseteq Nat OBVIOUS
    <2> HIDE DEF Less, Without
    <2> QED BY <1>1, <2>1, WFMin
  <1>3. \A j \in Without : ~(j < k)
    <2>1. \A j \in Without : <<j, k>> \in Nat \X Nat OBVIOUS
    <2> QED BY <1>2, <2>1
  <1>4. k \in 1 .. n BY <1>2
  <1>5. k - 1 \in 0 .. n - 1 /\ k - 1 \in 0 .. n /\ k - 1 < k /\ (k - 1) + 1 = k
    BY <1>4
  <1>6. k - 1 \in S BY <1>3, <1>5
  <1>7. k \in S BY <1>5, <1>6
  <1> QED BY <1>2, <1>7
==============================================================================
