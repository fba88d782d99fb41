------------------------------ MODULE ProofLemmas ------------------------------
(***************************************************************************)
(* Facts about numbers, sequences and sets that the proofs of several      *)
(* components need.                                                        *)
(***************************************************************************)
EXTENDS Naturals, Sequences, FiniteSets, WellFoundedInduction, FiniteSetTheorems, TLAPS

Below == {p \in Nat \X Nat : p[1] < p[2]}

\* A set of numbers that is not empty has a least element: what the searches
\* of the code for the first entry of a table rest on.
LEMMA LeastExists ==
  ASSUME NEW S \in SUBSET Nat, S # {}
  PROVE  \E x \in S : \A y \in S : x <= y
<1>1. IsWellFoundedOn(Below, Nat)
  BY NatLessThanWellFounded DEF OpToRel, Below
<1>2. PICK x \in S : \A y \in S : ~ (<<y, x>> \in Below)
  BY <1>1, WFMin
<1>3. \A y \in S : ~(y < x)
  BY <1>2 DEF Below
<1> QED BY <1>3

\* A message posted to a queue keeps the type of the queue, and comes last.
LEMMA AppendFacts ==
  ASSUME NEW S, NEW q \in Seq(S), NEW m \in S
  PROVE  /\ Append(q, m) \in Seq(S)
         /\ Len(Append(q, m)) = Len(q) + 1
         /\ \A i \in 1 .. Len(q) : Append(q, m)[i] = q[i]
         /\ Append(q, m)[Len(q) + 1] = m
  OBVIOUS

\* A message taken from a queue has its type, and the others move up.
LEMMA TailFacts ==
  ASSUME NEW S, NEW q \in Seq(S), q # << >>
  PROVE  /\ Head(q) \in S /\ Head(q) = q[1] /\ Len(q) >= 1 /\ Len(q) \in Nat
         /\ Tail(q) \in Seq(S)
         /\ Len(Tail(q)) = Len(q) - 1
         /\ \A i \in 1 .. Len(q) - 1 : Tail(q)[i] = q[i + 1]
  OBVIOUS

-----------------------------------------------------------------------------
(* How many messages of a queue are of one kind.                            *)

PlacesOf(q, K) == {i \in DOMAIN q : q[i] \in K}

LEMMA PlacesFinite ==
  ASSUME NEW S, NEW q \in Seq(S), NEW K
  PROVE  IsFiniteSet(PlacesOf(q, K)) /\ Cardinality(PlacesOf(q, K)) \in Nat
<1>1. IsFiniteSet(1 .. Len(q)) /\ PlacesOf(q, K) \subseteq 1 .. Len(q)
  BY FS_Interval DEF PlacesOf
<1> QED BY <1>1, FS_Subset, FS_CardinalityType

LEMMA PostedCount ==
  ASSUME NEW S, NEW q \in Seq(S), NEW m \in S, NEW K
  PROVE  Cardinality(PlacesOf(Append(q, m), K)) = Cardinality(PlacesOf(q, K)) + (IF m \in K THEN 1 ELSE 0)
<1>1. /\ Append(q, m) \in Seq(S) /\ Len(Append(q, m)) = Len(q) + 1
      /\ \A i \in 1 .. Len(q) : Append(q, m)[i] = q[i]
      /\ Append(q, m)[Len(q) + 1] = m
  BY AppendFacts
<1>2. DOMAIN q = 1 .. Len(q) /\ DOMAIN Append(q, m) = 1 .. Len(q) + 1 /\ Len(q) \in Nat
  BY <1>1
<1>3. IsFiniteSet(PlacesOf(q, K)) /\ Cardinality(PlacesOf(q, K)) \in Nat
  BY PlacesFinite
<1>4. CASE m \in K
  <2>1. PlacesOf(Append(q, m), K) = PlacesOf(q, K) \cup {Len(q) + 1} /\ Len(q) + 1 \notin PlacesOf(q, K)
    BY <1>1, <1>2, <1>4 DEF PlacesOf
  <2>2. Cardinality(PlacesOf(q, K) \cup {Len(q) + 1}) = Cardinality(PlacesOf(q, K)) + 1
    BY <1>3, <2>1, FS_AddElement
  <2> QED BY <1>4, <2>1, <2>2
<1>5. CASE m \notin K
  <2>1. PlacesOf(Append(q, m), K) = PlacesOf(q, K)
    BY <1>1, <1>2, <1>5 DEF PlacesOf
  <2> QED BY <1>3, <1>5, <2>1
<1> QED BY <1>4, <1>5

LEMMA TakenCount ==
  ASSUME NEW S, NEW q \in Seq(S), q # << >>, NEW K
  PROVE  Cardinality(PlacesOf(q, K)) = Cardinality(PlacesOf(Tail(q), K)) + (IF Head(q) \in K THEN 1 ELSE 0)
<1>1. /\ Head(q) = q[1] /\ Len(q) >= 1 /\ Len(q) \in Nat
      /\ Tail(q) \in Seq(S) /\ Len(Tail(q)) = Len(q) - 1
      /\ \A i \in 1 .. Len(q) - 1 : Tail(q)[i] = q[i + 1]
  BY TailFacts
<1>2. DOMAIN q = 1 .. Len(q) /\ DOMAIN Tail(q) = 1 .. Len(q) - 1
  BY <1>1
<1> DEFINE A == PlacesOf(Tail(q), K)
           B == {i \in PlacesOf(q, K) : i # 1}
           shift == [i \in A |-> i + 1]
<1>3. /\ IsFiniteSet(A) /\ IsFiniteSet(PlacesOf(q, K)) /\ Cardinality(A) \in Nat
      /\ A \subseteq 1 .. Len(q) - 1 /\ B \subseteq PlacesOf(q, K)
  <2>1. A \subseteq 1 .. Len(q) - 1 /\ B \subseteq PlacesOf(q, K)
    BY <1>2 DEF PlacesOf
  <2>2. /\ IsFiniteSet(A) /\ Cardinality(A) \in Nat
        /\ IsFiniteSet(PlacesOf(q, K))
    BY <1>1, PlacesFinite
  <2> QED BY <2>1, <2>2
<1>4. IsFiniteSet(B)
  BY <1>3, FS_Subset
<1>5. \A i \in A : i + 1 \in B
  BY <1>1, <1>2 DEF PlacesOf
<1>6. \A j \in B : j - 1 \in A /\ (j - 1) + 1 = j
  BY <1>1, <1>2 DEF PlacesOf
<1>7. \A i, j \in A : i + 1 = j + 1 => i = j
  BY <1>3
<1>8. PlacesOf(q, K) = IF Head(q) \in K THEN B \cup {1} ELSE B
  BY <1>1, <1>2 DEF PlacesOf
<1>9. 1 \notin B
  OBVIOUS
<1> HIDE DEF A, B
<1>10. shift \in Injection(A, B) /\ shift \in Surjection(A, B)
  <2>1. shift \in [A -> B]
    BY <1>5
  <2>2. \A i, j \in A : shift[i] = shift[j] => i = j
    BY <1>7
  <2>3. \A j \in B : \E i \in A : shift[i] = j
    BY <1>6
  <2> HIDE DEF shift
  <2> QED BY <2>1, <2>2, <2>3 DEF Injection, IsInjective, Surjection
<1> HIDE DEF shift
<1>11. Cardinality(A) = Cardinality(B)
  BY <1>4, <1>10, FS_Injection
<1>12. Cardinality(B \cup {1}) = Cardinality(B) + 1
  BY <1>4, <1>9, FS_AddElement
<1>13. Cardinality(PlacesOf(q, K)) = Cardinality(A) + (IF Head(q) \in K THEN 1 ELSE 0)
  BY <1>3, <1>8, <1>11, <1>12
<1> QED BY <1>13 DEF A

-----------------------------------------------------------------------------
\* Induction on numbers: from a set of them that is closed.
LEMMA Induction ==
  ASSUME NEW P \in SUBSET Nat, 0 \in P, \A n \in P : n + 1 \in P
  PROVE  \A n \in Nat : n \in P
<1> SUFFICES ASSUME Nat \ P # {} PROVE FALSE
  OBVIOUS
<1>1. PICK n \in Nat \ P : \A m \in Nat \ P : n <= m
  BY LeastExists
<1>2. n # 0 /\ n - 1 \in Nat
  BY <1>1
<1>3. n - 1 \in P
  BY <1>1, <1>2
<1> QED BY <1>1, <1>2, <1>3

-----------------------------------------------------------------------------
(* Recursive functions of numbers: step gives the value for a number and    *)
(* the value before it.                                                     *)

StepsOn(n, S) == [(1 .. n) \X S -> S]
Recursion(n, S, base, step) == {f \in [0 .. n -> S] : f[0] = base /\ \A i \in 1 .. n : f[i] = step[<<i, f[i - 1]>>]}

\* Such a function exists, so that a definition by recursion means one.
LEMMA RecursionExists ==
  ASSUME NEW n \in Nat, NEW S, NEW base \in S, NEW step \in StepsOn(n, S)
  PROVE  \E f : f \in Recursion(n, S, base, step)
<1> USE DEF StepsOn
<1> DEFINE Upto(m) == \E f \in [0 .. m -> S] : f[0] = base /\ \A i \in 1 .. m : f[i] = step[<<i, f[i - 1]>>]
           P == {m \in Nat : m <= n => Upto(m)}
<1>1. Upto(0)
  <2> DEFINE f == [i \in 0 .. 0 |-> base]
  <2>1. f \in [0 .. 0 -> S] /\ f[0] = base
    OBVIOUS
  <2>2. \A i \in 1 .. 0 : f[i] = step[<<i, f[i - 1]>>]
    OBVIOUS
  <2> HIDE DEF f
  <2> QED BY <2>1, <2>2
<1>2. ASSUME NEW m \in Nat, m + 1 <= n, Upto(m) PROVE Upto(m + 1)
  <2>1. PICK f \in [0 .. m -> S] : f[0] = base /\ \A i \in 1 .. m : f[i] = step[<<i, f[i - 1]>>]
    BY <1>2
  <2> DEFINE g == [i \in 0 .. m + 1 |-> IF i = m + 1 THEN step[<<m + 1, f[m]>>] ELSE f[i]]
  <2>2. f[m] \in S /\ m + 1 \in 1 .. n
    BY <1>2, <2>1
  <2>3. step[<<m + 1, f[m]>>] \in S
    BY <2>2
  <2>4. \A i \in 0 .. m + 1 : i # m + 1 => i \in 0 .. m
    OBVIOUS
  <2>5. g \in [0 .. m + 1 -> S]
    BY <2>3, <2>4
  <2>6. g[0] = base
    BY <2>1
  <2>7. ASSUME NEW i \in 1 .. m + 1 PROVE g[i] = step[<<i, g[i - 1]>>]
    <3>1. i \in 0 .. m + 1 /\ i - 1 \in 0 .. m + 1 /\ i - 1 # m + 1
      OBVIOUS
    <3>2. g[i - 1] = f[i - 1]
      BY <3>1
    <3>3. CASE i = m + 1
      BY <3>1, <3>2, <3>3
    <3>4. CASE i # m + 1
      <4>1. i \in 1 .. m
        BY <3>4
      <4>2. g[i] = f[i]
        BY <3>1, <3>4
      <4> QED BY <2>1, <3>2, <4>1, <4>2
    <3> QED BY <3>3, <3>4
  <2> QED BY <2>5, <2>6, <2>7
<1> HIDE DEF Upto
<1>3. 0 \in P /\ \A m \in P : m + 1 \in P
  BY <1>1, <1>2
<1>4. n \in P
  BY <1>3, Induction
<1>5. Upto(n)
  BY <1>4
<1> QED BY <1>5 DEF Upto, Recursion
================================================================================
