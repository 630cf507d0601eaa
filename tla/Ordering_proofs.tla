-------------------------- MODULE Ordering_proofs --------------------------
(***************************************************************************)
(* Counting puts a finite set into its order; a set of numbers has a least *)
(* one, and one that has each next number has them all.  For any sets,     *)
(* orders and sequences.                                                   *)
(***************************************************************************)
EXTENDS Ordering, FiniteSetTheorems, SequenceTheorems, TLAPS

(* A set of numbers that is not empty has a least one.                     *)
LEMMA Least ==
    ASSUME NEW T \in SUBSET Nat, T # {}
    PROVE  \E x \in T : \A y \in T : x <= y
<1> DEFINE R == OpToRel(<, Nat)
<1>1. \A x, y \in Nat : y < x => <<y, x>> \in R
  BY Zenon DEF OpToRel
<1>2. IsWellFoundedOn(R, Nat)
  BY NatLessThanWellFounded
<1> HIDE DEF R
<1>3. PICK x \in T : \A y \in T : ~(<<y, x>> \in R)
  BY <1>2, WFMin
<1>4. \A y \in T : ~(y < x)
  BY <1>1, <1>3, Zenon
<1> QED
  BY <1>4

(* Counting up to a number.                                                *)
LEMMA UpTo ==
    ASSUME NEW n \in Nat, NEW S, 0 \in S,
           \A i \in 1..n : i - 1 \in S => i \in S
    PROVE  \A i \in 0..n : i \in S
<1> DEFINE T == {i \in 0..n : i \notin S}
<1> SUFFICES ASSUME T # {} PROVE FALSE
  OBVIOUS
<1>1. T \in SUBSET Nat
  OBVIOUS
<1>2. PICK i \in T : \A j \in T : i <= j
  BY <1>1, Least
<1>3. i \in 1..n /\ i - 1 \notin T /\ i - 1 \in 0..n
  BY <1>1, <1>2
<1> QED
  BY <1>2, <1>3

(* A strict order in which any two elements can be compared.               *)
StrictlyOrders(R, S) ==
    /\ \A x \in S : <<x, x>> \notin R
    /\ \A x, y \in S : x # y => <<x, y>> \in R \/ <<y, x>> \in R
    /\ \A x, y, z \in S : <<x, y>> \in R /\ <<y, z>> \in R => <<x, z>> \in R

Below(R, S, x) == {y \in S : <<y, x>> \in R}

(* An element has one more below it than those that come before it.        *)
LEMMA RanksGrow ==
    ASSUME NEW S, IsFiniteSet(S), NEW R, StrictlyOrders(R, S),
           NEW x \in S
    PROVE  /\ Cardinality(Below(R, S, x)) \in 0..(Cardinality(S) - 1)
           /\ \A y \in S : <<y, x>> \in R =>
                 Cardinality(Below(R, S, y)) < Cardinality(Below(R, S, x))
<1>1. \A T \in SUBSET S :
         IsFiniteSet(T) /\ Cardinality(T) \in Nat /\ Cardinality(T) <= Cardinality(S)
  BY FS_Subset, FS_CardinalityType
<1>2. ASSUME NEW T \in SUBSET S, NEW U \in SUBSET T, U # T
      PROVE  Cardinality(U) < Cardinality(T)
  BY <1>1, <1>2, FS_Subset
<1>3. Below(R, S, x) \in SUBSET S /\ x \notin Below(R, S, x)
  BY DEF Below, StrictlyOrders
<1>4. Cardinality(S) \in Nat /\ Cardinality(Below(R, S, x)) < Cardinality(S)
  BY <1>1, <1>2, <1>3
<1>5. ASSUME NEW y \in S, <<y, x>> \in R
      PROVE  Cardinality(Below(R, S, y)) < Cardinality(Below(R, S, x))
  <2>1. Below(R, S, y) \in SUBSET Below(R, S, x)
    BY <1>5 DEF Below, StrictlyOrders
  <2>2. y \in Below(R, S, x) /\ y \notin Below(R, S, y)
    BY <1>5 DEF Below, StrictlyOrders
  <2> QED
    BY <1>2, <1>3, <2>1, <2>2
<1> QED
  BY <1>1, <1>3, <1>4, <1>5

(* Counting what comes before puts a finite set into its order.            *)
LEMMA InOrderIs ==
    ASSUME NEW S, IsFiniteSet(S), NEW R, StrictlyOrders(R, S)
    PROVE  /\ Cardinality(S) \in Nat
           /\ InOrder(S, R) \in [1..Cardinality(S) -> S]
           /\ \A x \in S : \E n \in 1..Cardinality(S) : InOrder(S, R)[n] = x
           /\ \A m, n \in 1..Cardinality(S) :
                 m < n => <<InOrder(S, R)[m], InOrder(S, R)[n]>> \in R
<1> DEFINE q == InOrder(S, R)
           size == Cardinality(S)
           rank == [x \in S |-> Cardinality(Below(R, S, x)) + 1]
           below(n, x) == Cardinality(Below(R, S, x)) = n - 1
<1>1. size \in Nat
  BY FS_CardinalityType
<1>2. \A x \in S : /\ Cardinality(Below(R, S, x)) \in 0..(size - 1)
                   /\ \A y \in S : <<y, x>> \in R =>
                         Cardinality(Below(R, S, y)) < Cardinality(Below(R, S, x))
  BY RanksGrow
<1>3. q = [n \in 1..size |-> CHOOSE x \in S : below(n, x)]
  BY Zenon DEF InOrder, Below
<1> HIDE DEF size, q
<1>4. rank \in [S -> 1..size]
  BY <1>1, <1>2
<1>5. \A x, y \in S : <<y, x>> \in R => rank[y] < rank[x]
  BY <1>1, <1>2
<1>6. \A x \in S : Cardinality(Below(R, S, x)) = rank[x] - 1
  BY <1>1, <1>2
<1> HIDE DEF rank, below
<1>7. \A x, y \in S : rank[x] = rank[y] => x = y
  <2> SUFFICES ASSUME NEW x \in S, NEW y \in S, rank[x] = rank[y], x # y
               PROVE  FALSE
    OBVIOUS
  <2>1. <<x, y>> \in R \/ <<y, x>> \in R
    BY DEF StrictlyOrders
  <2>2. rank[x] < rank[y] \/ rank[y] < rank[x]
    BY <1>5, <2>1
  <2>3. rank[x] \in 1..size /\ rank[y] \in 1..size
    BY <1>4
  <2> QED
    BY <1>1, <2>2, <2>3
<1>8. rank \in Injection(S, 1..size)
  BY <1>4, <1>7 DEF Injection, IsInjective
<1>9. rank \in Surjection(S, 1..size)
  BY <1>1, <1>8, FS_Interval, FS_Injection DEF size
<1>10. \A n \in 1..size : \E x \in S : rank[x] = n
  BY <1>9 DEF Surjection
<1>11. ASSUME NEW n \in 1..size
       PROVE  q[n] \in S /\ rank[q[n]] = n
  <2>1. PICK x \in S : rank[x] = n
    BY <1>10
  <2>2. below(n, x)
    BY <1>6, <2>1 DEF below
  <2>3. q[n] \in S /\ below(n, q[n])
    BY <1>3, <2>2
  <2>4. rank[q[n]] - 1 = n - 1 /\ rank[q[n]] \in 1..size
    BY <1>4, <1>6, <2>3 DEF below
  <2> QED
    BY <1>1, <2>3, <2>4
<1>12. q \in [1..size -> S]
  BY <1>11, <1>3
<1>13. ASSUME NEW x \in S
       PROVE  \E n \in 1..size : q[n] = x
  <2>1. rank[x] \in 1..size
    BY <1>4
  <2>2. q[rank[x]] \in S /\ rank[q[rank[x]]] = rank[x]
    BY <1>11, <2>1
  <2> QED
    BY <1>7, <2>1, <2>2
<1>14. ASSUME NEW m \in 1..size, NEW n \in 1..size, m < n
       PROVE  <<q[m], q[n]>> \in R
  <2>1. q[m] \in S /\ rank[q[m]] = m /\ q[n] \in S /\ rank[q[n]] = n
    BY <1>11
  <2>2. q[m] # q[n]
    BY <1>1, <1>14, <2>1
  <2>3. <<q[n], q[m]>> \notin R
    <3>1. ~(n < m)
      BY <1>1, <1>14
    <3> QED
      BY <1>5, <2>1, <3>1
  <2> QED
    BY <2>1, <2>2, <2>3 DEF StrictlyOrders
<1> QED
  BY <1>1, <1>12, <1>13, <1>14 DEF size, q

(* An interval of numbers has as many as its bound says.                   *)
LEMMA Counting ==
    ASSUME NEW n \in Nat
    PROVE  IsFiniteSet(1..n) /\ Cardinality(1..n) = n
<1>1. IsFiniteSet(1..n)
  BY FS_Interval
<1>2. Cardinality(1..n) = IF 1 > n THEN 0 ELSE n - 1 + 1
  BY FS_Interval
<1> QED
  BY <1>1, <1>2

(* Numbers in ascending order.                                             *)
LEMMA AscendingIs ==
    ASSUME NEW S \in SUBSET Nat, IsFiniteSet(S)
    PROVE  /\ Cardinality(S) \in Nat
           /\ Ascending(S) \in [1..Cardinality(S) -> S]
           /\ \A x \in S : \E n \in 1..Cardinality(S) : Ascending(S)[n] = x
           /\ \A m, n \in 1..Cardinality(S) :
                 m < n => Ascending(S)[m] < Ascending(S)[n]
<1> DEFINE R == {p \in S \X S : p[1] < p[2]}
<1>1. \A x, y \in S : <<x, y>> \in R <=> x < y
  OBVIOUS
<1>2. Ascending(S) = InOrder(S, R)
  BY DEF Ascending
<1> HIDE DEF R
<1>3. StrictlyOrders(R, S)
  BY <1>1 DEF StrictlyOrders
<1> DEFINE q == InOrder(S, R)
<1>4. /\ Cardinality(S) \in Nat
      /\ q \in [1..Cardinality(S) -> S]
      /\ \A x \in S : \E n \in 1..Cardinality(S) : q[n] = x
      /\ \A m, n \in 1..Cardinality(S) : m < n => <<q[m], q[n]>> \in R
  BY <1>3, InOrderIs
<1> HIDE DEF q
<1>5. \A m, n \in 1..Cardinality(S) : m < n => q[m] < q[n]
  BY <1>1, <1>4
<1> QED
  BY <1>2, <1>4, <1>5 DEF q

(* What is at some places of a sequence, in the order of the sequence.     *)
LEMMA AtIs ==
    ASSUME NEW T, NEW s \in Seq(T), NEW places \in SUBSET (1..Len(s))
    PROVE  /\ At(s, places) \in Seq(T)
           /\ Len(At(s, places)) \in Nat
           /\ \E f \in [1..Len(At(s, places)) -> places] :
                 /\ \A n \in 1..Len(At(s, places)) : At(s, places)[n] = s[f[n]]
                 /\ \A i \in places : \E n \in 1..Len(At(s, places)) : f[n] = i
                 /\ \A m, n \in 1..Len(At(s, places)) : m < n => f[m] < f[n]
<1> DEFINE f == Ascending(places)
           size == Cardinality(places)
<1>1. Len(s) \in Nat /\ s \in [1..Len(s) -> T]
  BY LenProperties
<1>2. IsFiniteSet(places) /\ places \in SUBSET Nat
  <2>1. IsFiniteSet(1..Len(s))
    BY <1>1, Counting
  <2>2. IsFiniteSet(places)
    BY <2>1, FS_Subset, Zenon
  <2>3. places \in SUBSET Nat
    BY <1>1
  <2> QED
    BY <2>2, <2>3
<1>3. /\ size \in Nat /\ f \in [1..size -> places]
      /\ \A i \in places : \E n \in 1..size : f[n] = i
      /\ \A m, n \in 1..size : m < n => f[m] < f[n]
  BY <1>2, AscendingIs
<1>4. At(s, places) = [n \in 1..size |-> s[f[n]]]
  BY DEF At
<1> HIDE DEF f, size
<1>5. \A n \in 1..size : s[f[n]] \in T
  BY <1>1, <1>3
<1>6. At(s, places) \in Seq(T) /\ Len(At(s, places)) = size
  <2> DEFINE t == [n \in 1..size |-> s[f[n]]]
  <2>1. t \in Seq(T) /\ DOMAIN t = 1..size
    BY <1>3, <1>5, IsASeq
  <2> HIDE DEF t
  <2>2. Len(t) = size
    BY <1>3, <2>1, LenProperties
  <2> QED
    BY <1>4, <2>1, <2>2 DEF t
<1>7. \A n \in 1..size : At(s, places)[n] = s[f[n]]
  BY <1>4
<1> QED
  BY <1>3, <1>6, <1>7
=============================================================================
