--------------------------- MODULE DequeTheorems ---------------------------
(***************************************************************************)
(* What the closed-form queue operators of Deques return, joins and sums   *)
(* of sequences, induction over finite sets, and division.                 *)
(***************************************************************************)
EXTENDS Deques, FiniteSetTheorems, SequenceTheorems, TLAPS

(* Ranks number the members of a finite set of positions 1, 2, 3, ...: the *)
(* j-th member exists for each j up to the size of the set.                *)
LEMMA NthProperties ==
    ASSUME NEW n \in Nat, NEW K \in SUBSET (1..n)
    PROVE  /\ IsFiniteSet(K)
           /\ Cardinality(K) \in Nat
           /\ \A j \in 1..Cardinality(K) : Nth(K, j) \in K /\ PlaceIn(K, Nth(K, j)) = j
           /\ \A i \in K : PlaceIn(K, i) \in 1..Cardinality(K) /\ Nth(K, PlaceIn(K, i)) = i
<1> DEFINE Upto(i) == { k \in K : k <= i }
           c == Cardinality(K)
<1>1. IsFiniteSet(K) /\ c \in Nat
  <2>1. IsFiniteSet(1..n)
    BY FS_Interval
  <2>2. IsFiniteSet(K)
    BY <2>1, FS_Subset
  <2> QED BY <2>2, FS_CardinalityType
<1>i. \A i \in K : i \in Int
  OBVIOUS
<1>2. ASSUME NEW i \in K
      PROVE  IsFiniteSet(Upto(i)) /\ PlaceIn(K, i) \in 1..c
  <2>1. IsFiniteSet(Upto(i)) /\ Cardinality(Upto(i)) <= c
    BY <1>1, FS_Subset
  <2>2. Cardinality(Upto(i)) \in Nat /\ Cardinality(Upto(i)) # 0
    <3>1. i \in Upto(i)
      OBVIOUS
    <3> QED BY <2>1, <3>1, FS_CardinalityType, FS_EmptySet
  <2> QED BY <1>1, <2>1, <2>2 DEF PlaceIn
<1>3. ASSUME NEW i \in K, NEW k \in K, i < k
      PROVE  PlaceIn(K, i) < PlaceIn(K, k)
  <2>1. Upto(i) \subseteq Upto(k) /\ k \in Upto(k) /\ k \notin Upto(i)
    <3>1. ASSUME NEW x \in K, x <= i PROVE x <= k
      <4>1. x \in Int /\ i \in Int /\ k \in Int
        BY <1>i
      <4> QED BY <1>3, <3>1, <4>1
    <3>2. k <= k /\ ~ (k <= i)
      BY <1>3, <1>i
    <3> QED BY <3>1, <3>2
  <2>2. Upto(i) # Upto(k)
    BY <2>1
  <2>3. Cardinality(Upto(i)) <= Cardinality(Upto(k)) /\ Cardinality(Upto(i)) # Cardinality(Upto(k))
    BY <1>2, <2>1, <2>2, FS_Subset
  <2> QED BY <1>2, <2>3 DEF PlaceIn
<1>4. \A i, k \in K : PlaceIn(K, i) = PlaceIn(K, k) => i = k
  <2> SUFFICES ASSUME NEW i \in K, NEW k \in K, i # k PROVE PlaceIn(K, i) # PlaceIn(K, k)
    OBVIOUS
  <2>1. i < k \/ k < i
    BY <1>i
  <2>2. \A m \in 1..c : m \in Int
    BY <1>1
  <2>3. PlaceIn(K, i) \in 1..c /\ PlaceIn(K, k) \in 1..c
    BY <1>2
  <2> HIDE DEF c
  <2> QED BY <1>3, <2>1, <2>2, <2>3
<1> DEFINE f == [ i \in K |-> PlaceIn(K, i) ]
<1>5. f \in Injection(K, 1..c)
  BY <1>2, <1>4 DEF Injection, IsInjective
<1>6. f \in Surjection(K, 1..c)
  <2>1. IsFiniteSet(1..c) /\ Cardinality(1..c) = c
    BY <1>1, FS_Interval
  <2> QED BY <1>5, <2>1, FS_Injection
<1>7. \A j \in 1..c : \E i \in K : PlaceIn(K, i) = j
  BY <1>6 DEF Surjection
<1> QED BY <1>1, <1>2, <1>4, <1>7 DEF Nth

(* The elements of q at the positions I, in order.                         *)
LEMMA AtProperties ==
    ASSUME NEW T, NEW q \in Seq(T), NEW I \in SUBSET (1..Len(q))
    PROVE  /\ At(q, I) \in Seq(T)
           /\ Len(At(q, I)) = Cardinality(I)
           /\ Range(At(q, I)) = { q[i] : i \in I }
           /\ Injective(q) => Injective(At(q, I))
<1> DEFINE c == Cardinality(I)
<1>1. /\ c \in Nat
      /\ \A k \in 1..c : Nth(I, k) \in I /\ PlaceIn(I, Nth(I, k)) = k
      /\ \A i \in I : PlaceIn(I, i) \in 1..c /\ Nth(I, PlaceIn(I, i)) = i
  <2>1. Len(q) \in Nat
    OBVIOUS
  <2> QED BY <2>1, NthProperties
<1>2. At(q, I) = [ k \in 1..c |-> q[Nth(I, k)] ]
  BY DEF At
<1>3. \A i \in I : i \in 1..Len(q) /\ q[i] \in T
  OBVIOUS
<1> HIDE DEF c
<1>4. At(q, I) \in Seq(T) /\ Len(At(q, I)) = c
  <2>1. \A k \in 1..c : q[Nth(I, k)] \in T
    BY <1>1, <1>3
  <2> QED BY <1>1, <1>2, <2>1
<1>5. Range(At(q, I)) \subseteq { q[i] : i \in I }
  <2>1. \A k \in 1..c : q[Nth(I, k)] \in { q[i] : i \in I }
    BY <1>1
  <2> QED BY <1>2, <2>1 DEF Range
<1>6. \A i \in I : q[i] \in Range(At(q, I))
  <2> TAKE i \in I
  <2>1. PlaceIn(I, i) \in 1..c /\ At(q, I)[PlaceIn(I, i)] = q[i]
    BY <1>1, <1>2
  <2> QED BY <1>2, <2>1 DEF Range
<1>7. ASSUME Injective(q) PROVE Injective(At(q, I))
  <2> SUFFICES ASSUME NEW j \in 1..c, NEW k \in 1..c, q[Nth(I, j)] = q[Nth(I, k)]
               PROVE  j = k
    BY <1>2, <1>4 DEF Injective
  <2>1. Nth(I, j) = Nth(I, k)
    BY <1>1, <1>3, <1>7 DEF Injective
  <2> QED BY <1>1, <2>1
<1> QED BY <1>4, <1>5, <1>6, <1>7 DEF c

(* Filtering a queue keeps exactly the wanted elements, and no element     *)
(* becomes a duplicate by it.                                              *)
LEMMA KeepProperties ==
    ASSUME NEW T, NEW q \in Seq(T), NEW S
    PROVE  /\ Keep(q, S) \in Seq(T)
           /\ Len(Keep(q, S)) = Cardinality(Positions(q, S))
           /\ Range(Keep(q, S)) = Range(q) \cap S
           /\ Injective(q) => Injective(Keep(q, S))
<1>1. Positions(q, S) \in SUBSET (1..Len(q))
  BY DEF Positions
<1>2. Range(q) \cap S = { q[i] : i \in Positions(q, S) }
  BY DEF Positions, Range
<1> QED BY <1>1, <1>2, AtProperties DEF Keep

(* What is kept stays in order.                                            *)
LEMMA KeepOrder ==
    ASSUME NEW T, NEW q \in Seq(T), NEW S
    PROVE  \E at \in [1..Len(Keep(q, S)) -> 1..Len(q)] :
              /\ \A j \in 1..Len(Keep(q, S)) : Keep(q, S)[j] = q[at[j]]
              /\ \A i, j \in 1..Len(Keep(q, S)) : i < j => at[i] < at[j]
<1> DEFINE K == Positions(q, S)
           c == Cardinality(K)
           at == [ j \in 1..c |-> Nth(K, j) ]
<1>1. K \in SUBSET (1..Len(q)) /\ Len(q) \in Nat
  BY DEF Positions
<1>2. /\ IsFiniteSet(K) /\ c \in Nat
      /\ \A j \in 1..c : Nth(K, j) \in K /\ PlaceIn(K, Nth(K, j)) = j
  <2> HIDE DEF K
  <2> QED BY <1>1, NthProperties
<1>3. Keep(q, S) = [ j \in 1..c |-> q[Nth(K, j)] ] /\ Len(Keep(q, S)) = c
  BY KeepProperties DEF Keep, At
<1> HIDE DEF K
<1>4. ASSUME NEW i \in K, NEW j \in K, i <= j
      PROVE  PlaceIn(K, i) <= PlaceIn(K, j)
  <2> DEFINE A == { k \in K : k <= i }
             B == { k \in K : k <= j }
  <2>1. IsFiniteSet(B) /\ A \in SUBSET B
    <3>1. IsFiniteSet(B)
      BY <1>2, FS_Subset
    <3>2. \A k \in K : k \in Int
      BY <1>1
    <3> QED BY <1>4, <3>1, <3>2
  <2>2. Cardinality(A) <= Cardinality(B)
    <3> HIDE DEF A, B
    <3> QED BY <2>1, FS_Subset
  <2> QED BY <2>2 DEF PlaceIn
<1>5. ASSUME NEW i \in 1..c, NEW j \in 1..c, i < j
      PROVE  Nth(K, i) < Nth(K, j)
  <2>0. \A k \in K : k \in Int
    BY <1>1
  <2>1. /\ Nth(K, i) \in K /\ Nth(K, i) \in Int /\ PlaceIn(K, Nth(K, i)) = i
        /\ Nth(K, j) \in K /\ Nth(K, j) \in Int /\ PlaceIn(K, Nth(K, j)) = j
    BY <1>2, <2>0
  <2>2. CASE Nth(K, j) <= Nth(K, i)
    <3>1. PlaceIn(K, Nth(K, j)) <= PlaceIn(K, Nth(K, i))
      BY <1>4, <2>1, <2>2
    <3> QED BY <1>5, <2>1, <3>1
  <2> QED BY <2>1, <2>2
<1>6. at \in [1..c -> 1..Len(q)]
  BY <1>1, <1>2
<1>7. /\ \A j \in 1..c : Keep(q, S)[j] = q[at[j]]
      /\ \A i, j \in 1..c : i < j => at[i] < at[j]
  BY <1>3, <1>5
<1> HIDE DEF at
<1> QED BY <1>3, <1>6, <1>7

(* Filtering a queue with one more element at its end.                     *)
LEMMA KeepAppend ==
    ASSUME NEW T, NEW q \in Seq(T), NEW S, NEW e \in T
    PROVE  Keep(Append(q, e), S) = IF e \in S THEN Append(Keep(q, S), e) ELSE Keep(q, S)
<1> DEFINE p == Append(q, e)
           n == Len(q) + 1
           K == Positions(q, S)
           L == Positions(p, S)
           c == Cardinality(K)
<1>1. /\ p \in Seq(T) /\ Len(p) = n /\ Len(q) \in Nat /\ p[n] = e
      /\ \A i \in 1..Len(q) : p[i] = q[i]
  OBVIOUS
<1>2. L = IF e \in S THEN K \cup {n} ELSE K
  <2>1. \A i \in 1..n : i \in 1..Len(q) \/ i = n
    BY <1>1
  <2>2. 1..Len(q) \subseteq 1..n /\ n \in 1..n /\ n \notin 1..Len(q)
    BY <1>1
  <2> HIDE DEF p, n
  <2> QED BY <1>1, <2>1, <2>2 DEF Positions
<1>3. K \in SUBSET (1..Len(q)) /\ L \in SUBSET (1..n) /\ n \notin K
  BY <1>1 DEF Positions
<1>4. /\ IsFiniteSet(K) /\ c \in Nat
      /\ \A j \in 1..c : Nth(K, j) \in K /\ PlaceIn(K, Nth(K, j)) = j
      /\ \A i \in K : PlaceIn(K, i) \in 1..c /\ Nth(K, PlaceIn(K, i)) = i
  <2> HIDE DEF K
  <2> QED BY <1>1, <1>3, NthProperties
<1>5. /\ Cardinality(L) \in Nat
      /\ \A i \in L : PlaceIn(L, i) \in 1..Cardinality(L) /\ Nth(L, PlaceIn(L, i)) = i
  <2> HIDE DEF L, n
  <2>1. n \in Nat
    BY <1>1 DEF n
  <2> QED BY <1>3, <2>1, NthProperties
<1>6. /\ Keep(q, S) = [ j \in 1..c |-> q[Nth(K, j)] ]
      /\ Keep(p, S) = [ j \in 1..Cardinality(L) |-> p[Nth(L, j)] ]
  BY DEF Keep, At
<1> HIDE DEF p, K, L, n
<1>7. CASE e \notin S
  <2>1. \A j \in 1..c : p[Nth(K, j)] = q[Nth(K, j)]
    BY <1>1, <1>3, <1>4
  <2> QED BY <1>2, <1>6, <1>7, <2>1 DEF p
<1>8. CASE e \in S
  <2>1. L = K \cup {n} /\ Cardinality(L) = c + 1
    BY <1>2, <1>3, <1>4, <1>8, FS_AddElement
  <2>2. \A i \in K : PlaceIn(L, i) = PlaceIn(K, i)
    <3>1. \A i \in K : { k \in L : k <= i } = { k \in K : k <= i }
      BY <1>1, <1>3, <2>1 DEF n
    <3> QED BY <3>1 DEF PlaceIn
  <2>3. PlaceIn(L, n) = c + 1
    <3>1. { k \in L : k <= n } = L
      BY <1>1, <1>3, <2>1 DEF n
    <3> QED BY <2>1, <3>1 DEF PlaceIn
  <2>4. ASSUME NEW j \in 1..c PROVE Nth(L, j) = Nth(K, j)
    <3>1. Nth(K, j) \in L /\ PlaceIn(L, Nth(K, j)) = j
      BY <1>4, <2>1, <2>2
    <3> QED BY <1>5, <3>1
  <2>5. Nth(L, c + 1) = n
    BY <1>5, <2>1, <2>3
  <2>6. \A j \in 1..c : p[Nth(L, j)] = q[Nth(K, j)]
    BY <1>1, <1>3, <1>4, <2>4
  <2>7. p[Nth(L, c + 1)] = e
    BY <1>1, <2>5
  <2>8. Keep(q, S) \in Seq(T) /\ Len(Keep(q, S)) = c
    BY KeepProperties DEF K
  <2>9. Append(Keep(q, S), e) = [ j \in 1..c + 1 |-> IF j = c + 1 THEN e ELSE q[Nth(K, j)] ]
    <3> DEFINE k == Keep(q, S)
    <3>1. /\ k \in Seq(T) /\ Len(k) = c /\ DOMAIN k = 1..c
          /\ \A j \in 1..c : k[j] = q[Nth(K, j)]
      BY <1>6, <2>8
    <3> HIDE DEF k
    <3>2. /\ Append(k, e) \in Seq(T) /\ Len(Append(k, e)) = c + 1
          /\ DOMAIN Append(k, e) = 1..c + 1
      BY <1>4, <3>1
    <3>3. \A j \in 1..c + 1 : Append(k, e)[j] = IF j = c + 1 THEN e ELSE k[j]
      BY <1>4, <3>1
    <3>4. \A j \in 1..c + 1 : j # c + 1 => j \in 1..c
      BY <1>4
    <3>5. Append(k, e) = [ j \in 1..c + 1 |-> Append(k, e)[j] ]
      <4>1. \A x \in Seq(T) : x = [ j \in 1..Len(x) |-> x[j] ]
        OBVIOUS
      <4> QED BY <3>2, <4>1
    <3> QED BY <3>1, <3>3, <3>4, <3>5 DEF k
  <2>10. \A j \in 1..c + 1 : p[Nth(L, j)] = IF j = c + 1 THEN e ELSE q[Nth(K, j)]
    <3>1. \A j \in 1..c + 1 : j # c + 1 => j \in 1..c
      BY <1>4
    <3> QED BY <2>6, <2>7, <3>1
  <2> QED BY <1>6, <1>8, <2>1, <2>9, <2>10 DEF p
<1> QED BY <1>7, <1>8

(* Removal by value takes that value out and nothing else.                 *)
LEMMA WithoutProperties ==
    ASSUME NEW T, NEW q \in Seq(T), NEW e
    PROVE  /\ Without(q, e) \in Seq(T)
           /\ Range(Without(q, e)) = Range(q) \ {e}
           /\ Injective(q) => Injective(Without(q, e))
  BY KeepProperties DEF Without

(* A queue without duplicates has as many elements as positions.           *)
LEMMA RangeSize ==
    ASSUME NEW T, NEW q \in Seq(T)
    PROVE  /\ IsFiniteSet(Range(q))
           /\ Injective(q) => Cardinality(Range(q)) = Len(q)
<1>1. Len(q) \in Nat /\ IsFiniteSet(1..Len(q)) /\ Cardinality(1..Len(q)) = Len(q)
  <2>1. Len(q) \in Nat
    OBVIOUS
  <2>2. IsFiniteSet(1..Len(q)) /\ Cardinality(1..Len(q)) = IF 1 > Len(q) THEN 0 ELSE Len(q) - 1 + 1
    BY <2>1, FS_Interval
  <2> QED BY <2>1, <2>2
<1>2. DOMAIN q = 1..Len(q)
  OBVIOUS
<1>3. q \in Surjection(1..Len(q), Range(q))
  <2>1. q \in [1..Len(q) -> Range(q)]
    BY <1>2 DEF Range
  <2> QED BY <1>2, <2>1 DEF Surjection, Range
<1>4. IsFiniteSet(Range(q))
  BY <1>1, <1>3, FS_Surjection
<1>5. ASSUME Injective(q) PROVE Cardinality(Range(q)) = Len(q)
  <2>1. q \in Injection(1..Len(q), Range(q))
    BY <1>3, <1>5 DEF Injective, Injection, IsInjective, Surjection
  <2> QED BY <1>1, <1>3, <2>1, FS_Surjection
<1> QED BY <1>4, <1>5

(* Concatenation.                                                          *)
LEMMA ConcatFacts ==
    ASSUME NEW T, NEW a \in Seq(T), NEW b \in Seq(T)
    PROVE  /\ a \o b \in Seq(T)
           /\ Len(a \o b) = Len(a) + Len(b)
           /\ Range(a \o b) = Range(a) \cup Range(b)
           /\ Injective(a \o b) <=> /\ Injective(a) /\ Injective(b)
                                    /\ Range(a) \cap Range(b) = {}
<1> DEFINE c == a \o b
<1>1. /\ c \in Seq(T) /\ Len(c) = Len(a) + Len(b) /\ Len(a) \in Nat /\ Len(b) \in Nat
      /\ \A i \in 1..Len(a) : i \in 1..Len(c) /\ c[i] = a[i]
      /\ \A i \in 1..Len(b) : Len(a) + i \in 1..Len(c) /\ c[Len(a) + i] = b[i]
  OBVIOUS
<1>2. \A i \in 1..Len(c) : i \in 1..Len(a) \/ i - Len(a) \in 1..Len(b)
  BY <1>1
<1>3. \A i \in 1..Len(c) : c[i] = IF i <= Len(a) THEN a[i] ELSE b[i - Len(a)]
  OBVIOUS
<1>4. Range(c) = Range(a) \cup Range(b)
  BY RangeConcatenation
<1>5. ASSUME Injective(c)
      PROVE  Injective(a) /\ Injective(b) /\ Range(a) \cap Range(b) = {}
  <2>1. Injective(a)
    BY <1>1, <1>5 DEF Injective
  <2>2. Injective(b)
    <3> SUFFICES ASSUME NEW i \in 1..Len(b), NEW j \in 1..Len(b), b[i] = b[j] PROVE i = j
      BY DEF Injective
    <3>1. Len(a) + i = Len(a) + j
      BY <1>1, <1>5 DEF Injective
    <3> QED BY <3>1, <1>1
  <2>3. Range(a) \cap Range(b) = {}
    <3> SUFFICES ASSUME NEW i \in 1..Len(a), NEW j \in 1..Len(b), a[i] = b[j] PROVE FALSE
      BY DEF Range
    <3>1. i = Len(a) + j
      BY <1>1, <1>5 DEF Injective
    <3> QED BY <3>1, <1>1
  <2> QED BY <2>1, <2>2, <2>3
<1>6. ASSUME Injective(a), Injective(b), Range(a) \cap Range(b) = {} PROVE Injective(c)
  <2> SUFFICES ASSUME NEW i \in 1..Len(c), NEW j \in 1..Len(c), c[i] = c[j] PROVE i = j
    BY DEF Injective
  <2>0. \A x \in 1..Len(a), y \in 1..Len(b) : a[x] # b[y]
    <3>1. DOMAIN a = 1..Len(a) /\ DOMAIN b = 1..Len(b)
      OBVIOUS
    <3>2. \A x \in 1..Len(a), y \in 1..Len(b) : a[x] \in Range(a) /\ b[y] \in Range(b)
      BY <3>1 DEF Range
    <3> QED BY <3>2, <1>6
  <2>1. CASE i <= Len(a) /\ j <= Len(a)
    BY <2>1, <1>1, <1>2, <1>6 DEF Injective
  <2>2. CASE i <= Len(a) /\ ~ j <= Len(a)
    BY <2>2, <2>0, <1>1, <1>2, <1>3
  <2>3. CASE ~ i <= Len(a) /\ j <= Len(a)
    BY <2>3, <2>0, <1>1, <1>2, <1>3
  <2>4. CASE ~ i <= Len(a) /\ ~ j <= Len(a)
    <3>1. i - Len(a) \in 1..Len(b) /\ j - Len(a) \in 1..Len(b)
      BY <2>4, <1>1, <1>2
    <3>2. b[i - Len(a)] = b[j - Len(a)]
      BY <2>4, <1>3
    <3>3. i - Len(a) = j - Len(a)
      BY <3>1, <3>2, <1>6 DEF Injective
    <3> QED BY <3>3, <1>1
  <2> QED BY <2>1, <2>2, <2>3, <2>4
<1> QED BY <1>1, <1>4, <1>5, <1>6

(* Cutting a queue in two after its first m elements.                      *)
LEMMA SplitFacts ==
    ASSUME NEW T, NEW q \in Seq(T), NEW m \in 0..Len(q)
    PROVE  LET a == SubSeq(q, 1, m)
               b == SubSeq(q, m + 1, Len(q))
           IN  /\ a \in Seq(T) /\ b \in Seq(T)
               /\ Len(a) = m /\ Len(b) = Len(q) - m
               /\ Range(a) \cup Range(b) = Range(q)
               /\ Injective(q) => /\ Injective(a) /\ Injective(b)
                                  /\ Range(a) \cap Range(b) = {}
<1> DEFINE a == SubSeq(q, 1, m)
           b == SubSeq(q, m + 1, Len(q))
<1>1. a \in Seq(T) /\ b \in Seq(T) /\ Len(a) = m /\ Len(b) = Len(q) - m
  OBVIOUS
<1>c. /\ \A i \in 1..m : a[i] = q[i]
      /\ \A i \in 1..Len(q) - m : b[i] = q[m + i]
  OBVIOUS
<1> HIDE DEF a, b
<1>2. q = a \o b
  <2>0. Len(q) \in Nat
    OBVIOUS
  <2>1. Len(a \o b) = Len(q) /\ a \o b \in Seq(T)
    <3>1. a \o b \in Seq(T) /\ Len(a \o b) = Len(a) + Len(b)
      BY <1>1, ConcatProperties
    <3>2. m + (Len(q) - m) = Len(q)
      BY <2>0
    <3> QED BY <3>1, <3>2, <1>1
  <2>2. ASSUME NEW i \in 1..Len(q) PROVE (a \o b)[i] = q[i]
    <3>1. (a \o b)[i] = IF i <= m THEN a[i] ELSE b[i - m]
      BY <1>1, <2>0, ConcatProperties
    <3> QED BY <3>1, <1>c, <2>0
  <2> QED BY <2>1, <2>2, SeqEqual
<1>3. Range(q) = Range(a) \cup Range(b)
  BY <1>1, <1>2, ConcatFacts
<1>4. Injective(q) => Injective(a) /\ Injective(b) /\ Range(a) \cap Range(b) = {}
  BY <1>1, <1>2, ConcatFacts
<1> QED BY <1>1, <1>3, <1>4 DEF a, b

(* Taking an element off either end, or turning the queue around.          *)
LEMMA EndFacts ==
    ASSUME NEW T, NEW q \in Seq(T), q # << >>
    PROVE  /\ Head(q) \in Range(q) /\ Last(q) \in Range(q)
           /\ Head(q) \in T /\ Last(q) \in T
           /\ Tail(q) \in Seq(T) /\ Front(q) \in Seq(T)
           /\ Range(q) = Range(Tail(q)) \cup {Head(q)}
           /\ Range(q) = Range(Front(q)) \cup {Last(q)}
           /\ q = <<Head(q)>> \o Tail(q)
           /\ q = Front(q) \o <<Last(q)>>
           /\ Injective(q) =>
                /\ Injective(Tail(q)) /\ Range(Tail(q)) = Range(q) \ {Head(q)}
                /\ Injective(Front(q)) /\ Range(Front(q)) = Range(q) \ {Last(q)}
<1>1. /\ Len(q) \in Nat \ {0} /\ Head(q) = q[1] /\ Head(q) \in T /\ Last(q) \in T
      /\ Tail(q) \in Seq(T) /\ Front(q) \in Seq(T)
  BY DEF Last, Front
<1>2. q = <<Head(q)>> \o Tail(q)
  OBVIOUS
<1>3. q = Front(q) \o <<Last(q)>>
  BY DEF Front, Last
<1>4. Range(<<Head(q)>>) = {Head(q)} /\ Range(<<Last(q)>>) = {Last(q)}
  BY DEF Range
<1>5. <<Head(q)>> \in Seq(T) /\ <<Last(q)>> \in Seq(T)
  BY <1>1
<1> DEFINE h == <<Head(q)>>
           t == Tail(q)
           f == Front(q)
           l == <<Last(q)>>
<1>6. /\ Range(q) = {Head(q)} \cup Range(Tail(q))
      /\ Injective(q) => Injective(Tail(q)) /\ {Head(q)} \cap Range(Tail(q)) = {}
  <2>1. q = h \o t /\ h \in Seq(T) /\ t \in Seq(T) /\ Range(h) = {Head(q)}
    BY <1>1, <1>2, <1>4, <1>5
  <2> HIDE DEF h, t
  <2>2. /\ Range(q) = Range(h) \cup Range(t)
        /\ Injective(q) => Injective(t) /\ Range(h) \cap Range(t) = {}
    BY <2>1, ConcatFacts
  <2> QED BY <2>1, <2>2 DEF t
<1>7. /\ Range(q) = Range(Front(q)) \cup {Last(q)}
      /\ Injective(q) => Injective(Front(q)) /\ Range(Front(q)) \cap {Last(q)} = {}
  <2>1. q = f \o l /\ l \in Seq(T) /\ f \in Seq(T) /\ Range(l) = {Last(q)}
    BY <1>1, <1>3, <1>4, <1>5
  <2> HIDE DEF f, l
  <2>2. /\ Range(q) = Range(f) \cup Range(l)
        /\ Injective(q) => Injective(f) /\ Range(f) \cap Range(l) = {}
    BY <2>1, ConcatFacts
  <2> QED BY <2>1, <2>2 DEF f
<1> QED BY <1>1, <1>2, <1>3, <1>6, <1>7

(* Reversing a sequence keeps its length, its elements and whether they    *)
(* are distinct.                                                           *)
LEMMA ReversedFacts ==
    ASSUME NEW T, NEW q \in Seq(T)
    PROVE  /\ Reversed(q) \in Seq(T)
           /\ Range(Reversed(q)) = Range(q)
           /\ Injective(q) => Injective(Reversed(q))
<1>1. /\ Len(q) \in Nat /\ Reversed(q) \in Seq(T) /\ Len(Reversed(q)) = Len(q)
      /\ \A i \in 1..Len(q) : Reversed(q)[i] = q[Len(q) + 1 - i]
  BY DEF Reversed
<1>2. \A i \in 1..Len(q) : Len(q) + 1 - i \in 1..Len(q) /\ q[i] = Reversed(q)[Len(q) + 1 - i]
  <2> SUFFICES ASSUME NEW i \in 1..Len(q)
               PROVE  Len(q) + 1 - i \in 1..Len(q) /\ q[i] = Reversed(q)[Len(q) + 1 - i]
    OBVIOUS
  <2>1. Len(q) + 1 - i \in 1..Len(q) /\ Len(q) + 1 - (Len(q) + 1 - i) = i
    BY <1>1
  <2>2. Reversed(q)[Len(q) + 1 - i] = q[Len(q) + 1 - (Len(q) + 1 - i)]
    BY <2>1, <1>1
  <2> QED BY <2>1, <2>2
<1>3. Range(Reversed(q)) = { Reversed(q)[i] : i \in 1..Len(q) } /\ Range(q) = { q[i] : i \in 1..Len(q) }
  BY <1>1, RangeEquality
<1> HIDE DEF Reversed
<1>4. Range(Reversed(q)) = Range(q)
  BY <1>1, <1>2, <1>3
<1>5. ASSUME Injective(q) PROVE Injective(Reversed(q))
  <2> SUFFICES ASSUME NEW i \in 1..Len(q), NEW j \in 1..Len(q), Reversed(q)[i] = Reversed(q)[j]
               PROVE  i = j
    BY <1>1 DEF Injective
  <2>1. Len(q) + 1 - i = Len(q) + 1 - j
    BY <1>1, <1>2, <1>5 DEF Injective
  <2> QED BY <2>1, <1>1
<1> QED BY <1>1, <1>4, <1>5

(* Induction over the subsets of a finite set, with a set for what is to   *)
(* be shown: a minimal subset that is not in it would be.                  *)
LEMMA SubsetInduction ==
    ASSUME NEW S, IsFiniteSet(S), NEW Good,
           \A K \in SUBSET S : (\A J \in SUBSET K : J # K => J \in Good) => K \in Good
    PROVE  SUBSET S \subseteq Good
<1> DEFINE R == StrictSubsetOrdering(S)
           Bad == (SUBSET S) \ Good
<1>1. IsWellFoundedOn(R, SUBSET S)
  BY FS_StrictSubsetOrderingWellFounded, FS_FiniteSubsetsOfFinite
<1>2. SUFFICES ASSUME Bad # {}
               PROVE  FALSE
  OBVIOUS
<1>3. Bad \subseteq SUBSET S
  OBVIOUS
<1>4. PICK K \in Bad : \A J \in Bad : ~ (<<J, K>> \in R)
  <2> HIDE DEF R, Bad
  <2> QED
    BY <1>1, <1>2, <1>3, WFMin
<1>5. \A J \in SUBSET K : J # K => J \in Good
  BY <1>4 DEF StrictSubsetOrdering
<1> QED
  BY <1>4, <1>5

(* A set of naturals has a least element.                                  *)
LEMMA LeastNatural ==
    ASSUME NEW N \in SUBSET Nat, N # {}
    PROVE  \E n \in N : \A m \in N : n <= m
<1>1. PICK top \in N : TRUE
  OBVIOUS
<1>2. SUFFICES ASSUME \A n \in N : \E m \in N : m < n
               PROVE  FALSE
  OBVIOUS
<1> DEFINE Good == { K \in SUBSET (0..top) : \A n \in N : K # 0..n }
<1>3. IsFiniteSet(0..top)
  BY <1>1, FS_Interval
<1>4. ASSUME NEW K \in SUBSET (0..top), \A J \in SUBSET K : J # K => J \in Good
      PROVE  K \in Good
  <2>1. SUFFICES ASSUME NEW n \in N, K = 0..n
                 PROVE  FALSE
    OBVIOUS
  <2>2. PICK m \in N : m < n
    BY <1>2
  <2>3. 0..m \in SUBSET K /\ 0..m # K
    BY <2>1, <2>2
  <2> QED
    BY <1>4, <2>3
<1>5. SUBSET (0..top) \subseteq Good
  <2> DEFINE S == 0..top
  <2>1. \A K \in SUBSET S : (\A J \in SUBSET K : J # K => J \in Good) => K \in Good
    BY <1>4
  <2>2. IsFiniteSet(S)
    BY <1>3
  <2> HIDE DEF Good, S
  <2>3. SUBSET S \subseteq Good
    BY <2>1, <2>2, SubsetInduction
  <2> QED
    BY <2>3 DEF S
<1> QED
  BY <1>1, <1>5

(* Induction over 1..n, for the set of numbers that have been reached.     *)
LEMMA UpToInduction ==
    ASSUME NEW n \in Nat, NEW S, 1 \in S, \A i \in 1..n - 1 : i \in S => i + 1 \in S
    PROVE  1..n \subseteq S
<1> DEFINE T == 1..n \ S
<1> SUFFICES ASSUME T # {} PROVE FALSE
  OBVIOUS
<1>1. PICK m \in T : \A k \in T : m <= k
  <2>1. T \in SUBSET Nat
    OBVIOUS
  <2> HIDE DEF T
  <2> QED BY <2>1, LeastNatural
<1>2. m \in 1..n /\ m # 1 /\ m - 1 \in 1..n - 1
  OBVIOUS
<1>3. m - 1 \in S
  BY <1>1, <1>2
<1> QED BY <1>2, <1>3

(* A loop over 1..m that starts with one and takes each turn by step is    *)
(* well-defined: g holds what it has reached after each of them.           *)
LEMMA LoopDefined ==
    ASSUME NEW m \in Nat \ {0}, NEW X, NEW one \in X, NEW step \in [1..m -> [X -> X]]
    PROVE  \E g \in [1..m -> X] :
              /\ g[1] = one
              /\ \A n \in 2..m : g[n] = step[n][g[n - 1]]
<1> DEFINE Loop(g, k) == /\ g \in [1..k -> X]
                         /\ g[1] = one
                         /\ \A n \in 2..k : g[n] = step[n][g[n - 1]]
           S == { k \in 1..m : \E g : Loop(g, k) }
<1>1. 1 \in S
  <2> DEFINE g == [ n \in 1..1 |-> one ]
  <2>1. Loop(g, 1)
    OBVIOUS
  <2> HIDE DEF g, Loop
  <2> QED BY <2>1
<1>2. ASSUME NEW k \in 1..m - 1, k \in S PROVE k + 1 \in S
  <2>1. PICK g : Loop(g, k)
    BY <1>2
  <2> DEFINE h == [ n \in 1..k + 1 |-> IF n <= k THEN g[n] ELSE step[k + 1][g[k]] ]
  <2>2. k \in 1..m /\ k + 1 \in 1..m /\ g[k] \in X
    BY <2>1
  <2>3. step[k + 1][g[k]] \in X
    BY <2>2
  <2>4. h \in [1..k + 1 -> X]
    BY <2>1, <2>3
  <2>5. h[1] = one
    BY <2>1
  <2>6. \A n \in 2..k + 1 : h[n] = step[n][h[n - 1]]
    <3> SUFFICES ASSUME NEW n \in 2..k + 1 PROVE h[n] = step[n][h[n - 1]]
      OBVIOUS
    <3>1. CASE n <= k
      <4>1. n \in 2..k /\ n - 1 \in 1..k /\ n - 1 <= k
        BY <3>1
      <4>2. h[n] = g[n] /\ h[n - 1] = g[n - 1]
        BY <3>1, <4>1
      <4> QED BY <2>1, <4>1, <4>2
    <3>2. CASE n = k + 1
      BY <3>2
    <3> QED BY <3>1, <3>2
  <2> HIDE DEF h
  <2>7. Loop(h, k + 1)
    BY <2>4, <2>5, <2>6
  <2> HIDE DEF Loop
  <2> QED BY <2>2, <2>7
<1>3. 1..m \subseteq S
  <2> HIDE DEF S
  <2> QED BY <1>1, <1>2, UpToInduction
<1>4. m \in S
  <2> HIDE DEF S
  <2> QED BY <1>3
<1> QED BY <1>4

-----------------------------------------------------------------------------
(* Sequences joined one after another: f holds what there is after each.   *)
Joins(f, ss) ==
    f = [ n \in 1..Len(ss) |-> IF n = 1 THEN ss[n] ELSE f[n - 1] \o ss[n] ]

LEMMA JoinDefined ==
    ASSUME NEW T, NEW ss \in Seq(Seq(T)), ss # << >>
    PROVE  \E f : Joins(f, ss)
<1> DEFINE m == Len(ss)
           X == Seq(T)
           one == ss[1]
           step == [ n \in 1..m |-> [ x \in X |-> x \o ss[n] ] ]
<1>1. m \in Nat \ {0} /\ one \in X /\ \A n \in 1..m : ss[n] \in X
  OBVIOUS
<1>2. step \in [1..m -> [X -> X]]
  <2>1. \A x \in X, n \in 1..m : x \o ss[n] \in X
    BY <1>1
  <2> HIDE DEF X, m
  <2> QED BY <2>1
<1>3. PICK g \in [1..m -> X] : g[1] = one /\ \A n \in 2..m : g[n] = step[n][g[n - 1]]
  <2> DEFINE Loops(k, Y) ==
        \A x \in Y, h \in [1..k -> [Y -> Y]] :
          \E g \in [1..k -> Y] : g[1] = x /\ \A n \in 2..k : g[n] = h[n][g[n - 1]]
  <2>1. \A k \in Nat \ {0} : \A Y : Loops(k, Y)
    BY LoopDefined
  <2> HIDE DEF step, X, m, one
  <2>2. Loops(m, X)
    <3> HIDE DEF Loops
    <3> QED BY <1>1, <2>1
  <2> QED BY <1>1, <1>2, <2>2
<1>4. \A n \in 2..m : n \in 1..m /\ n # 1 /\ g[n] = g[n - 1] \o ss[n]
  <2> TAKE n \in 2..m
  <2>1. n \in 1..m /\ n - 1 \in 1..m /\ n # 1
    BY <1>1
  <2>2. g[n - 1] \in X
    BY <1>3, <2>1
  <2>3. g[n] = step[n][g[n - 1]]
    BY <1>3
  <2> QED BY <2>1, <2>2, <2>3
<1>5. g = [ n \in 1..m |-> IF n = 1 THEN ss[n] ELSE g[n - 1] \o ss[n] ]
  <2>1. \A n \in 1..m : g[n] = IF n = 1 THEN ss[n] ELSE g[n - 1] \o ss[n]
    <3> TAKE n \in 1..m
    <3>1. n = 1 \/ n \in 2..m
      BY <1>1
    <3> QED BY <1>3, <1>4, <3>1
  <2>2. g = [ n \in 1..m |-> g[n] ]
    OBVIOUS
  <2> QED BY <2>1, <2>2
<1> QED BY <1>5 DEF Joins

(* Each of them is in the whole, at its offset, and nothing else is.       *)
Offsets(off, ss) ==
    /\ off \in [1..Len(ss) + 1 -> Nat] /\ off[1] = 0
    /\ \A i \in 1..Len(ss) : off[i + 1] = off[i] + Len(ss[i])
JoinOf(x, ss, off, T) ==
    /\ x \in Seq(T) /\ Len(x) = off[Len(ss) + 1]
    /\ \A i \in 1..Len(ss) : \A k \in 1..Len(ss[i]) :
          off[i] + k \in 1..Len(x) /\ x[off[i] + k] = ss[i][k]
    /\ \A r \in 1..Len(x) : \E i \in 1..Len(ss) : \E k \in 1..Len(ss[i]) : r = off[i] + k

LEMMA JoinFacts ==
    ASSUME NEW T, NEW ss \in Seq(Seq(T)), ss # << >>, NEW f, Joins(f, ss),
           NEW off, Offsets(off, ss)
    PROVE  JoinOf(f[Len(ss)], ss, off, T)
<1> DEFINE L == Len(ss)
           c(i) == Len(ss[i])
           In(x, i) == \A k \in 1..c(i) : off[i] + k \in 1..Len(x) /\ x[off[i] + k] = ss[i][k]
           From(x, n) == \A r \in 1..Len(x) :
                            \E i \in 1..n : \E k \in 1..c(i) : r = off[i] + k
           Good(n) == /\ f[n] \in Seq(T) /\ Len(f[n]) = off[n + 1]
                      /\ \A i \in 1..n : In(f[n], i)
                      /\ From(f[n], n)
           S == { n \in 1..L : Good(n) }
<1>1. /\ L \in Nat \ {0}
      /\ \A i \in 1..L : ss[i] \in Seq(T) /\ c(i) \in Nat /\ off[i] \in Nat /\ off[i + 1] \in Nat
                         /\ off[i + 1] = off[i] + c(i)
  <2>1. L \in Nat /\ L # 0 /\ \A i \in 1..L : ss[i] \in Seq(T)
    OBVIOUS
  <2>2. \A i \in 1..L : c(i) \in Nat
    BY <2>1
  <2>3. \A i \in 1..L : i \in 1..L + 1 /\ i + 1 \in 1..L + 1
    BY <2>1
  <2>4. \A i \in 1..L : off[i] \in Nat /\ off[i + 1] \in Nat
    BY <2>3 DEF Offsets
  <2> QED BY <2>1, <2>2, <2>4 DEF Offsets
<1>2. \A n \in 1..L : f[n] = IF n = 1 THEN ss[n] ELSE f[n - 1] \o ss[n]
  <2>1. f = [ n \in 1..L |-> IF n = 1 THEN ss[n] ELSE f[n - 1] \o ss[n] ]
    BY DEF Joins
  <2> QED BY <2>1, Zenon
<1>3. 1 \in S
  <2>1. 1 \in 1..L /\ f[1] = ss[1] /\ off[1] = 0 /\ off[1 + 1] = c(1)
    BY <1>1, <1>2 DEF Offsets
  <2>2. f[1] \in Seq(T) /\ Len(f[1]) = off[1 + 1]
    BY <1>1, <2>1
  <2>3. In(f[1], 1)
    BY <1>1, <2>1
  <2>4. From(f[1], 1)
    BY <1>1, <2>1
  <2>5. 1..1 = {1}
    OBVIOUS
  <2> HIDE DEF In, From
  <2> QED BY <2>1, <2>2, <2>3, <2>4, <2>5
<1>4. ASSUME NEW n \in 1..L - 1, n \in S PROVE n + 1 \in S
  <2> DEFINE m == n + 1
             x == f[n]
             y == ss[m]
  <2>1. n \in 1..L /\ m \in 1..L /\ m # 1 /\ m - 1 = n /\ 1..m = 1..n \cup {m}
    BY <1>1
  <2>2. /\ x \in Seq(T) /\ y \in Seq(T) /\ f[m] = x \o y
        /\ Len(x) = off[m] /\ Len(y) = c(m) /\ off[m] \in Nat /\ c(m) \in Nat
        /\ off[m + 1] = off[m] + c(m)
    BY <1>1, <1>2, <1>4, <2>1
  <2>3. (\A i \in 1..n : In(x, i)) /\ From(x, n)
    BY <1>4
  <2>4. \A i \in 1..n : off[i] \in Nat /\ c(i) \in Nat
    BY <1>1, <2>1
  <2> HIDE DEF x, y, m, In, From
  <2>5. /\ x \o y \in Seq(T) /\ Len(x \o y) = Len(x) + Len(y)
        /\ \A k \in 1..Len(x) : (x \o y)[k] = x[k]
        /\ \A k \in 1..Len(y) : (x \o y)[Len(x) + k] = y[k]
    <3>1. x \in Seq(T) /\ y \in Seq(T)
      BY <2>2
    <3> QED BY ONLY <3>1
  <2> DEFINE z == x \o y
  <2>z. Len(x) \in Nat /\ Len(y) \in Nat /\ Len(z) = off[m] + c(m)
    BY <2>2, <2>5
  <2>6. In(z, m)
    <3>1. \A k \in 1..c(m) : off[m] + k \in 1..Len(z)
      <4> DEFINE a == off[m]
                 b == c(m)
      <4>1. a \in Nat /\ b \in Nat /\ Len(z) = a + b
        BY <2>2, <2>z
      <4> HIDE DEF a, b, z
      <4>2. \A k \in 1..b : a + k \in 1..Len(z)
        BY <4>1
      <4> QED BY <4>2 DEF a, b
    <3>2. \A k \in 1..c(m) : z[off[m] + k] = ss[m][k]
      BY <2>2, <2>5 DEF y
    <3> QED BY <3>1, <3>2 DEF In
  <2>7. ASSUME NEW i \in 1..n PROVE In(z, i)
    <3>1. \A k \in 1..c(i) : off[i] + k \in 1..Len(x) /\ x[off[i] + k] = ss[i][k]
      BY <2>3 DEF In
    <3>2. \A k \in 1..Len(x) : k \in 1..Len(z) /\ z[k] = x[k]
      BY <2>2, <2>5, <2>z
    <3> HIDE DEF z
    <3> QED BY <3>1, <3>2 DEF In
  <2>8. From(z, m)
    <3> SUFFICES ASSUME NEW r \in 1..Len(z)
                 PROVE  \E i \in 1..m : \E k \in 1..c(i) : r = off[i] + k
      BY DEF From
    <3>1. CASE r \in 1..Len(x)
      BY <2>1, <2>3, <3>1 DEF From, m
    <3>2. CASE r \notin 1..Len(x)
      <4> DEFINE k == r - off[m]
      <4>1. k \in 1..c(m) /\ r = off[m] + k
        <5> DEFINE a == off[m]
                   b == c(m)
        <5>1. /\ a \in Nat /\ b \in Nat /\ Len(x) = a /\ Len(z) = a + b
              /\ r \in 1..Len(z) /\ r \notin 1..Len(x)
          BY <2>2, <2>z, <3>2
        <5> HIDE DEF a, b, z
        <5>2. r - a \in 1..b /\ r = a + (r - a)
          BY <5>1
        <5> QED BY <5>2 DEF a, b
      <4>2. m \in 1..m
        BY <2>1 DEF m
      <4> HIDE DEF k
      <4> QED BY <4>1, <4>2
    <3> QED BY <3>1, <3>2
  <2>9. f[m] = z /\ f[m] \in Seq(T) /\ Len(f[m]) = off[m + 1]
    BY <2>2, <2>5, <2>z
  <2>10. \A i \in 1..m : In(z, i)
    BY <2>1, <2>6, <2>7 DEF m
  <2> HIDE DEF z
  <2> QED BY <2>1, <2>8, <2>9, <2>10 DEF m
<1>5. L \in S
  <2>1. 1..L \subseteq S
    <3> HIDE DEF S
    <3> QED BY <1>1, <1>3, <1>4, UpToInduction
  <2> HIDE DEF S
  <2> QED BY <1>1, <2>1
<1> QED BY <1>5 DEF JoinOf

-----------------------------------------------------------------------------
(* Sums over a finite set are recursive definitions.  The sum of the       *)
(* weights of the members of K is as large as the set of their units, and  *)
(* of that the facts about finite sets speak.                              *)
Units(w, K) == { u \in K \X Nat : u[2] \in 1..w[u[1]] }
SumsUp(f, w, K) ==
    f = [ s \in SUBSET K |-> IF s = {} THEN 0
                             ELSE w[CHOOSE x \in s : TRUE] + f[s \ {CHOOSE x \in s : TRUE}] ]

LEMMA UnitsOfNone ==
    ASSUME NEW w
    PROVE  Cardinality(Units(w, {})) = 0
<1>1. Units(w, {}) = {}
  BY DEF Units
<1> QED BY <1>1, FS_EmptySet

LEMMA UnitsOfOne ==
    ASSUME NEW w, NEW k, w[k] \in Nat
    PROVE  IsFiniteSet(Units(w, {k})) /\ Cardinality(Units(w, {k})) = w[k]
<1>1. Units(w, {k}) = {k} \X (1..w[k])
  BY DEF Units
<1>2. IsFiniteSet({k}) /\ Cardinality({k}) = 1
  BY FS_Singleton
<1>3. IsFiniteSet(1..w[k]) /\ Cardinality(1..w[k]) = w[k]
  <2> DEFINE n == w[k]
  <2>1. n \in Int /\ 1 \in Int /\ n \in Nat
    OBVIOUS
  <2> HIDE DEF n
  <2>2. IsFiniteSet(1..n) /\ Cardinality(1..n) = IF 1 > n THEN 0 ELSE n - 1 + 1
    BY <2>1, FS_Interval
  <2>3. IsFiniteSet(1..n) /\ Cardinality(1..n) = n
    BY <2>1, <2>2
  <2> QED BY <2>3 DEF n
<1>4. /\ IsFiniteSet({k} \X (1..w[k]))
      /\ Cardinality({k} \X (1..w[k])) = 1 * w[k]
  BY <1>2, <1>3, FS_Product
<1>5. 1 * w[k] = w[k]
  OBVIOUS
<1> QED BY <1>1, <1>4, <1>5, Zenon

LEMMA UnitsSplit ==
    ASSUME NEW w, NEW K, NEW k \in K
    PROVE  /\ Units(w, K) = Units(w, {k}) \cup Units(w, K \ {k})
           /\ Units(w, {k}) \cap Units(w, K \ {k}) = {}
  BY DEF Units

LEMMA UnitsFinite ==
    ASSUME NEW w, NEW K, IsFiniteSet(K), \A k \in K : w[k] \in Nat
    PROVE  IsFiniteSet(Units(w, K)) /\ Cardinality(Units(w, K)) \in Nat
<1> DEFINE Good == { J \in SUBSET K : IsFiniteSet(Units(w, J)) }
<1>1. ASSUME NEW J \in SUBSET K, \A I \in SUBSET J : I # J => I \in Good
      PROVE  J \in Good
  <2>1. CASE J = {}
    <3>1. Units(w, J) = {}
      BY <2>1 DEF Units
    <3> QED BY <3>1, FS_EmptySet
  <2>2. CASE J # {}
    <3>1. PICK k \in J : TRUE
      BY <2>2
    <3>2. IsFiniteSet(Units(w, J \ {k}))
      BY <1>1, <3>1
    <3>3. IsFiniteSet(Units(w, {k}))
      BY <3>1, UnitsOfOne
    <3>4. IsFiniteSet(Units(w, {k}) \cup Units(w, J \ {k}))
      BY <3>2, <3>3, FS_Union
    <3> QED BY <3>1, <3>4, UnitsSplit
  <2> QED BY <2>1, <2>2
<1>2. \A J \in SUBSET K : (\A I \in SUBSET J : I # J => I \in Good) => J \in Good
  BY <1>1
<1>3. SUBSET K \subseteq Good
  <2> HIDE DEF Good
  <2> QED BY <1>2, SubsetInduction
<1> QED BY <1>3, FS_CardinalityType

(* Taking a member out of a set takes out its weight.                      *)
LEMMA UnitsAdd ==
    ASSUME NEW w, NEW K, IsFiniteSet(K), \A k \in K : w[k] \in Nat, NEW k \in K
    PROVE  Cardinality(Units(w, K)) = w[k] + Cardinality(Units(w, K \ {k}))
<1>1. IsFiniteSet(Units(w, K \ {k})) /\ Cardinality(Units(w, K \ {k})) \in Nat
  <2>1. IsFiniteSet(K \ {k}) /\ \A j \in K \ {k} : w[j] \in Nat
    BY FS_Difference
  <2> QED BY <2>1, UnitsFinite
<1>2. IsFiniteSet(Units(w, {k})) /\ Cardinality(Units(w, {k})) = w[k] /\ w[k] \in Nat
  BY UnitsOfOne
<1>3. Cardinality(Units(w, {k}) \cup Units(w, K \ {k}))
        = Cardinality(Units(w, {k})) + Cardinality(Units(w, K \ {k}))
          - Cardinality(Units(w, {k}) \cap Units(w, K \ {k}))
  BY <1>1, <1>2, FS_Union
<1>4. Cardinality({}) = 0
  BY FS_EmptySet
<1>5. /\ Units(w, K) = Units(w, {k}) \cup Units(w, K \ {k})
      /\ Units(w, {k}) \cap Units(w, K \ {k}) = {}
  BY UnitsSplit
<1>6. Cardinality(Units(w, K)) = Cardinality(Units(w, {k})) + Cardinality(Units(w, K \ {k})) - 0
  BY <1>3, <1>4, <1>5
<1> QED BY <1>1, <1>2, <1>6

(* The recursion has a solution, and every solution is the number of units. *)
LEMMA SumIsUnits ==
    ASSUME NEW w, NEW K, IsFiniteSet(K), \A k \in K : w[k] \in Nat
    PROVE  /\ \E f : SumsUp(f, w, K)
           /\ \A f : SumsUp(f, w, K) => f[K] = Cardinality(Units(w, K))
<1> DEFINE One(s) == CHOOSE x \in s : TRUE
           g == [ s \in SUBSET K |-> Cardinality(Units(w, s)) ]
<1>1. \A s \in SUBSET K : s # {} => One(s) \in s /\ s \ {One(s)} \in SUBSET K
  OBVIOUS
<1>2. \A s \in SUBSET K : s # {} =>
        Cardinality(Units(w, s)) = w[One(s)] + Cardinality(Units(w, s \ {One(s)}))
  <2> SUFFICES ASSUME NEW s \in SUBSET K, s # {}
               PROVE  Cardinality(Units(w, s)) = w[One(s)] + Cardinality(Units(w, s \ {One(s)}))
    OBVIOUS
  <2>1. One(s) \in s /\ IsFiniteSet(s) /\ \A k \in s : w[k] \in Nat
    BY <1>1, FS_Subset
  <2> HIDE DEF One
  <2> QED BY <2>1, UnitsAdd
<1>3. Cardinality(Units(w, {})) = 0
  BY UnitsOfNone
<1>4. SumsUp(g, w, K)
  <2>1. \A s \in SUBSET K : s # {} => g[s \ {One(s)}] = Cardinality(Units(w, s \ {One(s)}))
    BY <1>1
  <2>2. \A s \in SUBSET K : g[s] = IF s = {} THEN 0 ELSE w[One(s)] + g[s \ {One(s)}]
    <3> HIDE DEF One
    <3> QED BY <1>2, <1>3, <2>1
  <2>3. g = [ s \in SUBSET K |-> g[s] ]
    OBVIOUS
  <2>4. g = [ s \in SUBSET K |-> IF s = {} THEN 0 ELSE w[One(s)] + g[s \ {One(s)}] ]
    <3> HIDE DEF g, One
    <3> QED BY <2>2, <2>3
  <2> HIDE DEF g
  <2> QED BY <2>4 DEF SumsUp
<1>5. ASSUME NEW f, SumsUp(f, w, K) PROVE f[K] = Cardinality(Units(w, K))
  <2> DEFINE Good == { s \in SUBSET K : f[s] = Cardinality(Units(w, s)) }
  <2>1. \A s \in SUBSET K : f[s] = IF s = {} THEN 0 ELSE w[One(s)] + f[s \ {One(s)}]
    <3>1. f = [ s \in SUBSET K |-> IF s = {} THEN 0 ELSE w[One(s)] + f[s \ {One(s)}] ]
      BY <1>5 DEF SumsUp
    <3> HIDE DEF One
    <3> QED BY <3>1, Zenon
  <2>2. ASSUME NEW s \in SUBSET K, \A r \in SUBSET s : r # s => r \in Good
        PROVE  s \in Good
    <3>1. CASE s = {}
      BY <1>3, <2>1, <3>1
    <3>2. CASE s # {}
      <4>1. f[s \ {One(s)}] = Cardinality(Units(w, s \ {One(s)}))
        BY <1>1, <2>2, <3>2
      <4> QED BY <1>2, <2>1, <3>2, <4>1
    <3> QED BY <3>1, <3>2
  <2>3. \A s \in SUBSET K : (\A r \in SUBSET s : r # s => r \in Good) => s \in Good
    BY <2>2
  <2>4. SUBSET K \subseteq Good
    <3> HIDE DEF Good
    <3> QED BY <2>3, SubsetInduction
  <2> QED BY <2>4
<1>6. \E f : SumsUp(f, w, K)
  <2> HIDE DEF g
  <2> QED BY <1>4
<1> QED BY <1>5, <1>6

(* A sum does not depend on how its members are named.                     *)
LEMMA UnitsRenamed ==
    ASSUME NEW w, NEW K, IsFiniteSet(K), \A k \in K : w[k] \in Nat,
           NEW v, NEW J, NEW h \in Bijection(J, K), \A j \in J : v[j] = w[h[j]]
    PROVE  Cardinality(Units(v, J)) = Cardinality(Units(w, K))
<1> DEFINE U == Units(v, J)
           V == Units(w, K)
           move == [ u \in U |-> <<h[u[1]], u[2]>> ]
<1>1. /\ \A j \in J : h[j] \in K
      /\ \A i, j \in J : h[i] = h[j] => i = j
      /\ \A k \in K : \E j \in J : h[j] = k
  BY DEF Bijection, Injection, Surjection, IsInjective
<1>2. \A u \in U : /\ u = <<u[1], u[2]>> /\ u[1] \in J /\ u[2] \in Nat
                   /\ u[2] \in 1..w[h[u[1]]]
  BY DEF Units
<1>3. \A u \in U : <<h[u[1]], u[2]>> \in V
  BY <1>1, <1>2 DEF Units
<1>4. \A k \in K, n \in Nat : n \in 1..w[k] => \E j \in J : <<j, n>> \in U /\ h[j] = k
  BY <1>1 DEF Units
<1>5. \A x \in V : /\ x = <<x[1], x[2]>> /\ x[1] \in K /\ x[2] \in Nat /\ x[2] \in 1..w[x[1]]
  BY DEF Units
<1> HIDE DEF U, V
<1>6. move \in Injection(U, V)
  <2>1. move \in [U -> V]
    BY <1>3
  <2>2. ASSUME NEW a \in U, NEW b \in U, move[a] = move[b] PROVE a = b
    <3>1. <<h[a[1]], a[2]>> = <<h[b[1]], b[2]>>
      BY <2>2
    <3>2. a[1] = b[1] /\ a[2] = b[2]
      BY <1>1, <1>2, <3>1
    <3> QED BY <1>2, <3>2
  <2> HIDE DEF move
  <2> QED BY <2>1, <2>2 DEF Injection, IsInjective
<1>7. move \in Surjection(U, V)
  <2>1. move \in [U -> V]
    BY <1>3
  <2>2. ASSUME NEW x \in V PROVE \E u \in U : move[u] = x
    <3>1. PICK j \in J : <<j, x[2]>> \in U /\ h[j] = x[1]
      BY <1>4, <1>5
    <3>2. move[<<j, x[2]>>] = <<x[1], x[2]>>
      BY <3>1
    <3> QED BY <1>5, <3>1, <3>2
  <2> HIDE DEF move
  <2> QED BY <2>1, <2>2 DEF Surjection
<1>8. IsFiniteSet(V)
  BY UnitsFinite DEF V
<1>9. Cardinality(U) = Cardinality(V)
  <2> HIDE DEF move
  <2> QED BY <1>6, <1>7, <1>8, FS_Injection
<1> QED BY <1>9 DEF U, V

(* The weight of the elements of a queue at some positions is the sum of   *)
(* theirs; position by position it grows by the weight of each.            *)
LEMMA TotalIsUnits ==
    ASSUME NEW weight, NEW q, NEW I, IsFiniteSet(I), \A i \in I : weight[q[i]] \in Nat
    PROVE  Total(weight, q, I) = Cardinality(Units([ i \in I |-> weight[q[i]] ], I))
<1> DEFINE w == [ i \in I |-> weight[q[i]] ]
           One(s)  == CHOOSE x \in s : TRUE
           Sums(f) == f = [ s \in SUBSET I |-> IF s = {} THEN 0
                                              ELSE weight[q[One(s)]] + f[s \ {One(s)}] ]
           f == CHOOSE f : Sums(f)
<1>1. Total(weight, q, I) = f[I]
  BY DEF Total, MapThenSumSet, MapThenFoldSet
<1>2. \A i \in I : w[i] = weight[q[i]] /\ w[i] \in Nat
  OBVIOUS
<1>3. \A s \in SUBSET I : s # {} => w[One(s)] = weight[q[One(s)]]
  OBVIOUS
<1> HIDE DEF w
<1>4. \A g : Sums(g) <=> SumsUp(g, w, I)
  <2> TAKE g
  <2> DEFINE a(s) == IF s = {} THEN 0 ELSE weight[q[One(s)]] + g[s \ {One(s)}]
             b(s) == IF s = {} THEN 0 ELSE w[One(s)] + g[s \ {One(s)}]
  <2>1. \A s \in SUBSET I : a(s) = b(s)
    <3> HIDE DEF One
    <3> QED BY <1>3
  <2> HIDE DEF a, b
  <2>2. [ s \in SUBSET I |-> a(s) ] = [ s \in SUBSET I |-> b(s) ]
    BY <2>1
  <2> QED BY <2>2 DEF a, b, SumsUp
<1>5. SumsUp(f, w, I)
  <2>1. \E g : Sums(g)
    <3> HIDE DEF Sums
    <3> QED BY <1>2, <1>4, SumIsUnits
  <2>2. Sums(f)
    <3> HIDE DEF Sums
    <3> QED BY <2>1
  <2> HIDE DEF Sums, f
  <2> QED BY <1>4, <2>2
<1> HIDE DEF f
<1>6. f[I] = Cardinality(Units(w, I))
  BY <1>2, <1>5, SumIsUnits
<1> QED BY <1>1, <1>6 DEF w

Before(weight, q, i) == Total(weight, q, 1..i - 1)
LEMMA TotalSteps ==
    ASSUME NEW weight, NEW q, NEW L \in Nat, \A i \in 1..L : weight[q[i]] \in Nat
    PROVE  /\ Before(weight, q, 1) = 0
           /\ \A i \in 1..L : /\ Before(weight, q, i) \in Nat
                             /\ Before(weight, q, i + 1) = Before(weight, q, i) + weight[q[i]]
<1> DEFINE w == [ j \in 1..L |-> weight[q[j]] ]
<1>1. \A j \in 1..L : w[j] = weight[q[j]] /\ w[j] \in Nat
  OBVIOUS
<1>2. ASSUME NEW n \in 0..L
      PROVE  Total(weight, q, 1..n) = Cardinality(Units(w, 1..n))
  <2> DEFINE I == 1..n
             v == [ j \in I |-> weight[q[j]] ]
  <2>1. IsFiniteSet(I) /\ I \subseteq 1..L
    BY FS_Interval
  <2>2. \A j \in I : weight[q[j]] \in Nat /\ v[j] = w[j]
    BY <1>1, <2>1
  <2>3. Total(weight, q, I) = Cardinality(Units(v, I))
    <3>1. v = [ j \in I |-> weight[q[j]] ] /\ \A j \in I : weight[q[j]] \in Nat
      BY <2>2
    <3> HIDE DEF I, v
    <3> QED BY <2>1, <3>1, TotalIsUnits
  <2> HIDE DEF v, w, I
  <2>4. Units(v, I) = Units(w, I)
    BY <2>2 DEF Units
  <2> QED BY <2>3, <2>4 DEF I
<1>3. Before(weight, q, 1) = 0
  <2>1. 1..1 - 1 = {} /\ 1..0 = {} /\ 0 \in 0..L
    OBVIOUS
  <2>2. Total(weight, q, {}) = Cardinality(Units(w, {}))
    BY <1>2, <2>1
  <2> QED BY <2>1, <2>2, UnitsOfNone DEF Before
<1>4. ASSUME NEW i \in 1..L
      PROVE  /\ Before(weight, q, i) \in Nat
             /\ Before(weight, q, i + 1) = Before(weight, q, i) + weight[q[i]]
  <2> DEFINE J == 1..i
             I == 1..i - 1
  <2>1. i - 1 \in 0..L /\ i \in 0..L
    OBVIOUS
  <2>2. Total(weight, q, I) = Cardinality(Units(w, I)) /\ Total(weight, q, J) = Cardinality(Units(w, J))
    BY <1>2, <2>1
  <2>3. J \subseteq 1..L /\ I = J \ {i} /\ i \in J
    OBVIOUS
  <2>f. IsFiniteSet(J) /\ IsFiniteSet(I)
    <3>1. i \in Int
      OBVIOUS
    <3>2. IsFiniteSet(J)
      <4>1. \A a, b \in Int : IsFiniteSet(a..b)
        BY FS_Interval
      <4> QED BY <3>1, <4>1
    <3> QED BY <2>3, <3>2, FS_Subset
  <2>7. w[i] = weight[q[i]] /\ w[i] \in Nat
    BY <1>1
  <2> HIDE DEF J, I, w
  <2>4. \A j \in J : w[j] \in Nat
    BY <1>1, <2>3
  <2>5. Cardinality(Units(w, J)) = w[i] + Cardinality(Units(w, J \ {i}))
    BY <2>3, <2>f, <2>4, UnitsAdd
  <2>6. Cardinality(Units(w, I)) \in Nat
    BY <2>3, <2>f, <2>4, UnitsFinite
  <2>8. Total(weight, q, I) \in Nat /\ Total(weight, q, J) = Total(weight, q, I) + weight[q[i]]
    BY <2>2, <2>3, <2>5, <2>6, <2>7
  <2>9. 1..(i + 1) - 1 = J
    BY DEF J
  <2>10. Before(weight, q, i) = Total(weight, q, I) /\ Before(weight, q, i + 1) = Total(weight, q, J)
    BY <2>9 DEF Before, I
  <2> QED BY <2>8, <2>10
<1> QED BY <1>3, <1>4

(* Where the parts of a whole begin is the sum of the lengths before.      *)
LEMMA TotalIsOffset ==
    ASSUME NEW T, NEW ss \in Seq(Seq(T)), NEW weight, NEW q,
           \A i \in 1..Len(ss) : weight[q[i]] = Len(ss[i])
    PROVE  Offsets([ i \in 1..Len(ss) + 1 |-> Before(weight, q, i) ], ss)
<1> DEFINE L == Len(ss)
           S(i) == Before(weight, q, i)
<1>1. L \in Nat /\ \A i \in 1..L : weight[q[i]] = Len(ss[i]) /\ Len(ss[i]) \in Nat
  OBVIOUS
<1>2. S(1) = 0 /\ \A i \in 1..L : S(i) \in Nat /\ S(i + 1) = S(i) + Len(ss[i])
  <2>1. \A i \in 1..L : weight[q[i]] \in Nat
    BY <1>1
  <2>2. /\ Before(weight, q, 1) = 0
        /\ \A i \in 1..L : /\ Before(weight, q, i) \in Nat
                          /\ Before(weight, q, i + 1) = Before(weight, q, i) + weight[q[i]]
    <3> HIDE DEF L, S
    <3> QED BY <1>1, <2>1, TotalSteps
  <2> HIDE DEF L
  <2> QED BY <1>1, <2>2
<1> HIDE DEF S
<1>3. \A i \in 1..L + 1 : S(i) \in Nat
  <2> TAKE i \in 1..L + 1
  <2>1. CASE i = 1
    BY <1>2, <2>1
  <2>2. CASE i # 1
    <3> DEFINE k == i - 1
    <3>1. k \in 1..L /\ i = k + 1
      BY <1>1, <2>2
    <3>2. S(k) \in Nat /\ S(k + 1) = S(k) + Len(ss[k]) /\ Len(ss[k]) \in Nat
      BY <1>1, <1>2, <3>1
    <3> HIDE DEF k
    <3> QED BY <3>1, <3>2
  <2> QED BY <2>1, <2>2
<1> DEFINE off == [ i \in 1..L + 1 |-> S(i) ]
<1>4. 1 \in 1..L + 1 /\ \A i \in 1..L : i \in 1..L + 1 /\ i + 1 \in 1..L + 1
  BY <1>1
<1>5. off \in [1..L + 1 -> Nat] /\ off[1] = 0 /\ \A i \in 1..L : off[i + 1] = off[i] + Len(ss[i])
  BY <1>2, <1>3, <1>4
<1>6. Offsets(off, ss)
  <2> HIDE DEF off
  <2> QED BY <1>5 DEF Offsets
<1> QED BY <1>6 DEF S

(* FlattenSeq joins sequences part by part, each at its offset.            *)
LEMMA FlattenFacts ==
    ASSUME NEW T, NEW ss \in Seq(Seq(T)), NEW off, Offsets(off, ss)
    PROVE  JoinOf(SE!FlattenSeq(ss), ss, off, T)
<1>1. CASE ss = << >>
  <2>1. Len(ss) = 0 /\ SE!FlattenSeq(ss) = << >>
    BY <1>1 DEF SE!FlattenSeq
  <2>2. off[1] = 0 /\ Len(<< >>) = 0 /\ 1..0 = {} /\ << >> \in Seq(T)
    BY DEF Offsets
  <2> QED BY <2>1, <2>2 DEF JoinOf
<1>2. CASE ss # << >>
  <2> DEFINE Loop(f) == f = [ n \in 1..Len(ss) |-> IF n = 1 THEN ss[n] ELSE f[n - 1] \o ss[n] ]
             f == CHOOSE f : Loop(f)
  <2>1. SE!FlattenSeq(ss) = f[Len(ss)]
    <3>1. Len(ss) # 0
      BY <1>2
    <3> QED BY <3>1 DEF SE!FlattenSeq
  <2>2. \A g : Loop(g) <=> Joins(g, ss)
    BY DEF Joins
  <2>3. \E g : Joins(g, ss)
    BY <1>2, JoinDefined
  <2>4. Joins(f, ss)
    <3> HIDE DEF Loop
    <3> QED BY <2>2, <2>3
  <2> HIDE DEF f
  <2> QED BY <1>2, <2>1, <2>4, JoinFacts
<1> QED BY <1>1, <1>2

(* The largest element of a set of rounds that has the last one.           *)
LEMMA LastRound ==
    ASSUME NEW n \in Nat, NEW s \in SUBSET (1..n), n \in s
    PROVE  SE!Max(s) = n
<1>1. \A y \in s : y \in Nat /\ n >= y
  OBVIOUS
<1>2. \A x \in s : (\A y \in s : x >= y) => x = n
  BY <1>1
<1> QED BY <1>1, <1>2 DEF SE!Max

-----------------------------------------------------------------------------
(* Division.                                                               *)

(* Division by the size of a block, rounded down and up.                   *)
LEMMA DivFacts ==
    ASSUME NEW B \in Nat \ {0, 1}, NEW n \in Nat
    PROVE  /\ n \div B \in Nat
           /\ n % B \in 0..B - 1
           /\ n = B * (n \div B) + (n % B)
           /\ n <= ((n + B - 1) \div B) * B
           /\ n > 0 => (n + B - 1) \div B \in Nat \ {0}
           /\ (n + B - 1) \div B \in Nat
           /\ n > 0 => (((n + B - 1) \div B) - 1) * B < n
<1>1. n \div B \in Nat
  OBVIOUS
<1>2. n % B \in 0..B - 1
  OBVIOUS
<1>3. n = B * (n \div B) + (n % B)
  OBVIOUS
<1>4. n <= ((n + B - 1) \div B) * B
  OBVIOUS
<1>5. (n + B - 1) \div B \in Nat
  OBVIOUS
<1>6. n > 0 => (n + B - 1) \div B # 0
  BY <1>4, <1>5
<1>7. n > 0 => (((n + B - 1) \div B) - 1) * B < n
  OBVIOUS
<1> QED BY <1>1, <1>2, <1>3, <1>4, <1>5, <1>6, <1>7

(* Which logical block a token position falls into, for positions below a  *)
(* multiple of the block size.                                             *)
LEMMA DivBounds ==
    ASSUME NEW B \in Nat \ {0, 1}, NEW n \in Nat, NEW k \in Nat
    PROVE  /\ k * B \in Nat
           /\ (k * B) \div B = k
           /\ n <= k * B => n \div B <= k
           /\ n < k * B => n \div B < k
           /\ k <= n \div B => k * B <= n
           /\ n - 1 = k * B => n % B = 1
           /\ n - 1 <= k * B /\ n % B # 1 => n <= k * B
<1>1. k * B \in Nat /\ (k * B) \div B = k
  OBVIOUS
<1>2. n <= k * B => n \div B <= k
  OBVIOUS
<1>3. n < k * B => n \div B < k
  OBVIOUS
<1>4. k <= n \div B => k * B <= n
  OBVIOUS
<1>5. n - 1 = k * B => n % B = 1
  <2>1. n - 1 = k * B => n \div B = k
    OBVIOUS
  <2> QED BY <2>1, DivFacts
<1>6. n - 1 <= k * B /\ n % B # 1 => n <= k * B
  BY <1>1, <1>5
<1> QED BY <1>1, <1>2, <1>3, <1>4, <1>5, <1>6

(* The quotient and the remainder are what multiplication says they are.   *)
LEMMA DivIs ==
    ASSUME NEW B \in Nat \ {0, 1}, NEW n \in Nat, NEW q \in Nat, q * B <= n, n < (q + 1) * B
    PROVE  n \div B = q /\ n % B = n - q * B
<1>1. n \div B \in Nat /\ n = B * (n \div B) + (n % B) /\ n % B \in 0..B - 1
  BY DivFacts
<1>2. n \div B < q + 1
  BY DivBounds
<1>3. n \div B >= q
  <2>1. ASSUME n \div B < q PROVE FALSE
    <3>1. n < q * B
      <4> DEFINE d == n \div B
                 e == n % B
      <4>1. d \in Nat /\ e \in Nat /\ d + 1 <= q /\ n = B * d + e /\ e < B
        BY <1>1, <2>1
      <4> HIDE DEF d, e
      <4>2. (d + 1) * B <= q * B /\ (d + 1) * B = B * d + B
        BY <4>1
      <4>3. B * d \in Nat /\ (d + 1) * B \in Nat /\ q * B \in Nat
        BY <4>1
      <4>4. B * d + e < B * d + B
        BY <4>1, <4>3
      <4> QED BY <4>1, <4>2, <4>3, <4>4
    <3>2. q * B \in Nat
      OBVIOUS
    <3> QED BY <3>1, <3>2
  <2> QED BY <1>1, <2>1
<1>4. n \div B = q
  BY <1>1, <1>2, <1>3
<1>5. B * q = q * B /\ q * B \in Nat
  OBVIOUS
<1> QED BY <1>1, <1>4, <1>5

(* Division by any positive number.                                        *)
LEMMA Quotient ==
    ASSUME NEW B \in Nat \ {0}, NEW n \in Nat
    PROVE  /\ n \div B \in Nat /\ n % B \in 0..B - 1 /\ n = B * (n \div B) + (n % B)
           /\ (n \div B) * B \in Nat
           /\ \A q \in Nat : q * B <= n /\ n < (q + 1) * B => n \div B = q /\ n % B = n - q * B
           /\ \A k \in Nat : n < k * B => n \div B < k
<1>1. CASE B = 1
  <2>1. n \div B = n /\ n % B = 0
    BY <1>1
  <2> QED BY <1>1, <2>1
<1>2. CASE B # 1
  <2>1. B \in Nat \ {0, 1}
    BY <1>2
  <2>2. n \div B \in Nat /\ n % B \in 0..B - 1 /\ n = B * (n \div B) + (n % B)
    BY <2>1, DivFacts
  <2>3. \A q \in Nat : q * B <= n /\ n < (q + 1) * B => n \div B = q /\ n % B = n - q * B
    BY <2>1, DivIs
  <2>4. \A k \in Nat : n < k * B => n \div B < k
    BY <2>1, DivBounds
  <2>5. \A q \in Nat : q * B \in Nat
    BY <2>1, DivBounds
  <2> QED BY <2>2, <2>3, <2>4, <2>5
<1> QED BY <1>1, <1>2
=============================================================================
