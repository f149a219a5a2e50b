-------------------------- MODULE EventQueueProofs --------------------------
(***************************************************************************)
(* Proofs about EventQueue, for any types of events and any nesting of     *)
(* calls: its types, that the position a call keeps while the run loop     *)
(* runs stays right, that it returns the first match, and that no event is *)
(* lost.                                                                   *)
(***************************************************************************)
EXTENDS EventQueue, FiniteSetTheorems, SequenceTheorems, WellFoundedInduction, TLAPS

USE TypesAssumption, BoundsAssumption

-----------------------------------------------------------------------------
(* Lemmas on taking positions out of a sequence.                           *)

\* A set of natural numbers has a least one.
LEMMA Least ==
    ASSUME NEW T \in SUBSET Nat, T # {}
    PROVE  \E x \in T : \A y \in T : x <= y
<1>1. \E x \in T : \A y \in T : ~(<<y, x>> \in OpToRel(<, Nat))
  BY NatLessThanWellFounded, WFMin
<1>2. \A x, y \in Nat : <<y, x>> \in OpToRel(<, Nat) <=> y < x
  BY DEF OpToRel
<1>3. PICK x \in T : \A y \in T : ~(<<y, x>> \in OpToRel(<, Nat))
  BY <1>1
<1>4. ASSUME NEW y \in T PROVE x <= y
  <2>1. x \in Nat /\ y \in Nat
    OBVIOUS
  <2>2. ~(y < x)
    BY <1>2, <1>3, <2>1
  <2> QED
    BY <2>1, <2>2
<1> QED
  BY <1>4

\* The positions of a finite set are numbered without a gap: some position is
\* the nth, for every n up to the number of positions.
LEMMA NthExists ==
    ASSUME NEW L \in Nat, NEW K \in SUBSET (1 .. L),
           NEW n \in 1 .. Cardinality(K)
    PROVE  \E j \in K : Cardinality({i \in K : i <= j}) = n
<1> DEFINE upTo(k) == {i \in K : i <= k}
           C(k) == Cardinality(upTo(k))
<1>0. \A j \in K : j \in Nat /\ 1 <= j /\ j <= L
  OBVIOUS
<1>1. IsFiniteSet(K) /\ \A k \in Nat : IsFiniteSet(upTo(k)) /\ C(k) \in Nat
  <2>1. IsFiniteSet(1 .. L)
    BY FS_Interval
  <2>2. IsFiniteSet(K)
    BY <2>1, FS_Subset
  <2>3. \A k \in Nat : upTo(k) \in SUBSET K
    OBVIOUS
  <2> HIDE DEF upTo
  <2>4. \A k \in Nat : IsFiniteSet(upTo(k))
    BY <2>2, <2>3, FS_Subset
  <2> QED
    BY <2>2, <2>4, FS_CardinalityType
<1>2. C(0) = 0
  <2>1. \A j \in upTo(0) : FALSE
    BY <1>0
  <2>2. upTo(0) = {}
    BY <2>1
  <2> QED
    BY <2>2, FS_EmptySet
<1>3. C(L) = Cardinality(K)
  <2>1. \A j \in K : j \in upTo(L)
    BY <1>0
  <2>2. \A j \in upTo(L) : j \in K
    OBVIOUS
  <2> HIDE DEF upTo
  <2>3. upTo(L) = K
    BY <2>1, <2>2
  <2> QED
    BY <2>3
<1> HIDE DEF upTo
<1> DEFINE T == {k \in Nat : C(k) >= n}
<1>4. L \in T
  <2>1. n \in Nat /\ n <= C(L)
    BY <1>1, <1>3, FS_CardinalityType
  <2>2. C(L) \in Nat
    BY <1>1
  <2> HIDE DEF C
  <2> QED
    BY <2>1, <2>2
<1>5. PICK k \in T : \A y \in T : k <= y
  <2>1. T \in SUBSET Nat /\ T # {}
    BY <1>4
  <2> HIDE DEF T
  <2> QED
    BY <2>1, Least
<1>6. n \in Nat /\ n >= 1
  BY <1>1, FS_CardinalityType
<1>7. k \in Nat /\ k # 0 /\ k - 1 \in Nat /\ C(k) >= n
  <2>1. k \in Nat /\ C(k) >= n
    OBVIOUS
  <2>2. k # 0
    <3>1. ~(0 >= n)
      BY <1>6
    <3> QED
      BY <1>2, <2>1, <3>1
  <2> QED
    BY <2>1, <2>2
<1>8. C(k - 1) < n
  <2>1. k - 1 \notin T
    <3>1. ~(k <= k - 1)
      BY <1>7
    <3> QED
      BY <1>5, <3>1
  <2>2. ~(C(k - 1) >= n) /\ C(k - 1) \in Nat
    BY <1>1, <1>7, <2>1
  <2> HIDE DEF C
  <2> QED
    BY <1>6, <2>2
<1>9. \A j : j \in upTo(k) <=> j \in upTo(k - 1) \/ (j = k /\ k \in K)
  <2>1. \A j \in Nat : j <= k <=> j <= k - 1 \/ j = k
    BY <1>7
  <2> QED
    BY <1>0, <2>1 DEF upTo
<1>10. k \notin upTo(k - 1)
  BY <1>7 DEF upTo
<1>11. IsFiniteSet(upTo(k - 1)) /\ C(k - 1) \in Nat /\ C(k) \in Nat
  BY <1>1, <1>7
<1>12. k \in K
  <2> SUFFICES ASSUME k \notin K PROVE FALSE
    OBVIOUS
  <2>1. upTo(k) = upTo(k - 1)
    BY <1>9
  <2>2. C(k) = C(k - 1)
    BY <2>1
  <2> HIDE DEF C
  <2> QED
    BY <1>6, <1>7, <1>8, <1>11, <2>2
<1>13. C(k) = C(k - 1) + 1
  <2>1. upTo(k) = upTo(k - 1) \cup {k}
    BY <1>9, <1>12
  <2>2. Cardinality(upTo(k - 1) \cup {k}) = C(k - 1) + 1
    BY <1>10, <1>11, FS_AddElement
  <2> QED
    BY <2>1, <2>2
<1>14. C(k) = n
  <2> HIDE DEF C
  <2> QED
    BY <1>6, <1>7, <1>8, <1>11, <1>13
<1> QED
  BY <1>12, <1>14 DEF upTo

\* The positions before the first one that is taken out keep their numbers.
LEMMA NthBefore ==
    ASSUME NEW L \in Nat, NEW K \in SUBSET (1 .. L),
           NEW n \in 1 .. L, 1 .. n \subseteq K
    PROVE  /\ n <= Cardinality(K)
           /\ Cardinality({i \in K : i <= n}) = n
           /\ \A j \in K : Cardinality({i \in K : i <= j}) = n => j = n
<1>0. \A j \in K : j \in Nat /\ 1 <= j /\ j <= L
  OBVIOUS
<1>1. IsFiniteSet(K) /\ Cardinality(K) \in Nat
  <2>1. IsFiniteSet(1 .. L)
    BY FS_Interval
  <2>2. IsFiniteSet(K)
    BY <2>1, FS_Subset
  <2> QED
    BY <2>2, FS_CardinalityType
<1>2. ASSUME NEW m \in 1 .. n
      PROVE  {i \in K : i <= m} = 1 .. m /\ IsFiniteSet(1 .. m) /\ Cardinality(1 .. m) = m
  <2>1. m \in Nat /\ 1 <= m /\ m <= n /\ m \in Int
    OBVIOUS
  <2>2. \A i \in 1 .. m : i \in 1 .. n /\ i <= m
    BY <2>1
  <2>3. \A i \in {i \in K : i <= m} : i \in 1 .. m
    BY <1>0, <2>1
  <2>4. {i \in K : i <= m} = 1 .. m
    BY <2>2, <2>3
  <2>5. IsFiniteSet(1 .. m) /\ Cardinality(1 .. m) = IF 1 > m THEN 0 ELSE m - 1 + 1
    BY <2>1, FS_Interval
  <2> QED
    BY <2>1, <2>4, <2>5
<1>3. n \in 1 .. n /\ n \in Nat
  OBVIOUS
<1>4. IsFiniteSet(1 .. n) /\ Cardinality(1 .. n) = n /\ Cardinality({i \in K : i <= n}) = n
  BY <1>2, <1>3
<1>5. n <= Cardinality(K)
  <2>1. Cardinality(1 .. n) <= Cardinality(K)
    BY <1>1, FS_Subset
  <2> QED
    BY <1>4, <2>1
<1>6. ASSUME NEW j \in K, Cardinality({i \in K : i <= j}) = n
      PROVE  j = n
  <2>0. j \in Nat /\ 1 <= j
    BY <1>0
  <2>1. CASE j < n
    <3>1. j \in 1 .. n
      BY <1>3, <2>0, <2>1
    <3>2. Cardinality({i \in K : i <= j}) = j
      BY <1>2, <3>1
    <3> QED
      BY <1>6, <3>2
  <2>2. CASE j > n
    <3> DEFINE B == {i \in K : i <= j}
    <3>1. j \notin 1 .. n
      BY <2>0, <2>2, <1>3
    <3>2. \A i \in 1 .. n : i \in B
      BY <1>0, <1>3, <2>0, <2>2
    <3>3. j \in B /\ B \in SUBSET K
      BY <2>0
    <3> HIDE DEF B
    <3>4. (1 .. n) \cup {j} \in SUBSET B
      BY <3>2, <3>3
    <3>5. IsFiniteSet(B)
      BY <1>1, <3>3, FS_Subset
    <3>6. Cardinality((1 .. n) \cup {j}) = n + 1
      BY <1>4, <3>1, FS_AddElement
    <3>7. Cardinality((1 .. n) \cup {j}) <= Cardinality(B)
      BY <3>4, <3>5, FS_Subset
    <3>8. Cardinality(B) = n
      BY <1>6 DEF B
    <3> QED
      BY <1>3, <3>6, <3>7, <3>8
  <2> QED
    BY <1>3, <2>0, <2>1, <2>2
<1> QED
  BY <1>4, <1>5, <1>6

\* What the queue is after events have been taken out of it.
LEMMA WithoutProperties ==
    ASSUME NEW S, NEW s \in Seq(S), NEW removed
    PROVE  /\ Without(s, removed) \in Seq(S)
           /\ Len(Without(s, removed)) <= Len(s)
           /\ \A pos \in 0 .. Len(s) : (\A p \in removed : ~(p <= pos)) =>
                /\ pos <= Len(Without(s, removed))
                /\ \A p \in 1 .. pos : Without(s, removed)[p] = s[p]
<1> DEFINE L == Len(s)
           K == DOMAIN s \ removed
           nth(n) == CHOOSE j \in K : Cardinality({i \in K : i <= j}) = n
           w == Without(s, removed)
<1>1. L \in Nat /\ DOMAIN s = 1 .. L /\ \A i \in 1 .. L : s[i] \in S
  OBVIOUS
<1>2. K \in SUBSET (1 .. L)
  BY <1>1
<1>3. Cardinality(K) \in Nat /\ Cardinality(K) <= L
  <2> HIDE DEF L
  <2>1. IsFiniteSet(1 .. L) /\ Cardinality(1 .. L) = L
    <3>1. IsFiniteSet(1 .. L) /\ Cardinality(1 .. L) = IF 1 > L THEN 0 ELSE L - 1 + 1
      BY <1>1, FS_Interval
    <3> QED
      BY <1>1, <3>1
  <2> HIDE DEF K, L
  <2>2. IsFiniteSet(K) /\ Cardinality(K) <= Cardinality(1 .. L)
    BY <1>2, <2>1, FS_Subset
  <2>3. Cardinality(K) \in Nat
    BY <2>2, FS_CardinalityType
  <2> QED
    BY <2>1, <2>2, <2>3
<1>4. w = [n \in 1 .. Cardinality(K) |-> s[nth(n)]]
  BY DEF Without
<1>5. \A n \in 1 .. Cardinality(K) : nth(n) \in K
  BY <1>1, <1>2, NthExists
<1>6. \A n \in 1 .. L : 1 .. n \subseteq K => n <= Cardinality(K) /\ nth(n) = n
  <2> SUFFICES ASSUME NEW n \in 1 .. L, 1 .. n \subseteq K
               PROVE  n <= Cardinality(K) /\ nth(n) = n
    OBVIOUS
  <2> HIDE DEF L, K
  <2>1. n \in K
    OBVIOUS
  <2>2. /\ n <= Cardinality(K)
        /\ Cardinality({i \in K : i <= n}) = n
        /\ \A j \in K : Cardinality({i \in K : i <= j}) = n => j = n
    BY <1>1, <1>2, NthBefore
  <2> QED
    BY <2>1, <2>2
<1> HIDE DEF K, nth, w
<1>7. \A n \in 1 .. Cardinality(K) : s[nth(n)] \in S
  BY <1>1, <1>2, <1>5
<1>8. w \in Seq(S) /\ Len(w) = Cardinality(K)
  BY <1>3, <1>4, <1>7
<1>9. ASSUME NEW pos \in 0 .. Len(s), \A p \in removed : ~(p <= pos)
      PROVE  pos <= Len(w) /\ \A p \in 1 .. pos : w[p] = s[p]
  <2>1. \A p \in 1 .. pos : p \in 1 .. L /\ 1 .. p \subseteq K
    BY <1>1, <1>9 DEF K
  <2>2. \A p \in 1 .. pos : p <= Cardinality(K) /\ nth(p) = p
    BY <1>6, <2>1
  <2>3. pos <= Len(w)
    BY <1>1, <1>3, <1>8, <2>2
  <2>4. \A p \in 1 .. pos : w[p] = s[p]
    BY <1>3, <1>4, <2>2
  <2> QED
    BY <2>3, <2>4
<1> QED
  BY <1>3, <1>8, <1>9 DEF w

\* What Without leaves is what stays of the sequence, in its order.
LEMMA WithoutStays ==
    ASSUME NEW S, NEW s \in Seq(S), NEW removed
    PROVE  Stays(Without(s, removed), s, removed)
<1> DEFINE L == Len(s)
           K == DOMAIN s \ removed
           upTo(j) == {i \in K : i <= j}
           nth(n) == CHOOSE j \in K : Cardinality({i \in K : i <= j}) = n
           w == Without(s, removed)
           N == Cardinality(K)
<1>1. L \in Nat /\ DOMAIN s = 1 .. L /\ \A i \in 1 .. L : s[i] \in S
  OBVIOUS
<1>2. K \in SUBSET (1 .. L) /\ \A j \in K : j \in Nat /\ 1 <= j
  BY <1>1
<1>3. IsFiniteSet(K) /\ N \in Nat
  <2>1. IsFiniteSet(1 .. L)
    BY <1>1, FS_Interval
  <2> HIDE DEF K, L
  <2>2. IsFiniteSet(K)
    BY <1>2, <2>1, FS_Subset
  <2> QED
    BY <2>2, FS_CardinalityType
<1>4. w = [n \in 1 .. N |-> s[nth(n)]]
  BY DEF Without
<1>5. \A n \in 1 .. N : nth(n) \in K /\ Cardinality(upTo(nth(n))) = n
  <2> HIDE DEF K, L
  <2>1. \A n \in 1 .. N : \E j \in K : Cardinality({i \in K : i <= j}) = n
    BY <1>1, <1>2, NthExists
  <2> QED
    BY <2>1
<1>6. \A j : upTo(j) \in SUBSET K
  OBVIOUS
<1>7. \A j, k \in K : j <= k => upTo(j) \in SUBSET upTo(k)
  <2> SUFFICES ASSUME NEW j \in K, NEW k \in K, j <= k, NEW i \in K, i <= j PROVE i <= k
    OBVIOUS
  <2>1. i \in Nat /\ j \in Nat /\ k \in Nat
    BY <1>2
  <2> QED
    BY <2>1
<1>8. \A j, k \in K : j \in upTo(k) <=> j <= k
  OBVIOUS
<1>9. \A n \in 1 .. N : s[nth(n)] \in S
  BY <1>1, <1>2, <1>5
<1> HIDE DEF K, L, upTo, nth, w, N
<1>10. \A j : IsFiniteSet(upTo(j)) /\ Cardinality(upTo(j)) \in Nat /\ Cardinality(upTo(j)) <= N
  <2> TAKE j
  <2>1. upTo(j) \in SUBSET K
    BY <1>6
  <2>2. IsFiniteSet(upTo(j)) /\ Cardinality(upTo(j)) <= N
    BY <1>3, <2>1, FS_Subset DEF N
  <2> QED
    BY <2>2, FS_CardinalityType
<1>11. w \in Seq(S) /\ Len(w) = N
  BY <1>3, <1>4, <1>9
\* Different positions have different numbers, in the order of the positions.
<1>12. \A j, k \in K : Cardinality(upTo(j)) < Cardinality(upTo(k)) => j < k
  <2> SUFFICES ASSUME NEW j \in K, NEW k \in K, ~(j < k)
               PROVE  ~(Cardinality(upTo(j)) < Cardinality(upTo(k)))
    OBVIOUS
  <2>1. k <= j
    BY <1>2
  <2>2. Cardinality(upTo(k)) <= Cardinality(upTo(j))
    BY <1>7, <1>10, <2>1, FS_Subset
  <2> QED
    BY <1>10, <2>2
<1>13. \A j, k \in K : Cardinality(upTo(j)) = Cardinality(upTo(k)) => j = k
  <2>1. ASSUME NEW j \in K, NEW k \in K, j < k, Cardinality(upTo(j)) = Cardinality(upTo(k))
        PROVE  FALSE
    <3>1. j \in Nat /\ k \in Nat /\ j <= k /\ ~(k <= j) /\ k <= k
      BY <1>2, <2>1
    <3>2. upTo(j) = upTo(k)
      BY <1>7, <1>10, <2>1, <3>1, FS_Subset
    <3> QED
      BY <1>8, <3>1, <3>2
  <2> SUFFICES ASSUME NEW j \in K, NEW k \in K,
                      Cardinality(upTo(j)) = Cardinality(upTo(k)), j # k
               PROVE  FALSE
    OBVIOUS
  <2>2. j < k \/ k < j
    BY <1>2
  <2> QED
    BY <2>1, <2>2
<1>14. \A j \in K : Cardinality(upTo(j)) \in 1 .. N /\ nth(Cardinality(upTo(j))) = j
  <2> TAKE j \in K
  <2>1. Cardinality(upTo(j)) # 0
    <3>1. j \in upTo(j)
      BY <1>2, <1>8
    <3> QED
      BY <1>10, <3>1, FS_EmptySet
  <2>2. Cardinality(upTo(j)) \in 1 .. N
    BY <1>3, <1>10, <2>1
  <2> QED
    BY <1>5, <1>13, <2>2
<1> DEFINE from == [n \in 1 .. N |-> nth(n)]
<1>15. from \in [1 .. N -> DOMAIN s]
  BY <1>1, <1>2, <1>5
<1>16. \A n \in 1 .. N : from[n] = nth(n) /\ w[n] = s[from[n]]
  BY <1>4
<1> HIDE DEF from
<1>17. \A m, n \in 1 .. N : m < n => from[m] < from[n]
  BY <1>5, <1>12, <1>16
<1>18. {from[n] : n \in 1 .. N} = K
  BY <1>5, <1>14, <1>16
<1> QED
  BY <1>11, <1>15, <1>16, <1>17, <1>18 DEF Stays, w, K

-----------------------------------------------------------------------------
(* Lemmas on the stack of calls.                                           *)

\* What Disturbed leaves alone, and what a call that it left undisturbed knows.
LEMMA DisturbedProperties ==
    ASSUME NEW cs \in Seq(Call), NEW positions
    PROVE  /\ Disturbed(cs, positions) \in Seq(Call)
           /\ Len(Disturbed(cs, positions)) = Len(cs)
           /\ \A k \in 1 .. Len(cs) : LET c == Disturbed(cs, positions)[k] IN
                /\ c.mask = cs[k].mask /\ c.pos = cs[k].pos /\ c.at = cs[k].at
                /\ c.dequeue = cs[k].dequeue
                /\ ~c.disturbed => /\ ~cs[k].disturbed
                                   /\ \A p \in positions : ~(p <= cs[k].pos)
<1> DEFINE hit(k) == cs[k].disturbed \/ \E p \in positions : p <= cs[k].pos
           d == Disturbed(cs, positions)
<1>1. Len(cs) \in Nat /\ DOMAIN cs = 1 .. Len(cs) /\ \A k \in 1 .. Len(cs) : cs[k] \in Call
  OBVIOUS
<1>2. d = [k \in 1 .. Len(cs) |-> [cs[k] EXCEPT !.disturbed = hit(k)]]
  BY <1>1 DEF Disturbed
<1>3. \A k \in 1 .. Len(cs) : hit(k) \in BOOLEAN
  BY <1>1 DEF Call
<1>4. \A k \in 1 .. Len(cs) : ~hit(k) => ~cs[k].disturbed
                                     /\ \A p \in positions : ~(p <= cs[k].pos)
  OBVIOUS
<1> HIDE DEF hit, d
<1>5. \A k \in 1 .. Len(cs) :
        /\ d[k] \in Call
        /\ d[k].mask = cs[k].mask /\ d[k].pos = cs[k].pos /\ d[k].at = cs[k].at
        /\ d[k].dequeue = cs[k].dequeue /\ d[k].disturbed = hit(k)
  BY <1>1, <1>2, <1>3 DEF Call
<1>6. d \in Seq(Call) /\ Len(d) = Len(cs)
  <2>1. d \in [1 .. Len(cs) -> Call]
    BY <1>2, <1>5
  <2> QED
    BY <1>1, <2>1
<1> QED
  BY <1>4, <1>5, <1>6 DEF d

\* The innermost call and those it returns to.
LEMMA StackProperties ==
    ASSUME calls \in Seq(Call), calls # <<>>
    PROVE  /\ Len(calls) \in Nat \ {0} /\ Top \in Call
           /\ Outer \in Seq(Call) /\ Len(Outer) = Len(calls) - 1
           /\ \A k \in 1 .. Len(calls) - 1 : Outer[k] = calls[k]
           /\ DOMAIN calls = 1 .. Len(calls) /\ \A k \in DOMAIN calls : calls[k] \in Call
<1>1. /\ Len(calls) \in Nat \ {0} /\ DOMAIN calls = 1 .. Len(calls)
      /\ \A k \in 1 .. Len(calls) : calls[k] \in Call
  OBVIOUS
<1>2. Top \in Call
  BY <1>1 DEF Top
<1>3. /\ Outer \in Seq(Call)
      /\ Len(Outer) = IF 1 <= Len(calls) - 1 THEN Len(calls) - 1 - 1 + 1 ELSE 0
      /\ \A k \in 1 .. Len(calls) - 1 - 1 + 1 : Outer[k] = calls[1 + k - 1]
  <2>1. 1 \in Int /\ Len(calls) - 1 \in Int
        /\ \A k \in 1 .. Len(calls) - 1 : calls[k] \in Call
    BY <1>1
  <2> QED
    BY <2>1, SubSeqProperties DEF Outer
<1>4. Len(calls) - 1 - 1 + 1 = Len(calls) - 1 /\ \A k \in 1 .. Len(calls) - 1 : 1 + k - 1 = k
  BY <1>1
<1>5. Len(Outer) = Len(calls) - 1
  <2>1. Len(Outer) = IF 1 <= Len(calls) - 1 THEN Len(calls) - 1 - 1 + 1 ELSE 0
    BY <1>3
  <2>2. Len(calls) \in Nat /\ (Len(calls) = 1 \/ Len(calls) > 1)
    BY <1>1
  <2>3. CASE Len(calls) = 1
    BY <2>1, <2>3
  <2>4. CASE Len(calls) > 1
    BY <2>1, <2>2, <2>4
  <2> QED
    BY <2>2, <2>3, <2>4
<1>6. \A k \in 1 .. Len(calls) - 1 : Outer[k] = calls[k]
  BY <1>3, <1>4
<1> QED
  BY <1>1, <1>2, <1>3, <1>5, <1>6

\* c has not passed an event of q it waits for.
HonestCall(c, q) ==
    ~c.disturbed => /\ c.pos <= Len(q)
                    /\ \A p \in 1 .. c.pos : ~Matches(c.mask, q[p])

\* Calls stay honest when events leave the queue.
LEMMA RemovalKeepsHonest ==
    ASSUME NEW cs \in Seq(Call), NEW q \in Seq(Event), NEW positions,
           \A k \in 1 .. Len(cs) : HonestCall(cs[k], q)
    PROVE  \A k \in 1 .. Len(cs) :
             HonestCall(Disturbed(cs, positions)[k], Without(q, positions))
<1> SUFFICES ASSUME NEW k \in 1 .. Len(cs), ~Disturbed(cs, positions)[k].disturbed
             PROVE  HonestCall(Disturbed(cs, positions)[k], Without(q, positions))
  BY DEF HonestCall
<1> DEFINE c == Disturbed(cs, positions)[k]
<1>1. /\ c.mask = cs[k].mask /\ c.pos = cs[k].pos /\ ~cs[k].disturbed
      /\ \A p \in positions : ~(p <= cs[k].pos)
  BY DisturbedProperties
<1>2. cs[k] \in Call /\ cs[k].pos \in Nat
  <2>1. cs[k] \in Call
    BY ElementOfSeq
  <2> QED
    BY <2>1 DEF Call
<1>3. /\ cs[k].pos <= Len(q)
      /\ \A p \in 1 .. cs[k].pos : ~Matches(cs[k].mask, q[p])
  BY <1>1 DEF HonestCall
<1>4. cs[k].pos \in 0 .. Len(q)
  BY <1>2, <1>3
<1>5. /\ cs[k].pos <= Len(Without(q, positions))
      /\ \A p \in 1 .. cs[k].pos : Without(q, positions)[p] = q[p]
  BY <1>1, <1>4, WithoutProperties
<1> HIDE DEF c
<1> SUFFICES HonestCall(c, Without(q, positions))
  BY DEF c
<1> QED
  BY <1>1, <1>3, <1>5 DEF HonestCall, Matches

-----------------------------------------------------------------------------
(* The invariant: the types and the honesty of the positions.              *)

AtCallbackBelow(cs) == \A k \in DOMAIN cs : k < Len(cs) => cs[k].at = "callback"

Answers == [type: Types, time: 0..MaxTime] \cup {None}

\* Removing events and returning from the innermost call keep the types.
LEMMA ReturnTypes ==
    ASSUME TypeOK, calls # <<>>
    PROVE  /\ Outer \in Seq(Call) /\ Len(Outer) <= MaxCalls /\ AtCallbackBelow(Outer)
           /\ \A positions :
                /\ Disturbed(Outer, positions) \in Seq(Call)
                /\ Len(Disturbed(Outer, positions)) <= MaxCalls
                /\ AtCallbackBelow(Disturbed(Outer, positions))
<1>1. /\ Len(calls) \in Nat \ {0} /\ Len(calls) <= MaxCalls
      /\ Outer \in Seq(Call) /\ Len(Outer) = Len(calls) - 1
      /\ \A k \in 1 .. Len(calls) - 1 : Outer[k] = calls[k]
  BY StackProperties DEF TypeOK
<1>2. \A k \in 1 .. Len(calls) - 1 : calls[k].at = "callback"
  <2>1. \A k \in DOMAIN calls : k < Len(calls) => calls[k].at = "callback"
    BY DEF TypeOK
  <2>2. \A k \in 1 .. Len(calls) - 1 : k \in DOMAIN calls /\ k < Len(calls)
    BY <1>1, StackProperties DEF TypeOK
  <2> QED
    BY <2>1, <2>2
<1>3. Len(Outer) <= MaxCalls
  BY <1>1
<1>4. \A k \in 1 .. Len(Outer) : Outer[k].at = "callback"
  BY <1>1, <1>2
<1>5. AtCallbackBelow(Outer)
  BY <1>1, <1>4 DEF AtCallbackBelow
<1>6. ASSUME NEW positions
      PROVE  /\ Disturbed(Outer, positions) \in Seq(Call)
             /\ Len(Disturbed(Outer, positions)) <= MaxCalls
             /\ AtCallbackBelow(Disturbed(Outer, positions))
  <2> DEFINE d == Disturbed(Outer, positions)
  <2>1. /\ d \in Seq(Call) /\ Len(d) = Len(Outer)
        /\ \A k \in 1 .. Len(Outer) : d[k].at = Outer[k].at
    BY <1>1, DisturbedProperties
  <2> HIDE DEF d
  <2>2. AtCallbackBelow(d)
    BY <1>1, <1>4, <2>1 DEF AtCallbackBelow
  <2> QED
    BY <1>3, <2>1, <2>2 DEF d
<1> QED
  BY <1>1, <1>3, <1>5, <1>6

\* What nextEventMatchingMask:... may answer.
LEMMA AnswerType ==
    ASSUME NEW e \in Event
    PROVE  Answer(e) \in Answers
  BY DEF Answer, Answers, Event

\* Changing where the innermost call is keeps the types of the stack.
LEMMA GotoTypes ==
    ASSUME TypeOK, calls # <<>>,
           NEW at \in {"scan", "runLoop", "callback"}, NEW pos \in Nat
    PROVE  LET c == [calls EXCEPT ![Len(calls)] = [@ EXCEPT !.at = at, !.pos = pos]] IN
           /\ c \in Seq(Call) /\ Len(c) = Len(calls) /\ AtCallbackBelow(c)
           /\ \A k \in 1 .. Len(calls) - 1 : c[k] = calls[k]
           /\ c[Len(calls)] = [Top EXCEPT !.at = at, !.pos = pos]
<1> DEFINE new == [Top EXCEPT !.at = at, !.pos = pos]
           c == [calls EXCEPT ![Len(calls)] = new]
<1>1. Len(calls) \in 1 .. Len(calls) /\ Len(calls) \in Nat /\ Top \in Call
  BY StackProperties DEF TypeOK
<1>2. new \in Call
  BY <1>1 DEF Call
<1>3. c = [calls EXCEPT ![Len(calls)] = [@ EXCEPT !.at = at, !.pos = pos]]
  BY DEF Top
<1> HIDE DEF new
<1>4. calls \in Seq(Call)
  BY DEF TypeOK
<1>5. /\ c \in Seq(Call) /\ Len(c) = Len(calls)
      /\ \A j \in 1 .. Len(calls) : c[j] = IF j = Len(calls) THEN new ELSE calls[j]
  BY <1>1, <1>2, <1>4, ExceptSeq
<1>6. \A k \in 1 .. Len(calls) : k < Len(calls) => calls[k].at = "callback"
  BY <1>4 DEF TypeOK
<1> HIDE DEF c
<1>7. AtCallbackBelow(c)
  BY <1>1, <1>5, <1>6 DEF AtCallbackBelow
<1>8. \A k \in 1 .. Len(calls) - 1 : k \in 1 .. Len(calls) /\ k # Len(calls)
  BY <1>1
<1>9. \A k \in 1 .. Len(calls) - 1 : c[k] = calls[k]
  BY <1>5, <1>8
<1>10. c[Len(calls)] = new
  BY <1>1, <1>5
<1> QED
  BY <1>3, <1>5, <1>7, <1>9, <1>10 DEF new

\* The type invariant, with its parts named.
LEMMA TypeParts ==
    TypeOK <=> /\ queue \in Seq(Event) /\ Len(queue) <= MaxQueue
               /\ calls \in Seq(Call) /\ Len(calls) <= MaxCalls
               /\ AtCallbackBelow(calls) /\ answer \in Answers
  BY DEF TypeOK, AtCallbackBelow, Answers

\* What each kind of step does to the stack of calls, apart from returns.
LEMMA ScanTypes ==
    ASSUME TypeOK, ScanFails
    PROVE  /\ calls' \in Seq(Call) /\ Len(calls') = Len(calls) /\ AtCallbackBelow(calls')
           /\ \A k \in 1 .. Len(calls) - 1 : calls'[k] = calls[k]
           /\ calls'[Len(calls)] = [Top EXCEPT !.at = "runLoop", !.pos = Scanned(Top)]
<1>1. Top \in Call /\ calls # <<>>
  BY StackProperties DEF TypeOK, ScanFails
<1>2. Scanned(Top) \in Nat
  BY <1>1 DEF Scanned, TypeOK, Call
<1>3. calls' = [calls EXCEPT ![Len(calls)] =
                    [@ EXCEPT !.at = "runLoop", !.pos = Scanned(Top)]]
  <2>1. calls' = [calls EXCEPT ![Len(calls)].pos = Scanned(Top),
                               ![Len(calls)].at = "runLoop"]
    BY DEF ScanFails
  <2>2. Len(calls) \in DOMAIN calls /\ calls[Len(calls)] \in Call
    BY <1>1, StackProperties DEF TypeOK
  <2> HIDE DEF Scanned, Top
  <2> QED
    BY <2>1, <2>2 DEF Call
<1> DEFINE c == [calls EXCEPT ![Len(calls)] =
                    [@ EXCEPT !.at = "runLoop", !.pos = Scanned(Top)]]
<1> HIDE DEF Scanned
<1>4. /\ c \in Seq(Call) /\ Len(c) = Len(calls) /\ AtCallbackBelow(c)
      /\ \A k \in 1 .. Len(calls) - 1 : c[k] = calls[k]
      /\ c[Len(calls)] = [Top EXCEPT !.at = "runLoop", !.pos = Scanned(Top)]
  BY <1>1, <1>2, GotoTypes
<1> HIDE DEF c
<1>5. calls' = c
  BY <1>3 DEF c
<1> QED
  BY <1>4, <1>5

LEMMA MoveTypes ==
    ASSUME TypeOK, calls # <<>>, NEW at \in {"scan", "runLoop", "callback"}, Goto(at)
    PROVE  /\ calls' \in Seq(Call) /\ Len(calls') = Len(calls) /\ AtCallbackBelow(calls')
           /\ \A k \in 1 .. Len(calls) - 1 : calls'[k] = calls[k]
           /\ calls'[Len(calls)] = [Top EXCEPT !.at = at, !.pos = Top.pos]
<1>1. Top \in Call /\ Top.pos \in Nat
  BY StackProperties DEF TypeOK, Call
<1>2. calls' = [calls EXCEPT ![Len(calls)] = [@ EXCEPT !.at = at, !.pos = Top.pos]]
  <2>1. calls' = [calls EXCEPT ![Len(calls)].at = at]
    BY DEF Goto
  <2>2. Len(calls) \in DOMAIN calls /\ calls[Len(calls)] \in Call
    BY <1>1, StackProperties DEF TypeOK
  <2>3. [calls[Len(calls)] EXCEPT !.at = at] =
        [calls[Len(calls)] EXCEPT !.at = at, !.pos = calls[Len(calls)].pos]
    BY <2>2 DEF Call
  <2> QED
    BY <2>1, <2>3 DEF Top
<1> DEFINE pos == Top.pos
<1>3. pos \in Nat /\ calls' = [calls EXCEPT ![Len(calls)] = [@ EXCEPT !.at = at, !.pos = pos]]
  BY <1>1, <1>2
<1> HIDE DEF pos
<1> DEFINE c == [calls EXCEPT ![Len(calls)] = [@ EXCEPT !.at = at, !.pos = pos]]
<1>4. /\ c \in Seq(Call) /\ Len(c) = Len(calls) /\ AtCallbackBelow(c)
      /\ \A k \in 1 .. Len(calls) - 1 : c[k] = calls[k]
      /\ c[Len(calls)] = [Top EXCEPT !.at = at, !.pos = pos]
  BY <1>3, GotoTypes
<1>5. calls' = c
  BY <1>3
<1> HIDE DEF c
<1> QED
  BY <1>4, <1>5 DEF pos

LEMMA NewCallTypes ==
    ASSUME TypeOK, NEW mask \in Masks, NEW open \in BOOLEAN, NEW dequeue \in BOOLEAN,
           nextEventMatchingMask(mask, open, dequeue)
    PROVE  /\ calls' \in Seq(Call) /\ Len(calls') = Len(calls) + 1
           /\ Len(calls') <= MaxCalls /\ AtCallbackBelow(calls')
           /\ \A k \in 1 .. Len(calls) : calls'[k] = calls[k]
           /\ calls'[Len(calls) + 1].pos = 0
<1> DEFINE new == [mask |-> mask, dequeue |-> dequeue, open |-> open,
                   pos |-> 0, at |-> "scan", disturbed |-> FALSE]
<1>1. new \in Call /\ new.pos = 0
  BY DEF Call
<1>2. calls \in Seq(Call) /\ Len(calls) < MaxCalls /\ Len(calls) \in Nat
  BY DEF TypeOK, nextEventMatchingMask
<1>3. calls' = Append(calls, new)
  BY DEF nextEventMatchingMask
<1> HIDE DEF new
<1>4. /\ calls' \in Seq(Call) /\ Len(calls') = Len(calls) + 1
      /\ DOMAIN calls' = 1 .. Len(calls) + 1
      /\ \A k \in 1 .. Len(calls) : calls'[k] = calls[k]
      /\ calls'[Len(calls) + 1] = new
  BY <1>1, <1>2, <1>3
<1>5. \A k \in 1 .. Len(calls) : calls[k].at = "callback"
  <2> SUFFICES ASSUME NEW k \in 1 .. Len(calls) PROVE calls[k].at = "callback"
    OBVIOUS
  <2>1. calls # <<>> /\ k \in DOMAIN calls
    BY <1>2
  <2>2. CASE k < Len(calls)
    BY <2>1, <2>2 DEF TypeOK
  <2>3. CASE k = Len(calls)
    BY <2>1, <2>3 DEF nextEventMatchingMask, InApplication, Top
  <2> QED
    BY <1>2, <2>2, <2>3
<1>6. AtCallbackBelow(calls')
  <2>1. \A k \in DOMAIN calls' : k < Len(calls') => k \in 1 .. Len(calls)
    BY <1>2, <1>4
  <2> QED
    BY <1>4, <1>5, <2>1 DEF AtCallbackBelow
<1>7. Len(calls') <= MaxCalls
  BY <1>2, <1>4
<1> QED
  BY <1>1, <1>4, <1>6, <1>7

LEMMA LimitTypes ==
    ASSUME TypeOK, LimitPasses
    PROVE  /\ calls' \in Seq(Call) /\ Len(calls') = Len(calls) /\ AtCallbackBelow(calls')
           /\ \A k \in 1 .. Len(calls) : /\ calls'[k].pos = calls[k].pos
                                        /\ calls'[k].mask = calls[k].mask
                                        /\ calls'[k].disturbed = calls[k].disturbed
<1>1. PICK k \in DOMAIN calls : calls' = [calls EXCEPT ![k].open = FALSE]
  BY DEF LimitPasses
<1> DEFINE new == [calls[k] EXCEPT !.open = FALSE]
<1>2. calls \in Seq(Call) /\ k \in 1 .. Len(calls) /\ calls[k] \in Call
  BY <1>1 DEF TypeOK
<1>3. /\ new \in Call /\ new.at = calls[k].at /\ new.pos = calls[k].pos
      /\ new.mask = calls[k].mask /\ new.disturbed = calls[k].disturbed
  BY <1>2 DEF Call
<1>4. calls' = [calls EXCEPT ![k] = new]
  BY <1>1
<1> HIDE DEF new
<1>5. /\ calls' \in Seq(Call) /\ Len(calls') = Len(calls)
      /\ \A j \in 1 .. Len(calls) : calls'[j] = IF j = k THEN new ELSE calls[j]
  BY <1>2, <1>3, <1>4, ExceptSeq
<1>6. \A j \in 1 .. Len(calls) :
        /\ calls'[j].at = calls[j].at /\ calls'[j].pos = calls[j].pos
        /\ calls'[j].mask = calls[j].mask /\ calls'[j].disturbed = calls[j].disturbed
  BY <1>3, <1>5
<1>7. DOMAIN calls = 1 .. Len(calls) /\ DOMAIN calls' = 1 .. Len(calls)
  BY <1>2, <1>5
<1>8. AtCallbackBelow(calls')
  BY <1>5, <1>6, <1>7 DEF AtCallbackBelow, TypeOK
<1> QED
  BY <1>5, <1>6, <1>8

LEMMA DisturbedTypes ==
    ASSUME TypeOK, NEW positions
    PROVE  /\ Disturbed(calls, positions) \in Seq(Call)
           /\ Len(Disturbed(calls, positions)) = Len(calls)
           /\ AtCallbackBelow(Disturbed(calls, positions))
<1> DEFINE d == Disturbed(calls, positions)
<1>1. calls \in Seq(Call) /\ DOMAIN calls = 1 .. Len(calls)
      /\ \A k \in DOMAIN calls : k < Len(calls) => calls[k].at = "callback"
  BY DEF TypeOK
<1>2. /\ d \in Seq(Call) /\ Len(d) = Len(calls)
      /\ \A k \in 1 .. Len(calls) : d[k].at = calls[k].at
  BY <1>1, DisturbedProperties
<1> HIDE DEF d
<1>3. AtCallbackBelow(d)
  BY <1>1, <1>2 DEF AtCallbackBelow
<1> QED
  BY <1>2, <1>3 DEF d

\* What a post does to the queue.
LEMMA InsertedProperties ==
    ASSUME TypeOK, NEW e \in Event, NEW atStart \in BOOLEAN
    PROVE  /\ Inserted(e, atStart) \in Seq(Event)
           /\ Len(Inserted(e, atStart)) = Len(queue) + 1
           /\ ~atStart => \A p \in 1 .. Len(queue) : Inserted(e, atStart)[p] = queue[p]
<1>1. queue \in Seq(Event) /\ <<e>> \in Seq(Event) /\ Len(<<e>>) = 1 /\ Len(queue) \in Nat
  BY DEF TypeOK
<1>2. /\ <<e>> \o queue \in Seq(Event) /\ Len(<<e>> \o queue) = 1 + Len(queue)
  BY <1>1, ConcatProperties
<1>3. /\ Append(queue, e) \in Seq(Event) /\ Len(Append(queue, e)) = Len(queue) + 1
      /\ \A p \in 1 .. Len(queue) : Append(queue, e)[p] = queue[p]
  BY <1>1
<1>4. CASE atStart
  BY <1>1, <1>2, <1>4 DEF Inserted
<1>5. CASE ~atStart
  BY <1>1, <1>3, <1>5 DEF Inserted
<1> QED
  BY <1>4, <1>5

-----------------------------------------------------------------------------
(* Steps.                                                                  *)

\* What a scan that finds an event does.
LEMMA Finding ==
    ASSUME TypeOK, ScanFinds
    PROVE  /\ calls # <<>>
           /\ \E p \in Found(Top) :
                /\ \A q \in Found(Top) : p <= q
                /\ p \in 1 .. Len(queue) /\ FirstUnseen(Top) <= p
                /\ Matches(Top.mask, queue[p])
                /\ answer' = Answer(queue[p])
                /\ \/ /\ Top.dequeue /\ queue' = Without(queue, {p})
                      /\ calls' = Disturbed(Outer, {p})
                   \/ ~Top.dequeue /\ queue' = queue /\ calls' = Outer
<1>1. calls # <<>> /\ Top \in Call
  BY StackProperties DEF ScanFinds, TypeOK
<1>2. PICK p \in Found(Top) : (\A q \in Found(Top) : p <= q) /\ Return(Top, p)
  BY DEF ScanFinds
<1>3. FirstUnseen(Top) \in Nat /\ 1 <= FirstUnseen(Top)
  BY <1>1 DEF FirstUnseen, Call
<1>4. Len(queue) \in Nat
  BY DEF TypeOK
<1>5. p \in 1 .. Len(queue) /\ FirstUnseen(Top) <= p /\ Matches(Top.mask, queue[p])
  <2> HIDE DEF FirstUnseen
  <2>1. p \in FirstUnseen(Top) .. Len(queue) /\ Matches(Top.mask, queue[p])
    BY DEF Found
  <2> QED
    BY <1>3, <1>4, <2>1
<1>6. answer' = Answer(queue[p])
  BY <1>2 DEF Return
<1>7. Top.dequeue \in BOOLEAN
  BY <1>1 DEF Call
<1>8. CASE Top.dequeue
  BY <1>1, <1>2, <1>5, <1>6, <1>8 DEF Return, RemovedAt
<1>9. CASE ~Top.dequeue
  BY <1>1, <1>2, <1>5, <1>6, <1>9 DEF Return
<1> QED
  BY <1>7, <1>8, <1>9

LEMMA TypeStep ==
    ASSUME TypeOK, [Next]_vars
    PROVE  TypeOK'
<1> USE DEF Answers
<1>0. /\ queue \in Seq(Event) /\ Len(queue) <= MaxQueue
      /\ calls \in Seq(Call) /\ Len(calls) <= MaxCalls
      /\ AtCallbackBelow(calls) /\ answer \in Answers
      /\ Len(queue) \in Nat /\ Len(calls) \in Nat
  BY TypeParts
<1>1. SUFFICES /\ queue' \in Seq(Event) /\ Len(queue') <= MaxQueue
               /\ calls' \in Seq(Call) /\ Len(calls') <= MaxCalls
               /\ AtCallbackBelow(calls') /\ answer' \in Answers
  BY DEF TypeOK, AtCallbackBelow
<1>2. \A positions : /\ Without(queue, positions) \in Seq(Event)
                     /\ Len(Without(queue, positions)) <= MaxQueue
  <2> SUFFICES ASSUME NEW positions
               PROVE  /\ Without(queue, positions) \in Seq(Event)
                      /\ Len(Without(queue, positions)) <= MaxQueue
    OBVIOUS
  <2>1. /\ Without(queue, positions) \in Seq(Event)
        /\ Len(Without(queue, positions)) <= Len(queue)
    BY <1>0, WithoutProperties
  <2> QED
    BY <1>0, <2>1
<1>3. None \in Answers
  OBVIOUS
<1> HIDE DEF Answers
<1>4. CASE ScanFinds
  <2>1. PICK p \in 1 .. Len(queue) :
          /\ answer' = Answer(queue[p])
          /\ \/ queue' = Without(queue, {p}) /\ calls' = Disturbed(Outer, {p})
             \/ queue' = queue /\ calls' = Outer
    BY <1>4, Finding
  <2>2. answer' \in Answers
    BY <1>0, <2>1, AnswerType
  <2> QED
    BY <1>0, <1>2, <1>4, <2>1, <2>2, Finding, ReturnTypes
<1>5. CASE ScanFails
  BY <1>0, <1>3, <1>5, ScanTypes DEF ScanFails
<1>6. ASSUME calls # <<>>, ReturnNil
      PROVE  /\ queue' \in Seq(Event) /\ Len(queue') <= MaxQueue
             /\ calls' \in Seq(Call) /\ Len(calls') <= MaxCalls
             /\ AtCallbackBelow(calls') /\ answer' \in Answers
  BY <1>0, <1>3, <1>6, ReturnTypes DEF ReturnNil
<1>7. ASSUME calls # <<>>, NEW at \in {"scan", "runLoop", "callback"}, Goto(at),
             answer' = None, UNCHANGED queue
      PROVE  /\ queue' \in Seq(Event) /\ Len(queue') <= MaxQueue
             /\ calls' \in Seq(Call) /\ Len(calls') <= MaxCalls
             /\ AtCallbackBelow(calls') /\ answer' \in Answers
  BY <1>0, <1>3, <1>7, MoveTypes
<1>8. CASE RunLoopReturns
  <2>1. calls # <<>> /\ (ReturnNil \/ (Goto("scan") /\ answer' = None /\ UNCHANGED queue))
    BY <1>8 DEF RunLoopReturns
  <2> QED
    BY <1>6, <1>7, <2>1
<1>9. CASE NoInputSources
  BY <1>6, <1>9 DEF NoInputSources
<1>10. CASE LimitPasses
  BY <1>0, <1>3, <1>10, LimitTypes DEF LimitPasses
<1>11. CASE CallbackStarts
  BY <1>7, <1>11 DEF CallbackStarts
<1>12. CASE CallbackReturns
  BY <1>7, <1>12 DEF CallbackReturns
<1>13. ASSUME NEW mask \in Masks, NEW open \in BOOLEAN, NEW dequeue \in BOOLEAN,
              nextEventMatchingMask(mask, open, dequeue)
       PROVE  /\ queue' \in Seq(Event) /\ Len(queue') <= MaxQueue
              /\ calls' \in Seq(Call) /\ Len(calls') <= MaxCalls
              /\ AtCallbackBelow(calls') /\ answer' \in Answers
  <2>1. answer' = None /\ queue' = queue
    BY <1>13 DEF nextEventMatchingMask
  <2> QED
    BY <1>0, <1>3, <1>13, <2>1, NewCallTypes
<1>14. ASSUME NEW e \in Event, NEW atStart \in BOOLEAN, postEvent(e, atStart)
       PROVE  /\ queue' \in Seq(Event) /\ Len(queue') <= MaxQueue
              /\ calls' \in Seq(Call) /\ Len(calls') <= MaxCalls
              /\ AtCallbackBelow(calls') /\ answer' \in Answers
  <2>1. /\ queue' = Inserted(e, atStart) /\ Len(queue) < MaxQueue /\ answer' = None
        /\ calls' = Disturbed(calls, {1}) \/ calls' = calls
    BY <1>14 DEF postEvent
  <2>2. queue' \in Seq(Event) /\ Len(queue') = Len(queue) + 1
    BY <2>1, InsertedProperties
  <2>3. Len(queue') <= MaxQueue
    BY <1>0, <2>1, <2>2
  <2>4. calls' \in Seq(Call) /\ Len(calls') = Len(calls) /\ AtCallbackBelow(calls')
    BY <1>0, <2>1, DisturbedTypes
  <2> QED
    BY <1>0, <1>3, <2>1, <2>2, <2>3, <2>4
<1>15. ASSUME NEW mask \in Masks, NEW when \in 0 .. MaxTime + 1,
              discardEventsMatchingMask(mask, when)
       PROVE  /\ queue' \in Seq(Event) /\ Len(queue') <= MaxQueue
              /\ calls' \in Seq(Call) /\ Len(calls') <= MaxCalls
              /\ AtCallbackBelow(calls') /\ answer' \in Answers
  <2>1. /\ queue' = Without(queue, Discarded(mask, when)) /\ answer' = None
        /\ calls' = Disturbed(calls, Discarded(mask, when))
    BY <1>15 DEF discardEventsMatchingMask
  <2> QED
    BY <1>0, <1>2, <1>3, <2>1, DisturbedTypes
<1>16. CASE UNCHANGED vars
  BY <1>0, <1>16 DEF vars, AtCallbackBelow
<1> QED
  BY <1>4, <1>5, <1>8, <1>9, <1>10, <1>11, <1>12, <1>13, <1>14, <1>15, <1>16
     DEF Next, GetEvent, CallbackStep

LEMMA HonestStep ==
    ASSUME TypeOK, ScannedHonestly, [Next]_vars
    PROVE  ScannedHonestly'
<1>0. /\ queue \in Seq(Event) /\ calls \in Seq(Call)
      /\ Len(queue) \in Nat /\ Len(calls) \in Nat /\ DOMAIN calls = 1 .. Len(calls)
      /\ \A k \in 1 .. Len(calls) : calls[k] \in Call
  BY DEF TypeOK
<1>1. \A k \in 1 .. Len(calls) : HonestCall(calls[k], queue)
  BY <1>0 DEF ScannedHonestly, HonestCall
<1>2. calls' \in Seq(Call) /\ DOMAIN calls' = 1 .. Len(calls')
  BY TypeStep DEF TypeOK
<1>3. SUFFICES \A k \in 1 .. Len(calls') : HonestCall(calls'[k], queue')
  BY <1>2 DEF ScannedHonestly, HonestCall
\* The innermost call has returned.
<1>4. calls # <<>> => \A k \in 1 .. Len(Outer) : HonestCall(Outer[k], queue)
  <2> SUFFICES ASSUME calls # <<>>, NEW k \in 1 .. Len(Outer)
               PROVE  HonestCall(Outer[k], queue)
    OBVIOUS
  <2>1. Len(Outer) = Len(calls) - 1 /\ \A j \in 1 .. Len(calls) - 1 : Outer[j] = calls[j]
    BY <1>0, StackProperties
  <2>2. k \in 1 .. Len(calls) - 1 /\ k \in 1 .. Len(calls)
    BY <1>0, <2>1
  <2> QED
    BY <1>1, <2>1, <2>2
<1>5. CASE ScanFinds
  <2>1. PICK p \in 1 .. Len(queue) :
          \/ queue' = Without(queue, {p}) /\ calls' = Disturbed(Outer, {p})
          \/ queue' = queue /\ calls' = Outer
    BY <1>5, Finding
  <2>2. calls # <<>> /\ Outer \in Seq(Call)
    BY <1>5, Finding, ReturnTypes
  <2>3. CASE queue' = queue /\ calls' = Outer
    BY <1>4, <2>2, <2>3
  <2>4. CASE queue' = Without(queue, {p}) /\ calls' = Disturbed(Outer, {p})
    <3>1. \A k \in 1 .. Len(Outer) :
            HonestCall(Disturbed(Outer, {p})[k], Without(queue, {p}))
      BY <1>0, <1>4, <2>2, RemovalKeepsHonest
    <3>2. Len(Disturbed(Outer, {p})) = Len(Outer)
      BY <2>2, DisturbedProperties
    <3> QED
      BY <2>4, <3>1, <3>2
  <2> QED
    BY <2>1, <2>3, <2>4
\* The innermost call has moved, and stands at pos.
<1>6. ASSUME NEW at, NEW pos, calls # <<>>, queue' = queue, Len(calls') = Len(calls),
             \A k \in 1 .. Len(calls) - 1 : calls'[k] = calls[k],
             calls'[Len(calls)] = [Top EXCEPT !.at = at, !.pos = pos],
             ~Top.disturbed => /\ pos <= Len(queue)
                               /\ \A p \in 1 .. pos : ~Matches(Top.mask, queue[p])
      PROVE  \A k \in 1 .. Len(calls') : HonestCall(calls'[k], queue')
  <2> SUFFICES ASSUME NEW k \in 1 .. Len(calls)
               PROVE  HonestCall(calls'[k], queue)
    BY <1>6
  <2>1. CASE k < Len(calls)
    <3>1. k \in 1 .. Len(calls) - 1
      BY <1>0, <2>1
    <3> QED
      BY <1>1, <1>6, <3>1
  <2>2. CASE k = Len(calls)
    <3>1. Top \in Call
      BY <1>0, <1>6, StackProperties
    <3>2. /\ calls'[k].disturbed = Top.disturbed /\ calls'[k].mask = Top.mask
          /\ calls'[k].pos = pos
      BY <1>6, <2>2, <3>1 DEF Call
    <3> QED
      BY <1>6, <3>2 DEF HonestCall
  <2>3. Len(calls) \in Nat
    BY <1>0
  <2>4. k < Len(calls) \/ k = Len(calls)
    BY <2>3
  <2> QED
    BY <2>1, <2>2, <2>4
<1>7. calls # <<>> =>
        /\ Top \in Call /\ Top.pos \in Nat /\ Len(calls) \in 1 .. Len(calls)
        /\ ~Top.disturbed => /\ Top.pos <= Len(queue)
                             /\ \A p \in 1 .. Top.pos : ~Matches(Top.mask, queue[p])
  <2> SUFFICES ASSUME calls # <<>>
               PROVE  /\ Top \in Call /\ Top.pos \in Nat /\ Len(calls) \in 1 .. Len(calls)
                      /\ HonestCall(Top, queue)
    BY DEF HonestCall
  <2>1. Len(calls) \in 1 .. Len(calls) /\ Top \in Call
    BY <1>0, StackProperties
  <2>2. Top.pos \in Nat
    BY <2>1 DEF Call
  <2> QED
    BY <1>1, <2>1, <2>2 DEF Top
<1>8. CASE ScanFails
  <2>1. calls # <<>> /\ queue' = queue /\ Found(Top) = {}
    BY <1>8 DEF ScanFails
  <2>2. ~Top.disturbed => /\ Scanned(Top) <= Len(queue)
                          /\ \A p \in 1 .. Scanned(Top) : ~Matches(Top.mask, queue[p])
    <3>1. CASE Scanned(Top) = Top.pos
      BY <1>7, <2>1, <3>1
    <3>2. CASE Top.mask # AnyEventMask /\ Scanned(Top) = Len(queue)
      <4> SUFFICES ASSUME ~Top.disturbed, NEW p \in 1 .. Len(queue)
                   PROVE  ~Matches(Top.mask, queue[p])
        BY <1>0, <3>2
      <4>1. CASE p <= Top.pos
        BY <1>0, <1>7, <2>1, <4>1
      <4>2. CASE Top.pos + 1 <= p
        <5>1. p \in FirstUnseen(Top) .. Len(queue)
          BY <1>0, <1>7, <2>1, <3>2, <4>2 DEF FirstUnseen
        <5> QED
          BY <2>1, <5>1 DEF Found
      <4> QED
        BY <1>0, <1>7, <2>1, <4>1, <4>2
    <3> QED
      BY <3>1, <3>2 DEF Scanned
  <2> HIDE DEF Scanned
  <2> QED
    BY <1>6, <1>8, <2>1, <2>2, ScanTypes
<1>9. ASSUME calls # <<>>, NEW at \in {"scan", "runLoop", "callback"}, Goto(at), queue' = queue
      PROVE  \A k \in 1 .. Len(calls') : HonestCall(calls'[k], queue')
  BY <1>6, <1>7, <1>9, MoveTypes
<1>10. ASSUME calls # <<>>, ReturnNil
       PROVE  \A k \in 1 .. Len(calls') : HonestCall(calls'[k], queue')
  BY <1>4, <1>10 DEF ReturnNil
<1>11. CASE RunLoopReturns
  BY <1>9, <1>10, <1>11 DEF RunLoopReturns
<1>12. CASE NoInputSources
  BY <1>10, <1>12 DEF NoInputSources
<1>13. CASE LimitPasses
  <2>1. queue' = queue
    BY <1>13 DEF LimitPasses
  <2>2. /\ Len(calls') = Len(calls)
        /\ \A k \in 1 .. Len(calls) : /\ calls'[k].pos = calls[k].pos
                                     /\ calls'[k].mask = calls[k].mask
                                     /\ calls'[k].disturbed = calls[k].disturbed
    BY <1>13, LimitTypes
  <2> QED
    BY <1>1, <2>1, <2>2 DEF HonestCall
<1>14. CASE CallbackStarts
  BY <1>9, <1>14 DEF CallbackStarts
<1>15. CASE CallbackReturns
  BY <1>9, <1>15 DEF CallbackReturns
<1>16. ASSUME NEW mask \in Masks, NEW open \in BOOLEAN, NEW dequeue \in BOOLEAN,
              nextEventMatchingMask(mask, open, dequeue)
       PROVE  \A k \in 1 .. Len(calls') : HonestCall(calls'[k], queue')
  <2>1. queue' = queue
    BY <1>16 DEF nextEventMatchingMask
  <2>2. /\ Len(calls') = Len(calls) + 1 /\ calls'[Len(calls) + 1].pos = 0
        /\ \A k \in 1 .. Len(calls) : calls'[k] = calls[k]
    BY <1>16, NewCallTypes
  <2>3. HonestCall(calls'[Len(calls) + 1], queue)
    BY <1>0, <2>2 DEF HonestCall
  <2>4. \A k \in 1 .. Len(calls') : k \in 1 .. Len(calls) \/ k = Len(calls) + 1
    BY <1>0, <2>2
  <2> QED
    BY <1>1, <2>1, <2>2, <2>3, <2>4
<1>17. ASSUME NEW e \in Event, NEW atStart \in BOOLEAN, postEvent(e, atStart)
       PROVE  \A k \in 1 .. Len(calls') : HonestCall(calls'[k], queue')
  <2>1. /\ queue' = Inserted(e, atStart)
        /\ calls' = IF atStart THEN Disturbed(calls, {1}) ELSE calls
    BY <1>17 DEF postEvent
  <2>2. /\ Len(queue') = Len(queue) + 1
        /\ ~atStart => \A p \in 1 .. Len(queue) : queue'[p] = queue[p]
    BY <2>1, InsertedProperties
  <2>3. CASE atStart
    <3> SUFFICES ASSUME NEW k \in 1 .. Len(calls) PROVE HonestCall(calls'[k], queue')
      BY <1>0, <2>1, <2>3, DisturbedProperties
    <3>1. /\ calls'[k].pos = calls[k].pos
          /\ ~calls'[k].disturbed => \A p \in {1} : ~(p <= calls[k].pos)
      BY <1>0, <2>1, <2>3, DisturbedProperties
    <3>2. calls[k].pos \in Nat
      BY <1>0 DEF Call
    <3>3. ~calls'[k].disturbed => calls'[k].pos = 0
      BY <3>1, <3>2
    <3>4. 0 <= Len(queue')
      BY <1>0, <2>2
    <3> QED
      BY <3>3, <3>4 DEF HonestCall
  <2>4. CASE ~atStart
    <3> SUFFICES ASSUME NEW k \in 1 .. Len(calls) PROVE HonestCall(calls[k], queue')
      BY <2>1, <2>4
    <3>1. calls[k].pos \in Nat /\ HonestCall(calls[k], queue)
      BY <1>0, <1>1 DEF Call
    <3>2. CASE ~calls[k].disturbed
      <4>1. calls[k].pos <= Len(queue) /\ \A p \in 1 .. calls[k].pos : ~Matches(calls[k].mask, queue[p])
        BY <3>1, <3>2 DEF HonestCall
      <4>2. \A p \in 1 .. calls[k].pos : p \in 1 .. Len(queue)
        BY <1>0, <3>1, <4>1
      <4>3. \A p \in 1 .. calls[k].pos : ~Matches(calls[k].mask, queue'[p])
        BY <2>2, <2>4, <4>1, <4>2
      <4>4. calls[k].pos <= Len(queue')
        BY <1>0, <2>2, <3>1, <4>1
      <4> QED
        BY <4>3, <4>4 DEF HonestCall
    <3> QED
      BY <3>2 DEF HonestCall
  <2> QED
    BY <2>3, <2>4
<1>18. ASSUME NEW mask \in Masks, NEW when \in 0 .. MaxTime + 1,
              discardEventsMatchingMask(mask, when)
       PROVE  \A k \in 1 .. Len(calls') : HonestCall(calls'[k], queue')
  <2> DEFINE gone == Discarded(mask, when)
  <2>1. queue' = Without(queue, gone) /\ calls' = Disturbed(calls, gone)
    BY <1>18 DEF discardEventsMatchingMask
  <2> HIDE DEF gone
  <2>2. Len(calls') = Len(calls)
    BY <1>0, <2>1, DisturbedProperties
  <2> QED
    BY <1>0, <1>1, <2>1, <2>2, RemovalKeepsHonest
<1>19. CASE UNCHANGED vars
  BY <1>1, <1>19 DEF vars
<1> QED
  BY <1>5, <1>8, <1>11, <1>12, <1>13, <1>14, <1>15, <1>16, <1>17, <1>18, <1>19
     DEF Next, GetEvent, CallbackStep

\* Only a scan that finds an event answers one: the first the mask matches,
\* unless the part of the queue scanned before has changed.
FirstMatchAction ==
    Returned /\ answer' # None /\ ~Top.disturbed =>
        \E p \in DOMAIN queue :
            /\ queue[p] = answer' /\ Matches(Top.mask, queue[p])
            /\ \A q \in 1..(p - 1) : ~Matches(Top.mask, queue[q])

LEMMA FirstMatchStep ==
    ASSUME TypeOK, ScannedHonestly, Next
    PROVE  FirstMatchAction
<1>0. Len(queue) \in Nat /\ DOMAIN queue = 1 .. Len(queue)
  BY DEF TypeOK
<1>1. CASE ~ScanFinds
  <2>1. answer' = None
    BY <1>1 DEF Next, GetEvent, CallbackStep, ScanFails, RunLoopReturns, ReturnNil,
                NoInputSources, LimitPasses, CallbackStarts, CallbackReturns,
                nextEventMatchingMask, postEvent, discardEventsMatchingMask
  <2> QED
    BY <2>1 DEF FirstMatchAction
<1>2. CASE ScanFinds
  <2> SUFFICES ASSUME answer' # None, ~Top.disturbed
               PROVE  \E p \in DOMAIN queue :
                        /\ queue[p] = answer' /\ Matches(Top.mask, queue[p])
                        /\ \A q \in 1..(p - 1) : ~Matches(Top.mask, queue[q])
    BY DEF FirstMatchAction
  <2>1. PICK p \in Found(Top) :
          /\ \A q \in Found(Top) : p <= q
          /\ p \in 1 .. Len(queue) /\ Matches(Top.mask, queue[p])
          /\ answer' = Answer(queue[p])
    BY <1>2, Finding
  <2>2. queue[p] = answer'
    BY <2>1 DEF Answer
  <2>3. calls # <<>> /\ Top \in Call /\ Len(calls) \in DOMAIN calls
    BY <1>2, StackProperties DEF TypeOK, ScanFinds
  <2>4. Top.pos \in Nat /\ \A q \in 1 .. Top.pos : ~Matches(Top.mask, queue[q])
    BY <2>3 DEF ScannedHonestly, Top, Call
  <2>5. ASSUME NEW q \in 1 .. (p - 1), Matches(Top.mask, queue[q]) PROVE FALSE
    <3>1. q \in 1 .. Len(queue) /\ ~(p <= q)
      BY <1>0, <2>1
    <3>2. q \notin Found(Top)
      BY <2>1, <3>1
    <3>3. ~(FirstUnseen(Top) <= q)
      BY <1>0, <2>4, <2>5, <3>1, <3>2 DEF Found, FirstUnseen
    <3>4. q \in 1 .. Top.pos
      BY <1>0, <2>4, <3>1, <3>3 DEF FirstUnseen
    <3> QED
      BY <2>4, <2>5, <3>4
  <2> QED
    BY <1>0, <2>1, <2>2, <2>5
<1> QED
  BY <1>1, <1>2

\* Posts add one event; events leave when a call answers one, or are discarded.
NothingLostAction ==
    \/ queue' = queue
    \/ \E e \in Event : queue' \in {<<e>> \o queue, Append(queue, e)}
    \/ /\ Returned /\ Top.dequeue
       /\ \E p \in DOMAIN queue : /\ Matches(Top.mask, queue[p])
                                  /\ answer' = Answer(queue[p])
                                  /\ Stays(queue', queue, {p})
    \/ \E mask \in Masks, when \in 0..MaxTime + 1 :
         Stays(queue', queue, {p \in DOMAIN queue : /\ queue[p].type \in mask
                                                   /\ queue[p].time < when})

LEMMA NothingLostStep ==
    ASSUME TypeOK, Next
    PROVE  NothingLostAction
<1>0. /\ queue \in Seq(Event) /\ DOMAIN queue = 1 .. Len(queue)
      /\ calls \in Seq(Call) /\ Len(calls) \in Nat
  BY DEF TypeOK
<1>1. ASSUME queue' = queue PROVE NothingLostAction
  BY <1>1 DEF NothingLostAction
<1>2. CASE ScanFinds
  <2>1. PICK p \in 1 .. Len(queue) :
          /\ Matches(Top.mask, queue[p]) /\ answer' = Answer(queue[p])
          /\ \/ /\ Top.dequeue /\ queue' = Without(queue, {p})
                /\ calls' = Disturbed(Outer, {p})
             \/ queue' = queue
    BY <1>2, Finding
  <2>2. CASE queue' = queue
    BY <1>1, <2>2
  <2>3. CASE Top.dequeue /\ queue' = Without(queue, {p}) /\ calls' = Disturbed(Outer, {p})
    <3>1. Stays(queue', queue, {p})
      BY <1>0, <2>3, WithoutStays
    <3>2. Outer \in Seq(Call) /\ Len(Outer) = Len(calls) - 1
      BY <1>0, <1>2, StackProperties DEF ScanFinds
    <3>3. Len(calls') = Len(calls) - 1
      BY <2>3, <3>2, DisturbedProperties
    <3>4. Returned
      BY <1>0, <3>3 DEF Returned
    <3> QED
      BY <1>0, <2>1, <2>3, <3>1, <3>4 DEF NothingLostAction
  <2> QED
    BY <2>1, <2>2, <2>3
<1>3. CASE ScanFails \/ RunLoopReturns \/ NoInputSources \/ LimitPasses \/ CallbackStep
  BY <1>1, <1>3 DEF ScanFails, RunLoopReturns, ReturnNil, NoInputSources, LimitPasses,
     CallbackStep, CallbackStarts, CallbackReturns
<1>4. ASSUME NEW mask \in Masks, NEW open \in BOOLEAN, NEW dequeue \in BOOLEAN,
             nextEventMatchingMask(mask, open, dequeue)
      PROVE  NothingLostAction
  BY <1>1, <1>4 DEF nextEventMatchingMask
<1>5. ASSUME NEW e \in Event, NEW atStart \in BOOLEAN, postEvent(e, atStart)
      PROVE  NothingLostAction
  BY <1>5 DEF postEvent, Inserted, NothingLostAction
<1>6. ASSUME NEW mask \in Masks, NEW when \in 0 .. MaxTime + 1,
             discardEventsMatchingMask(mask, when)
      PROVE  NothingLostAction
  <2> DEFINE gone == {p \in DOMAIN queue : queue[p].type \in mask /\ queue[p].time < when}
  <2>1. queue' = Without(queue, gone)
    BY <1>6 DEF discardEventsMatchingMask, Discarded, Matches
  <2> HIDE DEF gone
  <2>2. Stays(queue', queue, gone)
    BY <1>0, <2>1, WithoutStays
  <2> QED
    BY <2>2 DEF NothingLostAction, gone
<1> QED
  BY <1>2, <1>3, <1>4, <1>5, <1>6 DEF Next, GetEvent

-----------------------------------------------------------------------------
(* Theorems.                                                               *)

IInv == TypeOK /\ ScannedHonestly

LEMMA Inductive == Spec => []IInv
<1>1. Init => IInv
  BY DEF Init, IInv, TypeOK, ScannedHonestly
<1>2. IInv /\ [Next]_vars => IInv'
  BY TypeStep, HonestStep DEF IInv
<1> QED
  BY <1>1, <1>2, PTL DEF Spec

\* The queue holds events and the stack holds calls, of which only the
\* innermost is not in a callback of its run loop.
THEOREM EventQueueTypeOK == Spec => []TypeOK
<1>1. IInv => TypeOK
  BY DEF IInv
<1> QED
  BY <1>1, Inductive, PTL

\* The position getEventMatchingMask:... keeps while the run loop runs is right,
\* whatever callbacks post, discard and get, for a call they did not disturb.
THEOREM PositionsAreHonest == Spec => []ScannedHonestly
<1>1. IInv => ScannedHonestly
  BY DEF IInv
<1> QED
  BY <1>1, Inductive, PTL

\* An undisturbed call returns the first event its mask matches.
THEOREM FirstMatchIsReturned == Spec => FirstMatch
<1>1. IInv /\ [Next]_vars => [FirstMatchAction]_vars
  BY FirstMatchStep DEF IInv
<1> QED
  BY <1>1, Inductive, PTL DEF Spec, FirstMatch, FirstMatchAction

\* getEventMatchingMask:... takes out of the queue the event it returns and no
\* other, discardEventsMatchingMask:beforeEvent: all that it names and no other,
\* and what stays keeps its order.
THEOREM NothingIsLost == Spec => NothingLost
<1>1. IInv /\ [Next]_vars => [NothingLostAction]_vars
  BY NothingLostStep DEF IInv
<1> QED
  BY <1>1, Inductive, PTL DEF Spec, NothingLost, NothingLostAction
=============================================================================
