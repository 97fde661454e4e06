------------------------ MODULE PeriodReportsProofs ------------------------
(***************************************************************************)
(* Proofs about PeriodReports, for a period of any length, any lines in    *)
(* it, any meters and participants, and any calendar.                      *)
(*                                                                         *)
(* The reports are sequences of times, and each is a set in order: what a  *)
(* report holds is proved by proving which times are in the set.  Sorted   *)
(* turns set operations into sequence operations (SortedAppend,            *)
(* SortedTail, SortedConcat, PickedInOrder).                               *)
(*                                                                         *)
(* The workbook (ExportInv): the sheets are those of the times handled,    *)
(* from the first line to the one before, whether there was a line or a    *)
(* line of zeros.  The application's report (ReportInv): the lines read    *)
(* come first, those of the running day wait in daySum, and those of the   *)
(* days before are in the summaries, and each in the entry of its day      *)
(* (EntriesInv).  The entries are put together by a recursive function;    *)
(* FlattenSorted finds it by the least place where another one differs.    *)
(***************************************************************************)
EXTENDS PeriodReports, FiniteSetTheorems, SequenceTheorems, TLAPS

-----------------------------------------------------------------------------
(* Sets in order.  Everything rests on the number of elements before one:  *)
(* it tells the elements of a set apart and takes every value.             *)

Before(S, t) == {x \in S : x < t}

(* A sequence that runs through a set from the least to the greatest.      *)
InOrder(s, n, S) ==
  /\ s \in [1 .. n -> S]
  /\ \A i, j \in 1 .. n : i < j => s[i] < s[j]
  /\ \A t \in S : \E i \in 1 .. n : s[i] = t

(* There is no other such sequence, and it has i - 1 elements before the   *)
(* i-th.                                                                   *)
LEMMA Places ==
  ASSUME NEW S \in SUBSET Nat, NEW n \in Nat, NEW s, InOrder(s, n, S)
  PROVE  /\ IsFiniteSet(S) /\ Cardinality(S) = n
         /\ \A i \in 1 .. n : s[i] \in S /\ Cardinality(Before(S, s[i])) = i - 1
<1>1. /\ s \in [1 .. n -> S]
      /\ \A i, j \in 1 .. n : i < j => s[i] < s[j]
      /\ \A t \in S : \E i \in 1 .. n : s[i] = t
  BY DEF InOrder
<1>2. \A i \in 1 .. n : s[i] \in Nat
  BY <1>1
<1>3. \A i, j \in 1 .. n : s[i] = s[j] => i = j
  <2> SUFFICES ASSUME NEW i \in 1 .. n, NEW j \in 1 .. n, i # j PROVE s[i] # s[j]
    OBVIOUS
  <2>1. i < j \/ j < i
    OBVIOUS
  <2> QED
    BY <1>1, <1>2, <2>1
<1>4. s \in Bijection(1 .. n, S)
  BY <1>1, <1>3 DEF Bijection, Injection, Surjection, IsInjective
<1>5. IsFiniteSet(S) /\ Cardinality(S) = n
  <2>1. ExistsBijection(1 .. n, S)
    BY <1>4 DEF ExistsBijection
  <2> QED
    BY <2>1, FS_CountingElements, FS_NatBijection
<1>6. ASSUME NEW i \in 1 .. n PROVE Cardinality(Before(S, s[i])) = i - 1
  <2> DEFINE f == [j \in 1 .. i - 1 |-> s[j]]
  <2>1. \A j \in 1 .. i - 1 : j \in 1 .. n /\ j < i
    OBVIOUS
  <2>2. \A j \in 1 .. n : s[j] < s[i] => j \in 1 .. i - 1
    <3> SUFFICES ASSUME NEW j \in 1 .. n, ~(j \in 1 .. i - 1) PROVE ~(s[j] < s[i])
      OBVIOUS
    <3>1. i = j \/ i < j
      OBVIOUS
    <3>2. s[i] = s[j] \/ s[i] < s[j]
      BY <1>1, <3>1
    <3> QED
      BY <1>2, <3>2
  <2>3. f \in [1 .. i - 1 -> Before(S, s[i])]
    BY <1>1, <2>1 DEF Before
  <2>4. \A t \in Before(S, s[i]) : \E j \in 1 .. i - 1 : f[j] = t
    BY <1>1, <2>2 DEF Before
  <2>5. \A j, k \in 1 .. i - 1 : f[j] = f[k] => j = k
    BY <1>3, <2>1
  <2>6. ExistsBijection(1 .. i - 1, Before(S, s[i]))
    <3> HIDE DEF f
    <3> QED
      BY <2>3, <2>4, <2>5 DEF ExistsBijection, Bijection, Injection, Surjection, IsInjective
  <2>7. i - 1 \in Nat
    OBVIOUS
  <2> QED
    BY <2>6, <2>7, FS_CountingElements
<1> QED
  BY <1>1, <1>5, <1>6

LEMMA OrderIsUnique ==
  ASSUME NEW S \in SUBSET Nat, NEW n \in Nat, NEW s, InOrder(s, n, S)
  PROVE  Sorted(S) = s
<1>1. /\ Cardinality(S) = n
      /\ \A i \in 1 .. n : s[i] \in S /\ Cardinality(Before(S, s[i])) = i - 1
  BY Places
<1>2. s \in [1 .. n -> S] /\ \A t \in S : \E i \in 1 .. n : s[i] = t
  BY DEF InOrder
<1>3. ASSUME NEW i \in 1 .. n
      PROVE  (CHOOSE t \in S : Cardinality({x \in S : x < t}) = i - 1) = s[i]
  <2>1. \A t \in S : Cardinality({x \in S : x < t}) = i - 1 => t = s[i]
    <3> SUFFICES ASSUME NEW t \in S, Cardinality({x \in S : x < t}) = i - 1 PROVE t = s[i]
      OBVIOUS
    <3>1. PICK j \in 1 .. n : s[j] = t
      BY <1>2
    <3>2. Cardinality(Before(S, s[j])) = i - 1
      BY <3>1 DEF Before
    <3>3. j - 1 = i - 1
      BY <1>1, <3>2
    <3> QED
      BY <3>1, <3>3
  <2>2. s[i] \in S /\ Cardinality({x \in S : x < s[i]}) = i - 1
    BY <1>1 DEF Before
  <2> QED
    BY <2>1, <2>2
<1>4. Sorted(S) = [i \in 1 .. n |-> s[i]]
  BY <1>1, <1>3, Zenon DEF Sorted
<1> QED
  BY <1>2, <1>4

(* Each finite set of times has such a sequence.                           *)
LEMMA SortedIsInOrder ==
  ASSUME NEW S \in SUBSET Nat, IsFiniteSet(S)
  PROVE  Cardinality(S) \in Nat /\ InOrder(Sorted(S), Cardinality(S), S)
<1> DEFINE n    == Cardinality(S)
           rank == [t \in S |-> Cardinality(Before(S, t)) + 1]
<1>1. n \in Nat
  BY FS_CardinalityType
<1>2. ASSUME NEW t \in S, NEW u \in S, t < u
      PROVE  /\ Before(S, t) \in SUBSET Before(S, u) /\ t \in Before(S, u) \ Before(S, t)
             /\ Cardinality(Before(S, t)) < Cardinality(Before(S, u))
  <2>1. t < u /\ ~(t < t) /\ \A x \in S : x < t => x < u
    BY <1>2
  <2>2. Before(S, t) \in SUBSET Before(S, u) /\ t \in Before(S, u) \ Before(S, t)
    BY <2>1, Zenon DEF Before
  <2>3. IsFiniteSet(Before(S, u)) /\ IsFiniteSet(Before(S, t))
    <3>1. Before(S, u) \in SUBSET S
      BY DEF Before
    <3>2. IsFiniteSet(Before(S, u))
      BY <3>1, FS_Subset
    <3> QED
      BY <2>2, <3>2, FS_Subset
  <2>4. /\ Cardinality(Before(S, t)) \in Nat /\ Cardinality(Before(S, u)) \in Nat
        /\ Cardinality(Before(S, t)) <= Cardinality(Before(S, u))
        /\ Cardinality(Before(S, t)) # Cardinality(Before(S, u))
    BY <2>2, <2>3, FS_Subset, FS_CardinalityType
  <2> QED
    BY <2>2, <2>4
<1>3. ASSUME NEW t \in S PROVE rank[t] \in 1 .. n
  <2>1. Before(S, t) \in SUBSET S /\ t \in S \ Before(S, t)
    BY DEF Before
  <2>2. IsFiniteSet(Before(S, t)) /\ Cardinality(Before(S, t)) \in Nat
        /\ Cardinality(Before(S, t)) <= n /\ Cardinality(Before(S, t)) # n
    BY <2>1, FS_Subset, FS_CardinalityType
  <2>3. rank[t] = Cardinality(Before(S, t)) + 1
    OBVIOUS
  <2> HIDE DEF n, rank
  <2> QED
    BY <1>1, <2>2, <2>3
<1>4. \A t, u \in S : rank[t] = rank[u] => t = u
  <2> SUFFICES ASSUME NEW t \in S, NEW u \in S, t # u PROVE rank[t] # rank[u]
    OBVIOUS
  <2>1. \A x \in S : IsFiniteSet(Before(S, x)) /\ Cardinality(Before(S, x)) \in Nat
    <3> TAKE x \in S
    <3>1. Before(S, x) \in SUBSET S
      BY DEF Before
    <3> QED
      BY <3>1, FS_Subset, FS_CardinalityType
  <2>2. t < u \/ u < t
    OBVIOUS
  <2>3. Cardinality(Before(S, t)) # Cardinality(Before(S, u))
    BY <1>2, <2>1, <2>2
  <2> QED
    BY <2>1, <2>3
<1>5. \A i \in 1 .. n : \E t \in S : rank[t] = i
  <2>1. rank \in Injection(S, 1 .. n)
    <3>1. rank \in [S -> 1 .. n]
      BY <1>3
    <3> HIDE DEF rank
    <3> QED
      BY <1>4, <3>1 DEF Injection, IsInjective
  <2>2. IsFiniteSet(1 .. n) /\ Cardinality(1 .. n) = n
    <3>1. 1 \in Int /\ n \in Int /\ (1 > n => n = 0) /\ (n - 1) + 1 = n
      BY <1>1
    <3> HIDE DEF n
    <3> QED
      BY <3>1, FS_Interval
  <2>3. rank \in Surjection(S, 1 .. n)
    <3> HIDE DEF rank
    <3> QED
      BY <2>1, <2>2, FS_Injection
  <2> HIDE DEF rank, n
  <2> QED
    BY <2>3 DEF Surjection
<1>6. ASSUME NEW i \in 1 .. n
      PROVE  Sorted(S)[i] \in S /\ rank[Sorted(S)[i]] = i
  <2>1. PICK t \in S : rank[t] = i
    BY <1>5
  <2>2. IsFiniteSet(Before(S, t)) /\ Cardinality(Before(S, t)) \in Nat
    <3>1. Before(S, t) \in SUBSET S
      BY DEF Before
    <3> QED
      BY <3>1, FS_Subset, FS_CardinalityType
  <2>3. Cardinality({x \in S : x < t}) = i - 1
    BY <2>1, <2>2 DEF Before
  <2>4. Sorted(S)[i] = CHOOSE u \in S : Cardinality({x \in S : x < u}) = i - 1
    BY DEF Sorted
  <2>5. Sorted(S)[i] \in S /\ Cardinality({x \in S : x < Sorted(S)[i]}) = i - 1
    BY <2>3, <2>4
  <2>6. \A u \in S : rank[u] = Cardinality(Before(S, u)) + 1
    OBVIOUS
  <2>7. Cardinality(Before(S, Sorted(S)[i])) = i - 1 /\ (i - 1) + 1 = i
    BY <2>5 DEF Before
  <2> HIDE DEF rank
  <2> QED
    BY <2>5, <2>6, <2>7
<1>7. Sorted(S) \in [1 .. n -> S]
  <2> DEFINE nth(i) == CHOOSE t \in S : Cardinality({x \in S : x < t}) = i - 1
  <2>1. Sorted(S) = [i \in 1 .. n |-> nth(i)]
    BY Zenon DEF Sorted
  <2> HIDE DEF rank, n, nth
  <2>2. \A i \in 1 .. n : Sorted(S)[i] = nth(i)
    BY <2>1
  <2> QED
    BY <1>6, <2>1, <2>2
<1>8. ASSUME NEW i \in 1 .. n, NEW j \in 1 .. n, i < j PROVE Sorted(S)[i] < Sorted(S)[j]
  <2> DEFINE t == Sorted(S)[i]
             u == Sorted(S)[j]
  <2>1. t \in S /\ u \in S /\ rank[t] = i /\ rank[u] = j
    BY <1>6
  <2> HIDE DEF t, u
  <2>2. ~(u < t)
    <3>1. \A x \in S : Cardinality(Before(S, x)) \in Nat
      <4> TAKE x \in S
      <4>1. Before(S, x) \in SUBSET S
        BY DEF Before
      <4> QED
        BY <4>1, FS_Subset, FS_CardinalityType
    <3> QED
      BY <1>2, <1>8, <2>1, <3>1
  <2>3. t # u
    BY <1>8, <2>1
  <2>4. t \in Nat /\ u \in Nat
    BY <2>1
  <2> QED
    BY <2>2, <2>3, <2>4 DEF t, u
<1>9. ASSUME NEW t \in S PROVE \E i \in 1 .. n : Sorted(S)[i] = t
  <2>1. rank[t] \in 1 .. n
    BY <1>3
  <2>2. Sorted(S)[rank[t]] \in S /\ rank[Sorted(S)[rank[t]]] = rank[t]
    BY <1>6, <2>1
  <2> HIDE DEF rank
  <2> QED
    BY <1>4, <2>1, <2>2
<1> QED
  BY <1>1, <1>7, <1>8, <1>9 DEF InOrder

(* Such a sequence is one of the elements of the set.                      *)
LEMMA OrderIsSeq ==
  ASSUME NEW S, NEW n \in Nat, NEW s, InOrder(s, n, S)
  PROVE  s \in Seq(S) /\ Len(s) = n /\ DOMAIN s = 1 .. n
BY DEF InOrder

LEMMA EmptyIsSeq == ASSUME NEW S PROVE <<>> \in Seq(S)
OBVIOUS

LEMMA FunctionIsSeq ==
  ASSUME NEW S, NEW n \in Nat, NEW s \in [1 .. n -> S]
  PROVE  s \in Seq(S)
OBVIOUS

LEMMA SeqIsFunction ==
  ASSUME NEW S, NEW s \in Seq(S), NEW n, Len(s) = n
  PROVE  s \in [1 .. n -> S]
OBVIOUS

(* What is taken in Sorted's place below.                                  *)
LEMMA SortedIsSeq ==
  ASSUME NEW S \in SUBSET Nat, IsFiniteSet(S)
  PROVE  /\ Sorted(S) \in Seq(S) /\ Len(Sorted(S)) = Cardinality(S)
         /\ DOMAIN Sorted(S) = 1 .. Cardinality(S) /\ Sorted(S) \in Seq(Nat)
<1>1. /\ Sorted(S) \in Seq(S) /\ Len(Sorted(S)) = Cardinality(S)
      /\ DOMAIN Sorted(S) = 1 .. Cardinality(S)
  BY SortedIsInOrder, OrderIsSeq, Zenon
<1>2. Seq(S) \subseteq Seq(Nat)
  BY SeqMonotonic
<1> QED
  BY <1>1, <1>2

LEMMA SortedEmpty == Sorted({}) = <<>>
<1>1. InOrder(<<>>, 0, {})
  BY DEF InOrder
<1> QED
  BY <1>1, OrderIsUnique

(* A later element is appended.                                            *)
LEMMA SortedAppend ==
  ASSUME NEW S \in SUBSET Nat, IsFiniteSet(S), NEW m \in Nat, \A x \in S : x < m
  PROVE  Sorted(S \cup {m}) = Append(Sorted(S), m)
<1> DEFINE s == Sorted(S)
           n == Cardinality(S)
           t == Append(s, m)
<1>1. n \in Nat /\ s \in Seq(S) /\ Len(s) = n /\ InOrder(s, n, S)
  BY SortedIsInOrder, SortedIsSeq
<1> HIDE DEF s, n
<1>2. /\ s \in [1 .. n -> S] /\ \A i, j \in 1 .. n : i < j => s[i] < s[j]
      /\ \A x \in S : \E i \in 1 .. n : s[i] = x
  BY <1>1 DEF InOrder
<1>3. /\ t \in [1 .. n + 1 -> S \cup {m}] /\ t[n + 1] = m
      /\ \A i \in 1 .. n : t[i] = s[i]
  <2>1. /\ Append(s, m) \in Seq(S \cup {m}) /\ Len(Append(s, m)) = n + 1
        /\ \A i \in 1 .. n : Append(s, m)[i] = s[i]
        /\ Append(s, m)[n + 1] = m
    <3>1. s \in Seq(S \cup {m})
      BY <1>1
    <3> QED
      BY <1>1, <3>1, AppendProperties
  <2> QED
    BY <2>1, SeqIsFunction, Zenon
<1> HIDE DEF t
<1>4. \A i \in 1 .. n + 1 : i \in 1 .. n \/ i = n + 1
  BY <1>1
<1>5. ASSUME NEW i \in 1 .. n + 1, NEW j \in 1 .. n + 1, i < j PROVE t[i] < t[j]
  <2>1. i \in 1 .. n
    BY <1>1, <1>5
  <2>2. t[i] = s[i] /\ s[i] \in S
    BY <1>2, <1>3, <2>1
  <2>3. CASE j \in 1 .. n
    BY <1>2, <1>3, <1>5, <2>1, <2>2, <2>3
  <2>4. CASE j = n + 1
    BY <1>3, <2>2, <2>4
  <2> QED
    BY <1>4, <2>3, <2>4
<1>6. ASSUME NEW x \in S \cup {m} PROVE \E i \in 1 .. n + 1 : t[i] = x
  <2>1. CASE x = m
    BY <1>1, <1>3, <2>1
  <2>2. CASE x \in S
    <3>1. PICK i \in 1 .. n : s[i] = x
      BY <1>2, <2>2
    <3>2. i \in 1 .. n + 1
      BY <1>1
    <3> QED
      BY <1>3, <3>1, <3>2
  <2> QED
    BY <2>1, <2>2
<1>7. InOrder(t, n + 1, S \cup {m})
  BY <1>3, <1>5, <1>6 DEF InOrder
<1>8. n + 1 \in Nat /\ S \cup {m} \in SUBSET Nat
  BY <1>1
<1> QED
  BY <1>7, <1>8, OrderIsUnique DEF t, s

(* The least element comes first.                                          *)
LEMMA SortedTail ==
  ASSUME NEW S \in SUBSET Nat, IsFiniteSet(S), S # {}
  PROVE  /\ Sorted(S) # <<>> /\ Head(Sorted(S)) \in S
         /\ \A x \in S : Head(Sorted(S)) <= x
         /\ Tail(Sorted(S)) = Sorted(S \ {Head(Sorted(S))})
<1> DEFINE s == Sorted(S)
           n == Cardinality(S)
           t == Tail(s)
<1>1. n \in Nat /\ s \in Seq(S) /\ Len(s) = n /\ InOrder(s, n, S)
  BY SortedIsInOrder, SortedIsSeq
<1> HIDE DEF s, n
<1>2. /\ s \in [1 .. n -> S] /\ \A i, j \in 1 .. n : i < j => s[i] < s[j]
      /\ \A x \in S : \E i \in 1 .. n : s[i] = x
  BY <1>1 DEF InOrder
<1>3. 1 \in 1 .. n /\ n - 1 \in Nat /\ Head(s) = s[1] /\ s # <<>>
  <2>1. PICK i \in 1 .. n : TRUE
    BY <1>2
  <2>2. 1 \in 1 .. n /\ n - 1 \in Nat
    BY <1>1, <2>1
  <2> QED
    BY <1>1, <2>2
<1>4. ASSUME NEW x \in S, x # s[1] PROVE \E i \in 1 .. n - 1 : s[1] < x /\ s[i + 1] = x
  <2>1. PICK i \in 1 .. n : s[i] = x
    BY <1>2
  <2>2. 1 < i /\ i - 1 \in 1 .. n - 1 /\ (i - 1) + 1 = i
    BY <1>1, <1>4, <2>1
  <2> QED
    BY <1>2, <1>3, <2>1, <2>2
<1>5. s[1] \in S /\ s[1] \in Nat
  BY <1>2, <1>3
<1>6. \A x \in S : s[1] <= x
  BY <1>4, <1>5
<1>7. t \in [1 .. n - 1 -> S] /\ \A i \in 1 .. n - 1 : t[i] = s[i + 1]
  <2>1. /\ Tail(s) \in Seq(S) /\ Len(Tail(s)) = n - 1
        /\ \A i \in 1 .. n - 1 : Tail(s)[i] = s[i + 1]
    BY <1>1, <1>3, HeadTailProperties
  <2> QED
    BY <2>1, SeqIsFunction, Zenon
<1> HIDE DEF t
<1>8. \A i \in 1 .. n - 1 : i + 1 \in 1 .. n /\ 1 < i + 1
  BY <1>1
<1>9. \A i \in 1 .. n - 1 : t[i] \in S \ {s[1]}
  BY <1>2, <1>3, <1>5, <1>7, <1>8
<1>10. \A i, j \in 1 .. n - 1 : i < j => t[i] < t[j]
  BY <1>2, <1>7, <1>8
<1>11. InOrder(t, n - 1, S \ {s[1]})
  <2>1. t \in [1 .. n - 1 -> S \ {s[1]}]
    BY <1>7, <1>9
  <2>2. \A x \in S \ {s[1]} : \E i \in 1 .. n - 1 : t[i] = x
    BY <1>4, <1>7
  <2> QED
    BY <1>10, <2>1, <2>2 DEF InOrder
<1>12. Sorted(S \ {s[1]}) = t
  BY <1>3, <1>11, OrderIsUnique
<1> QED
  BY <1>3, <1>5, <1>6, <1>12 DEF s, t

(* What is later follows.                                                  *)
LEMMA SortedConcat ==
  ASSUME NEW A \in SUBSET Nat, IsFiniteSet(A), NEW B \in SUBSET Nat, IsFiniteSet(B),
         \A x \in A, y \in B : x < y
  PROVE  Sorted(A \cup B) = Sorted(A) \o Sorted(B)
<1> DEFINE a == Sorted(A)
           b == Sorted(B)
           n == Cardinality(A)
           k == Cardinality(B)
           t == a \o b
<1>1. /\ n \in Nat /\ a \in Seq(A) /\ Len(a) = n /\ InOrder(a, n, A)
      /\ k \in Nat /\ b \in Seq(B) /\ Len(b) = k /\ InOrder(b, k, B)
  BY SortedIsInOrder, SortedIsSeq
<1> HIDE DEF a, b, n, k
<1>2. /\ a \in [1 .. n -> A] /\ \A i, j \in 1 .. n : i < j => a[i] < a[j]
      /\ \A x \in A : \E i \in 1 .. n : a[i] = x
  BY <1>1 DEF InOrder
<1>3. /\ b \in [1 .. k -> B] /\ \A i, j \in 1 .. k : i < j => b[i] < b[j]
      /\ \A x \in B : \E i \in 1 .. k : b[i] = x
  BY <1>1 DEF InOrder
<1>4. /\ t \in Seq(A \cup B) /\ Len(t) = n + k
      /\ \A i \in 1 .. n : t[i] = a[i]
      /\ \A i \in n + 1 .. n + k : t[i] = b[i - n]
  BY <1>1
<1> HIDE DEF t
<1>5. \A i \in 1 .. n + k : i \in 1 .. n \/ (i \in n + 1 .. n + k /\ i - n \in 1 .. k)
  BY <1>1
<1>6. t \in [1 .. n + k -> A \cup B]
  BY <1>1, <1>4
<1>7. ASSUME NEW i \in 1 .. n + k, NEW j \in 1 .. n + k, i < j PROVE t[i] < t[j]
  <2>1. CASE j \in 1 .. n
    <3>1. i \in 1 .. n
      BY <1>1, <1>7, <2>1
    <3> QED
      BY <1>2, <1>4, <1>7, <2>1, <3>1
  <2>2. CASE i \in 1 .. n /\ j \in n + 1 .. n + k /\ j - n \in 1 .. k
    <3>1. a[i] \in A /\ b[j - n] \in B
      BY <1>2, <1>3, <2>2
    <3>2. t[i] = a[i] /\ t[j] = b[j - n]
      BY <1>4, <2>2
    <3> QED
      BY <3>1, <3>2
  <2>3. CASE /\ i \in n + 1 .. n + k /\ i - n \in 1 .. k
             /\ j \in n + 1 .. n + k /\ j - n \in 1 .. k
    <3>1. i - n < j - n
      BY <1>1, <1>7
    <3> QED
      BY <1>3, <1>4, <2>3, <3>1
  <2> QED
    BY <1>5, <2>1, <2>2, <2>3
<1>8. ASSUME NEW x \in A \cup B PROVE \E i \in 1 .. n + k : t[i] = x
  <2>1. CASE x \in A
    <3>1. PICK i \in 1 .. n : a[i] = x
      BY <1>2, <2>1
    <3>2. i \in 1 .. n + k
      BY <1>1
    <3> QED
      BY <1>4, <3>1, <3>2
  <2>2. CASE x \in B
    <3>1. PICK i \in 1 .. k : b[i] = x
      BY <1>3, <2>2
    <3>2. i + n \in n + 1 .. n + k /\ i + n \in 1 .. n + k /\ (i + n) - n = i
      BY <1>1
    <3> QED
      BY <1>4, <3>1, <3>2
  <2> QED
    BY <2>1, <2>2
<1>9. InOrder(t, n + k, A \cup B)
  BY <1>6, <1>7, <1>8 DEF InOrder
<1>10. n + k \in Nat /\ A \cup B \in SUBSET Nat
  BY <1>1
<1> QED
  BY <1>9, <1>10, OrderIsUnique DEF t, a, b

(* What is picked out of a set in order is a smaller set in order.         *)
LEMMA PickedInOrder ==
  ASSUME NEW S \in SUBSET Nat, IsFiniteSet(S), NEW T
  PROVE  PickedAt(Sorted(S), {i \in DOMAIN Sorted(S) : Sorted(S)[i] \in T}) = Sorted(S \cap T)
<1> DEFINE s  == Sorted(S)
           n  == Cardinality(S)
           P  == {i \in 1 .. n : s[i] \in T}
           at == Sorted(P)
           k  == Cardinality(P)
           t  == [i \in 1 .. k |-> s[at[i]]]
<1>1. n \in Nat /\ DOMAIN s = 1 .. n /\ InOrder(s, n, S)
  BY SortedIsInOrder, SortedIsSeq
<1> HIDE DEF s, n
<1>2. /\ s \in [1 .. n -> S] /\ \A i, j \in 1 .. n : i < j => s[i] < s[j]
      /\ \A x \in S : \E i \in 1 .. n : s[i] = x
  BY <1>1 DEF InOrder
<1>3. P \in SUBSET Nat /\ IsFiniteSet(P)
  <2>1. P \in SUBSET (1 .. n) /\ P \in SUBSET Nat /\ 1 \in Int /\ n \in Int
    BY <1>1
  <2> HIDE DEF P
  <2> QED
    BY <2>1, FS_Interval, FS_Subset
<1>4. \A i \in P : i \in 1 .. n /\ s[i] \in S \cap T
  BY <1>2
<1>5. \A i \in 1 .. n : s[i] \in T => i \in P
  OBVIOUS
<1> HIDE DEF P
<1>6. k \in Nat /\ DOMAIN at = 1 .. k /\ InOrder(at, k, P)
  BY <1>3, SortedIsInOrder, SortedIsSeq
<1> HIDE DEF at, k
<1>7. /\ at \in [1 .. k -> P] /\ \A i, j \in 1 .. k : i < j => at[i] < at[j]
      /\ \A x \in P : \E i \in 1 .. k : at[i] = x
  BY <1>6 DEF InOrder
<1>8. t \in [1 .. k -> S \cap T] /\ \A i \in 1 .. k : t[i] = s[at[i]]
  BY <1>4, <1>7
<1>9. PickedAt(s, P) = t
  BY <1>6 DEF PickedAt, at
<1> HIDE DEF t
<1>10. \A i, j \in 1 .. k : i < j => t[i] < t[j]
  BY <1>2, <1>4, <1>7, <1>8
<1>11. ASSUME NEW x \in S \cap T PROVE \E i \in 1 .. k : t[i] = x
  <2>1. PICK j \in 1 .. n : s[j] = x
    BY <1>2
  <2>2. j \in P
    BY <1>5, <2>1
  <2> QED
    BY <1>7, <1>8, <2>1, <2>2
<1>12. InOrder(t, k, S \cap T)
  BY <1>8, <1>10, <1>11 DEF InOrder
<1>13. Sorted(S \cap T) = t
  BY <1>6, <1>12, OrderIsUnique
<1> QED
  BY <1>1, <1>9, <1>13 DEF s, P

(* Times without a gap.                                                    *)
LEMMA SortedInterval ==
  ASSUME NEW a \in Nat, NEW n \in Nat
  PROVE  Sorted(a .. a + n - 1) = [i \in 1 .. n |-> a + i - 1]
<1> DEFINE s == [i \in 1 .. n |-> a + i - 1]
<1>1. \A i \in 1 .. n : a + i - 1 \in a .. a + n - 1
  OBVIOUS
<1>2. \A x \in a .. a + n - 1 : x - a + 1 \in 1 .. n /\ s[x - a + 1] = x
  OBVIOUS
<1>3. \A i, j \in 1 .. n : i < j => s[i] < s[j]
  OBVIOUS
<1>4. InOrder(s, n, a .. a + n - 1)
  <2>1. s \in [1 .. n -> a .. a + n - 1]
    BY <1>1
  <2> HIDE DEF s
  <2> QED
    BY <1>2, <1>3, <2>1 DEF InOrder
<1>5. a .. a + n - 1 \in SUBSET Nat
  OBVIOUS
<1> HIDE DEF s
<1> QED
  BY <1>4, <1>5, OrderIsUnique DEF s

-----------------------------------------------------------------------------
(* Rows and days.                                                          *)

LEMMA RowsAreTimes == Rows \in SUBSET Nat /\ IsFiniteSet(Rows)
<1>1. Days * DayLen \in Nat
  BY LinesAssumption
<1>2. \A n \in Nat : 0 .. n - 1 \in SUBSET Nat /\ 0 \in Int /\ n - 1 \in Int
  OBVIOUS
<1> QED
  BY <1>1, <1>2, FS_Interval DEF Rows

LEMMA Midnights ==
  ASSUME NEW d \in Int, NEW e \in Int, d < e
  PROVE  Midnight(d) \in Int /\ Midnight(d) + DayLen <= Midnight(e)
<1>1. DayLen \in Nat /\ DayLen > 0
  BY LinesAssumption
<1>2. d + 1 <= e /\ e - (d + 1) \in Nat
  OBVIOUS
<1>3. e * DayLen = d * DayLen + DayLen + (e - (d + 1)) * DayLen
  BY <1>1
<1>4. (e - (d + 1)) * DayLen \in Nat /\ d * DayLen \in Int
  BY <1>1, <1>2
<1> QED
  BY <1>1, <1>3, <1>4 DEF Midnight

(* A time is of the day whose midnight is the last one before it.          *)
LEMMA DayIs ==
  ASSUME NEW t \in Int
  PROVE  /\ DayOf(t) \in Int /\ Midnight(DayOf(t)) \in Int
         /\ Midnight(DayOf(t)) <= t /\ t <= Midnight(DayOf(t)) + DayLen - 1
         /\ t \in Nat => DayOf(t) \in Nat
<1>1. DayLen \in Nat /\ DayLen > 0
  BY LinesAssumption
<1>2. /\ t \div DayLen \in Int /\ t % DayLen \in 0 .. DayLen - 1
      /\ t = DayLen * (t \div DayLen) + (t % DayLen)
  BY <1>1
<1>3. t \in Nat => t \div DayLen \in Nat
  BY <1>1
<1>4. DayLen * (t \div DayLen) = (t \div DayLen) * DayLen
  BY <1>1, <1>2
<1>5. (t \div DayLen) * DayLen \in Int
  BY <1>1, <1>2
<1> QED
  BY <1>1, <1>2, <1>3, <1>4, <1>5 DEF DayOf, Midnight

LEMMA DaysInOrder ==
  ASSUME NEW t \in Int, NEW d \in Int
  PROVE  /\ DayOf(t) = d <=> Midnight(d) <= t /\ t <= Midnight(d) + DayLen - 1
         /\ DayOf(t) < d <=> t < Midnight(d)
<1> DEFINE e == DayOf(t)
<1>1. /\ e \in Int /\ Midnight(e) <= t /\ t <= Midnight(e) + DayLen - 1
      /\ Midnight(e) \in Int /\ Midnight(d) \in Int /\ DayLen \in Nat /\ DayLen > 0
  BY DayIs, LinesAssumption DEF Midnight
<1>2. e < d => Midnight(e) + DayLen <= Midnight(d)
  BY <1>1, Midnights
<1>3. d < e => Midnight(d) + DayLen <= Midnight(e)
  BY <1>1, Midnights
<1>4. e < d \/ e = d \/ d < e
  BY <1>1
<1> HIDE DEF e
<1>5. PICK m \in Int, n \in Int : m = Midnight(e) /\ n = Midnight(d)
  BY <1>1
<1>6. CASE e < d
  BY <1>1, <1>2, <1>5, <1>6 DEF e
<1>7. CASE e = d
  BY <1>1, <1>5, <1>7 DEF e
<1>8. CASE d < e
  BY <1>1, <1>3, <1>5, <1>8 DEF e
<1> QED
  BY <1>4, <1>6, <1>7, <1>8

LEMMA RowDays ==
  ASSUME NEW t \in Rows
  PROVE  t \in Nat /\ DayOf(t) \in 0 .. Days - 1
<1>1. Days \in Nat /\ Days * DayLen \in Nat
  BY LinesAssumption
<1>2. t \in Nat /\ t < Midnight(Days)
  BY <1>1 DEF Rows, Midnight
<1>3. DayOf(t) < Days /\ DayOf(t) \in Nat
  BY <1>1, <1>2, DayIs, DaysInOrder
<1> QED
  BY <1>1, <1>2, <1>3

LEMMA MidnightIsRow ==
  ASSUME NEW d \in 0 .. Days - 1
  PROVE  Midnight(d) \in Rows /\ DayOf(Midnight(d)) = d
<1>1. d \in Nat /\ Days \in Nat /\ d < Days /\ DayLen \in Nat /\ DayLen > 0
  BY LinesAssumption
<1>2. Midnight(d) \in Nat /\ Midnight(d) + DayLen <= Midnight(Days)
  <2>1. Midnight(d) \in Nat
    BY <1>1 DEF Midnight
  <2> QED
    BY <1>1, <2>1, Midnights
<1>3. Midnight(d) <= Midnight(d) /\ Midnight(d) <= Midnight(d) + DayLen - 1
  BY <1>1, <1>2
<1>4. DayOf(Midnight(d)) = d
  BY <1>1, <1>2, <1>3, DaysInOrder
<1>5. Midnight(Days) = Days * DayLen /\ Days * DayLen \in Nat
  BY <1>1 DEF Midnight
<1> QED
  BY <1>1, <1>2, <1>4, <1>5 DEF Rows

(* The day of a time, and the first row that is not before it.             *)
LEMMA DayAtIs ==
  ASSUME NEW x \in Int
  PROVE  /\ DayAt(x) \in Int /\ Midnight(DayAt(x)) \in Int /\ FirstRow(x) \in Int
         /\ Midnight(DayAt(x)) <= FirstRow(x) /\ FirstRow(x) <= Midnight(DayAt(x)) + DayLen
<1>1. PICK y \in Int : y = x \div 2 /\ y <= (x + 1) \div 2 /\ (x + 1) \div 2 <= y + 1
  OBVIOUS
<1>2. /\ DayOf(y) \in Int /\ Midnight(DayOf(y)) \in Int
      /\ Midnight(DayOf(y)) <= y /\ y <= Midnight(DayOf(y)) + DayLen - 1
  BY DayIs
<1>3. PICK m \in Int : m = Midnight(DayOf(y))
  BY <1>2
<1>4. FirstRow(x) \in Int /\ y <= FirstRow(x) /\ FirstRow(x) <= y + 1
  BY <1>1 DEF FirstRow
<1>5. m <= FirstRow(x) /\ FirstRow(x) <= m + DayLen
  BY <1>2, <1>3, <1>4, LinesAssumption
<1> QED
  BY <1>1, <1>2, <1>3, <1>4, <1>5 DEF DayAt

(* IsLineDateOutOfRange lets no line pass that is before the first day,    *)
(* and none up to the end of the last day that is not before the time the  *)
(* participant's begins.                                                   *)
LEMMA ActiveIs ==
  ASSUME NEW r \in Requests, NEW t \in Rows
  PROVE  /\ Active(r, t) <=> FirstRow(r.from) <= t /\ t < FirstRow(r.until) + DayLen
         /\ FirstRow(r.from) <= t => DayAt(r.from) <= DayOf(t)
         /\ DayOf(t) <= DayAt(r.until) => t < FirstRow(r.until) + DayLen
<1>1. r.from \in Int /\ r.until \in Int
  BY DEF Requests
<1>2. t \in Nat /\ DayOf(t) \in Nat /\ DayLen \in Nat /\ DayLen > 0
  BY RowDays, LinesAssumption
<1>3. PICK d \in Int, e \in Int, f \in Int, u \in Int, m \in Int, n \in Int :
        /\ d = DayAt(r.from) /\ m = Midnight(d) /\ f = FirstRow(r.from) /\ m <= f
        /\ e = DayAt(r.until) /\ n = Midnight(e) /\ u = FirstRow(r.until) /\ n <= u
  BY <1>1, DayAtIs
<1>4. Active(r, t) <=> f <= t /\ t < u + DayLen
  BY <1>2, <1>3 DEF Active
<1>5. DayOf(t) < d <=> t < m
  BY <1>2, <1>3, DaysInOrder
<1>6. f <= t => d <= DayOf(t)
  BY <1>2, <1>3, <1>5
<1>7. DayOf(t) < e => t < n
  BY <1>2, <1>3, DaysInOrder
<1>8. DayOf(t) = e => t <= n + DayLen - 1
  BY <1>2, <1>3, DaysInOrder
<1>9. DayOf(t) <= e => t < u + DayLen
  BY <1>2, <1>3, <1>7, <1>8
<1> QED
  BY <1>3, <1>4, <1>6, <1>9

(* GetMetaInfo's columns of a line.                                        *)
LEMMA WidthIsNat == ASSUME NEW t PROVE Width(t) \in Nat
<1>1. Cardinality(DOMAIN Columns) \in Nat
  BY LinesAssumption, FS_CardinalityType
<1> QED
  BY <1>1 DEF Width

-----------------------------------------------------------------------------
(* The workbook.  What the sheets hold is told by the times that were      *)
(* handled: those from the first line to the one handled last.             *)

LineAt(t) == IF t \in lines THEN RealLine(t) ELSE ZeroLine(t)

Handled == IF previous = -1 THEN {} ELSE Least(lines) .. previous

(* A participant has a value at the time t.                                *)
HasValue(i, t) == Active(cps[i], t) /\ Column(cps[i]) < LineAt(t).width

Through(s, f) == [n \in DOMAIN s |-> f[s[n]]]

RowOf  == [t \in Rows |-> [at |-> t, cells |-> Cells(LineAt(t))]]
LineOf == [t \in Rows |-> LineAt(t)]

(* The sheets after the lines of the times H.                              *)
TotalOf(H) ==
  total = [i \in DOMAIN cps |-> Sorted({t \in H : t \in lines /\ HasValue(i, t)})]

CompleteOf(H) ==
  /\ complete \in [DOMAIN cps -> BOOLEAN]
  /\ \A i \in DOMAIN cps :
       complete[i] <=> /\ cps[i].meter \in DOMAIN Columns
                       /\ \A t \in H : HasValue(i, t) => LineAt(t).qov = 1

MarksOf(H) ==
  marks = [i \in DOMAIN cps |->
             {q \in {0, 2, 3} : \E t \in H : HasValue(i, t) /\ LineAt(t).qov = q}]

SheetOf(H) == sheet = Through(Sorted(H), RowOf)

LogOf(H) == log = Through(Sorted({t \in H : Doubtful(LineAt(t))}), LineOf)

SheetsOf(H) == TotalOf(H) /\ CompleteOf(H) /\ MarksOf(H) /\ SheetOf(H) /\ LogOf(H)

NoStranger == \A i \in DOMAIN cps : cps[i].meter \in DOMAIN Columns

(* What neither report changes.                                            *)
Given ==
  /\ lines \in SUBSET Rows /\ joined \in Nat
  /\ asked \in Seq(Requests) /\ cps = asked

ExportStages ==
  /\ xstage \in {"begin", "lines", "done", "empty", "panic"}
  /\ xstage \in {"begin", "empty", "panic"} =>
       previous = -1 /\ toRead = <<>> /\ logSheet = <<>>
  /\ xstage = "empty" => lines = {}
  /\ xstage \in {"lines", "done"} => lines # {} /\ NoStranger
  /\ xstage = "lines" => toRead = Sorted({t \in lines : t > previous}) /\ logSheet = <<>>
  /\ xstage = "done" =>
       /\ previous = Greatest(lines) /\ toRead = <<>>
       /\ logSheet = [n \in DOMAIN log |-> Labelled(log[n])]
  /\ previous # -1 => previous \in Least(lines) .. Greatest(lines)

ExportInv == Given /\ ExportStages /\ SheetsOf(Handled)

LEMMA ThroughAppend ==
  ASSUME NEW S, NEW s \in Seq(S), NEW t \in S, NEW f
  PROVE  Through(Append(s, t), f) = Append(Through(s, f), f[t])
<1> DEFINE a == Append(s, t)
           n == Len(s)
           u == [k \in 1 .. n |-> f[s[k]]]
<1>1. n \in Nat /\ DOMAIN s = 1 .. n
  OBVIOUS
<1>2. /\ DOMAIN a = 1 .. n + 1 /\ a[n + 1] = t
      /\ \A k \in 1 .. n : a[k] = s[k]
  OBVIOUS
<1>3. Through(s, f) = u
  BY <1>1, Zenon DEF Through
<1>4. Append(u, f[t]) = [k \in 1 .. n + 1 |-> IF k = n + 1 THEN f[t] ELSE u[k]]
  <2>1. DOMAIN u = 1 .. n /\ Len(u) = n
    BY <1>1
  <2> HIDE DEF u, n
  <2> QED
    BY <1>1, <2>1
<1>5. \A k \in 1 .. n + 1 : f[a[k]] = IF k = n + 1 THEN f[t] ELSE u[k]
  <2>1. \A k \in 1 .. n + 1 : k = n + 1 \/ k \in 1 .. n
    BY <1>1
  <2>2. \A k \in 1 .. n : u[k] = f[s[k]] /\ k # n + 1
    BY <1>1
  <2> HIDE DEF u, a
  <2> QED
    BY <1>2, <2>1, <2>2
<1>6. Through(a, f) = [k \in 1 .. n + 1 |-> f[a[k]]]
  BY <1>2, Zenon DEF Through
<1> HIDE DEF a, u, n
<1>7. Through(a, f) = Append(u, f[t])
  BY <1>4, <1>5, <1>6
<1> QED
  BY <1>3, <1>7 DEF a

LEMMA LineFacts ==
  ASSUME Given, NEW t \in Rows
  PROVE  /\ LineAt(t) \in [at : Rows, zero : BOOLEAN, width : Nat, qov : 0 .. 3]
         /\ LineAt(t).at = t /\ (LineAt(t).zero <=> t \notin lines)
         /\ t \in lines => LineAt(t).width = Width(t) /\ LineAt(t).qov = Quality[t]
         /\ t \notin lines => LineAt(t).width = Len(cps) /\ LineAt(t).qov = 0
<1>1. Quality[t] \in 0 .. 3 /\ Width(t) \in Nat
  BY LinesAssumption, WidthIsNat
<1>2. Len(cps) \in Nat
  BY DEF Given
<1>3. CASE t \in lines
  BY <1>1, <1>3 DEF LineAt, RealLine
<1>4. CASE t \notin lines
  BY <1>2, <1>4 DEF LineAt, ZeroLine
<1> QED
  BY <1>3, <1>4

LEMMA SameLines ==
  ASSUME UNCHANGED <<lines, joined, cps>>
  PROVE  /\ \A t : LineAt(t)' = LineAt(t)
         /\ \A i, t : HasValue(i, t)' <=> HasValue(i, t)
         /\ \A ln : (Doubtful(ln)' <=> Doubtful(ln)) /\ Cells(ln)' = Cells(ln)
         /\ RowOf' = RowOf /\ LineOf' = LineOf
<1>1. \A t : LineAt(t)' = LineAt(t)
  BY DEF LineAt, RealLine, ZeroLine, Width
<1>2. \A i, t : HasValue(i, t)' <=> HasValue(i, t)
  BY <1>1 DEF HasValue
<1>3. \A ln : (Doubtful(ln)' <=> Doubtful(ln)) /\ Cells(ln)' = Cells(ln)
  BY DEF Doubtful, Cells
<1>4. RowOf' = RowOf /\ LineOf' = LineOf
  BY <1>1, <1>3 DEF RowOf, LineOf
<1> QED
  BY <1>1, <1>2, <1>3, <1>4

(* SummarySheet.handleLine: one line more is added up.                     *)
LEMMA TotalStep ==
  ASSUME Given, UNCHANGED <<lines, joined, cps>>,
         NEW H \in SUBSET Rows, NEW t \in Rows, \A x \in H : x < t,
         TotalOf(H), total' = Summed(LineAt(t))
  PROVE  TotalOf(H \cup {t})'
<1> DEFINE of(i, K) == {u \in K : u \in lines /\ HasValue(i, u)}
<1>1. /\ \A u : LineAt(u)' = LineAt(u)
      /\ \A i, u : HasValue(i, u)' <=> HasValue(i, u)
  BY SameLines
<1>2. total = [i \in DOMAIN cps |-> Sorted(of(i, H))]
  BY DEF TotalOf
<1>3. LineAt(t).at = t /\ (LineAt(t).zero <=> t \notin lines)
  BY LineFacts
<1>4. total' = [i \in DOMAIN cps |-> IF t \in lines /\ HasValue(i, t)
                                     THEN Append(total[i], t) ELSE total[i]]
  BY <1>3 DEF Summed, HasValue
<1>5. ASSUME NEW i \in DOMAIN cps
      PROVE  total'[i] = Sorted(of(i, H \cup {t}))
  <2>1. total[i] = Sorted(of(i, H))
    BY <1>2
  <2>2. CASE t \in lines /\ HasValue(i, t)
    <3>1. of(i, H \cup {t}) = of(i, H) \cup {t}
      BY <2>2
    <3>2. /\ of(i, H) \in SUBSET Nat /\ IsFiniteSet(of(i, H)) /\ t \in Nat
          /\ \A x \in of(i, H) : x < t
      <4>1. of(i, H) \in SUBSET Rows /\ \A x \in of(i, H) : x < t
        OBVIOUS
      <4> HIDE DEF of
      <4> QED
        BY <4>1, RowsAreTimes, FS_Subset
    <3> HIDE DEF of
    <3> QED
      BY <1>4, <2>1, <2>2, <3>1, <3>2, SortedAppend
  <2>3. CASE ~(t \in lines /\ HasValue(i, t))
    <3>1. of(i, H \cup {t}) = of(i, H)
      BY <2>3
    <3> HIDE DEF of
    <3> QED
      BY <1>4, <2>1, <2>3, <3>1
  <2> QED
    BY <2>2, <2>3
<1>6. total' = [i \in DOMAIN cps |-> Sorted(of(i, H \cup {t}))]
  <2>1. total' = [i \in DOMAIN cps |-> total'[i]]
    BY <1>4
  <2> HIDE DEF of
  <2> QED
    BY <1>5, <2>1
<1> QED
  BY <1>1, <1>6 DEF TotalOf

(* ... and counted for completeness, ...                                   *)
LEMMA CompleteStep ==
  ASSUME Given, UNCHANGED <<lines, joined, cps>>, NoStranger,
         NEW H \in SUBSET Rows, NEW t \in Rows,
         CompleteOf(H), complete' = StillComplete(LineAt(t))
  PROVE  CompleteOf(H \cup {t})'
<1>1. /\ \A u : LineAt(u)' = LineAt(u)
      /\ \A i, u : HasValue(i, u)' <=> HasValue(i, u)
  BY SameLines
<1>2. LineAt(t).at = t /\ LineAt(t).width \in Nat
  BY LineFacts
<1>3. ASSUME NEW i \in DOMAIN cps
      PROVE  complete'[i] <=> complete[i] /\ (HasValue(i, t) => LineAt(t).qov = 1)
  <2>1. Column(cps[i]) \in Nat
    BY LinesAssumption DEF NoStranger, Column
  <2>2. LineAt(t).width <= Column(cps[i]) <=> ~(Column(cps[i]) < LineAt(t).width)
    BY <1>2, <2>1
  <2>3. complete'[i] <=>
          complete[i] /\ (~Active(cps[i], t) \/ LineAt(t).width <= Column(cps[i])
                            \/ LineAt(t).qov = 1)
    BY <1>2 DEF StillComplete
  <2> QED
    BY <2>2, <2>3, Zenon DEF HasValue
<1>4. complete' \in [DOMAIN cps -> BOOLEAN]
  BY DEF StillComplete, CompleteOf
<1>5. ASSUME NEW i \in DOMAIN cps
      PROVE  complete'[i] <=> /\ cps[i].meter \in DOMAIN Columns
                              /\ \A u \in H \cup {t} : HasValue(i, u) => LineAt(u).qov = 1
  <2>1. complete[i] <=> \A u \in H : HasValue(i, u) => LineAt(u).qov = 1
    BY DEF CompleteOf, NoStranger
  <2> QED
    BY <1>3, <2>1 DEF NoStranger
<1>6. cps' = cps
  OBVIOUS
<1> QED
  BY <1>1, <1>4, <1>5, <1>6 DEF CompleteOf

(* ... and its quality marked ...                                          *)
LEMMA MarksStep ==
  ASSUME Given, UNCHANGED <<lines, joined, cps>>,
         NEW H \in SUBSET Rows, NEW t \in Rows,
         MarksOf(H), marks' = Marked(LineAt(t))
  PROVE  MarksOf(H \cup {t})'
<1> DEFINE of(i, K) == {q \in {0, 2, 3} : \E u \in K : HasValue(i, u) /\ LineAt(u).qov = q}
<1>1. /\ \A u : LineAt(u)' = LineAt(u)
      /\ \A i, u : HasValue(i, u)' <=> HasValue(i, u)
  BY SameLines
<1>2. LineAt(t).at = t
  BY LineFacts
<1>3. marks' = [i \in DOMAIN cps |->
                  marks[i] \cup {q \in {0, 2, 3} : HasValue(i, t) /\ LineAt(t).qov = q}]
  BY <1>2 DEF Marked, HasValue
<1>4. ASSUME NEW i \in DOMAIN cps PROVE marks'[i] = of(i, H \cup {t})
  <2>1. marks[i] = of(i, H)
    BY DEF MarksOf
  <2>2. of(i, H \cup {t}) = of(i, H) \cup {q \in {0, 2, 3} : HasValue(i, t) /\ LineAt(t).qov = q}
    OBVIOUS
  <2> HIDE DEF of
  <2> QED
    BY <1>3, <2>1, <2>2
<1>5. marks' = [i \in DOMAIN cps |-> of(i, H \cup {t})]
  <2>1. marks' = [i \in DOMAIN cps |-> marks'[i]]
    BY <1>3
  <2> HIDE DEF of
  <2> QED
    BY <1>4, <2>1
<1> QED
  BY <1>1, <1>5 DEF MarksOf

(* ... and the sheet of energy and its log get a row each.                 *)
LEMMA SheetStep ==
  ASSUME Given, UNCHANGED <<lines, joined, cps>>,
         NEW H \in SUBSET Rows, NEW t \in Rows, \A x \in H : x < t,
         SheetOf(H), sheet' = Append(sheet, [at |-> LineAt(t).at, cells |-> Cells(LineAt(t))])
  PROVE  SheetOf(H \cup {t})'
<1>1. RowOf' = RowOf
  BY SameLines
<1>2. H \in SUBSET Nat /\ IsFiniteSet(H) /\ t \in Nat
  BY RowsAreTimes, FS_Subset
<1>3. Sorted(H) \in Seq(Nat) /\ Sorted(H \cup {t}) = Append(Sorted(H), t)
  BY <1>2, SortedAppend, SortedIsSeq
<1>4. Through(Append(Sorted(H), t), RowOf) = Append(Through(Sorted(H), RowOf), RowOf[t])
  BY <1>2, <1>3, ThroughAppend
<1>5. RowOf[t] = [at |-> LineAt(t).at, cells |-> Cells(LineAt(t))]
  <2>1. LineAt(t).at = t
    BY LineFacts
  <2> QED
    BY <2>1 DEF RowOf
<1>6. sheet' = Through(Sorted(H \cup {t}), RowOf')
  BY <1>1, <1>3, <1>4, <1>5 DEF SheetOf
<1> QED
  BY <1>6 DEF SheetOf

LEMMA LogStep ==
  ASSUME Given, UNCHANGED <<lines, joined, cps>>,
         NEW H \in SUBSET Rows, NEW t \in Rows, \A x \in H : x < t,
         LogOf(H),
         log' = IF Doubtful(LineAt(t)) THEN Append(log, LineAt(t)) ELSE log
  PROVE  LogOf(H \cup {t})'
<1> DEFINE of(K) == {u \in K : Doubtful(LineAt(u))}
<1>1. LineOf' = LineOf /\ \A u : Doubtful(LineAt(u))' <=> Doubtful(LineAt(u))
  <2>1. /\ \A u : LineAt(u)' = LineAt(u) /\ LineOf' = LineOf
        /\ cps' = cps
    BY SameLines
  <2> QED
    BY <2>1 DEF Doubtful
<1>2. log = Through(Sorted(of(H)), LineOf)
  BY DEF LogOf
<1>3. of(H) \in SUBSET Nat /\ IsFiniteSet(of(H)) /\ t \in Nat /\ \A x \in of(H) : x < t
  <2>1. of(H) \in SUBSET Rows /\ \A x \in of(H) : x < t
    OBVIOUS
  <2> HIDE DEF of
  <2> QED
    BY <2>1, RowsAreTimes, FS_Subset
<1>4. CASE Doubtful(LineAt(t))
  <2>1. of(H \cup {t}) = of(H) \cup {t}
    BY <1>4
  <2> HIDE DEF of
  <2>2. Sorted(of(H)) \in Seq(Nat) /\ Sorted(of(H \cup {t})) = Append(Sorted(of(H)), t)
    BY <1>3, <2>1, SortedAppend, SortedIsSeq
  <2>3. Through(Append(Sorted(of(H)), t), LineOf)
          = Append(Through(Sorted(of(H)), LineOf), LineOf[t])
    BY <1>3, <2>2, ThroughAppend
  <2>4. log' = Append(log, LineAt(t)) /\ LineOf[t] = LineAt(t)
    BY <1>4 DEF LineOf
  <2>5. log' = Through(Sorted(of(H \cup {t})), LineOf)
    BY <1>2, <2>2, <2>3, <2>4
  <2> QED
    BY <1>1, <2>5 DEF of, LogOf
<1>5. CASE ~Doubtful(LineAt(t))
  <2>1. of(H \cup {t}) = of(H) /\ log' = log
    BY <1>5
  <2>2. log' = Through(Sorted(of(H \cup {t})), LineOf)
    BY <1>2, <2>1
  <2> QED
    BY <1>1, <2>2 DEF LogOf
<1> QED
  BY <1>4, <1>5

LEMMA HandleLineStep ==
  ASSUME Given, UNCHANGED <<lines, joined, cps>>, NoStranger,
         NEW H \in SUBSET Rows, NEW t \in Rows, \A x \in H : x < t,
         SheetsOf(H), HandleLine(LineAt(t))
  PROVE  SheetsOf(H \cup {t})'
<1>1. TotalOf(H \cup {t})'
  BY TotalStep DEF SheetsOf, HandleLine
<1>2. CompleteOf(H \cup {t})'
  BY CompleteStep DEF SheetsOf, HandleLine
<1>3. MarksOf(H \cup {t})'
  BY MarksStep DEF SheetsOf, HandleLine
<1>4. SheetOf(H \cup {t})'
  BY SheetStep DEF SheetsOf, HandleLine
<1>5. LogOf(H \cup {t})'
  BY LogStep DEF SheetsOf, HandleLine
<1> QED
  BY <1>1, <1>2, <1>3, <1>4, <1>5 DEF SheetsOf

(* The first and the last of some lines.                                   *)
LEMMA FirstAndLast ==
  ASSUME NEW S \in SUBSET Nat, IsFiniteSet(S), S # {}
  PROVE  /\ Least(S) \in S /\ \A y \in S : Least(S) <= y
         /\ Greatest(S) \in S /\ \A y \in S : Greatest(S) >= y
<1>1. Head(Sorted(S)) \in S /\ \A y \in S : Head(Sorted(S)) <= y
  BY SortedTail
<1>2. Least(S) \in S /\ \A y \in S : Least(S) <= y
  BY <1>1 DEF Least
<1> DEFINE s == Sorted(S)
           n == Cardinality(S)
<1>3. n \in Nat /\ InOrder(s, n, S)
  BY SortedIsInOrder
<1> HIDE DEF s, n
<1>4. /\ s \in [1 .. n -> S] /\ \A i, j \in 1 .. n : i < j => s[i] < s[j]
      /\ \A x \in S : \E i \in 1 .. n : s[i] = x
  BY <1>3 DEF InOrder
<1>5. n \in 1 .. n
  <2>1. PICK i \in 1 .. n : TRUE
    BY <1>4
  <2> QED
    BY <1>3, <2>1
<1>6. ASSUME NEW y \in S PROVE s[n] >= y
  <2>1. PICK i \in 1 .. n : s[i] = y
    BY <1>4
  <2>2. i = n \/ i < n
    BY <1>3
  <2>3. s[i] = s[n] \/ s[i] < s[n]
    BY <1>4, <1>5, <2>2
  <2>4. s[i] \in Nat /\ s[n] \in Nat
    BY <1>4, <1>5
  <2> QED
    BY <2>1, <2>3, <2>4
<1>7. s[n] \in S
  BY <1>4, <1>5
<1>8. Greatest(S) \in S /\ \A y \in S : Greatest(S) >= y
  BY <1>6, <1>7 DEF Greatest
<1> QED
  BY <1>2, <1>8

LEMMA HandledSheets ==
  ASSUME NEW H, Handled' = H, SheetsOf(H)' PROVE SheetsOf(Handled)'
<1>1. TotalOf(Handled)' /\ MarksOf(Handled)' /\ SheetOf(Handled)' /\ LogOf(Handled)'
  BY DEF SheetsOf, TotalOf, MarksOf, SheetOf, LogOf
<1>2. CompleteOf(Handled)'
  BY DEF SheetsOf, CompleteOf
<1> QED
  BY <1>1, <1>2 DEF SheetsOf

(* One round of the loop of run.                                           *)
LEMMA NextLine ==
  ASSUME Given, ExportStages, SheetsOf(Handled), xstage = "lines",
         UNCHANGED <<lines, joined, cps>>,
         NEW t \in Rows, t = IF previous = -1 THEN Least(lines) ELSE previous + 1,
         previous' = t, HandleLine(LineAt(t))
  PROVE  SheetsOf(Handled)'
<1>1. PICK H : H = Handled
  OBVIOUS
<1>2. lines \in SUBSET Nat /\ IsFiniteSet(lines) /\ lines # {} /\ NoStranger
  BY RowsAreTimes, FS_Subset DEF Given, ExportStages
<1>3. /\ Least(lines) \in lines /\ Greatest(lines) \in lines
      /\ Least(lines) \in Nat /\ Greatest(lines) \in Nat
  BY <1>2, FirstAndLast
<1>4. t \in Nat
  BY RowDays
<1>5. previous # -1 => previous \in Nat /\ Least(lines) <= previous /\ previous <= Greatest(lines)
  BY <1>3 DEF ExportStages
<1>6. H \in SUBSET Rows
  <2>1. CASE previous = -1
    BY <1>1, <2>1 DEF Handled
  <2>2. CASE previous # -1
    <3>1. PICK n \in Nat : Rows = 0 .. n - 1
      BY LinesAssumption DEF Rows
    <3>2. H = Least(lines) .. previous
      BY <1>1, <2>2 DEF Handled
    <3>3. Greatest(lines) \in Rows
      BY <1>3 DEF Given
    <3> QED
      BY <1>3, <1>5, <2>2, <3>1, <3>2, <3>3
  <2> QED
    BY <2>1, <2>2
<1>7. (\A x \in H : x < t) /\ H \cup {t} = Least(lines) .. t
  <2>1. CASE previous = -1
    BY <1>1, <1>3, <2>1 DEF Handled
  <2>2. CASE previous # -1
    <3>1. H = Least(lines) .. previous /\ t = previous + 1
      BY <1>1, <2>2 DEF Handled
    <3> QED
      BY <1>3, <1>5, <2>2, <3>1
  <2> QED
    BY <2>1, <2>2
<1>8. Handled' = H \cup {t}
  <2>1. t # -1
    BY <1>4
  <2>2. Least(lines)' = Least(lines)
    BY DEF Least
  <2> QED
    BY <1>7, <2>1, <2>2 DEF Handled
<1>9. SheetsOf(H)
  BY <1>1
<1>10. SheetsOf(H \cup {t})'
  BY <1>2, <1>6, <1>7, <1>9, HandleLineStep
<1> QED
  BY <1>8, <1>10, HandledSheets

LEMMA ExportBegins == Init => ExportInv
<1> SUFFICES ASSUME Init PROVE ExportInv
  OBVIOUS
<1>1. Given
  <2>1. joined \in Nat
    <3>1. PICK d \in 0 .. Days - 1 : joined = Midnight(d)
      BY DEF Init
    <3>2. d \in Nat /\ DayLen \in Nat
      BY LinesAssumption
    <3> QED
      BY <3>1, <3>2 DEF Midnight
  <2> QED
    BY <2>1, ReportsAssumption DEF Init, Given
<1>2. ExportStages
  BY DEF Init, ExportInit, ExportStages
<1>3. Handled = {}
  BY DEF Init, ExportInit, Handled
<1>4. TotalOf({}) /\ MarksOf({})
  <2>1. \A i : {t \in {} : t \in lines /\ HasValue(i, t)} = {}
    OBVIOUS
  <2>2. TotalOf({})
    BY <2>1, SortedEmpty DEF Init, ExportInit, TotalOf
  <2> QED
    BY <2>2 DEF Init, ExportInit, MarksOf
<1>5. CompleteOf({})
  <2>1. complete = [i \in DOMAIN cps |-> cps[i].meter \in DOMAIN Columns]
    BY DEF Init, ExportInit
  <2>2. \A i \in DOMAIN cps : complete[i] <=> cps[i].meter \in DOMAIN Columns
    BY <2>1, Zenon
  <2>3. complete \in [DOMAIN cps -> BOOLEAN]
    BY <2>1
  <2> QED
    BY <2>2, <2>3, Zenon DEF CompleteOf
<1>6. SheetOf({}) /\ LogOf({})
  <2>1. Through(<<>>, RowOf) = <<>> /\ Through(<<>>, LineOf) = <<>>
    BY DEF Through
  <2>2. {t \in {} : Doubtful(LineAt(t))} = {}
    OBVIOUS
  <2> QED
    BY <2>1, <2>2, SortedEmpty DEF Init, ExportInit, SheetOf, LogOf
<1>7. SheetsOf({})
  BY <1>4, <1>5, <1>6 DEF SheetsOf
<1>8. SheetsOf(Handled)
  <2>1. PICK H : H = Handled
    OBVIOUS
  <2>2. SheetsOf(H)
    BY <1>3, <1>7, <2>1
  <2> QED
    BY <2>1, <2>2
<1> QED
  BY <1>1, <1>2, <1>8 DEF ExportInv

(* A step that leaves the sheets alone.                                    *)
LEMMA SheetsStay ==
  ASSUME ExportInv,
         UNCHANGED <<lines, joined, cps, previous, total, complete, marks, sheet, log>>
  PROVE  SheetsOf(Handled)'
<1>1. Handled' = Handled
  BY DEF Handled, Least
<1>2. PICK H : H = Handled
  OBVIOUS
<1>3. SheetsOf(H)
  BY <1>2 DEF ExportInv
<1>4. /\ \A t : LineAt(t)' = LineAt(t)
      /\ \A i, t : HasValue(i, t)' <=> HasValue(i, t)
      /\ \A ln : Doubtful(ln)' <=> Doubtful(ln)
      /\ RowOf' = RowOf /\ LineOf' = LineOf
  BY SameLines
<1>5. TotalOf(H)' /\ MarksOf(H)' /\ SheetOf(H)' /\ CompleteOf(H)'
  BY <1>3, <1>4 DEF SheetsOf, TotalOf, MarksOf, SheetOf, CompleteOf
<1>6. LogOf(H)'
  BY <1>3, <1>4 DEF SheetsOf, LogOf
<1>7. SheetsOf(H)'
  BY <1>5, <1>6 DEF SheetsOf
<1> QED
  BY <1>1, <1>2, <1>7, HandledSheets

(* initSheets: a participant whose meter has no column ends the export.    *)
LEMMA InitSheetsStep ==
  ASSUME ExportInv, UNCHANGED <<database, reportVars>>, InitSheets \/ InitSheetsPanics
  PROVE  ExportInv'
<1>1. SheetsOf(Handled)'
  BY SheetsStay DEF database, InitSheets, InitSheetsPanics
<1>2. Given'
  BY DEF ExportInv, Given, database, reportVars, InitSheets, InitSheetsPanics
<1>3. /\ xstage = "begin" /\ previous = -1 /\ toRead = <<>> /\ logSheet = <<>>
      /\ lines' = lines /\ cps' = cps /\ previous' = previous /\ logSheet' = logSheet
  BY DEF ExportInv, ExportStages, database, InitSheets, InitSheetsPanics
<1>4. CASE InitSheetsPanics
  <2>1. xstage' = "panic" /\ toRead' = toRead
    BY <1>4 DEF InitSheetsPanics
  <2> QED
    BY <1>1, <1>2, <1>3, <2>1 DEF ExportInv, ExportStages
<1>5. CASE InitSheets
  <2>1. toRead' = Sorted(lines) /\ xstage' = IF lines = {} THEN "empty" ELSE "lines"
    BY <1>5 DEF InitSheets
  <2>2. NoStranger
    <3> SUFFICES ASSUME NEW i \in DOMAIN cps PROVE cps[i].meter \in DOMAIN Columns
      BY DEF NoStranger
    <3>1. cps[i] \in Requests
      BY DEF ExportInv, Given
    <3> QED
      BY <1>5, <3>1 DEF InitSheets, Requests, Meters
  <2>3. NoStranger'
    BY <1>3, <2>2 DEF NoStranger
  <2>4. {t \in lines : t > -1} = lines
    <3>1. lines \in SUBSET Nat
      BY RowsAreTimes DEF ExportInv, Given
    <3>2. \A t \in Nat : t > -1
      OBVIOUS
    <3> QED
      BY <3>1, <3>2
  <2>5. ExportStages'
    <3>1. CASE lines = {}
      BY <1>3, <2>1, <3>1, SortedEmpty DEF ExportStages
    <3>2. CASE lines # {}
      BY <1>3, <2>1, <2>3, <2>4, <3>2 DEF ExportStages
    <3> QED
      BY <3>1, <3>2
  <2> QED
    BY <1>1, <1>2, <2>5 DEF ExportInv
<1> QED
  BY <1>4, <1>5

(* The first of the lines that are still to be read.                       *)
LEMMA NextToRead ==
  ASSUME ExportInv, xstage = "lines", toRead # <<>>
  PROVE  /\ Head(toRead) \in lines /\ Head(toRead) > previous
         /\ \A t \in lines : t > previous => Head(toRead) <= t
         /\ Tail(toRead) = Sorted({t \in lines : t > Head(toRead)})
         /\ previous = -1 => Head(toRead) = Least(lines)
<1> DEFINE U == {t \in lines : t > previous}
           h == Head(toRead)
<1>1. U \in SUBSET Nat /\ IsFiniteSet(U)
  <2>1. U \in SUBSET Rows
    BY DEF ExportInv, Given
  <2> HIDE DEF U
  <2> QED
    BY <2>1, RowsAreTimes, FS_Subset
<1>2. toRead = Sorted(U)
  BY DEF ExportInv, ExportStages
<1> HIDE DEF U
<1>3. U # {}
  BY <1>2, SortedEmpty
<1>4. h \in U /\ (\A x \in U : h <= x) /\ Tail(toRead) = Sorted(U \ {h})
  BY <1>1, <1>2, <1>3, SortedTail
<1> HIDE DEF h
<1>5. U \ {h} = {t \in lines : t > h}
  <2>1. lines \in SUBSET Nat /\ previous \in Int
    <3>1. lines \in SUBSET Rows /\ IsFiniteSet(Rows) /\ Rows \subseteq Nat
      BY RowsAreTimes DEF ExportInv, Given
    <3>2. lines \in SUBSET Nat /\ IsFiniteSet(lines)
      BY <3>1, FS_Subset
    <3>3. lines # {}
      BY DEF ExportInv, ExportStages
    <3>4. Least(lines) \in Nat /\ Greatest(lines) \in Nat
      BY <3>2, <3>3, FirstAndLast
    <3>5. previous = -1 \/ previous \in Least(lines) .. Greatest(lines)
      BY DEF ExportInv, ExportStages
    <3> QED
      BY <3>2, <3>4, <3>5
  <2>2. h \in Nat /\ h > previous
    BY <1>4, <2>1 DEF U
  <2>3. ASSUME NEW t \in U, t # h PROVE t > h
    BY <1>1, <1>4, <2>2, <2>3
  <2>4. ASSUME NEW t \in lines, t > h PROVE t \in U /\ t # h
    BY <2>1, <2>2, <2>4 DEF U
  <2>5. U \subseteq lines
    BY DEF U
  <2> QED
    BY <2>3, <2>4, <2>5, Zenon
<1>6. previous = -1 => h = Least(lines)
  <2> SUFFICES ASSUME previous = -1 PROVE h = Least(lines)
    OBVIOUS
  <2>1. U = lines
    <3>1. lines \in SUBSET Nat /\ \A t \in Nat : t > previous
      BY RowsAreTimes DEF ExportInv, Given
    <3> QED
      BY <3>1 DEF U
  <2>2. Least(lines) \in U /\ Least(lines) <= h
    BY <1>1, <1>3, <1>4, <2>1, FirstAndLast
  <2>3. h <= Least(lines) /\ h \in Nat /\ Least(lines) \in Nat
    BY <1>1, <1>4, <2>2
  <2> QED
    BY <2>2, <2>3
<1> QED
  BY <1>4, <1>5, <1>6 DEF U, h

(* Where the loop of run is.                                               *)
LEMMA LoopFacts ==
  ASSUME ExportInv, lines # {}
  PROVE  /\ lines \in SUBSET Rows /\ lines \in SUBSET Nat /\ IsFiniteSet(lines)
         /\ Least(lines) \in lines /\ \A y \in lines : Least(lines) <= y
         /\ Greatest(lines) \in lines /\ \A y \in lines : Greatest(lines) >= y
         /\ Least(lines) \in Nat /\ Greatest(lines) \in Nat
         /\ previous = -1 \/ previous \in Least(lines) .. Greatest(lines)
         /\ previous \in Int
<1>1. lines \in SUBSET Rows
  BY DEF ExportInv, Given
<1>2. lines \in SUBSET Nat /\ IsFiniteSet(lines)
  BY <1>1, RowsAreTimes, FS_Subset
<1>3. /\ Least(lines) \in lines /\ \A y \in lines : Least(lines) <= y
      /\ Greatest(lines) \in lines /\ \A y \in lines : Greatest(lines) >= y
  BY <1>2, FirstAndLast
<1>4. Least(lines) \in Nat /\ Greatest(lines) \in Nat
  BY <1>2, <1>3
<1>5. previous = -1 \/ previous \in Least(lines) .. Greatest(lines)
  BY DEF ExportInv, ExportStages
<1> QED
  BY <1>1, <1>2, <1>3, <1>4, <1>5

LEMMA FillGapStep ==
  ASSUME ExportInv, UNCHANGED <<database, reportVars>>, FillGap
  PROVE  ExportInv'
<1> DEFINE t == previous + 1
           h == Head(toRead)
<1>1. /\ xstage = "lines" /\ toRead # <<>> /\ previous # -1 /\ h # t
      /\ HandleLine(ZeroLine(t)) /\ previous' = t
      /\ xstage' = xstage /\ cps' = cps /\ toRead' = toRead /\ logSheet' = logSheet
      /\ lines' = lines /\ joined' = joined /\ asked' = asked
  BY DEF FillGap, Gap, database, reportVars
<1>2. /\ lines # {} /\ NoStranger /\ logSheet = <<>>
      /\ toRead = Sorted({x \in lines : x > previous})
  BY <1>1 DEF ExportInv, ExportStages
<1>3. /\ lines \in SUBSET Rows /\ lines \in SUBSET Nat
      /\ Least(lines) \in Nat /\ Greatest(lines) \in Nat
      /\ \A y \in lines : Greatest(lines) >= y
      /\ previous \in Least(lines) .. Greatest(lines)
  BY <1>1, <1>2, LoopFacts
<1>4. h \in lines /\ h > previous /\ \A x \in lines : x > previous => h <= x
  BY <1>1, NextToRead
<1>5. t \in Nat /\ h \in Nat /\ t < h /\ t \in Least(lines) .. Greatest(lines)
  <2>1. h \in Nat /\ Greatest(lines) >= h
    BY <1>3, <1>4
  <2> QED
    BY <1>1, <1>3, <1>4, <2>1
<1>6. t \in Rows
  <2>1. PICK n \in Nat : Rows = 0 .. n - 1
    BY LinesAssumption DEF Rows
  <2>2. h \in Rows
    BY <1>3, <1>4
  <2> QED
    BY <1>5, <2>1, <2>2
<1>7. {x \in lines : x > t} = {x \in lines : x > previous}
  <2> SUFFICES ASSUME NEW x \in lines PROVE x > t <=> x > previous
    OBVIOUS
  <2>1. x \in Nat /\ (x > previous => h <= x)
    BY <1>3, <1>4
  <2> QED
    BY <1>3, <1>5, <2>1
<1>8. LineAt(t) = ZeroLine(t)
  <2>1. t \notin lines
    BY <1>3, <1>4, <1>5
  <2> QED
    BY <2>1 DEF LineAt
<1> HIDE DEF t, h
<1>9. Given /\ ExportStages /\ SheetsOf(Handled)
  BY DEF ExportInv
<1>10. SheetsOf(Handled)'
  <2>1. t = IF previous = -1 THEN Least(lines) ELSE previous + 1
    BY <1>1 DEF t
  <2>2. HandleLine(LineAt(t))
    BY <1>1, <1>8
  <2> QED
    BY <1>1, <1>6, <1>9, <2>1, <2>2, NextLine
<1>11. Given'
  BY <1>1, <1>9 DEF Given
<1>12. ExportStages'
  <2>1. NoStranger' /\ Least(lines)' = Least(lines) /\ Greatest(lines)' = Greatest(lines)
    BY <1>1, <1>2 DEF NoStranger, Least, Greatest
  <2> QED
    BY <1>1, <1>2, <1>5, <1>7, <2>1 DEF ExportStages
<1> QED
  BY <1>10, <1>11, <1>12 DEF ExportInv

LEMMA HandleRowStep ==
  ASSUME ExportInv, UNCHANGED <<database, reportVars>>, HandleRow
  PROVE  ExportInv'
<1> DEFINE t == Head(toRead)
<1>1. /\ xstage = "lines" /\ toRead # <<>> /\ (previous # -1 => t = previous + 1)
      /\ HandleLine(RealLine(t)) /\ previous' = t
      /\ xstage' = xstage /\ cps' = cps /\ toRead' = Tail(toRead) /\ logSheet' = logSheet
      /\ lines' = lines /\ joined' = joined /\ asked' = asked
  BY DEF HandleRow, Gap, database, reportVars
<1>2. lines # {} /\ NoStranger /\ logSheet = <<>>
  BY <1>1 DEF ExportInv, ExportStages
<1>3. /\ lines \in SUBSET Rows /\ lines \in SUBSET Nat
      /\ Least(lines) \in Nat /\ Greatest(lines) \in Nat
      /\ \A y \in lines : Least(lines) <= y /\ Greatest(lines) >= y
  BY <1>2, LoopFacts
<1>4. /\ t \in lines /\ Tail(toRead) = Sorted({x \in lines : x > t})
      /\ previous = -1 => t = Least(lines)
  BY <1>1, NextToRead
<1>5. t \in Rows /\ t \in Least(lines) .. Greatest(lines)
  <2>1. t \in Rows /\ t \in Nat /\ Least(lines) <= t /\ Greatest(lines) >= t
    BY <1>3, <1>4
  <2> QED
    BY <1>3, <2>1
<1>6. LineAt(t) = RealLine(t)
  BY <1>4 DEF LineAt
<1> HIDE DEF t
<1>7. Given /\ ExportStages /\ SheetsOf(Handled)
  BY DEF ExportInv
<1>8. SheetsOf(Handled)'
  <2>1. t = IF previous = -1 THEN Least(lines) ELSE previous + 1
    BY <1>1, <1>4
  <2>2. HandleLine(LineAt(t))
    BY <1>1, <1>6
  <2> QED
    BY <1>1, <1>5, <1>7, <2>1, <2>2, NextLine
<1>9. Given'
  BY <1>1, <1>7 DEF Given
<1>10. ExportStages'
  <2>1. NoStranger' /\ Least(lines)' = Least(lines) /\ Greatest(lines)' = Greatest(lines)
    BY <1>1, <1>2 DEF NoStranger, Least, Greatest
  <2> QED
    BY <1>1, <1>2, <1>4, <1>5, <2>1 DEF ExportStages
<1> QED
  BY <1>8, <1>9, <1>10 DEF ExportInv

(* The last line read is the last one, for nothing is left after it.       *)
LEMMA EndExportStep ==
  ASSUME ExportInv, UNCHANGED <<database, reportVars>>, EndExport
  PROVE  ExportInv'
<1>1. SheetsOf(Handled)'
  BY SheetsStay DEF database, EndExport
<1>2. /\ xstage = "lines" /\ toRead = <<>> /\ xstage' = "done"
      /\ logSheet' = [n \in DOMAIN log |-> Labelled(log[n])]
      /\ cps' = cps /\ toRead' = toRead /\ previous' = previous /\ log' = log
      /\ lines' = lines /\ joined' = joined /\ asked' = asked
  BY DEF EndExport, database, reportVars
<1>3. /\ lines # {} /\ NoStranger
      /\ toRead = Sorted({x \in lines : x > previous})
  BY <1>2 DEF ExportInv, ExportStages
<1>4. /\ lines \in SUBSET Rows /\ lines \in SUBSET Nat /\ IsFiniteSet(lines)
      /\ Least(lines) \in Nat /\ Greatest(lines) \in Nat /\ Greatest(lines) \in lines
      /\ previous = -1 \/ previous \in Least(lines) .. Greatest(lines)
      /\ previous \in Int
  BY <1>3, LoopFacts
<1>5. {x \in lines : x > previous} = {}
  <2> DEFINE U == {x \in lines : x > previous}
  <2>1. U \in SUBSET lines
    OBVIOUS
  <2> HIDE DEF U
  <2>2. U \in SUBSET Nat /\ IsFiniteSet(U)
    BY <1>4, <2>1, FS_Subset
  <2>3. toRead = Sorted(U)
    BY <1>3 DEF U
  <2>4. U = {}
    BY <1>2, <2>2, <2>3, SortedTail
  <2> QED
    BY <2>4 DEF U
<1>6. previous = Greatest(lines)
  <2>1. ~(Greatest(lines) > previous)
    BY <1>4, <1>5
  <2> QED
    BY <1>4, <2>1
<1>7. Given'
  BY <1>2 DEF ExportInv, Given
<1>8. ExportStages'
  <2>1. /\ NoStranger' /\ Least(lines)' = Least(lines) /\ Greatest(lines)' = Greatest(lines)
        /\ \A ln : Labelled(ln)' = Labelled(ln)
    BY <1>2, <1>3 DEF NoStranger, Least, Greatest, Labelled
  <2> QED
    BY <1>2, <1>3, <1>4, <1>6, <2>1 DEF ExportStages
<1> QED
  BY <1>1, <1>7, <1>8 DEF ExportInv

(* The calculation of the other report leaves the workbook alone.          *)
LEMMA ExportStays ==
  ASSUME ExportInv, UNCHANGED <<database, asked, exportVars>>
  PROVE  ExportInv'
<1>1. SheetsOf(Handled)'
  BY SheetsStay DEF database, exportVars
<1>2. Given'
  BY DEF ExportInv, Given, database, exportVars
<1>3. ExportStages'
  <2>1. /\ lines' = lines /\ cps' = cps /\ xstage' = xstage /\ toRead' = toRead
        /\ previous' = previous /\ logSheet' = logSheet /\ log' = log
    BY DEF database, exportVars
  <2>2. /\ (NoStranger' <=> NoStranger) /\ Least(lines)' = Least(lines)
        /\ Greatest(lines)' = Greatest(lines) /\ \A ln : Labelled(ln)' = Labelled(ln)
    BY <2>1 DEF NoStranger, Least, Greatest, Labelled
  <2>3. ExportStages
    BY DEF ExportInv
  <2> QED
    BY <2>1, <2>2, <2>3 DEF ExportStages
<1> QED
  BY <1>1, <1>2, <1>3 DEF ExportInv

LEMMA ExportStep == ExportInv /\ [Next]_vars => ExportInv'
<1> SUFFICES ASSUME ExportInv, [Next]_vars PROVE ExportInv'
  OBVIOUS
<1>1. CASE ReportNext /\ UNCHANGED <<database, exportVars>>
  <2>1. UNCHANGED asked
    BY <1>1 DEF ReportNext, BeginReport, AddLineToDay, NextDay, EndReport
  <2> QED
    BY <1>1, <2>1, ExportStays
<1>2. CASE ExportNext /\ UNCHANGED <<database, reportVars>>
  BY <1>2, InitSheetsStep, FillGapStep, HandleRowStep, EndExportStep DEF ExportNext
<1>3. CASE UNCHANGED vars
  <2>1. UNCHANGED <<database, asked, exportVars>>
    BY <1>3 DEF vars, reportVars
  <2> QED
    BY <2>1, ExportStays
<1> QED
  BY <1>1, <1>2, <1>3 DEF Next

(* ExportInv is inductive: after each round of the loop of run             *)
(* (EnergyExport.go 261-284) the sheets are those of the times handled.     *)
THEOREM ExportIsInvariant == Spec => []ExportInv
<1> QED
  BY ExportBegins, ExportStep, PTL DEF Spec

-----------------------------------------------------------------------------
(* What the workbook says, read off the times that were handled.           *)

LEMMA HandledIsRows ==
  ASSUME ExportInv PROVE Handled \in SUBSET Rows /\ Handled \in SUBSET Nat /\ IsFiniteSet(Handled)
<1>1. Handled \in SUBSET Rows
  <2>1. CASE previous = -1
    BY <2>1 DEF Handled
  <2>2. CASE previous # -1
    <3>1. lines # {}
      BY <2>2, SMT DEF ExportInv, ExportStages
    <3>2. PICK n \in Nat : Rows = 0 .. n - 1
      BY LinesAssumption DEF Rows
    <3>3. Greatest(lines) \in Rows /\ Least(lines) \in Nat /\ previous \in Least(lines) .. Greatest(lines)
      BY <2>2, <3>1, LoopFacts
    <3> QED
      BY <2>2, <3>2, <3>3 DEF Handled
  <2> QED
    BY <2>1, <2>2
<1>2. PICK H : H = Handled
  OBVIOUS
<1>3. H \in SUBSET Nat /\ IsFiniteSet(H)
  BY <1>1, <1>2, RowsAreTimes, FS_Subset
<1> QED
  BY <1>1, <1>2, <1>3

LEMMA AllHandled ==
  ASSUME ExportInv, xstage = "done"
  PROVE  Handled = Least(lines) .. Greatest(lines) /\ lines \subseteq Handled
<1>1. lines # {} /\ previous = Greatest(lines)
  BY DEF ExportInv, ExportStages
<1>2. /\ lines \in SUBSET Nat /\ Least(lines) \in Nat /\ Greatest(lines) \in Nat
      /\ \A y \in lines : Least(lines) <= y
      /\ \A y \in lines : Greatest(lines) >= y
  BY <1>1, LoopFacts
<1>3. Handled = Least(lines) .. Greatest(lines)
  BY <1>1, <1>2 DEF Handled
<1>4. ASSUME NEW y \in lines PROVE y \in Least(lines) .. Greatest(lines)
  BY <1>2
<1> QED
  BY <1>3, <1>4

LEMMA SortedWithin ==
  ASSUME NEW S \in SUBSET Nat, IsFiniteSet(S)
  PROVE  \A n \in DOMAIN Sorted(S) : Sorted(S)[n] \in S
BY SortedIsInOrder, SortedIsSeq DEF InOrder

LEMMA SheetTimes ==
  ASSUME ExportInv
  PROVE  /\ DOMAIN sheet = DOMAIN Sorted(Handled)
         /\ \A n \in DOMAIN sheet : /\ Sorted(Handled)[n] \in Handled
                                    /\ sheet[n] = RowOf[Sorted(Handled)[n]]
                                    /\ sheet[n].at = Sorted(Handled)[n]
<1>1. PICK H : H = Handled
  OBVIOUS
<1>2. H \in SUBSET Rows /\ H \in SUBSET Nat /\ IsFiniteSet(H)
  BY <1>1, HandledIsRows
<1>3. sheet = Through(Sorted(H), RowOf)
  BY <1>1 DEF ExportInv, SheetsOf, SheetOf
<1>4. \A n \in DOMAIN Sorted(H) : Sorted(H)[n] \in H
  BY <1>2, SortedWithin
<1>5. DOMAIN sheet = DOMAIN Sorted(H) /\ \A n \in DOMAIN sheet : sheet[n] = RowOf[Sorted(H)[n]]
  BY <1>3, Zenon DEF Through
<1>6. \A t \in Rows : RowOf[t].at = t
  BY DEF RowOf
<1> QED
  BY <1>1, <1>2, <1>4, <1>5, <1>6

LEMMA EveryQuarter == ASSUME ExportInv PROVE SheetHasEveryQuarter
<1> SUFFICES ASSUME xstage = "done"
             PROVE  [n \in DOMAIN sheet |-> sheet[n].at] = Sorted(Least(lines) .. Greatest(lines))
  BY DEF SheetHasEveryQuarter
<1>1. Handled = Least(lines) .. Greatest(lines)
  BY AllHandled
<1>2. PICK s : s = Sorted(Handled)
  OBVIOUS
<1>3. DOMAIN sheet = DOMAIN s /\ \A n \in DOMAIN sheet : sheet[n].at = s[n]
  BY <1>2, SheetTimes
<1>4. s = [n \in DOMAIN s |-> s[n]]
  <2>1. Handled \in SUBSET Nat /\ IsFiniteSet(Handled)
    BY HandledIsRows
  <2>2. s \in [1 .. Cardinality(Handled) -> Handled]
    BY <1>2, <2>1, SortedIsInOrder DEF InOrder
  <2> QED
    BY <2>2
<1> QED
  BY <1>1, <1>2, <1>3, <1>4

(* The cells shown are those of the lines whose quality is known.          *)
LEMMA SumsOfCells == ASSUME ExportInv PROVE SumOfCells
<1> SUFFICES ASSUME xstage \in {"lines", "done"}, NEW i \in DOMAIN cps
             PROVE  LET counted == {n \in DOMAIN total[i] : Quality[total[i][n]] # 0}
                        shown   == PickedAt(sheet, {n \in DOMAIN sheet : sheet[n].cells[i]})
                    IN  PickedAt(total[i], counted) = [n \in DOMAIN shown |-> shown[n].at]
  BY DEF SumOfCells
<1> DEFINE counted == {n \in DOMAIN total[i] : Quality[total[i][n]] # 0}
           places  == {n \in DOMAIN sheet : sheet[n].cells[i]}
           shown   == PickedAt(sheet, places)
           K == {t \in Rows : Quality[t] # 0}
           L == {t \in Rows : RowOf[t].cells[i]}
<1>1. PICK H : H = Handled
  OBVIOUS
<1>2. H \in SUBSET Rows /\ H \in SUBSET Nat /\ IsFiniteSet(H)
  BY <1>1, HandledIsRows
<1>3. PICK V : V = {t \in H : t \in lines /\ HasValue(i, t)}
  OBVIOUS
<1>4. V \in SUBSET Rows /\ V \in SUBSET Nat /\ IsFiniteSet(V)
  <2>1. V \in SUBSET H
    BY <1>3
  <2> QED
    BY <1>2, <2>1, FS_Subset
<1>5. PickedAt(total[i], counted) = Sorted(V \cap K)
  <2>1. total[i] = Sorted(V)
    BY <1>1, <1>3 DEF ExportInv, SheetsOf, TotalOf
  <2>2. \A n \in DOMAIN Sorted(V) : Sorted(V)[n] \in Rows
    BY <1>4, SortedWithin
  <2>3. counted = {n \in DOMAIN Sorted(V) : Sorted(V)[n] \in K}
    BY <2>1, <2>2
  <2> HIDE DEF counted, K
  <2> QED
    BY <1>4, <2>1, <2>3, PickedInOrder
<1>6. [n \in DOMAIN shown |-> shown[n].at] = Sorted(H \cap L)
  <2>1. PICK s : s = Sorted(H)
    OBVIOUS
  <2>2. /\ DOMAIN sheet = DOMAIN s
        /\ \A n \in DOMAIN s : s[n] \in Rows /\ sheet[n] = RowOf[s[n]] /\ sheet[n].at = s[n]
    BY <1>1, <1>2, <2>1, SheetTimes
  <2>3. places = {n \in DOMAIN s : s[n] \in L}
    BY <2>2
  <2>4. places \in SUBSET Nat /\ IsFiniteSet(places)
    <3>1. DOMAIN s = 1 .. Cardinality(H) /\ Cardinality(H) \in Nat
      BY <1>2, <2>1, SortedIsSeq, SortedIsInOrder
    <3>2. places \in SUBSET (1 .. Cardinality(H))
      BY <2>2, <3>1
    <3>3. IsFiniteSet(1 .. Cardinality(H))
      BY <3>1, FS_Interval
    <3> HIDE DEF places
    <3>4. IsFiniteSet(places)
      BY <3>2, <3>3, FS_Subset, Zenon
    <3>5. \A n \in 1 .. Cardinality(H) : n \in Nat
      OBVIOUS
    <3> QED
      BY <3>2, <3>4, <3>5, Zenon
  <2>5. PICK at : at = Sorted(places)
    OBVIOUS
  <2> HIDE DEF places, L
  <2>6. \A n \in DOMAIN at : at[n] \in places
    BY <2>4, <2>5, SortedWithin
  <2>7. \A p \in places : p \in DOMAIN s
    BY <2>3
  <2>8. shown = [n \in DOMAIN at |-> sheet[at[n]]]
    BY <2>5, Zenon DEF PickedAt
  <2>9. PickedAt(s, places) = [n \in DOMAIN at |-> s[at[n]]]
    BY <2>5, Zenon DEF PickedAt
  <2>10. DOMAIN shown = DOMAIN at /\ \A n \in DOMAIN at : shown[n] = sheet[at[n]]
    BY <2>8, Zenon
  <2> HIDE DEF shown
  <2>11. \A n \in DOMAIN at : shown[n].at = s[at[n]]
    BY <2>2, <2>6, <2>7, <2>10
  <2>12. [n \in DOMAIN shown |-> shown[n].at] = PickedAt(s, places)
    BY <2>9, <2>10, <2>11
  <2>13. PickedAt(s, places) = Sorted(H \cap L)
    BY <1>2, <2>1, <2>3, PickedInOrder
  <2> QED
    BY <2>12, <2>13
<1>7. V \cap K = H \cap L
  <2> SUFFICES ASSUME NEW t \in H
               PROVE  (t \in lines /\ HasValue(i, t) /\ Quality[t] # 0) <=> RowOf[t].cells[i]
    BY <1>2, <1>3
  <2>1. t \in Rows /\ Quality[t] \in 0 .. 3 /\ Given
    BY <1>2, LinesAssumption DEF ExportInv
  <2>2. /\ LineAt(t).at = t /\ LineAt(t).qov \in 0 .. 3
        /\ t \in lines => LineAt(t).qov = Quality[t]
        /\ t \notin lines => LineAt(t).qov = 0
    BY <2>1, LineFacts
  <2>3. RowOf[t].cells[i] = (Active(cps[i], t) /\ QoVOf(cps[i], LineAt(t)) \in 1 .. 3)
    BY <2>1, <2>2 DEF RowOf, Cells
  <2>4. QoVOf(cps[i], LineAt(t)) = IF Column(cps[i]) < LineAt(t).width THEN LineAt(t).qov ELSE 0
    BY DEF QoVOf
  <2>5. LineAt(t).qov \in 1 .. 3 <=> LineAt(t).qov # 0
    BY <2>2
  <2>6. ~(0 \in 1 .. 3)
    OBVIOUS
  <2>7. QoVOf(cps[i], LineAt(t)) \in 1 .. 3
          <=> Column(cps[i]) < LineAt(t).width /\ LineAt(t).qov # 0
    BY <2>4, <2>5, <2>6
  <2>8. (Active(cps[i], t) /\ QoVOf(cps[i], LineAt(t)) \in 1 .. 3)
          <=> t \in lines /\ HasValue(i, t) /\ Quality[t] # 0
    BY <2>2, <2>7, Zenon DEF HasValue
  <2> QED
    BY <2>3, <2>8
<1> QED
  BY <1>5, <1>6, <1>7

(* The log is of the doubtful lines among those handled.                   *)
LEMMA LogTimes ==
  ASSUME ExportInv
  PROVE  /\ \A n \in DOMAIN log :
              \E t \in Handled : log[n] = LineAt(t) /\ Doubtful(LineAt(t))
         /\ \A t \in Handled :
              Doubtful(LineAt(t)) => \E n \in DOMAIN log : log[n] = LineAt(t)
<1>1. PICK H : H = Handled
  OBVIOUS
<1>2. H \in SUBSET Rows /\ H \in SUBSET Nat /\ IsFiniteSet(H)
  BY <1>1, HandledIsRows
<1>3. PICK D : D = {t \in H : Doubtful(LineAt(t))}
  OBVIOUS
<1>4. D \in SUBSET Rows /\ D \in SUBSET Nat /\ IsFiniteSet(D) /\ D \in SUBSET H
  <2>1. D \in SUBSET H
    BY <1>3
  <2> QED
    BY <1>2, <2>1, FS_Subset
<1>5. PICK s : s = Sorted(D)
  OBVIOUS
<1>6. log = Through(s, LineOf)
  BY <1>1, <1>3, <1>5 DEF ExportInv, SheetsOf, LogOf
<1>7. DOMAIN log = DOMAIN s /\ \A n \in DOMAIN log : log[n] = LineOf[s[n]]
  BY <1>6, Zenon DEF Through
<1>8. (\A n \in DOMAIN s : s[n] \in D) /\ \A t \in D : \E n \in DOMAIN s : s[n] = t
  BY <1>4, <1>5, SortedIsInOrder, SortedIsSeq DEF InOrder
<1>9. \A t \in D : LineOf[t] = LineAt(t)
  BY <1>4 DEF LineOf
<1>10. \A t \in D : t \in H /\ Doubtful(LineAt(t))
  BY <1>3
<1>11. \A t \in H : Doubtful(LineAt(t)) => t \in D
  BY <1>3
<1>12. ASSUME NEW n \in DOMAIN log
       PROVE  \E t \in Handled : log[n] = LineAt(t) /\ Doubtful(LineAt(t))
  <2>1. s[n] \in D /\ log[n] = LineAt(s[n])
    BY <1>7, <1>8, <1>9
  <2> QED
    BY <1>1, <1>10, <2>1
<1>13. ASSUME NEW t \in Handled, Doubtful(LineAt(t))
       PROVE  \E n \in DOMAIN log : log[n] = LineAt(t)
  <2>1. t \in D
    BY <1>1, <1>11, <1>13
  <2>2. PICK n \in DOMAIN s : s[n] = t
    BY <1>8, <2>1
  <2> QED
    BY <1>7, <1>9, <2>1, <2>2
<1> QED
  BY <1>12, <1>13

(* A value of a line counts for the participant, with the line's quality.  *)
LEMMA ValueFacts ==
  ASSUME ExportInv, xstage \in {"lines", "done"}, NEW i \in DOMAIN cps, NEW t \in Handled
  PROVE  /\ LineAt(t).at = t /\ LineAt(t).qov \in 0 .. 3
         /\ HasValue(i, t) => QoVOf(cps[i], LineAt(t)) = LineAt(t).qov
         /\ HasValue(i, t) /\ LineAt(t).qov # 1 => Doubtful(LineAt(t))
<1>1. t \in Rows /\ Given
  BY HandledIsRows DEF ExportInv
<1>2. LineAt(t).at = t /\ LineAt(t).qov \in 0 .. 3
  BY <1>1, LineFacts
<1>3. HasValue(i, t) => QoVOf(cps[i], LineAt(t)) = LineAt(t).qov
  BY DEF HasValue, QoVOf
<1>4. HasValue(i, t) /\ LineAt(t).qov # 1 => Doubtful(LineAt(t))
  BY <1>2, <1>3 DEF HasValue, Doubtful
<1> QED
  BY <1>2, <1>3, <1>4

LEMMA CompleteSays ==
  ASSUME ExportInv, xstage \in {"lines", "done"}, NEW i \in DOMAIN cps
  PROVE  complete[i] <=> \A t \in Handled : HasValue(i, t) => LineAt(t).qov = 1
<1>1. CompleteOf(Handled) /\ NoStranger
  BY DEF ExportInv, ExportStages, SheetsOf
<1> QED
  BY <1>1 DEF CompleteOf, NoStranger

LEMMA CompleteByLog == ASSUME ExportInv PROVE CompleteIsUnlogged
<1> SUFFICES ASSUME xstage \in {"lines", "done"}, NEW i \in DOMAIN cps,
                    Column(cps[i]) < Len(cps),
                    \A t \in lines : Active(cps[i], t) => Column(cps[i]) < Width(t)
             PROVE  complete[i] <=> \A n \in DOMAIN log :
                      Active(cps[i], log[n].at) => QoVOf(cps[i], log[n]) = 1
  BY DEF CompleteIsUnlogged
<1>1. ASSUME NEW t \in Handled, Active(cps[i], t) PROVE HasValue(i, t)
  <2>1. t \in Rows /\ Given
    BY HandledIsRows DEF ExportInv
  <2>2. /\ t \in lines => LineAt(t).width = Width(t)
        /\ t \notin lines => LineAt(t).width = Len(cps)
    BY <2>1, LineFacts
  <2> QED
    BY <1>1, <2>2 DEF HasValue
<1>2. ASSUME complete[i], NEW n \in DOMAIN log, Active(cps[i], log[n].at)
      PROVE  QoVOf(cps[i], log[n]) = 1
  <2>1. PICK t \in Handled : log[n] = LineAt(t)
    BY LogTimes
  <2>2. HasValue(i, t)
    BY <1>1, <1>2, <2>1, ValueFacts
  <2>3. LineAt(t).qov = 1
    BY <1>2, <2>2, CompleteSays
  <2> QED
    BY <2>1, <2>2, <2>3, ValueFacts
<1>3. ASSUME \A n \in DOMAIN log : Active(cps[i], log[n].at) => QoVOf(cps[i], log[n]) = 1,
             NEW t \in Handled, HasValue(i, t)
      PROVE  LineAt(t).qov = 1
  <2> SUFFICES ASSUME LineAt(t).qov # 1 PROVE FALSE
    OBVIOUS
  <2>1. Doubtful(LineAt(t)) /\ LineAt(t).at = t /\ QoVOf(cps[i], LineAt(t)) = LineAt(t).qov
    BY <1>3, ValueFacts
  <2>2. PICK n \in DOMAIN log : log[n] = LineAt(t)
    BY <2>1, LogTimes
  <2>3. Active(cps[i], t)
    BY <1>3 DEF HasValue
  <2> QED
    BY <1>3, <2>1, <2>2, <2>3
<1> QED
  BY <1>2, <1>3, CompleteSays

LEMMA MarksByLog == ASSUME ExportInv PROVE MarksAreLogged
<1> SUFFICES ASSUME xstage = "done", NEW i \in DOMAIN cps
             PROVE  /\ marks[i] = {q \in {0, 2, 3} : \E n \in DOMAIN logSheet : <<i, q>> \in logSheet[n]}
                    /\ complete[i] <=> marks[i] = {}
  BY DEF MarksAreLogged
<1>1. logSheet = [n \in DOMAIN log |-> Labelled(log[n])]
  BY DEF ExportInv, ExportStages
<1>2. marks[i] = {q \in {0, 2, 3} : \E t \in Handled : HasValue(i, t) /\ LineAt(t).qov = q}
  BY DEF ExportInv, SheetsOf, MarksOf
<1>3. ASSUME NEW q, NEW t \in Handled
      PROVE  <<i, q>> \in Labelled(LineAt(t)) <=> HasValue(i, t) /\ LineAt(t).qov = q
  <2>1. LineAt(t).at = t
    BY ValueFacts
  <2> QED
    BY <2>1 DEF Labelled, HasValue
<1>4. ASSUME NEW q \in {0, 2, 3}
      PROVE  (\E n \in DOMAIN logSheet : <<i, q>> \in logSheet[n])
               <=> \E t \in Handled : HasValue(i, t) /\ LineAt(t).qov = q
  <2>1. ASSUME NEW n \in DOMAIN logSheet, <<i, q>> \in logSheet[n]
        PROVE  \E t \in Handled : HasValue(i, t) /\ LineAt(t).qov = q
    <3>1. PICK t \in Handled : log[n] = LineAt(t)
      BY <1>1, LogTimes
    <3>2. <<i, q>> \in Labelled(LineAt(t))
      BY <1>1, <2>1, <3>1
    <3> QED
      BY <1>3, <3>2
  <2>2. ASSUME NEW t \in Handled, HasValue(i, t), LineAt(t).qov = q
        PROVE  \E n \in DOMAIN logSheet : <<i, q>> \in logSheet[n]
    <3>1. Doubtful(LineAt(t))
      BY <2>2, ValueFacts
    <3>2. PICK n \in DOMAIN log : log[n] = LineAt(t)
      BY <3>1, LogTimes
    <3>3. <<i, q>> \in Labelled(LineAt(t))
      BY <1>3, <2>2
    <3> QED
      BY <1>1, <3>2, <3>3
  <2> QED
    BY <2>1, <2>2
<1>5. complete[i] <=> marks[i] = {}
  <2>1. complete[i] <=> \A u \in Handled : HasValue(i, u) => LineAt(u).qov = 1
    BY CompleteSays
  <2>2. \A u \in Handled : LineAt(u).qov # 1 <=> LineAt(u).qov \in {0, 2, 3}
    <3>1. \A u \in Handled : LineAt(u).qov \in 0 .. 3
      BY ValueFacts
    <3>2. \A q \in 0 .. 3 : q # 1 <=> q \in {0, 2, 3}
      OBVIOUS
    <3> QED
      BY <3>1, <3>2
  <2> QED
    BY <1>2, <2>1, <2>2
<1> QED
  BY <1>2, <1>4, <1>5

(* The sheets of the workbook agree: EnergyExport.go 237-376,              *)
(* SummarySheet.go 59-112 and QoVSheet.go 142-231 each read the lines for  *)
(* themselves, and say the same.                                           *)
THEOREM SheetsAgree == Spec => []WorkbookAgrees
<1>1. ExportInv => WorkbookAgrees
  BY EveryQuarter, SumsOfCells, CompleteByLog, MarksByLog DEF WorkbookAgrees
<1> QED
  BY <1>1, ExportIsInvariant, PTL

-----------------------------------------------------------------------------
(* The report.  It is told by the lines R that were read, which come       *)
(* before the others: those of the running day wait in daySum, those of    *)
(* the days before are in the summaries.                                   *)

ReadFirst(R) == \A t \in R, u \in lines \ R : t < u

(* The running day is that of the last line read, and the time that stands *)
(* for it the day's first line.                                            *)
DayOfRead(R) ==
  /\ \A t \in R : DayOf(t) <= DayOf(day)
  /\ \/ day = 0
     \/ /\ day \in R /\ DayOf(day) # 0
        /\ \A t \in lines : DayOf(t) = DayOf(day) => day <= t

OwnedValue(r, t) == DayCounts(r, DayOf(t)) /\ Columns[r.meter] < Width(t)

Summarised(i) == asked[i].meter \in DOMAIN Columns

SummariesOf(D) ==
  \A i \in DOMAIN asked :
    Summarised(i) => report[i].summary = Sorted({t \in D : OwnedValue(asked[i], t)})

Reading(R) ==
  /\ ReadFirst(R) /\ DayOfRead(R)
  /\ unread = Sorted(lines \ R)
  /\ daySum = Sorted({t \in R : DayOf(t) = DayOf(day)})
  /\ SummariesOf({t \in R : DayOf(t) < DayOf(day)})

ReportStages ==
  /\ stage = "begin" =>
       /\ unread = <<>> /\ day = 0 /\ daySum = <<>>
       /\ report = [i \in DOMAIN asked |-> [summary |-> <<>>, slots |-> <<>>]]
  /\ stage = "lines" => \E R \in SUBSET lines : Reading(R)
  /\ stage = "done" => SummariesOf(lines)
  /\ xstage # "begin" => stage = "done"

RowSeq == Seq(Rows)
Entries == [summary : RowSeq, slots : Seq(RowSeq)]

ReportTypes ==
  /\ stage \in {"begin", "lines", "done"} /\ calendar \in Calendars
  /\ unread \in RowSeq /\ daySum \in RowSeq /\ day \in Rows
  /\ report \in [DOMAIN asked -> Entries]

ReportInv == Given /\ ReportTypes /\ ReportStages

(* The values of a day are its lines that have the column.                 *)
LEMMA ValuesOfDay ==
  ASSUME NEW S \in SUBSET Nat, IsFiniteSet(S), NEW m
  PROVE  ValuesIn(Sorted(S), m) = Sorted({t \in S : Columns[m] < Width(t)})
<1> DEFINE s == Sorted(S)
           T == {t \in S : Columns[m] < Width(t)}
<1>1. \A n \in DOMAIN s : s[n] \in S
  BY SortedWithin
<1>2. {n \in DOMAIN s : Columns[m] < Width(s[n])} = {n \in DOMAIN s : s[n] \in T}
  BY <1>1
<1>3. S \cap T = T
  OBVIOUS
<1> HIDE DEF T
<1>4. PickedAt(s, {n \in DOMAIN s : s[n] \in T}) = Sorted(T)
  BY <1>3, PickedInOrder
<1> QED
  BY <1>2, <1>4 DEF ValuesIn, T

LEMMA ZeroIsRow == 0 \in Rows /\ DayOf(0) = 0
<1>1. Days \in Nat /\ Days > 0 /\ DayLen \in Nat /\ DayLen > 0
  BY LinesAssumption
<1>2. 0 \in 0 .. Days - 1
  BY <1>1
<1>3. Midnight(0) = 0
  BY <1>1 DEF Midnight
<1> QED
  BY <1>2, <1>3, MidnightIsRow

(* The midnights of a request enclose the time that stands for the day     *)
(* exactly if the day is one of the request's that counts.                 *)
LEMMA OwnedIs ==
  ASSUME Given, ReportTypes, NEW R \in SUBSET lines, DayOfRead(R),
         NEW i \in DOMAIN asked, Summarised(i)
  PROVE  Owned(asked[i]) <=> DayCounts(asked[i], DayOf(day))
<1>1. asked[i].from \in Int /\ asked[i].until \in Int
  <2>1. asked[i] \in Requests
    BY DEF Given
  <2> QED
    BY <2>1 DEF Requests
<1>2. PICK f \in Int, u \in Int : f = DayAt(asked[i].from) /\ u = DayAt(asked[i].until)
  BY <1>1, DayAtIs
<1>3. day \in Rows /\ day \in Nat /\ DayOf(day) \in 0 .. Days - 1 /\ DayLen \in Nat /\ DayLen > 0
  BY RowDays, LinesAssumption DEF ReportTypes
<1>4. PICK d \in Nat : d = DayOf(day) /\ d \in 0 .. Days - 1
  BY <1>3
<1>5. PICK m \in Int, n \in Int : m = Midnight(f) /\ n = Midnight(u)
  BY LinesAssumption DEF Midnight
<1>6. /\ d < f <=> day < m
      /\ d < u <=> day < n
      /\ d = u <=> n <= day /\ day <= n + DayLen - 1
  BY <1>3, <1>4, <1>5, DaysInOrder
<1>7. ASSUME d = u PROVE day <= n <=> ~LacksMidnight(u)
  <2>1. n \in Rows /\ DayOf(n) = d
    BY <1>4, <1>5, <1>7, MidnightIsRow
  <2>2. CASE day = 0
    <3>1. u = 0
      BY <1>4, <1>7, <2>2, ZeroIsRow
    <3>2. n = 0
      BY <1>5, <3>1, LinesAssumption DEF Midnight
    <3> QED
      BY <2>2, <3>1, <3>2 DEF LacksMidnight
  <2>3. CASE day \in R /\ DayOf(day) # 0 /\ \A t \in lines : DayOf(t) = DayOf(day) => day <= t
    <3>1. day \in lines /\ u # 0
      BY <1>4, <1>7, <2>3
    <3>2. LacksMidnight(u) <=> n \notin lines
      BY <1>5, <3>1 DEF LacksMidnight
    <3>3. n <= day
      BY <1>6, <1>7
    <3>4. n \in lines => day <= n
      BY <1>4, <2>1, <2>3
    <3>5. day <= n => n = day
      BY <1>3, <3>3
    <3> QED
      BY <3>1, <3>2, <3>4, <3>5
  <2> QED
    BY <2>2, <2>3 DEF DayOfRead
<1>8. Owned(asked[i]) <=> m <= day /\ day <= n
  BY <1>2, <1>5 DEF Owned, Summarised
<1>9. DayCounts(asked[i], DayOf(day)) <=> f <= d /\ d <= u /\ (d = u => ~LacksMidnight(u))
  BY <1>2, <1>4 DEF DayCounts
<1>10. m <= day <=> f <= d
  BY <1>3, <1>4, <1>6
<1>11. day <= n <=> d <= u /\ (d = u => ~LacksMidnight(u))
  BY <1>3, <1>4, <1>6, <1>7
<1> QED
  BY <1>8, <1>9, <1>10, <1>11

(* At the end of a day its lines are in the summaries like those before.   *)
LEMMA DayAddedStep ==
  ASSUME Given, ReportTypes, NEW R \in SUBSET lines, Reading(R),
         UNCHANGED <<lines, joined, asked>>, report' = DayAdded
  PROVE  SummariesOf(R)'
<1> SUFFICES ASSUME NEW i \in DOMAIN asked, Summarised(i)
             PROVE  report'[i].summary = Sorted({t \in R : OwnedValue(asked[i], t)})
  <2>1. /\ \A i : Summarised(i)' <=> Summarised(i)
        /\ \A r, t : OwnedValue(r, t)' <=> OwnedValue(r, t)
    BY DEF Summarised, OwnedValue, DayCounts, LacksMidnight, Width
  <2> QED
    BY <2>1 DEF SummariesOf
<1> DEFINE r == asked[i]
           T == {t \in R : DayOf(t) = DayOf(day)}
           A == {t \in {u \in R : DayOf(u) < DayOf(day)} : OwnedValue(r, t)}
           B == {t \in T : Columns[r.meter] < Width(t)}
           C == {t \in R : OwnedValue(r, t)}
<1>1. /\ DayOfRead(R) /\ daySum = Sorted(T)
      /\ report[i].summary = Sorted(A)
  BY DEF Reading, SummariesOf
<1>2. Owned(r) <=> DayCounts(r, DayOf(day))
  BY <1>1, OwnedIs
<1>3. R \in SUBSET Rows
  BY DEF Given
<1>4. /\ A \in SUBSET R /\ B \in SUBSET R /\ T \in SUBSET R /\ C \in SUBSET R
  OBVIOUS
<1>5. /\ A \in SUBSET Nat /\ IsFiniteSet(A) /\ B \in SUBSET Nat /\ IsFiniteSet(B)
      /\ T \in SUBSET Nat /\ IsFiniteSet(T)
  <2> HIDE DEF A, B, T, C
  <2> QED
    BY <1>3, <1>4, RowsAreTimes, FS_Subset
<1>6. \A t \in R : t \in Nat /\ DayOf(t) \in Nat /\ DayOf(t) <= DayOf(day)
  BY <1>1, <1>3, RowDays DEF DayOfRead
<1>7. day \in Nat /\ DayOf(day) \in Nat
  BY RowDays DEF ReportTypes
<1>8. ValuesIn(daySum, r.meter) = Sorted(B)
  <2> HIDE DEF A, C
  <2>1. ValuesIn(Sorted(T), r.meter) = Sorted({t \in T : Columns[r.meter] < Width(t)})
    BY <1>5, ValuesOfDay
  <2> HIDE DEF T
  <2> QED
    BY <1>1, <2>1
<1>9. CASE Owned(r)
  <2>1. report'[i].summary = Sorted(A) \o Sorted(B)
    <3>1. report'[i].summary = report[i].summary \o ValuesIn(daySum, r.meter)
      BY <1>9 DEF DayAdded
    <3> HIDE DEF A, B, T
    <3> QED
      BY <1>1, <1>8, <3>1
  <2>2. \A x \in A, y \in B : x < y
    <3> SUFFICES ASSUME NEW x \in A, NEW y \in B PROVE x < y
      OBVIOUS
    <3>1. x \in Nat /\ y \in Nat /\ DayOf(x) < DayOf(y) /\ DayOf(y) \in Nat
      BY <1>6
    <3>2. x < Midnight(DayOf(y)) /\ Midnight(DayOf(y)) <= y
      BY <3>1, DaysInOrder, DayIs
    <3>3. Midnight(DayOf(y)) \in Nat
      BY <3>1, LinesAssumption DEF Midnight
    <3> QED
      BY <3>1, <3>2, <3>3
  <2>3. A \cup B = C
    <3>1. ASSUME NEW t \in R PROVE t \in A \cup B <=> t \in C
      <4>1. DayOf(t) < DayOf(day) \/ DayOf(t) = DayOf(day)
        BY <1>6, <1>7
      <4>2. DayOf(t) = DayOf(day) => ~(DayOf(t) < DayOf(day))
        BY <1>7
      <4> QED
        BY <1>2, <1>9, <4>1, <4>2 DEF OwnedValue
    <3> HIDE DEF A, B, C
    <3> QED
      BY <1>4, <3>1
  <2> HIDE DEF A, B, T, C
  <2>4. Sorted(C) = Sorted(A) \o Sorted(B)
    BY <1>5, <2>2, <2>3, SortedConcat
  <2> QED
    BY <2>1, <2>4 DEF C
<1>10. CASE ~Owned(r)
  <2>1. report'[i].summary = Sorted(A)
    BY <1>1, <1>10 DEF DayAdded
  <2>2. A = C
    <3>1. ASSUME NEW t \in R PROVE t \in A <=> t \in C
      <4>1. DayOf(t) < DayOf(day) \/ DayOf(t) = DayOf(day)
        BY <1>6, <1>7
      <4> QED
        BY <1>2, <1>10, <4>1 DEF OwnedValue
    <3> HIDE DEF A, B, C
    <3> QED
      BY <1>4, <3>1
  <2> QED
    BY <2>1, <2>2
<1> QED
  BY <1>9, <1>10

LEMMA SlotIsPositive ==
  ASSUME calendar \in Calendars, NEW d \in 0 .. Days - 1
  PROVE  Slot(d) \in Nat /\ Slot(d) >= 1
<1>1. /\ calendar.kind \in {"M", "Q", "H", "Y"}
      /\ calendar.week \in [0 .. Days - 1 -> 1 .. 53]
      /\ calendar.month \in [0 .. Days - 1 -> 1 .. 12]
  BY ReportsAssumption
<1>2. PICK weeks \in Int, months \in Int :
        weeks = calendar.week[d] - calendar.week[0] /\ months = calendar.month[d] - calendar.month[0]
  <2>1. 0 \in 0 .. Days - 1
    BY LinesAssumption
  <2>2. /\ calendar.week[d] \in 1 .. 53 /\ calendar.week[0] \in 1 .. 53
        /\ calendar.month[d] \in 1 .. 12 /\ calendar.month[0] \in 1 .. 12
    BY <1>1, <2>1
  <2>3. calendar.week[d] - calendar.week[0] \in Int /\ calendar.month[d] - calendar.month[0] \in Int
    BY <2>2, SMTT(30)
  <2> QED
    BY <2>3
<1>3. weeks % 52 \in Nat /\ weeks % 53 \in Nat /\ months % 12 \in Nat
  OBVIOUS
<1>4. \A n \in Nat : Larger(n, 1) \in Nat /\ Larger(n, 1) >= 1
  BY DEF Larger
<1>5. d + 1 \in Nat /\ d + 1 >= 1 /\ (months % 12) + 1 \in Nat
  BY <1>3
<1>6. CASE calendar.kind = "M"
  BY <1>5, <1>6 DEF Slot
<1>7. CASE calendar.kind = "Q"
  <2>1. Slot(d) = Larger(weeks % 52, 1)
    BY <1>2, <1>7 DEF Slot
  <2> QED
    BY <1>3, <1>4, <2>1
<1>8. CASE calendar.kind = "H"
  <2>1. Slot(d) = Larger(weeks % 53, 1)
    BY <1>2, <1>8 DEF Slot
  <2> QED
    BY <1>3, <1>4, <2>1
<1>9. CASE calendar.kind = "Y"
  <2>1. Slot(d) = Larger((months % 12) + 1, 1)
    BY <1>2, <1>9 DEF Slot
  <2> QED
    BY <1>4, <1>5, <2>1
<1> QED
  BY <1>1, <1>6, <1>7, <1>8, <1>9

LEMMA AddedIsSeq ==
  ASSUME NEW S, NEW slots \in Seq(Seq(S)), NEW i \in Nat, i >= 1, NEW values \in Seq(S)
  PROVE  AddToSlot(slots, i, values) \in Seq(Seq(S))
<1> DEFINE m == Larger(Len(slots), i)
           at(j) == (IF j <= Len(slots) THEN slots[j] ELSE <<>>) \o (IF j = i THEN values ELSE <<>>)
<1>1. m \in Nat
  BY DEF Larger
<1>2. ASSUME NEW j \in 1 .. m PROVE at(j) \in Seq(S)
  <2>1. PICK a : a = IF j <= Len(slots) THEN slots[j] ELSE <<>>
    OBVIOUS
  <2>2. PICK b : b = IF j = i THEN values ELSE <<>>
    OBVIOUS
  <2>3. j <= Len(slots) => j \in DOMAIN slots
    OBVIOUS
  <2>4. a \in Seq(S)
    <3>1. j <= Len(slots) => slots[j] \in Seq(S)
      BY <2>3
    <3> QED
      BY <2>1, <3>1
  <2>5. b \in Seq(S)
    BY <2>2
  <2>6. a \o b \in Seq(S)
    BY <2>4, <2>5
  <2> QED
    BY <2>1, <2>2, <2>6
<1>3. AddToSlot(slots, i, values) = [j \in 1 .. m |-> at(j)]
  BY DEF AddToSlot
<1> HIDE DEF m, at
<1> QED
  BY <1>1, <1>2, <1>3

LEMMA SortedRows ==
  ASSUME NEW S \in SUBSET Rows PROVE Sorted(S) \in RowSeq
<1>1. S \in SUBSET Nat /\ IsFiniteSet(S)
  BY RowsAreTimes, FS_Subset
<1>2. Sorted(S) \in Seq(S)
  BY <1>1, SortedIsSeq
<1> QED
  BY <1>2 DEF RowSeq

LEMMA EntriesAdded ==
  ASSUME Given, ReportTypes, NEW R \in SUBSET lines, Reading(R)
  PROVE  DayAdded \in [DOMAIN asked -> Entries]
<1> DEFINE T == {t \in R : DayOf(t) = DayOf(day)}
<1>1. T \in SUBSET Rows
  BY DEF Given
<1>2. T \in SUBSET Nat /\ IsFiniteSet(T) /\ daySum = Sorted(T)
  <2>1. daySum = Sorted(T)
    BY DEF Reading
  <2> HIDE DEF T
  <2> QED
    BY <1>1, <2>1, RowsAreTimes, FS_Subset
<1> HIDE DEF T
<1>3. ASSUME NEW m PROVE ValuesIn(daySum, m) \in RowSeq
  <2>1. ValuesIn(daySum, m) = Sorted({t \in T : Columns[m] < Width(t)})
    BY <1>2, ValuesOfDay
  <2>2. {t \in T : Columns[m] < Width(t)} \in SUBSET Rows
    BY <1>1
  <2> QED
    BY <2>1, <2>2, SortedRows
<1>4. ASSUME NEW i \in DOMAIN asked, Owned(asked[i])
      PROVE  [summary |-> report[i].summary \o ValuesIn(daySum, asked[i].meter),
              slots   |-> AddToSlot(report[i].slots, Slot(DayOf(day)),
                                    ValuesIn(daySum, asked[i].meter))] \in Entries
  <2>1. PICK v \in RowSeq : v = ValuesIn(daySum, asked[i].meter)
    BY <1>3
  <2>2. report[i].summary \in RowSeq /\ report[i].slots \in Seq(RowSeq)
    BY DEF ReportTypes, Entries
  <2>3. Slot(DayOf(day)) \in Nat /\ Slot(DayOf(day)) >= 1
    BY RowDays, SlotIsPositive DEF ReportTypes
  <2>4. report[i].summary \o v \in RowSeq
    BY <2>2 DEF RowSeq
  <2>5. AddToSlot(report[i].slots, Slot(DayOf(day)), v) \in Seq(RowSeq)
    BY <2>2, <2>3, AddedIsSeq DEF RowSeq
  <2> QED
    BY <2>1, <2>4, <2>5 DEF Entries
<1>5. \A i \in DOMAIN asked : report[i] \in Entries
  BY DEF ReportTypes
<1> QED
  BY <1>4, <1>5 DEF DayAdded

LEMMA ReportBegins == Init => ReportInv
<1> SUFFICES ASSUME Init PROVE ReportInv
  OBVIOUS
<1>1. Given /\ xstage = "begin"
  BY ExportBegins DEF ExportInv, Init, ExportInit
<1>2. /\ stage = "begin" /\ calendar \in Calendars /\ unread = <<>> /\ day = 0 /\ daySum = <<>>
      /\ report = [i \in DOMAIN asked |-> [summary |-> <<>>, slots |-> <<>>]]
  BY DEF Init, ReportInit
<1>3. [summary |-> <<>>, slots |-> <<>>] \in Entries /\ <<>> \in RowSeq
  BY DEF Entries, RowSeq
<1>4. ReportTypes
  BY <1>2, <1>3, ZeroIsRow DEF ReportTypes
<1>5. ReportStages
  BY <1>1, <1>2 DEF ReportStages
<1> QED
  BY <1>1, <1>4, <1>5 DEF ReportInv

(* What a step that adds nothing to the report leaves as it is.            *)
LEMMA SameReport ==
  ASSUME UNCHANGED <<lines, joined, asked>>
  PROVE  /\ \A i : Summarised(i)' <=> Summarised(i)
         /\ \A r, t : OwnedValue(r, t)' <=> OwnedValue(r, t)
         /\ \A D : report' = report => (SummariesOf(D) => SummariesOf(D)')
<1>1. \A i : Summarised(i)' <=> Summarised(i)
  BY DEF Summarised
<1>2. \A r, t : OwnedValue(r, t)' <=> OwnedValue(r, t)
  BY DEF OwnedValue, DayCounts, LacksMidnight, Width
<1>3. ASSUME NEW D, report' = report, SummariesOf(D) PROVE SummariesOf(D)'
  BY <1>1, <1>2, <1>3 DEF SummariesOf
<1> QED
  BY <1>1, <1>2, <1>3

LEMMA BeginReportStep ==
  ASSUME ReportInv, BeginReport, UNCHANGED <<database, exportVars>>
  PROVE  ReportInv'
<1>1. /\ stage = "begin" /\ stage' = "lines" /\ unread' = Sorted(lines) /\ day = 0 /\ daySum = <<>>
      /\ report = [i \in DOMAIN asked |-> [summary |-> <<>>, slots |-> <<>>]]
      /\ calendar' = calendar /\ asked' = asked /\ day' = day /\ daySum' = daySum
      /\ report' = report /\ lines' = lines /\ joined' = joined /\ cps' = cps /\ xstage' = xstage
  BY DEF ReportInv, ReportStages, BeginReport, database, exportVars
<1>2. Given'
  BY <1>1 DEF ReportInv, Given
<1>3. Sorted(lines) \in RowSeq
  BY SortedRows DEF ReportInv, Given
<1>4. ReportTypes'
  BY <1>1, <1>3 DEF ReportInv, ReportTypes
<1>5. Reading({})'
  <2>1. ReadFirst({})'
    BY DEF ReadFirst
  <2>2. DayOfRead({})'
    BY <1>1 DEF DayOfRead
  <2>3. unread' = Sorted(lines' \ {})
    BY <1>1
  <2>4. daySum' = Sorted({t \in {} : DayOf(t) = DayOf(day)})'
    <3>1. {t \in {} : DayOf(t) = DayOf(day')} = {}
      OBVIOUS
    <3> QED
      BY <1>1, <3>1, SortedEmpty
  <2>5. SummariesOf({t \in {} : DayOf(t) < DayOf(day)})'
    <3>1. \A i \in DOMAIN asked : report'[i].summary = <<>>
      BY <1>1
    <3>2. \A r : {t \in {} : OwnedValue(r, t)'} = {}
      OBVIOUS
    <3>3. {t \in {} : DayOf(t) < DayOf(day')} = {}
      OBVIOUS
    <3> QED
      BY <1>1, <3>1, <3>2, <3>3, SortedEmpty DEF SummariesOf
  <2> QED
    BY <2>1, <2>2, <2>3, <2>4, <2>5 DEF Reading
<1>6. ReportStages'
  <2>1. {} \in SUBSET lines'
    OBVIOUS
  <2>2. xstage = "begin"
    BY <1>1 DEF ReportInv, ReportStages
  <2> QED
    BY <1>1, <1>5, <2>1, <2>2 DEF ReportStages
<1> QED
  BY <1>2, <1>4, <1>6 DEF ReportInv

(* The next line that is read comes after those read before.               *)
LEMMA NextRead ==
  ASSUME Given, ReportTypes, NEW R \in SUBSET lines, Reading(R), unread # <<>>
  PROVE  /\ Head(unread) \in lines \ R
         /\ \A t \in R : t < Head(unread)
         /\ \A u \in lines \ R : Head(unread) <= u
         /\ Tail(unread) = Sorted(lines \ (R \cup {Head(unread)}))
         /\ ReadFirst(R \cup {Head(unread)})
         /\ DayOf(day) <= DayOf(Head(unread))
<1> DEFINE U == lines \ R
           h == Head(unread)
<1>1. U \in SUBSET Rows /\ unread = Sorted(U)
  BY DEF Given, Reading
<1>2. U \in SUBSET Nat /\ IsFiniteSet(U)
  <2> HIDE DEF U
  <2> QED
    BY <1>1, RowsAreTimes, FS_Subset
<1>3. h \in U /\ (\A x \in U : h <= x) /\ Tail(unread) = Sorted(U \ {h})
  <2> HIDE DEF U
  <2>1. U # {}
    BY <1>1, SortedEmpty
  <2> QED
    BY <1>1, <1>2, <2>1, SortedTail
<1> HIDE DEF h
<1>4. U \ {h} = lines \ (R \cup {h})
  OBVIOUS
<1>5. \A t \in R : t < h
  BY <1>3 DEF Reading, ReadFirst
<1>6. ReadFirst(R \cup {h})
  <2> SUFFICES ASSUME NEW t \in R \cup {h}, NEW u \in lines \ (R \cup {h}) PROVE t < u
    BY DEF ReadFirst
  <2>1. CASE t \in R
    BY <2>1 DEF Reading, ReadFirst
  <2>2. CASE t = h
    <3>1. h \in Nat /\ u \in Nat /\ h <= u /\ u # h
      BY <1>2, <1>3
    <3> QED
      BY <2>2, <3>1
  <2> QED
    BY <2>1, <2>2
<1>7. DayOf(day) <= DayOf(h)
  <2>1. h \in Nat /\ DayOf(h) \in Nat /\ day \in Nat /\ DayOf(day) \in Nat
    BY <1>1, <1>3, RowDays DEF ReportTypes
  <2>2. day <= h
    <3>1. CASE day = 0
      BY <2>1, <3>1
    <3>2. CASE day \in R
      BY <1>5, <2>1, <3>2
    <3> QED
      BY <3>1, <3>2 DEF Reading, DayOfRead
  <2>3. ~(DayOf(h) < DayOf(day))
    <3> SUFFICES ASSUME DayOf(h) < DayOf(day) PROVE FALSE
      OBVIOUS
    <3>1. h < Midnight(DayOf(day)) /\ Midnight(DayOf(day)) <= day
      BY <2>1, DaysInOrder, DayIs
    <3>2. Midnight(DayOf(day)) \in Nat
      BY <2>1, LinesAssumption DEF Midnight
    <3> QED
      BY <2>1, <2>2, <3>1, <3>2
  <2> QED
    BY <2>1, <2>3
<1> QED
  BY <1>3, <1>4, <1>5, <1>6, <1>7 DEF h

(* What holds of the lines Q once the next of them was read.               *)
LEMMA ReadingNext ==
  ASSUME NEW Q, NEW T, NEW E, lines' = lines,
         ReadFirst(Q), DayOfRead(Q)', unread' = Sorted(lines \ Q),
         T = {t \in Q : DayOf(t) = DayOf(day')}, daySum' = Sorted(T),
         E = {t \in Q : DayOf(t) < DayOf(day')}, SummariesOf(E)'
  PROVE  Reading(Q)'
<1>1. ReadFirst(Q)' /\ unread' = Sorted(lines' \ Q)
  BY DEF ReadFirst
<1>2. daySum' = Sorted({t \in Q : DayOf(t) = DayOf(day')})
  OBVIOUS
<1>3. SummariesOf({t \in Q : DayOf(t) < DayOf(day)})'
  BY DEF SummariesOf
<1> QED
  BY <1>1, <1>2, <1>3 DEF Reading

(* calcDailyScope within a day ...                                         *)
LEMMA AddLineStep ==
  ASSUME ReportInv, AddLineToDay, UNCHANGED <<database, exportVars>>
  PROVE  ReportInv'
<1>0. PICK h : h = Head(unread)
  OBVIOUS
<1>1. /\ stage = "lines" /\ unread # <<>> /\ DayOf(h) = DayOf(day)
      /\ daySum' = Append(daySum, h) /\ unread' = Tail(unread)
      /\ stage' = stage /\ calendar' = calendar /\ asked' = asked /\ day' = day
      /\ report' = report /\ lines' = lines /\ joined' = joined /\ cps' = cps /\ xstage' = xstage
  BY <1>0 DEF AddLineToDay, database, exportVars
<1>2. PICK R \in SUBSET lines : Reading(R)
  BY <1>1 DEF ReportInv, ReportStages
<1>3. Given /\ ReportTypes
  BY DEF ReportInv
<1> DEFINE T == {t \in R : DayOf(t) = DayOf(day)}
           Q == R \cup {h}
<1>4. /\ h \in lines \ R /\ \A t \in R : t < h
      /\ unread' = Sorted(lines \ Q) /\ ReadFirst(Q)
  BY <1>0, <1>1, <1>2, <1>3, NextRead
<1>5. T \in SUBSET Nat /\ IsFiniteSet(T) /\ h \in Rows /\ h \in Nat /\ \A t \in T : t < h
  <2>1. h \in Rows /\ T \in SUBSET Rows /\ \A t \in T : t < h
    BY <1>3, <1>4 DEF Given
  <2> HIDE DEF T
  <2> QED
    BY <2>1, RowsAreTimes, FS_Subset
<1>6. daySum = Sorted(T) /\ T \cup {h} = {t \in Q : DayOf(t) = DayOf(day)}
  BY <1>1, <1>2 DEF Reading
<1>7. daySum' = Sorted({t \in Q : DayOf(t) = DayOf(day)})
  <2> HIDE DEF T, Q
  <2> QED
    BY <1>1, <1>5, <1>6, SortedAppend
<1>8. Given'
  BY <1>1, <1>3 DEF Given
<1>9. ReportTypes'
  <2>1. daySum' \in RowSeq
    BY <1>1, <1>3, <1>5 DEF ReportTypes, RowSeq
  <2>2. lines \ Q \in SUBSET Rows
    BY <1>3 DEF Given
  <2>3. unread' \in RowSeq
    BY <1>4, <2>2, SortedRows
  <2> QED
    BY <1>1, <1>3, <2>1, <2>3 DEF ReportTypes
<1>10. Reading(Q)'
  <2>1. DayOf(day) \in Nat /\ DayOfRead(R)
    BY <1>2, <1>3, RowDays DEF ReportTypes, Reading
  <2>2. DayOfRead(Q)'
    BY <1>1, <2>1 DEF DayOfRead
  <2>3. {t \in Q : DayOf(t) = DayOf(day')} = {t \in Q : DayOf(t) = DayOf(day)}
    BY <1>1
  <2>4. PICK D : D = {t \in R : DayOf(t) < DayOf(day)}
    OBVIOUS
  <2>5. D = {t \in Q : DayOf(t) < DayOf(day')}
    BY <1>1, <2>1, <2>4
  <2>6. SummariesOf(D)'
    BY <1>1, <1>2, <2>4, SameReport DEF Reading
  <2>7. PICK V : V = {t \in Q : DayOf(t) = DayOf(day)}
    OBVIOUS
  <2> HIDE DEF Q
  <2> QED
    BY <1>1, <1>4, <1>7, <2>2, <2>3, <2>5, <2>6, <2>7, ReadingNext
<1>11. ReportStages'
  <2>1. Q \in SUBSET lines' /\ stage' = "lines"
    BY <1>1, <1>4
  <2>2. xstage' = "begin"
    BY <1>1 DEF ReportInv, ReportStages
  <2> HIDE DEF Q
  <2> QED
    BY <1>10, <2>1, <2>2 DEF ReportStages
<1> QED
  BY <1>8, <1>9, <1>11 DEF ReportInv

(* ... and at the first line of another day, ...                           *)
LEMMA NextDayStep ==
  ASSUME ReportInv, NextDay, UNCHANGED <<database, exportVars>>
  PROVE  ReportInv'
<1>0. PICK h : h = Head(unread)
  OBVIOUS
<1>1. /\ stage = "lines" /\ unread # <<>> /\ DayOf(h) # DayOf(day)
      /\ report' = DayAdded /\ daySum' = <<h>> /\ day' = h /\ unread' = Tail(unread)
      /\ stage' = stage /\ calendar' = calendar /\ asked' = asked
      /\ lines' = lines /\ joined' = joined /\ cps' = cps /\ xstage' = xstage
  BY <1>0 DEF NextDay, database, exportVars
<1>2. PICK R \in SUBSET lines : Reading(R)
  BY <1>1 DEF ReportInv, ReportStages
<1>3. Given /\ ReportTypes
  BY DEF ReportInv
<1> DEFINE Q == R \cup {h}
<1>4. /\ h \in lines \ R /\ DayOf(day) <= DayOf(h)
      /\ \A u \in lines \ R : h <= u
      /\ unread' = Sorted(lines \ Q) /\ ReadFirst(Q)
  BY <1>0, <1>1, <1>2, <1>3, NextRead
<1>5. h \in Rows /\ h \in Nat /\ DayOf(h) \in Nat /\ DayOf(day) \in Nat /\ DayOf(day) < DayOf(h)
  <2>1. h \in Rows /\ day \in Rows
    BY <1>3, <1>4 DEF Given, ReportTypes
  <2>2. DayOf(h) \in Nat /\ DayOf(day) \in Nat /\ h \in Nat
    BY <2>1, RowDays
  <2> QED
    BY <1>1, <1>4, <2>1, <2>2
<1>6. \A t \in R : DayOf(t) \in Nat /\ DayOf(t) < DayOf(h)
  <2> SUFFICES ASSUME NEW t \in R PROVE DayOf(t) \in Nat /\ DayOf(t) < DayOf(h)
    OBVIOUS
  <2>1. DayOf(t) \in Nat /\ DayOf(t) <= DayOf(day)
    BY <1>2, <1>3, RowDays DEF Given, Reading, DayOfRead
  <2> QED
    BY <1>5, <2>1
<1>7. Given'
  BY <1>1, <1>3 DEF Given
<1>8. ReportTypes'
  <2>1. daySum' \in RowSeq /\ day' \in Rows
    BY <1>1, <1>5 DEF RowSeq
  <2>2. lines \ Q \in SUBSET Rows
    BY <1>3 DEF Given
  <2>3. unread' \in RowSeq
    BY <1>4, <2>2, SortedRows
  <2>4. report' \in [DOMAIN asked -> Entries]
    BY <1>1, <1>2, <1>3, EntriesAdded
  <2> QED
    BY <1>1, <1>3, <2>1, <2>3, <2>4 DEF ReportTypes
<1>9. Reading(Q)'
  <2>1. DayOfRead(Q)'
    <3>1. \A t \in Q : DayOf(t) <= DayOf(h)
      BY <1>5, <1>6
    <3>2. ASSUME NEW t \in lines, DayOf(t) = DayOf(h) PROVE h <= t
      <4>1. t \notin R
        BY <1>5, <1>6, <3>2
      <4> QED
        BY <1>4, <4>1
    <3>3. DayOf(h) # 0
      BY <1>5
    <3> QED
      BY <1>1, <3>1, <3>2, <3>3 DEF DayOfRead
  <2>2. {h} = {t \in Q : DayOf(t) = DayOf(day')}
    BY <1>1, <1>5, <1>6
  <2>3. daySum' = Sorted({h})
    <3>1. Sorted({} \cup {h}) = Append(Sorted({}), h)
      BY <1>5, FS_EmptySet, SortedAppend
    <3>2. Append(<<>>, h) = <<h>> /\ {} \cup {h} = {h}
      OBVIOUS
    <3> QED
      BY <1>1, <3>1, <3>2, SortedEmpty
  <2>4. R = {t \in Q : DayOf(t) < DayOf(day')}
    BY <1>1, <1>5, <1>6
  <2>5. SummariesOf(R)'
    BY <1>1, <1>2, <1>3, DayAddedStep
  <2> HIDE DEF Q
  <2> QED
    BY <1>1, <1>4, <2>1, <2>2, <2>3, <2>4, <2>5, ReadingNext
<1>10. ReportStages'
  <2>1. Q \in SUBSET lines' /\ stage' = "lines"
    BY <1>1, <1>4
  <2>2. xstage' = "begin"
    BY <1>1 DEF ReportInv, ReportStages
  <2> HIDE DEF Q
  <2> QED
    BY <1>9, <2>1, <2>2 DEF ReportStages
<1> QED
  BY <1>7, <1>8, <1>10 DEF ReportInv

(* ... and after the last line.                                            *)
LEMMA EndReportStep ==
  ASSUME ReportInv, EndReport, UNCHANGED <<database, exportVars>>
  PROVE  ReportInv'
<1>1. /\ stage = "lines" /\ unread = <<>> /\ report' = DayAdded /\ stage' = "done"
      /\ calendar' = calendar /\ asked' = asked /\ unread' = unread /\ day' = day
      /\ daySum' = daySum /\ lines' = lines /\ joined' = joined /\ cps' = cps /\ xstage' = xstage
  BY DEF EndReport, database, exportVars
<1>2. PICK R \in SUBSET lines : Reading(R)
  BY <1>1 DEF ReportInv, ReportStages
<1>3. Given /\ ReportTypes
  BY DEF ReportInv
<1>4. R = lines
  <2> DEFINE U == lines \ R
  <2>1. U \in SUBSET Rows /\ Sorted(U) = <<>>
    BY <1>1, <1>2, <1>3 DEF Given, Reading
  <2> HIDE DEF U
  <2>2. U \in SUBSET Nat /\ IsFiniteSet(U)
    BY <2>1, RowsAreTimes, FS_Subset
  <2>3. U = {}
    BY <2>1, <2>2, SortedTail
  <2> QED
    BY <2>3 DEF U
<1>5. Given'
  BY <1>1, <1>3 DEF Given
<1>6. ReportTypes'
  <2>1. report' \in [DOMAIN asked -> Entries]
    BY <1>1, <1>2, <1>3, EntriesAdded
  <2> QED
    BY <1>1, <1>3, <2>1 DEF ReportTypes
<1>7. SummariesOf(lines)'
  <2>1. SummariesOf(R)'
    BY <1>1, <1>2, <1>3, DayAddedStep
  <2> QED
    BY <1>1, <1>4, <2>1 DEF SummariesOf
<1>8. ReportStages'
  BY <1>1, <1>7 DEF ReportStages
<1> QED
  BY <1>5, <1>6, <1>8 DEF ReportInv

(* The export leaves the report alone.                                     *)
LEMMA ReportStays ==
  ASSUME ReportInv, UNCHANGED <<database, reportVars, cps>>,
         xstage' # "begin" => stage = "done"
  PROVE  ReportInv'
<1>1. /\ stage' = stage /\ calendar' = calendar /\ asked' = asked /\ unread' = unread
      /\ day' = day /\ daySum' = daySum /\ report' = report
      /\ lines' = lines /\ joined' = joined /\ cps' = cps
  BY DEF database, reportVars
<1>2. Given' /\ ReportTypes'
  BY <1>1 DEF ReportInv, Given, ReportTypes
<1>3. ASSUME NEW R, Reading(R) PROVE Reading(R)'
  <2>1. PICK T : T = {t \in R : DayOf(t) = DayOf(day)}
    OBVIOUS
  <2>2. PICK E : E = {t \in R : DayOf(t) < DayOf(day)}
    OBVIOUS
  <2>3. DayOfRead(R)'
    BY <1>1, <1>3 DEF Reading, DayOfRead
  <2>4. SummariesOf(E)'
    BY <1>1, <1>3, <2>2, SameReport DEF Reading
  <2>5. ReadFirst(R) /\ unread' = Sorted(lines \ R) /\ daySum' = Sorted(T)
    BY <1>1, <1>3, <2>1 DEF Reading
  <2> QED
    BY <1>1, <2>1, <2>2, <2>3, <2>4, <2>5, ReadingNext
<1>4. ASSUME SummariesOf(lines) PROVE SummariesOf(lines)'
  <2>1. PICK L : L = lines
    OBVIOUS
  <2>2. SummariesOf(L)'
    BY <1>1, <1>4, <2>1, SameReport
  <2> QED
    BY <1>1, <2>1, <2>2 DEF SummariesOf
<1>5. ReportStages'
  <2>1. ReportStages
    BY DEF ReportInv
  <2> QED
    BY <1>1, <1>3, <1>4, <2>1 DEF ReportStages
<1> QED
  BY <1>2, <1>5 DEF ReportInv

LEMMA ReportStep == ReportInv /\ [Next]_vars => ReportInv'
<1> SUFFICES ASSUME ReportInv, [Next]_vars PROVE ReportInv'
  OBVIOUS
<1>1. CASE ReportNext /\ UNCHANGED <<database, exportVars>>
  BY <1>1, BeginReportStep, AddLineStep, NextDayStep, EndReportStep DEF ReportNext
<1>2. CASE stage = "done" /\ ExportNext /\ UNCHANGED <<database, reportVars>>
  <2>1. UNCHANGED cps
    BY <1>2 DEF ExportNext, InitSheetsPanics, InitSheets, FillGap, HandleRow, EndExport
  <2> QED
    BY <1>2, <2>1, ReportStays
<1>3. CASE UNCHANGED vars
  <2>1. UNCHANGED <<database, reportVars, cps>> /\ xstage' = xstage
    BY <1>3 DEF vars, exportVars
  <2>2. xstage' # "begin" => stage = "done"
    BY <2>1 DEF ReportInv, ReportStages
  <2> QED
    BY <2>1, <2>2, ReportStays
<1> QED
  BY <1>1, <1>2, <1>3 DEF Next

(* ReportInv is inductive: after each line that calcDailyScope reads, the  *)
(* summaries are those of the days that are over                           *)
(* (EEGCalculationV2.go 211-238, 400-452).                                 *)
THEOREM ReportIsInvariant == Spec => []ReportInv
<1> QED
  BY ReportBegins, ReportStep, PTL DEF Spec

LEMMA RowsOwnedIs ==
  ASSUME Given, NEW r \in Requests
  PROVE  RowsOwned(r) = Sorted({t \in lines : OwnedValue(r, t)})
<1> DEFINE S == {t \in lines : DayCounts(r, DayOf(t))}
<1>1. S \in SUBSET Rows
  BY DEF Given
<1>2. {t \in S : Columns[r.meter] < Width(t)} = {t \in lines : OwnedValue(r, t)}
  BY DEF OwnedValue
<1> HIDE DEF S
<1>3. S \in SUBSET Nat /\ IsFiniteSet(S)
  BY <1>1, RowsAreTimes, FS_Subset
<1>4. ValuesIn(Sorted(S), r.meter) = Sorted({t \in S : Columns[r.meter] < Width(t)})
  BY <1>3, ValuesOfDay
<1>5. RowsOwned(r) = ValuesIn(Sorted(S), r.meter)
  BY DEF RowsOwned, S
<1> QED
  BY <1>2, <1>4, <1>5

(* A participant's summary is all the energy of his meter from his first   *)
(* day to his last, each value once, but for a last day that lacks its     *)
(* midnight: calcDailyScope and appendEnergyToParticipantMeter             *)
(* (EEGCalculationV2.go 211-238, 400-452).                                 *)
THEOREM SummaryIsAllOwned == Spec => []SummaryIsOwned
<1>1. ReportInv => SummaryIsOwned
  <2> SUFFICES ASSUME ReportInv, stage = "done", NEW i \in DOMAIN asked,
                      asked[i].meter \in DOMAIN Columns
               PROVE  report[i].summary = RowsOwned(asked[i])
    BY DEF SummaryIsOwned
  <2>1. SummariesOf(lines) /\ Given
    BY DEF ReportInv, ReportStages
  <2>2. report[i].summary = Sorted({t \in lines : OwnedValue(asked[i], t)})
    BY <2>1 DEF SummariesOf, Summarised
  <2>3. asked[i] \in Requests
    BY <2>1 DEF Given
  <2> QED
    BY <2>1, <2>2, <2>3, RowsOwnedIs
<1> QED
  BY <1>1, ReportIsInvariant, PTL

LEMMA SetOfSorted ==
  ASSUME NEW S \in SUBSET Rows
  PROVE  ToSet(Sorted(S)) = S
<1>1. S \in SUBSET Nat /\ IsFiniteSet(S)
  BY RowsAreTimes, FS_Subset
<1>2. PICK s : s = Sorted(S)
  OBVIOUS
<1>3. PICK n \in Nat : InOrder(s, n, S)
  BY <1>1, <1>2, SortedIsInOrder
<1>4. s \in [1 .. n -> S] /\ \A t \in S : \E i \in 1 .. n : s[i] = t
  BY <1>3 DEF InOrder
<1>5. {s[i] : i \in DOMAIN s} = S
  BY <1>4
<1> QED
  BY <1>2, <1>5 DEF ToSet

(* Which values one report has and the other has not, up to which day they *)
(* are.                                                                    *)
LEMMA OnlyInOne ==
  ASSUME NEW r \in Requests, NEW t \in Rows
  PROVE  LET last == DayAt(r.until) IN
           /\ DayCounts(r, DayOf(t)) /\ ~Active(r, t) => t < FirstRow(r.from)
           /\ t < FirstRow(r.from) => ~Active(r, t)
           /\ Active(r, t) /\ ~DayCounts(r, DayOf(t)) =>
                /\ t < FirstRow(r.until) + DayLen
                /\ DayOf(t) > last \/ (DayOf(t) = last /\ LacksMidnight(last))
           /\ DayOf(t) > last \/ (DayOf(t) = last /\ LacksMidnight(last)) =>
                ~DayCounts(r, DayOf(t))
<1>1. r.from \in Int /\ r.until \in Int /\ t \in Nat /\ DayOf(t) \in Nat
  BY RowDays DEF Requests
<1>2. PICK d \in Nat, f \in Int, u \in Int, g \in Int :
        /\ d = DayOf(t) /\ f = DayAt(r.from) /\ u = DayAt(r.until) /\ g = FirstRow(r.from)
  BY <1>1, DayAtIs
<1>3. DayCounts(r, DayOf(t)) <=> f <= d /\ d <= u /\ (d = u => ~LacksMidnight(u))
  BY <1>2 DEF DayCounts
<1>4. /\ Active(r, t) <=> g <= t /\ t < FirstRow(r.until) + DayLen
      /\ g <= t => f <= d
      /\ d <= u => t < FirstRow(r.until) + DayLen
  BY <1>2, ActiveIs
<1>5. /\ t < g <=> ~(g <= t)
      /\ d > u <=> ~(d <= u)
      /\ d = u => d <= u
  BY <1>1, <1>2
<1> QED
  BY <1>2, <1>3, <1>4, <1>5

(* The application and the workbook report the same energy, but for what   *)
(* is before a time in its first day and after it beyond its last: the     *)
(* report truncates the times to days (EEGCalculationV2.go 413-416), the   *)
(* workbook does not (IsLineDateOutOfRange, timeUtils.go 149-152).         *)
THEOREM TheReportsAgree == Spec => []ReportsAgree
<1>1. ReportInv /\ ExportInv => ReportsAgree
  <2> SUFFICES ASSUME ReportInv, ExportInv, xstage = "done", NEW i \in DOMAIN asked,
                      NEW r, r = asked[i], NEW S, S = ToSet(report[i].summary),
                      NEW W, W = ToSet(total[i]), NEW last, last = DayAt(r.until)
               PROVE  /\ report[i].summary = Sorted(S) /\ total[i] = Sorted(W)
                      /\ S \ W = {t \in S : t < FirstRow(r.from)}
                      /\ W \ S =
                           {t \in W : /\ t < FirstRow(r.until) + DayLen
                                      /\ DayOf(t) > last \/ (DayOf(t) = last /\ LacksMidnight(last))}
    BY DEF ReportsAgree
  <2>1. /\ Given /\ cps = asked /\ NoStranger /\ SummariesOf(lines)
    BY DEF ReportInv, ReportStages, ExportInv, ExportStages, Given
  <2>2. r \in Requests /\ lines \in SUBSET Rows
    BY <2>1 DEF Given
  <2> DEFINE Counted == {t \in lines : OwnedValue(r, t)}
             Added == {t \in lines : Active(r, t) /\ Columns[r.meter] < Width(t)}
  <2>3. report[i].summary = Sorted(Counted)
    BY <2>1 DEF SummariesOf, Summarised, NoStranger
  <2>4. total[i] = Sorted(Added)
    <3>1. PICK H : H = Handled
      OBVIOUS
    <3>2. total[i] = Sorted({t \in H : t \in lines /\ HasValue(i, t)})
      BY <2>1, <3>1 DEF ExportInv, SheetsOf, TotalOf
    <3>3. ASSUME NEW t \in lines
          PROVE  HasValue(i, t) <=> Active(r, t) /\ Columns[r.meter] < Width(t)
      <4>1. LineAt(t).width = Width(t)
        BY <2>1, <2>2, LineFacts
      <4> QED
        BY <2>1, <4>1 DEF HasValue, Column
    <3>4. lines \subseteq H
      BY <3>1, AllHandled
    <3>5. {t \in H : t \in lines /\ HasValue(i, t)} = Added
      BY <3>3, <3>4
    <3> QED
      BY <3>2, <3>5
  <2>5. S = Counted /\ W = Added
    <3>1. Counted \in SUBSET Rows /\ Added \in SUBSET Rows
      BY <2>2
    <3> HIDE DEF Counted, Added
    <3> QED
      BY <2>3, <2>4, <3>1, SetOfSorted
  <2>6. ASSUME NEW t \in lines
        PROVE  /\ t \in S <=> DayCounts(r, DayOf(t)) /\ Columns[r.meter] < Width(t)
               /\ t \in W <=> Active(r, t) /\ Columns[r.meter] < Width(t)
    BY <2>5 DEF OwnedValue
  <2>7. S \in SUBSET lines /\ W \in SUBSET lines
    BY <2>5
  <2>8. report[i].summary = Sorted(S) /\ total[i] = Sorted(W)
    <3> HIDE DEF Counted, Added
    <3> QED
      BY <2>3, <2>4, <2>5
  <2> HIDE DEF Counted, Added
  <2>9. S \ W = {t \in S : t < FirstRow(r.from)}
    <3>1. ASSUME NEW t \in S PROVE t \notin W <=> t < FirstRow(r.from)
      <4>1. t \in lines /\ t \in Rows
        BY <2>2, <2>7
      <4> QED
        BY <2>2, <2>6, <4>1, OnlyInOne
    <3> QED
      BY <3>1
  <2>10. W \ S =
           {t \in W : /\ t < FirstRow(r.until) + DayLen
                      /\ DayOf(t) > last \/ (DayOf(t) = last /\ LacksMidnight(last))}
    <3>1. ASSUME NEW t \in W
          PROVE  t \notin S <=> /\ t < FirstRow(r.until) + DayLen
                                /\ DayOf(t) > last \/ (DayOf(t) = last /\ LacksMidnight(last))
      <4>1. t \in lines /\ t \in Rows
        BY <2>2, <2>7
      <4> QED
        BY <2>2, <2>6, <4>1, OnlyInOne
    <3> QED
      BY <3>1
  <2> QED
    BY <2>8, <2>9, <2>10
<1> QED
  BY <1>1, ReportIsInvariant, ExportIsInvariant, PTL

-----------------------------------------------------------------------------
(* The entries of days, weeks or months.                                   *)

(* The entries of the lines S: the j-th has those of slot j.               *)
Placed(slots, slot, S, m) ==
  /\ m \in Nat
  /\ \A t \in S : slot[t] \in 1 .. m
  /\ slots = [j \in 1 .. m |-> Sorted({t \in S : slot[t] = j})]

(* The entries of S in their order are S in order, if the slots ascend:    *)
(* the recursive function in FlattenSeq is the only one of its equation.   *)
LEMMA FlattenSorted ==
  ASSUME NEW S \in SUBSET Nat, IsFiniteSet(S), NEW s, NEW slot, NEW m, Placed(s, slot, S, m),
         \A t, u \in S : slot[t] < slot[u] => t < u
  PROVE  FlattenSeq(s) = Sorted(S)
<1>0. /\ m \in Nat
      /\ \A t \in S : slot[t] \in 1 .. m
      /\ s = [j \in 1 .. m |-> Sorted({t \in S : slot[t] = j})]
  BY DEF Placed
<1> USE <1>0
<1> DEFINE upTo(i) == {t \in S : slot[t] <= i}
           at(j)   == {t \in S : slot[t] = j}
           step(f) == [i \in 1 .. m |-> IF i = 1 THEN s[i] ELSE f[i - 1] \o s[i]]
           g       == [i \in 1 .. m |-> Sorted(upTo(i))]
<1>1. /\ \A i : upTo(i) \in SUBSET S /\ at(i) \in SUBSET S
      /\ \A i : /\ upTo(i) \in SUBSET Nat /\ IsFiniteSet(upTo(i))
                /\ at(i) \in SUBSET Nat /\ IsFiniteSet(at(i))
  <2>1. \A i : upTo(i) \in SUBSET S /\ at(i) \in SUBSET S
    OBVIOUS
  <2> HIDE DEF upTo, at
  <2> QED
    BY <2>1, FS_Subset
<1>2. \A i \in 1 .. m : s[i] = Sorted(at(i))
  OBVIOUS
<1>3. ASSUME NEW i \in 1 .. m, i # 1 PROVE Sorted(upTo(i)) = Sorted(upTo(i - 1)) \o Sorted(at(i))
  <2>1. upTo(i) = upTo(i - 1) \cup at(i)
    <3>1. \A t \in S : slot[t] <= i <=> slot[t] <= i - 1 \/ slot[t] = i
      OBVIOUS
    <3> QED
      BY <3>1, Zenon
  <2>2. \A x \in upTo(i - 1), y \in at(i) : x < y
    <3> SUFFICES ASSUME NEW x \in upTo(i - 1), NEW y \in at(i) PROVE x < y
      OBVIOUS
    <3>1. x \in S /\ y \in S /\ slot[x] < slot[y]
      OBVIOUS
    <3> QED
      BY <3>1
  <2> HIDE DEF upTo, at
  <2>3. /\ upTo(i - 1) \in SUBSET Nat /\ IsFiniteSet(upTo(i - 1))
        /\ at(i) \in SUBSET Nat /\ IsFiniteSet(at(i))
    BY <1>1
  <2> QED
    BY <2>1, <2>2, <2>3, SortedConcat
<1>4. upTo(1) = at(1)
  <2>1. \A t \in S : slot[t] <= 1 <=> slot[t] = 1
    OBVIOUS
  <2> QED
    BY <2>1, Zenon
<1>5. upTo(m) = S
  <2>1. \A t \in S : slot[t] <= m
    OBVIOUS
  <2> QED
    BY <2>1, Zenon
<1> HIDE DEF upTo, at
<1>6. g = step(g)
  <2>1. ASSUME NEW i \in 1 .. m
        PROVE  Sorted(upTo(i)) = IF i = 1 THEN s[i] ELSE g[i - 1] \o s[i]
    <3>1. CASE i = 1
      BY <1>2, <1>4, <3>1
    <3>2. CASE i # 1
      <4>1. i - 1 \in 1 .. m
        BY <3>2
      <4>2. g[i - 1] = Sorted(upTo(i - 1))
        BY <4>1
      <4> QED
        BY <1>2, <1>3, <3>2, <4>2
    <3> QED
      BY <3>1, <3>2
  <2> QED
    BY <2>1
<1>7. ASSUME NEW f, f = step(f) PROVE f = g
  <2> DEFINE wrong == {i \in 1 .. m : f[i] # g[i]}
  <2>1. ASSUME wrong # {} PROVE FALSE
    <3>1. wrong \in SUBSET Nat /\ IsFiniteSet(wrong)
      <4>1. wrong \in SUBSET (1 .. m) /\ IsFiniteSet(1 .. m) /\ 1 .. m \in SUBSET Nat
        BY FS_Interval
      <4> HIDE DEF wrong
      <4> QED
        BY <4>1, FS_Subset
    <3>2. PICK i \in wrong : \A k \in wrong : i <= k
      <4> HIDE DEF wrong
      <4> QED
        BY <2>1, <3>1, FirstAndLast
    <3>3. i \in 1 .. m /\ f[i] # g[i]
      BY <3>2
    <3>4. /\ f[i] = IF i = 1 THEN s[i] ELSE f[i - 1] \o s[i]
          /\ g[i] = IF i = 1 THEN s[i] ELSE g[i - 1] \o s[i]
      <4> HIDE DEF g
      <4> QED
        BY <1>6, <1>7, <3>3
    <3>5. i # 1 => f[i - 1] = g[i - 1]
      <4> SUFFICES ASSUME i # 1 PROVE f[i - 1] = g[i - 1]
        OBVIOUS
      <4>1. i - 1 \in 1 .. m /\ ~(i <= i - 1)
        BY <3>3
      <4>2. i - 1 \notin wrong
        BY <3>2, <4>1
      <4> HIDE DEF g
      <4> QED
        BY <4>1, <4>2
    <3> HIDE DEF g
    <3> QED
      BY <3>3, <3>4, <3>5
  <2>2. \A i \in 1 .. m : f[i] = g[i]
    <3> HIDE DEF g
    <3> QED
      BY <2>1
  <2>3. f = [i \in 1 .. m |-> f[i]] /\ g = [i \in 1 .. m |-> g[i]]
    BY <1>6, <1>7
  <2> HIDE DEF g
  <2> QED
    BY <2>2, <2>3
<1>8. Len(s) = m
  OBVIOUS
<1>9. CASE m = 0
  <2>1. S = {}
    BY <1>9
  <2>2. s = <<>>
    BY <1>9
  <2> QED
    BY <1>8, <1>9, <2>1, <2>2, SortedEmpty DEF FlattenSeq
<1>10. CASE m # 0
  <2>1. (CHOOSE f : f = step(f)) = g
    <3> HIDE DEF step, g
    <3> QED
      BY <1>6, <1>7
  <2>2. FlattenSeq(s) = (CHOOSE f : f = step(f))[m]
    BY <1>8, <1>10 DEF FlattenSeq
  <2>3. m \in 1 .. m
    BY <1>10
  <2>4. g[m] = Sorted(upTo(m))
    BY <2>3
  <2> QED
    BY <1>5, <1>10, <2>1, <2>2, <2>4
<1> QED
  BY <1>9, <1>10

(* Differences of weeks and months, and their rests.                       *)
LEMMA Rounds ==
  ASSUME NEW n \in Int
  PROVE  /\ -52 <= n /\ n <= 51 => n % 52 = IF 0 <= n THEN n ELSE n + 52
         /\ -52 <= n /\ n <= 51 => n % 53 = IF 0 <= n THEN n ELSE n + 53
         /\ -12 <= n /\ n <= 11 => n % 12 = IF 0 <= n THEN n ELSE n + 12
<1>1. -52 <= n /\ n <= 51 => n % 52 = IF 0 <= n THEN n ELSE n + 52
  OBVIOUS
<1>2. -52 <= n /\ n <= 51 => n % 53 = IF 0 <= n THEN n ELSE n + 53
  OBVIOUS
<1>3. -12 <= n /\ n <= 11 => n % 12 = IF 0 <= n THEN n ELSE n + 12
  OBVIOUS
<1> QED
  BY <1>1, <1>2, <1>3

(* How far the number of a day is from the first one, until the turn and   *)
(* after it.                                                               *)
LEMMA RunAscends ==
  ASSUME NEW round \in Nat, NEW number, RunsOn(number, round),
         number \in [0 .. Days - 1 -> 1 .. round + 1],
         NEW d \in 0 .. Days - 1, NEW e \in 0 .. Days - 1, d <= e
  PROVE  LET x == number[d] - number[0]  y == number[e] - number[0] IN
         /\ x \in Int /\ -round <= x /\ x <= round - 1
         /\ y \in Int /\ -round <= y /\ y <= round - 1
         /\ 0 <= y => (0 <= x /\ x <= y)
         /\ y < 0 => (x <= y \/ (0 <= x /\ x <= y + round))
<1> DEFINE x == number[d] - number[0]
           y == number[e] - number[0]
<1>1. Days \in Nat /\ 0 \in 0 .. Days - 1
  BY LinesAssumption
<1>2. PICK turn \in 1 .. Days :
        /\ \A m, n \in 0 .. Days - 1 :
             m <= n /\ (n < turn \/ turn <= m) => number[m] <= number[n]
        /\ \A m \in 0 .. turn - 1 : number[m] < number[0] + round
        /\ \A m \in turn .. Days - 1 : number[m] < number[0]
  BY DEF RunsOn
<1>3. ASSUME NEW n \in 0 .. Days - 1, n < turn
      PROVE  number[0] <= number[n] /\ number[n] < number[0] + round
  <2>1. n \in 0 .. turn - 1 /\ 0 <= n
    BY <1>1, <1>3
  <2> QED
    BY <1>1, <1>2, <1>3, <2>1
<1>4. ASSUME NEW n \in 0 .. Days - 1, turn <= n PROVE number[n] < number[0]
  <2>1. n \in turn .. Days - 1
    BY <1>1, <1>4
  <2> QED
    BY <1>2, <2>1
<1>5. PICK a \in 1 .. round + 1, b \in 1 .. round + 1, c \in 1 .. round + 1 :
        a = number[0] /\ b = number[d] /\ c = number[e]
  BY <1>1
<1>6. x = b - a /\ y = c - a
  BY <1>5
<1>7. CASE e < turn
  <2>1. d < turn
    BY <1>1, <1>7
  <2>2. a <= b /\ b <= c /\ c < a + round
    BY <1>2, <1>3, <1>5, <1>7, <2>1
  <2> QED
    BY <1>6, <2>2
<1>8. CASE d < turn /\ turn <= e
  <2>1. a <= b /\ b < a + round /\ c < a
    BY <1>3, <1>4, <1>5, <1>8
  <2> QED
    BY <1>6, <2>1
<1>9. CASE turn <= d
  <2>1. turn <= e
    BY <1>1, <1>9
  <2>2. b < a /\ c < a /\ b <= c
    BY <1>2, <1>4, <1>5, <1>9, <2>1
  <2> QED
    BY <1>6, <2>2
<1> QED
  BY <1>1, <1>7, <1>8, <1>9

(* The entries of later days are not before those of earlier ones:         *)
(* switchIntermediate of the four kinds.                                   *)
LEMMA SlotsAscend ==
  ASSUME calendar \in Calendars, NEW d \in 0 .. Days - 1, NEW e \in 0 .. Days - 1, d <= e
  PROVE  Slot(d) <= Slot(e)
<1>1. /\ calendar.kind \in {"M", "Q", "H", "Y"}
      /\ calendar.week \in [0 .. Days - 1 -> 1 .. 53]
      /\ calendar.month \in [0 .. Days - 1 -> 1 .. 12]
      /\ calendar.kind \in {"Q", "H"} => RunsOn(calendar.week, 52)
      /\ calendar.kind = "Y" => RunsOn(calendar.month, 12)
  BY ReportsAssumption, CalendarAssumption
<1>2. PICK week, month : week = calendar.week /\ month = calendar.month
  OBVIOUS
<1>3. ASSUME NEW a \in Int, NEW b \in Int, a <= b PROVE Larger(a, 1) <= Larger(b, 1)
  BY <1>3 DEF Larger
<1>4. CASE calendar.kind = "M"
  BY <1>4 DEF Slot
<1> DEFINE x == week[d] - week[0]
           y == week[e] - week[0]
<1>5. ASSUME calendar.kind \in {"Q", "H"}
      PROVE  /\ x % 52 \in Int /\ y % 52 \in Int /\ x % 52 <= y % 52
             /\ x % 53 \in Int /\ y % 53 \in Int /\ x % 53 <= y % 53
  <2>1. week \in [0 .. Days - 1 -> 1 .. 52 + 1]
    BY <1>1, <1>2
  <2>2. RunsOn(week, 52)
    BY <1>1, <1>2, <1>5
  <2> HIDE DEF x, y
  <2>3. /\ x \in Int /\ -52 <= x /\ x <= 52 - 1
        /\ y \in Int /\ -52 <= y /\ y <= 52 - 1
        /\ 0 <= y => (0 <= x /\ x <= y)
        /\ y < 0 => (x <= y \/ (0 <= x /\ x <= y + 52))
    BY <2>1, <2>2, RunAscends, ZenonT(40) DEF x, y
  <2>4. /\ x % 52 = IF 0 <= x THEN x ELSE x + 52
        /\ y % 52 = IF 0 <= y THEN y ELSE y + 52
        /\ x % 53 = IF 0 <= x THEN x ELSE x + 53
        /\ y % 53 = IF 0 <= y THEN y ELSE y + 53
    BY <2>3, Rounds
  <2> QED
    BY <2>3, <2>4
<1>6. CASE calendar.kind = "Q"
  <2>1. Slot(d) = Larger(x % 52, 1) /\ Slot(e) = Larger(y % 52, 1)
    BY <1>2, <1>6 DEF Slot
  <2> HIDE DEF x, y
  <2> QED
    BY <1>3, <1>5, <1>6, <2>1
<1>7. CASE calendar.kind = "H"
  <2>1. Slot(d) = Larger(x % 53, 1) /\ Slot(e) = Larger(y % 53, 1)
    BY <1>2, <1>7 DEF Slot
  <2> HIDE DEF x, y
  <2> QED
    BY <1>3, <1>5, <1>7, <2>1
<1>8. CASE calendar.kind = "Y"
  <2> DEFINE u == month[d] - month[0]
             v == month[e] - month[0]
  <2>1. Slot(d) = Larger((u % 12) + 1, 1) /\ Slot(e) = Larger((v % 12) + 1, 1)
    BY <1>2, <1>8 DEF Slot
  <2>2. month \in [0 .. Days - 1 -> 1 .. 12 + 1]
    BY <1>1, <1>2
  <2>3. RunsOn(month, 12)
    BY <1>1, <1>2, <1>8
  <2> HIDE DEF u, v
  <2>4. /\ u \in Int /\ -12 <= u /\ u <= 12 - 1
        /\ v \in Int /\ -12 <= v /\ v <= 12 - 1
        /\ 0 <= v => (0 <= u /\ u <= v)
        /\ v < 0 => (u <= v \/ (0 <= u /\ u <= v + 12))
    BY <2>2, <2>3, RunAscends, ZenonT(40) DEF u, v
  <2>5. /\ u % 12 = IF 0 <= u THEN u ELSE u + 12
        /\ v % 12 = IF 0 <= v THEN v ELSE v + 12
    BY <2>4, Rounds
  <2>6. (u % 12) + 1 \in Int /\ (v % 12) + 1 \in Int /\ (u % 12) + 1 <= (v % 12) + 1
    BY <2>4, <2>5
  <2> QED
    BY <1>3, <2>1, <2>6
<1> QED
  BY <1>1, <1>4, <1>6, <1>7, <1>8

(* EnsureIntermediatValueSlice: the entries of the lines S, once the later *)
(* lines B of entry k were added.                                          *)
LEMMA AddedInOrder ==
  ASSUME NEW S \in SUBSET Nat, IsFiniteSet(S), NEW B \in SUBSET Nat, IsFiniteSet(B),
         \A x \in S, y \in B : x < y,
         NEW slots, NEW slot, NEW m, Placed(slots, slot, S, m),
         NEW k \in Nat, k >= 1, \A t \in B : slot[t] = k
  PROVE  Placed(AddToSlot(slots, k, Sorted(B)), slot, S \cup B, Larger(m, k))
<1>0. /\ m \in Nat
      /\ \A t \in S : slot[t] \in 1 .. m
      /\ slots = [j \in 1 .. m |-> Sorted({t \in S : slot[t] = j})]
  BY DEF Placed
<1> DEFINE old(j) == IF j <= Len(slots) THEN slots[j] ELSE <<>>
           new(j) == IF j = k THEN Sorted(B) ELSE <<>>
           A(j)   == {t \in S : slot[t] = j}
           C(j)   == IF j = k THEN B ELSE {}
<1>1. PICK n \in Nat : n = Larger(m, k) /\ m <= n /\ k <= n
  BY <1>0 DEF Larger
<1>2. \A t \in S \cup B : slot[t] \in 1 .. n
  BY <1>0, <1>1
<1>3. ASSUME NEW j \in 1 .. n
      PROVE  old(j) \o new(j) = Sorted({t \in S \cup B : slot[t] = j})
  <2>1. A(j) \in SUBSET S /\ C(j) \in SUBSET B
    OBVIOUS
  <2>2. A(j) \cup C(j) = {t \in S \cup B : slot[t] = j}
    BY Zenon
  <2>3. old(j) = Sorted(A(j))
    <3>1. CASE j <= m
      <4>1. j \in 1 .. m
        BY <3>1
      <4> QED
        BY <1>0, <3>1, <4>1
    <3>2. CASE ~(j <= m)
      <4>1. j \notin 1 .. m
        BY <3>2
      <4>2. A(j) = {}
        BY <1>0, <4>1, Zenon
      <4>3. Len(slots) = m
        BY <1>0
      <4>4. old(j) = <<>>
        BY <3>2, <4>3
      <4> HIDE DEF A, old
      <4> QED
        BY <4>2, <4>4, SortedEmpty
    <3> QED
      BY <3>1, <3>2
  <2>4. new(j) = Sorted(C(j))
    BY SortedEmpty
  <2> HIDE DEF A, C, old, new
  <2>5. /\ A(j) \in SUBSET Nat /\ IsFiniteSet(A(j))
        /\ C(j) \in SUBSET Nat /\ IsFiniteSet(C(j))
        /\ \A x \in A(j), y \in C(j) : x < y
    BY <2>1, FS_Subset
  <2> QED
    BY <2>2, <2>3, <2>4, <2>5, SortedConcat, ZenonT(40)
<1>4. AddToSlot(slots, k, Sorted(B)) = [j \in 1 .. n |-> old(j) \o new(j)]
  <2>1. Len(slots) = m
    BY <1>0
  <2> QED
    BY <1>1, <2>1 DEF AddToSlot
<1> HIDE DEF old, new
<1>5. AddToSlot(slots, k, Sorted(B)) = [j \in 1 .. n |-> Sorted({t \in S \cup B : slot[t] = j})]
  BY <1>3, <1>4
<1> QED
  BY <1>1, <1>2, <1>5 DEF Placed

-----------------------------------------------------------------------------
(* The entries.  A participant has the lines S in his report, each in the  *)
(* entry of its day; they are of the days that are over.                   *)

SlotOf == [t \in Rows |-> Slot(DayOf(t))]

Filed(entry, S, m) ==
  entry.summary = Sorted(S) /\ Placed(entry.slots, SlotOf, S, m)

EntriesFrom(D) == \A i \in DOMAIN asked : \E S \in SUBSET D, m \in Nat : Filed(report[i], S, m)

EntriesInv ==
  /\ stage # "done" => EntriesFrom({t \in lines : DayOf(t) < DayOf(day)})
  /\ stage = "done" => EntriesFrom(lines)

(* At the end of a day its lines are in the entry of the day.              *)
LEMMA DayFiled ==
  ASSUME Given, ReportTypes, NEW R \in SUBSET lines, Reading(R), NEW i \in DOMAIN asked,
         NEW S \in SUBSET lines, \A t \in S : DayOf(t) < DayOf(day),
         NEW m \in Nat, Filed(report[i], S, m)
  PROVE  \E Q \in SUBSET {t \in lines : DayOf(t) <= DayOf(day)}, n \in Nat :
           Filed(DayAdded[i], Q, n)
<1> DEFINE r == asked[i]
           T == {t \in R : DayOf(t) = DayOf(day)}
           B == {t \in T : Columns[r.meter] < Width(t)}
<1>1. day \in Rows /\ day \in Nat /\ DayOf(day) \in Nat /\ DayOf(day) \in 0 .. Days - 1
  BY RowDays DEF ReportTypes
<1>2. \A t \in S : DayOf(t) <= DayOf(day)
  <2> SUFFICES ASSUME NEW t \in S PROVE DayOf(t) <= DayOf(day)
    OBVIOUS
  <2>1. DayOf(t) \in Nat /\ DayOf(t) < DayOf(day)
    BY RowDays DEF Given
  <2> QED
    BY <1>1, <2>1
<1>3. CASE ~Owned(r)
  <2>1. DayAdded[i] = report[i]
    BY <1>3 DEF DayAdded
  <2>2. S \in SUBSET {t \in lines : DayOf(t) <= DayOf(day)}
    BY <1>2
  <2> QED
    BY <2>1, <2>2
<1>4. CASE Owned(r)
  <2>1. B \in SUBSET lines /\ T \in SUBSET lines /\ \A t \in B : DayOf(t) = DayOf(day)
    OBVIOUS
  <2>2. daySum = Sorted(T)
    BY DEF Reading
  <2>3. S \in SUBSET Rows /\ B \in SUBSET Rows /\ T \in SUBSET Rows
    BY <2>1 DEF Given
  <2>4. /\ S \in SUBSET Nat /\ IsFiniteSet(S) /\ B \in SUBSET Nat /\ IsFiniteSet(B)
        /\ T \in SUBSET Nat /\ IsFiniteSet(T)
    <3> HIDE DEF B, T
    <3> QED
      BY <2>3, RowsAreTimes, FS_Subset
  <2>5. ValuesIn(daySum, r.meter) = Sorted(B)
    <3>1. ValuesIn(Sorted(T), r.meter) = Sorted({t \in T : Columns[r.meter] < Width(t)})
      BY <2>4, ValuesOfDay
    <3> HIDE DEF T
    <3> QED
      BY <2>2, <3>1
  <2>6. \A x \in S, y \in B : x < y
    <3> SUFFICES ASSUME NEW x \in S, NEW y \in B PROVE x < y
      OBVIOUS
    <3>1. x \in Nat /\ y \in Nat /\ DayOf(x) < DayOf(y) /\ DayOf(y) \in Nat
      BY <1>1, <2>1, <2>4
    <3>2. x < Midnight(DayOf(y)) /\ Midnight(DayOf(y)) <= y
      BY <3>1, DaysInOrder, DayIs
    <3>3. Midnight(DayOf(y)) \in Nat
      BY <3>1, LinesAssumption DEF Midnight
    <3> QED
      BY <3>1, <3>2, <3>3
  <2>7. PICK k \in Nat : k = Slot(DayOf(day)) /\ k >= 1
    BY <1>1, SlotIsPositive DEF ReportTypes
  <2>8. PICK slot : slot = SlotOf
    OBVIOUS
  <2>9. \A t \in B : slot[t] = k
    <3> SUFFICES ASSUME NEW t \in B PROVE slot[t] = k
      OBVIOUS
    <3>1. t \in Rows /\ DayOf(t) = DayOf(day)
      BY <2>1, <2>3
    <3> QED
      BY <2>7, <2>8, <3>1 DEF SlotOf
  <2>10. report[i].summary = Sorted(S) /\ Placed(report[i].slots, slot, S, m)
    BY <2>8 DEF Filed
  <2>11. /\ DayAdded[i].summary = report[i].summary \o ValuesIn(daySum, r.meter)
         /\ DayAdded[i].slots = AddToSlot(report[i].slots, k, ValuesIn(daySum, r.meter))
    BY <1>4, <2>7 DEF DayAdded
  <2>12. S \cup B \in SUBSET {t \in lines : DayOf(t) <= DayOf(day)}
    <3>1. \A t \in B : DayOf(t) <= DayOf(day)
      BY <1>1, <2>1
    <3> HIDE DEF B, T
    <3> QED
      BY <1>2, <2>1, <3>1
  <2> HIDE DEF B, T
  <2>13. DayAdded[i].summary = Sorted(S \cup B)
    BY <2>4, <2>5, <2>6, <2>10, <2>11, SortedConcat, ZenonT(40)
  <2>14. PICK slots : slots = report[i].slots
    OBVIOUS
  <2>15. Placed(AddToSlot(slots, k, Sorted(B)), slot, S \cup B, Larger(m, k))
    BY <2>4, <2>6, <2>7, <2>9, <2>10, <2>14, AddedInOrder
  <2>16. Filed(DayAdded[i], S \cup B, Larger(m, k))
    BY <2>5, <2>8, <2>11, <2>13, <2>14, <2>15 DEF Filed
  <2>17. Larger(m, k) \in Nat
    BY <2>15 DEF Placed
  <2> QED
    BY <2>12, <2>16, <2>17
<1> QED
  BY <1>3, <1>4

(* While the calendar stays, an entry is filed as it was.                  *)
LEMMA SameSlots ==
  ASSUME calendar' = calendar
  PROVE  \A e, S, m : Filed(e, S, m)' <=> Filed(e, S, m)
<1>1. SlotOf' = SlotOf
  BY DEF SlotOf, Slot
<1> QED
  BY <1>1 DEF Filed

LEMMA EntriesBegin == Init => EntriesInv
<1> SUFFICES ASSUME Init, NEW D PROVE EntriesFrom(D) /\ stage = "begin"
  BY DEF EntriesInv
<1>1. stage = "begin" /\ report = [i \in DOMAIN asked |-> [summary |-> <<>>, slots |-> <<>>]]
  BY DEF Init, ReportInit
<1>2. ASSUME NEW i \in DOMAIN asked PROVE Filed(report[i], {}, 0)
  <2>1. report[i].summary = <<>> /\ report[i].slots = <<>>
    BY <1>1
  <2>2. [j \in 1 .. 0 |-> Sorted({t \in {} : SlotOf[t] = j})] = <<>>
    OBVIOUS
  <2>3. PICK none : none = [j \in 1 .. 0 |-> Sorted({t \in {} : SlotOf[t] = j})]
    OBVIOUS
  <2>4. Placed(report[i].slots, SlotOf, {}, 0)
    BY <2>1, <2>2 DEF Placed
  <2> QED
    BY <2>1, <2>4, SortedEmpty DEF Filed
<1>3. {} \in SUBSET D /\ 0 \in Nat
  OBVIOUS
<1> QED
  BY <1>1, <1>2, <1>3 DEF EntriesFrom

(* The end of a day: its lines join those of the days that are over.       *)
LEMMA EntriesOfDay ==
  ASSUME ReportInv, EntriesInv, stage = "lines", report' = DayAdded,
         calendar' = calendar, asked' = asked,
         NEW D, {t \in lines : DayOf(t) <= DayOf(day)} \subseteq D
  PROVE  EntriesFrom(D)'
<1>1. PICK R \in SUBSET lines : Reading(R)
  BY DEF ReportInv, ReportStages
<1>2. Given /\ ReportTypes
  BY DEF ReportInv
<1> SUFFICES ASSUME NEW i \in DOMAIN asked
             PROVE  \E S \in SUBSET D, m \in Nat : Filed(report[i], S, m)'
  BY DEF EntriesFrom
<1>3. PICK S \in SUBSET {t \in lines : DayOf(t) < DayOf(day)}, m \in Nat : Filed(report[i], S, m)
  BY DEF EntriesInv, EntriesFrom
<1>4. S \in SUBSET lines /\ \A t \in S : DayOf(t) < DayOf(day)
  BY <1>3
<1>5. PICK Q \in SUBSET {t \in lines : DayOf(t) <= DayOf(day)}, n \in Nat :
        Filed(DayAdded[i], Q, n)
  BY <1>1, <1>2, <1>3, <1>4, DayFiled
<1>6. PICK e : e = DayAdded[i]
  OBVIOUS
<1>7. Filed(e, Q, n)'
  BY <1>5, <1>6, SameSlots
<1>8. e = report'[i] /\ Q \in SUBSET D
  BY <1>5, <1>6
<1> QED
  BY <1>7, <1>8 DEF Filed

LEMMA EntriesStay ==
  ASSUME EntriesInv, calendar' = calendar, asked' = asked, report' = report,
         lines' = lines, day' = day, (stage' = "done") <=> (stage = "done")
  PROVE  EntriesInv'
<1>1. ASSUME NEW D, EntriesFrom(D) PROVE EntriesFrom(D)'
  <2> SUFFICES ASSUME NEW i \in DOMAIN asked
               PROVE  \E S \in SUBSET D, m \in Nat : Filed(report[i], S, m)'
    BY DEF EntriesFrom
  <2>1. PICK S \in SUBSET D, m \in Nat : Filed(report[i], S, m)
    BY <1>1 DEF EntriesFrom
  <2>2. PICK e : e = report[i]
    OBVIOUS
  <2>3. Filed(e, S, m)'
    BY <2>1, <2>2, SameSlots
  <2> QED
    BY <2>2, <2>3 DEF Filed
<1>2. PICK L : L = lines
  OBVIOUS
<1>3. PICK D : D = {t \in lines : DayOf(t) < DayOf(day)}
  OBVIOUS
<1>4. (stage # "done" => EntriesFrom(D)) /\ (stage = "done" => EntriesFrom(L))
  BY <1>2, <1>3 DEF EntriesInv
<1>5. (stage' # "done" => EntriesFrom(D)') /\ (stage' = "done" => EntriesFrom(L)')
  BY <1>1, <1>4
<1>6. L = lines' /\ D = {t \in lines' : DayOf(t) < DayOf(day')}
  BY <1>2, <1>3
<1> QED
  BY <1>5, <1>6 DEF EntriesInv, EntriesFrom

LEMMA EntriesStep == ReportInv /\ EntriesInv /\ [Next]_vars => EntriesInv'
<1> SUFFICES ASSUME ReportInv, EntriesInv, [Next]_vars PROVE EntriesInv'
  OBVIOUS
<1>0. /\ \A t \in lines : t \in Rows
      /\ day \in Rows
      /\ \A t \in Rows : t \in Nat /\ DayOf(t) \in 0 .. Days - 1
      /\ Days \in Nat
  BY RowDays, LinesAssumption DEF ReportInv, Given, ReportTypes
<1>1. CASE BeginReport /\ UNCHANGED <<database, exportVars>>
  BY <1>1, EntriesStay DEF BeginReport, database
<1>2. CASE AddLineToDay /\ UNCHANGED <<database, exportVars>>
  BY <1>2, EntriesStay DEF AddLineToDay, database
<1>3. CASE NextDay /\ UNCHANGED <<database, exportVars>>
  <2>1. PICK h : h = Head(unread)
    OBVIOUS
  <2>2. /\ stage = "lines" /\ unread # <<>> /\ DayOf(h) # DayOf(day)
        /\ report' = DayAdded /\ day' = h /\ stage' = stage /\ calendar' = calendar
        /\ asked' = asked /\ lines' = lines
    BY <1>3, <2>1 DEF NextDay, database
  <2>3. PICK D : D = {t \in lines : DayOf(t) < DayOf(h)}
    OBVIOUS
  <2>4. h \in Rows /\ DayOf(day) < DayOf(h)
    <3>1. PICK R \in SUBSET lines : Reading(R)
      BY <2>2 DEF ReportInv, ReportStages
    <3>2. h \in lines /\ DayOf(day) <= DayOf(h)
      BY <2>1, <2>2, <3>1, NextRead DEF ReportInv
    <3> QED
      BY <1>0, <2>2, <3>2
  <2>5. {t \in lines : DayOf(t) <= DayOf(day)} \subseteq D
    BY <1>0, <2>3, <2>4
  <2>6. EntriesFrom(D)'
    BY <2>2, <2>5, EntriesOfDay
  <2>7. D = {t \in lines' : DayOf(t) < DayOf(day')} /\ stage' # "done"
    BY <2>2, <2>3
  <2> QED
    BY <2>6, <2>7 DEF EntriesInv, EntriesFrom
<1>4. CASE EndReport /\ UNCHANGED <<database, exportVars>>
  <2>1. PICK L : L = lines
    OBVIOUS
  <2>2. /\ stage = "lines" /\ report' = DayAdded /\ stage' = "done" /\ calendar' = calendar
        /\ asked' = asked /\ lines' = lines
    BY <1>4 DEF EndReport, database
  <2>3. {t \in lines : DayOf(t) <= DayOf(day)} \subseteq L
    BY <2>1
  <2>4. EntriesFrom(L)'
    BY <2>2, <2>3, EntriesOfDay
  <2> QED
    BY <2>1, <2>2, <2>4 DEF EntriesInv, EntriesFrom
<1>5. CASE UNCHANGED <<database, reportVars>>
  BY <1>5, EntriesStay DEF database, reportVars
<1> QED
  BY <1>1, <1>2, <1>3, <1>4, <1>5 DEF Next, ReportNext, vars

(* The entries of the report are filed from the lines of its summary.      *)
THEOREM EntriesIsInvariant == Spec => [](ReportInv /\ EntriesInv)
<1> QED
  BY ReportBegins, ReportStep, EntriesBegin, EntriesStep, PTL DEF Spec

(* What EntriesMakeSummary says of one participant.                        *)
MakesSummary(entry) ==
  /\ FlattenSeq(entry.slots) = entry.summary
  /\ calendar.kind = "M" =>
       \A j \in DOMAIN entry.slots : \A n \in DOMAIN entry.slots[j] :
         DayOf(entry.slots[j][n]) = j - 1

LEMMA FiledEntries ==
  ASSUME calendar \in Calendars, NEW S \in SUBSET Rows, NEW m \in Nat,
         NEW entry, Filed(entry, S, m)
  PROVE  MakesSummary(entry)
<1>1. PICK slots, slot : slots = entry.slots /\ slot = SlotOf
  OBVIOUS
<1>2. /\ entry.summary = Sorted(S)
      /\ \A t \in S : slot[t] \in 1 .. m
      /\ slots = [j \in 1 .. m |-> Sorted({t \in S : slot[t] = j})]
  BY <1>1 DEF Filed, Placed
<1>3. S \in SUBSET Nat /\ IsFiniteSet(S)
  BY RowsAreTimes, FS_Subset
<1>4. \A t \in S : t \in Nat /\ DayOf(t) \in 0 .. Days - 1 /\ slot[t] = Slot(DayOf(t))
  BY <1>1, RowDays DEF SlotOf
<1>5. ASSUME NEW t \in S, NEW u \in S, slot[t] < slot[u] PROVE t < u
  <2>1. ASSUME u <= t PROVE FALSE
    <3>1. DayOf(u) <= DayOf(t)
      <4>1. t \in Nat /\ u \in Nat /\ DayOf(t) \in Nat /\ DayOf(u) \in Nat
        BY <1>4
      <4>2. DayOf(t) < DayOf(u) => t < Midnight(DayOf(u)) /\ Midnight(DayOf(u)) <= u
        BY <4>1, DaysInOrder, DayIs
      <4>3. Midnight(DayOf(u)) \in Nat
        BY <4>1, LinesAssumption DEF Midnight
      <4> QED
        BY <2>1, <4>1, <4>2, <4>3
    <3>2. Slot(DayOf(u)) <= Slot(DayOf(t))
      BY <1>4, <3>1, SlotsAscend
    <3>3. slot[u] <= slot[t] /\ slot[u] \in 1 .. m /\ slot[t] \in 1 .. m
      BY <1>2, <1>4, <3>2
    <3> QED
      BY <1>5, <3>3
  <2>2. t \in Nat /\ u \in Nat
    BY <1>4
  <2> QED
    BY <2>1, <2>2
<1>6. FlattenSeq(slots) = Sorted(S)
  <2>1. Placed(slots, slot, S, m)
    BY <1>1 DEF Filed
  <2>2. \A t, u \in S : slot[t] < slot[u] => t < u
    BY <1>5
  <2> QED
    BY <1>3, <2>1, <2>2, FlattenSorted
<1>7. ASSUME calendar.kind = "M", NEW j \in DOMAIN slots, NEW n \in DOMAIN slots[j]
      PROVE  DayOf(slots[j][n]) = j - 1
  <2> DEFINE A == {t \in S : slot[t] = j}
  <2>1. j \in 1 .. m /\ slots[j] = Sorted(A)
    BY <1>2, <1>7
  <2>2. A \in SUBSET Nat /\ IsFiniteSet(A)
    <3>1. A \in SUBSET S
      OBVIOUS
    <3> HIDE DEF A
    <3> QED
      BY <1>3, <3>1, FS_Subset
  <2>3. slots[j][n] \in A
    <3> HIDE DEF A
    <3> QED
      BY <1>7, <2>1, <2>2, SortedWithin
  <2>4. PICK t \in S : t = slots[j][n] /\ slot[t] = j
    BY <2>3
  <2>5. DayOf(t) + 1 = j /\ DayOf(t) \in Nat
    BY <1>4, <1>7, <2>4 DEF Slot
  <2> QED
    BY <2>4, <2>5
<1> QED
  BY <1>1, <1>2, <1>6, <1>7 DEF MakesSummary

(* The report of a participant counts each value of his once, in the       *)
(* summary and in its entries (EEGCalculationV2.go 244-452).               *)
THEOREM EachValueOnce == Spec => []ReportCountsOnce
<1>1. ReportInv /\ EntriesInv => EntriesMakeSummary
  <2> SUFFICES ASSUME ReportInv, EntriesInv, NEW i \in DOMAIN asked
               PROVE  MakesSummary(report[i])
    BY DEF EntriesMakeSummary, MakesSummary
  <2>1. PICK S \in SUBSET lines, m \in Nat : Filed(report[i], S, m)
    BY DEF EntriesInv, EntriesFrom
  <2>2. S \in SUBSET Rows /\ calendar \in Calendars
    BY DEF ReportInv, Given, ReportTypes
  <2> QED
    BY <2>1, <2>2, FiledEntries
<1> QED
  BY <1>1, SummaryIsAllOwned, EntriesIsInvariant, PTL DEF ReportCountsOnce

-----------------------------------------------------------------------------
(* Types: they are read off both invariants.                               *)

LEMMA SheetTypes ==
  ASSUME ExportInv
  PROVE  sheet \in Seq([at : Rows, cells : [DOMAIN cps -> BOOLEAN]])
<1> DEFINE Row == [at : Rows, cells : [DOMAIN cps -> BOOLEAN]]
<1>1. \A n \in DOMAIN sheet : sheet[n] \in Row
  <2> SUFFICES ASSUME NEW n \in DOMAIN sheet PROVE sheet[n] \in Row
    OBVIOUS
  <2>1. PICK t \in Rows : sheet[n] = RowOf[t]
    BY SheetTimes, HandledIsRows
  <2>2. Cells(LineAt(t)) \in [DOMAIN cps -> BOOLEAN]
    BY DEF Cells
  <2>3. RowOf[t] = [at |-> t, cells |-> Cells(LineAt(t))]
    BY DEF RowOf
  <2> QED
    BY <2>1, <2>2, <2>3
<1>2. PICK n \in Nat : DOMAIN sheet = 1 .. n
  <2>1. Handled \in SUBSET Nat /\ IsFiniteSet(Handled)
    BY HandledIsRows
  <2>2. DOMAIN sheet = 1 .. Cardinality(Handled)
    BY <2>1, SheetTimes, SortedIsSeq
  <2> QED
    BY <2>1, <2>2, FS_CardinalityType
<1>3. sheet = [k \in DOMAIN sheet |-> sheet[k]]
  BY Zenon DEF ExportInv, SheetsOf, SheetOf, Through
<1> HIDE DEF Row
<1>4. sheet \in Seq(Row)
  BY <1>1, <1>2, <1>3
<1> QED
  BY <1>4 DEF Row

LEMMA LogTypes ==
  ASSUME ExportInv
  PROVE  /\ log \in Seq([at : Rows, zero : BOOLEAN, width : Nat, qov : 0 .. 3])
         /\ \A n \in DOMAIN log : log[n].qov \in 0 .. 3
         /\ \E n \in Nat : DOMAIN log = 1 .. n
<1> DEFINE Line == [at : Rows, zero : BOOLEAN, width : Nat, qov : 0 .. 3]
<1>1. \A n \in DOMAIN log : log[n] \in Line
  <2> SUFFICES ASSUME NEW n \in DOMAIN log PROVE log[n] \in Line
    OBVIOUS
  <2>1. PICK t \in Rows : log[n] = LineAt(t)
    BY LogTimes, HandledIsRows
  <2>2. Given
    BY DEF ExportInv
  <2> QED
    BY <2>1, <2>2, LineFacts
<1>2. PICK D : D = {t \in Handled : Doubtful(LineAt(t))}
  OBVIOUS
<1>3. D \in SUBSET Nat /\ IsFiniteSet(D)
  <2>1. D \in SUBSET Handled
    BY <1>2
  <2> QED
    BY <2>1, HandledIsRows, FS_Subset
<1>4. log = Through(Sorted(D), LineOf)
  BY <1>2 DEF ExportInv, SheetsOf, LogOf
<1>5. DOMAIN log = DOMAIN Sorted(D) /\ log = [k \in DOMAIN log |-> log[k]]
  BY <1>4, Zenon DEF Through
<1>6. PICK n \in Nat : DOMAIN log = 1 .. n
  BY <1>3, <1>5, SortedIsSeq, FS_CardinalityType
<1>7. \A k \in DOMAIN log : log[k].qov \in 0 .. 3
  BY <1>1
<1> HIDE DEF Line
<1>8. log \in Seq(Line)
  BY <1>1, <1>5, <1>6
<1> QED
  BY <1>6, <1>7, <1>8 DEF Line

LEMMA SummaryTypes ==
  ASSUME ExportInv
  PROVE  /\ toRead \in Seq(Rows) /\ previous \in Rows \cup {-1}
         /\ total \in [DOMAIN cps -> Seq(Rows)]
         /\ complete \in [DOMAIN cps -> BOOLEAN]
         /\ marks \in [DOMAIN cps -> SUBSET {0, 2, 3}]
<1>1. lines \in SUBSET Rows /\ Given
  BY DEF ExportInv, Given
<1>2. toRead \in Seq(Rows)
  <2>1. toRead = <<>> \/ toRead = Sorted({t \in lines : t > previous})
    BY DEF ExportInv, ExportStages
  <2>2. {t \in lines : t > previous} \in SUBSET Rows
    BY <1>1
  <2>3. Sorted({t \in lines : t > previous}) \in Seq(Rows)
    BY <2>2, SortedRows DEF RowSeq
  <2> QED
    BY <2>1, <2>3, EmptyIsSeq, Zenon
<1>3. previous \in Rows \cup {-1}
  <2> SUFFICES ASSUME previous # -1 PROVE previous \in Rows
    OBVIOUS
  <2>1. lines # {} /\ previous \in Least(lines) .. Greatest(lines)
    BY DEF ExportInv, ExportStages
  <2>2. PICK n \in Nat : Rows = 0 .. n - 1
    BY LinesAssumption DEF Rows
  <2>3. Greatest(lines) \in Rows /\ Least(lines) \in Nat
    BY <1>1, <2>1, LoopFacts
  <2>4. Greatest(lines) \in 0 .. n - 1
    BY <2>2, <2>3
  <2>5. previous \in 0 .. n - 1
    BY <2>1, <2>3, <2>4
  <2> QED
    BY <2>2, <2>5
<1>4. PICK H \in SUBSET Rows : H = Handled
  BY HandledIsRows
<1>5. total \in [DOMAIN cps -> Seq(Rows)]
  <2>1. total = [i \in DOMAIN cps |-> Sorted({t \in H : t \in lines /\ HasValue(i, t)})]
    BY <1>4 DEF ExportInv, SheetsOf, TotalOf
  <2>2. \A i : Sorted({t \in H : t \in lines /\ HasValue(i, t)}) \in Seq(Rows)
    <3> SUFFICES ASSUME NEW i
                 PROVE  Sorted({t \in H : t \in lines /\ HasValue(i, t)}) \in Seq(Rows)
      OBVIOUS
    <3>1. {t \in H : t \in lines /\ HasValue(i, t)} \in SUBSET Rows
      OBVIOUS
    <3> QED
      BY <3>1, SortedRows DEF RowSeq
  <2> QED
    BY <2>1, <2>2, Zenon
<1>6. complete \in [DOMAIN cps -> BOOLEAN]
  BY DEF ExportInv, SheetsOf, CompleteOf
<1>7. marks \in [DOMAIN cps -> SUBSET {0, 2, 3}]
  BY DEF ExportInv, SheetsOf, MarksOf
<1> QED
  BY <1>2, <1>3, <1>5, <1>6, <1>7

(* Also the rows of the log: each labels values of participants.           *)
LEMMA LogSheetTypes ==
  ASSUME ExportInv PROVE logSheet \in Seq(SUBSET ((DOMAIN cps) \X (0 .. 3)))
<1> DEFINE Labels == SUBSET ((DOMAIN cps) \X (0 .. 3))
<1>1. logSheet = <<>> \/ logSheet = [n \in DOMAIN log |-> Labelled(log[n])]
  BY DEF ExportInv, ExportStages
<1>2. \A n \in DOMAIN log : Labelled(log[n]) \in Labels
  <2> SUFFICES ASSUME NEW n \in DOMAIN log PROVE Labelled(log[n]) \in Labels
    OBVIOUS
  <2>1. log[n].qov \in 0 .. 3
    BY LogTypes
  <2> QED
    BY <2>1 DEF Labelled
<1>3. PICK n \in Nat : DOMAIN log = 1 .. n
  BY LogTypes
<1> HIDE DEF Labels
<1>4. CASE logSheet = <<>>
  BY <1>4
<1>5. CASE logSheet = [k \in DOMAIN log |-> Labelled(log[k])]
  <2>1. logSheet \in [1 .. n -> Labels]
    BY <1>2, <1>3, <1>5, Zenon
  <2>2. logSheet \in Seq(Labels)
    BY <1>3, <2>1, FunctionIsSeq
  <2> QED
    BY <2>2 DEF Labels
<1> QED
  BY <1>1, <1>4, <1>5 DEF Labels

(* Every variable keeps its type: the sequences of the report and of the   *)
(* sheets are of rows of the period.                                       *)
THEOREM ReportsTypeCorrect == Spec => []TypeOK
<1>1. ReportInv /\ ExportInv => TypeOK
  <2> SUFFICES ASSUME ReportInv, ExportInv PROVE TypeOK
    OBVIOUS
  <2>1. /\ lines \subseteq Rows /\ joined \in Nat
        /\ asked \in Seq(Requests) /\ cps \in Seq(Requests)
    BY DEF ExportInv, Given
  <2>2. /\ stage \in {"begin", "lines", "done"} /\ calendar \in Calendars
        /\ unread \in Seq(Rows) /\ daySum \in Seq(Rows) /\ day \in Rows
        /\ report \in [DOMAIN asked -> [summary : Seq(Rows), slots : Seq(Seq(Rows))]]
    BY DEF ReportInv, ReportTypes, Entries, RowSeq
  <2>3. xstage \in {"begin", "lines", "done", "empty", "panic"}
    BY DEF ExportInv, ExportStages
  <2> QED
    BY <2>1, <2>2, <2>3, SummaryTypes, SheetTypes, LogTypes, LogSheetTypes, Zenon DEF TypeOK
<1> QED
  BY <1>1, ReportIsInvariant, ExportIsInvariant, PTL
=============================================================================
